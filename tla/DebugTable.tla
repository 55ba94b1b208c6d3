----------------------------- MODULE DebugTable -----------------------------
(***************************************************************************)
(* The table of debugged source files of debug.c: filled while the options *)
(* are parsed (one add_debug_to for every --debug), then searched by every *)
(* call of the debug macros.  Names are numbers, strcmp is their order.    *)
(***************************************************************************)
EXTENDS Integers, FiniteSets

CONSTANTS
  MaxFiles,  \* MAX_FILES_NUMBER
  Names,     \* the names of source files
  Cached     \* whether CACHE_DEBUG_FLAG is defined

ASSUME MaxFilesAssumption == MaxFiles \in Nat
ASSUME NamesAssumption == Names \subseteq Nat \ {0}
ASSUME CachedAssumption == Cached \in BOOLEAN

NoName == 0  \* NULL

VARIABLES
  pc,              \* "options" are parsed, then "run", "searching" in __is_debugged
  files,           \* debugged_files
  nb,              \* nb_debugged_files
  requested,       \* the names given to add_debug_to
  name, from, to,  \* the variables of the search in progress
  first,           \* is_debugged_first of each source file
  result,          \* is_debugged_result of each source file
  printed          \* what the last debug call of each file did, "none" before

vars == <<pc, files, nb, requested, name, from, to, first, result, printed>>

table == <<files, nb, requested>>
search == <<name, from, to>>
flags == <<first, result, printed>>

Init ==
  /\ pc = "options"
  /\ files = [i \in 0 .. MaxFiles - 1 |-> NoName]
  /\ nb = 0
  /\ requested = {}
  /\ name = NoName
  /\ from = 0
  /\ to = 0
  /\ first = [n \in Names |-> TRUE]
  /\ result = [n \in Names |-> FALSE]
  /\ printed = [n \in Names |-> "none"]

(***************************************************************************)
(* add_debug_to: the name goes where the first name not smaller is.        *)
(***************************************************************************)
IsPlace(i, n) ==
  /\ \A k \in 0 .. i - 1 : files[k] < n
  /\ i < nb => files[i] >= n

(* Mutant of Inserted: the name goes to the end of the table.              *)
InsertedLast(i, n) == [files EXCEPT ![nb] = n]

Inserted(i, n) ==
  [k \in 0 .. MaxFiles - 1 |->
     IF k < i THEN files[k] ELSE IF k = i THEN n ELSE files[k - 1]]

(* Mutant of Request: a file is also added once the program runs.          *)
RequestAnytime(n) ==
  /\ pc \in {"options", "run"}
  /\ requested' = requested \cup {n}
  /\ UNCHANGED <<search, flags>>

Request(n) ==
  /\ pc = "options"
  /\ requested' = requested \cup {n}
  /\ UNCHANGED <<search, flags>>

AddInserted(n) ==
  /\ Request(n)
  /\ nb < MaxFiles
  /\ \E i \in 0 .. nb : IsPlace(i, n) /\ files' = Inserted(i, n)
  /\ nb' = nb + 1
  /\ UNCHANGED pc

\* A table that is full drops a name larger than all of its own.
AddDropped(n) ==
  /\ Request(n)
  /\ nb = MaxFiles
  /\ IsPlace(MaxFiles, n)
  /\ UNCHANGED <<pc, files, nb>>

\* A table that is full and receives a smaller name has its last name stored
\* beyond its end, and nb counts a name more than it holds.
AddOverflows(n) ==
  /\ Request(n)
  /\ nb = MaxFiles
  /\ \E i \in 0 .. MaxFiles - 1 : IsPlace(i, n)
  /\ pc' = "undefined"
  /\ UNCHANGED <<files, nb>>

OptionsParsed ==
  /\ pc = "options"
  /\ pc' = "run"
  /\ UNCHANGED <<table, search, flags>>

(***************************************************************************)
(* The debug macros and __is_debugged                                      *)
(***************************************************************************)
Searches(n) == ~Cached \/ first[n]

(* Mutant of DebugSearches: the search starts without the last entry.      *)
DebugSearchesShort(n) ==
  /\ pc = "run"
  /\ Searches(n)
  /\ pc' = "searching"
  /\ name' = n
  /\ from' = 0
  /\ to' = nb - 2
  /\ first' = [first EXCEPT ![n] = FALSE]
  /\ UNCHANGED <<table, result, printed>>

\* A call in source file n evaluates __is_debugged(__FILE__) ...
DebugSearches(n) ==
  /\ pc = "run"
  /\ Searches(n)
  /\ pc' = "searching"
  /\ name' = n
  /\ from' = 0
  /\ to' = nb - 1
  /\ first' = [first EXCEPT ![n] = FALSE]
  /\ UNCHANGED <<table, result, printed>>

\* ... or reuses the result of the first call.
DebugCached(n) ==
  /\ pc = "run"
  /\ ~Searches(n)
  /\ printed' = [printed EXCEPT ![n] = IF result[n] THEN "output" ELSE "nothing"]
  /\ UNCHANGED <<pc, table, search, first, result>>

middle == (from + to) \div 2

SearchReturns(found) ==
  /\ result' = [result EXCEPT ![name] = found]
  /\ printed' = [printed EXCEPT ![name] = IF found THEN "output" ELSE "nothing"]
  /\ pc' = "run"
  /\ UNCHANGED <<table, search, first>>

(* Mutant of SearchRight: the middle stays in the range.                   *)
SearchRightStays ==
  /\ pc = "searching"
  /\ from < to
  /\ files[middle] < name
  /\ from' = middle
  /\ UNCHANGED <<pc, table, name, to, flags>>

SearchRight ==
  /\ pc = "searching"
  /\ from < to
  /\ files[middle] < name
  /\ from' = middle + 1
  /\ UNCHANGED <<pc, table, name, to, flags>>

(* Mutant of SearchLeft: leaves out an entry more than the middle.         *)
SearchLeftTooFar ==
  /\ pc = "searching"
  /\ from < to
  /\ files[middle] > name
  /\ to' = middle - 2
  /\ UNCHANGED <<pc, table, name, from, flags>>

SearchLeft ==
  /\ pc = "searching"
  /\ from < to
  /\ files[middle] > name
  /\ to' = middle - 1
  /\ UNCHANGED <<pc, table, name, from, flags>>

SearchHits ==
  /\ pc = "searching"
  /\ from < to
  /\ files[middle] = name
  /\ SearchReturns(TRUE)

(* Mutant of SearchEnds: the one entry left is not compared.               *)
SearchEndsMisses ==
  /\ pc = "searching"
  /\ from >= to
  /\ SearchReturns(FALSE)

SearchEnds ==
  /\ pc = "searching"
  /\ from >= to
  /\ SearchReturns(from = to /\ files[from] = name)

SearchStep == SearchRight \/ SearchLeft \/ SearchHits \/ SearchEnds

Next ==
  \/ \E n \in Names :
       \/ AddInserted(n) \/ AddDropped(n) \/ AddOverflows(n)
       \/ DebugSearches(n) \/ DebugCached(n)
  \/ OptionsParsed
  \/ SearchStep

\* The loop of the search runs to its end; nothing makes a program call debug.
Spec == Init /\ [][Next]_vars /\ WF_vars(SearchStep)

(***************************************************************************)
(* Properties                                                              *)
(***************************************************************************)
Entries == {files[i] : i \in 0 .. nb - 1}

TypeOK ==
  /\ pc \in {"options", "run", "searching", "undefined"}
  /\ files \in [0 .. MaxFiles - 1 -> Names \cup {NoName}]
  /\ nb \in 0 .. MaxFiles
  /\ requested \subseteq Names
  /\ name \in Names \cup {NoName}
  /\ from \in 0 .. MaxFiles
  /\ to \in -1 .. MaxFiles
  /\ first \in [Names -> BOOLEAN]
  /\ result \in [Names -> BOOLEAN]
  /\ printed \in [Names -> {"none", "output", "nothing"}]

\* The table is sorted, what the binary search of __is_debugged relies on;
\* the same name may be there twice.
Sorted ==
  \A i, j \in 0 .. nb - 1 : i < j => files[i] <= files[j]

\* The bounds of the search never leave out an entry equal to the name: what
\* it looks for is between from and to or nowhere in the table.
SearchKeepsName ==
  pc = "searching" => \A i \in 0 .. nb - 1 : files[i] = name => from <= i /\ i <= to

\* A debug call prints exactly when its file is in the table.
SearchAgrees ==
  \A n \in Names : printed[n] # "none" => (printed[n] = "output" <=> n \in Entries)

\* The search ends, whatever the table and the name.
SearchTerminates == [](pc = "searching" => <>(pc = "run"))

\* ARM_runner_example.c:32: the --debug flag enables the output produced by
\* calls to the debug function in the named source file.  Only a full table
\* leaves a file that was named without its output.
DebugFlagEnables ==
  \A n \in requested : printed[n] = "nothing" => nb = MaxFiles
=============================================================================
