-------------------------- MODULE DebugTableProofs --------------------------
(***************************************************************************)
(* For every size of the table and every set of names: the table stays     *)
(* sorted, the binary search never loses the name it looks for, and a      *)
(* debug call prints exactly when its file is in the table, with or        *)
(* without the cached flag.                                                *)
(***************************************************************************)
EXTENDS DebugTable, TLAPS

(***************************************************************************)
(* The inductive invariant.  Before the options are parsed no debug call   *)
(* has happened; afterwards the table no longer changes, so a result that  *)
(* was kept is still the one a search would give.                          *)
(***************************************************************************)
EntriesAreNames == \A i \in 0 .. nb - 1 : files[i] \in Names

SearchInBounds ==
  pc = "searching" => name \in Names /\ ~first[name] /\ 0 <= from /\ to <= nb - 1

NothingPrinted ==
  pc = "options" => \A n \in Names : first[n] /\ printed[n] = "none"

Pending(n) == pc = "searching" /\ name = n

ResultsAgree ==
  \A n \in Names : ~first[n] /\ ~Pending(n) => (result[n] <=> n \in Entries)

PrintedWasAsked == \A n \in Names : printed[n] # "none" => ~first[n]

IInv ==
  /\ TypeOK
  /\ Sorted
  /\ SearchKeepsName
  /\ SearchAgrees
  /\ EntriesAreNames
  /\ SearchInBounds
  /\ NothingPrinted
  /\ ResultsAgree
  /\ PrintedWasAsked

-----------------------------------------------------------------------------
\* The middle of a range of two names or more lies in it, before its end.
LEMMA MiddleInRange ==
  ASSUME NEW a \in Int, NEW b \in Int, a < b
  PROVE  /\ (a + b) \div 2 \in Int
         /\ a <= (a + b) \div 2
         /\ (a + b) \div 2 < b
  BY SMT

\* The first state is one of the invariant's.
LEMMA InitHolds == Init => IInv
<1> SUFFICES ASSUME Init PROVE IInv
  OBVIOUS
<1> USE MaxFilesAssumption, NamesAssumption DEF Init, NoName
<1>1. TypeOK
  BY DEF TypeOK
<1>2. Sorted /\ EntriesAreNames
  BY DEF Sorted, EntriesAreNames
<1>3. SearchKeepsName /\ SearchInBounds
  BY DEF SearchKeepsName, SearchInBounds
<1>4. NothingPrinted /\ PrintedWasAsked /\ SearchAgrees /\ ResultsAgree
  BY DEF NothingPrinted, PrintedWasAsked, SearchAgrees, ResultsAgree
<1> QED
  BY <1>1, <1>2, <1>3, <1>4 DEF IInv

\* What a table gets by the insertion of a name at its place.
LEMMA InsertionKeepsOrder ==
  ASSUME TypeOK, Sorted, EntriesAreNames, nb < MaxFiles,
         NEW n \in Names, NEW i \in 0 .. nb, IsPlace(i, n),
         files' = Inserted(i, n), nb' = nb + 1
  PROVE  /\ files' \in [0 .. MaxFiles - 1 -> Names \cup {NoName}]
         /\ Sorted'
         /\ EntriesAreNames'
<1> USE MaxFilesAssumption, NamesAssumption
<1> nb \in Nat /\ MaxFiles \in Nat /\ n \in Nat /\ i \in Nat
  BY DEF TypeOK
<1> files \in [0 .. MaxFiles - 1 -> Names \cup {NoName}]
  BY DEF TypeOK
<1>1. \A k \in 0 .. MaxFiles - 1 :
        files'[k] = IF k < i THEN files[k] ELSE IF k = i THEN n ELSE files[k - 1]
  BY DEF Inserted
<1>2. files' \in [0 .. MaxFiles - 1 -> Names \cup {NoName}]
  <2> SUFFICES ASSUME NEW k \in 0 .. MaxFiles - 1
               PROVE  files'[k] \in Names \cup {NoName}
    BY DEF Inserted
  <2>1. CASE k <= i
    BY <1>1, <2>1
  <2>2. CASE k > i
    <3>1. k - 1 \in 0 .. MaxFiles - 1
      BY <2>2
    <3> QED
      BY <1>1, <2>2, <3>1
  <2> QED
    BY <2>1, <2>2
<1>3. \A k \in 0 .. nb : files'[k] \in Names
  <2> SUFFICES ASSUME NEW k \in 0 .. nb PROVE files'[k] \in Names
    OBVIOUS
  <2>1. CASE k < i
    BY <1>1, <2>1 DEF EntriesAreNames
  <2>2. CASE k = i
    BY <1>1, <2>2
  <2>3. CASE k > i
    BY <1>1, <2>3 DEF EntriesAreNames
  <2> QED
    BY <2>1, <2>2, <2>3
<1>4. EntriesAreNames'
  BY <1>3 DEF EntriesAreNames
<1>8. \A k \in 0 .. nb - 1 : files[k] \in Nat
  BY DEF EntriesAreNames
<1>5. \A k \in 0 .. i - 1 : files[k] \in Nat /\ files[k] < n
  <2> SUFFICES ASSUME NEW k \in 0 .. i - 1 PROVE files[k] \in Nat /\ files[k] < n
    OBVIOUS
  <2>1. k \in 0 .. nb - 1
    OBVIOUS
  <2> QED
    BY <1>8, <2>1 DEF IsPlace
<1>6. \A k \in i .. nb - 1 : files[k] \in Nat /\ n <= files[k]
  <2> SUFFICES ASSUME NEW k \in i .. nb - 1 PROVE files[k] \in Nat /\ n <= files[k]
    OBVIOUS
  <2>1. k \in 0 .. nb - 1 /\ i \in 0 .. nb - 1 /\ i < nb
    OBVIOUS
  <2>2. n <= files[i]
    BY <1>8, <2>1 DEF IsPlace
  <2>3. i = k \/ files[i] <= files[k]
    BY <2>1 DEF Sorted
  <2> QED
    BY <1>8, <2>1, <2>2, <2>3
<1>7. Sorted'
  <2> SUFFICES ASSUME NEW a \in 0 .. nb, NEW b \in 0 .. nb, a < b
               PROVE  files'[a] <= files'[b]
    BY DEF Sorted
  <2>1. CASE b < i
    BY <1>1, <2>1 DEF Sorted
  <2>2. CASE b = i
    BY <1>1, <1>5, <2>2
  <2>3. CASE b > i
    <3>1. files'[b] = files[b - 1] /\ b - 1 \in i .. nb - 1
      BY <1>1, <2>3
    <3>5. files'[b] \in Nat /\ n <= files'[b]
      BY <1>6, <3>1
    <3>2. CASE a < i
      <4>1. files'[a] \in Nat /\ files'[a] < n
        BY <1>1, <1>5, <3>2
      <4> QED
        BY <3>5, <4>1
    <3>3. CASE a = i
      <4>1. files'[a] = n
        BY <1>1, <3>3
      <4> QED
        BY <3>5, <4>1
    <3>4. CASE a > i
      <4>1. files'[a] = files[a - 1] /\ a - 1 \in 0 .. nb - 1 /\ a - 1 < b - 1
        BY <1>1, <3>4
      <4> QED
        BY <3>1, <4>1 DEF Sorted
    <3> QED
      BY <3>2, <3>3, <3>4
  <2> QED
    BY <2>1, <2>2, <2>3
<1> QED
  BY <1>2, <1>4, <1>7

-----------------------------------------------------------------------------
\* Taking a name: nothing is searched or printed while the options are parsed.
LEMMA RequestStep ==
  ASSUME IInv, NEW n \in Names, Request(n),
         AddInserted(n) \/ AddDropped(n) \/ AddOverflows(n)
  PROVE  IInv'
<1> USE MaxFilesAssumption, NamesAssumption
<1>0. /\ TypeOK
      /\ pc = "options"
      /\ requested' = requested \cup {n}
      /\ name' = name /\ from' = from /\ to' = to
      /\ first' = first /\ result' = result /\ printed' = printed
      /\ pc' \in {"options", "undefined"}
  BY DEF IInv, Request, AddInserted, AddDropped, AddOverflows, search, flags
<1>1. /\ files' \in [0 .. MaxFiles - 1 -> Names \cup {NoName}]
      /\ nb' \in 0 .. MaxFiles
      /\ Sorted'
      /\ EntriesAreNames'
  <2>1. CASE AddInserted(n)
    <3>1. PICK i \in 0 .. nb : IsPlace(i, n) /\ files' = Inserted(i, n)
      BY <2>1 DEF AddInserted
    <3>2. nb < MaxFiles /\ nb' = nb + 1
      BY <2>1 DEF AddInserted
    <3>3. TypeOK /\ Sorted /\ EntriesAreNames
      BY DEF IInv
    <3>4. nb' \in 0 .. MaxFiles
      BY <3>2, <3>3 DEF TypeOK
    <3> QED
      BY <3>1, <3>2, <3>3, <3>4, InsertionKeepsOrder
  <2>2. CASE AddDropped(n) \/ AddOverflows(n)
    <3>1. files' = files /\ nb' = nb
      BY <2>2 DEF AddDropped, AddOverflows
    <3> QED
      BY <3>1 DEF IInv, TypeOK, Sorted, EntriesAreNames
  <2> QED
    BY <2>1, <2>2
<1>2. TypeOK'
  BY <1>0, <1>1 DEF TypeOK
<1>3. SearchKeepsName' /\ SearchInBounds'
  BY <1>0 DEF SearchKeepsName, SearchInBounds
<1>4. \A m \in Names : first'[m] /\ printed'[m] = "none"
  BY <1>0 DEF IInv, NothingPrinted
<1>5. SearchAgrees' /\ NothingPrinted' /\ ResultsAgree' /\ PrintedWasAsked'
  BY <1>4 DEF SearchAgrees, NothingPrinted, ResultsAgree, PrintedWasAsked
<1> QED
  BY <1>1, <1>2, <1>3, <1>5 DEF IInv

\* The table is the same after a step that keeps files and nb.
LEMMA TableKept ==
  ASSUME IInv, UNCHANGED table
  PROVE  Sorted' /\ EntriesAreNames' /\ Entries' = Entries
BY DEF IInv, table, Sorted, EntriesAreNames, Entries

LEMMA OptionsParsedStep ==
  ASSUME IInv, OptionsParsed
  PROVE  IInv'
<1>1. pc' = "run" /\ UNCHANGED <<table, search, flags>>
  BY DEF OptionsParsed
<1>2. Sorted' /\ EntriesAreNames' /\ Entries' = Entries
  BY <1>1, TableKept
<1>3. TypeOK'
  BY <1>1 DEF IInv, TypeOK, table, search, flags
<1>4. SearchKeepsName' /\ SearchInBounds' /\ NothingPrinted'
  BY <1>1 DEF SearchKeepsName, SearchInBounds, NothingPrinted
<1>5. PrintedWasAsked' /\ SearchAgrees'
  BY <1>1, <1>2 DEF IInv, PrintedWasAsked, SearchAgrees, flags
<1>6. ResultsAgree'
  BY <1>1 DEF IInv, ResultsAgree, NothingPrinted, OptionsParsed, flags
<1> QED
  BY <1>2, <1>3, <1>4, <1>5, <1>6 DEF IInv

LEMMA DebugSearchesStep ==
  ASSUME IInv, NEW n \in Names, DebugSearches(n)
  PROVE  IInv'
<1> USE MaxFilesAssumption
<1>1. /\ pc' = "searching" /\ name' = n /\ from' = 0 /\ to' = nb - 1
      /\ UNCHANGED table /\ result' = result /\ printed' = printed
      /\ first' = [first EXCEPT ![n] = FALSE]
  BY DEF DebugSearches
<1>2. Sorted' /\ EntriesAreNames' /\ Entries' = Entries
  BY <1>1, TableKept
<1>3. TypeOK'
  BY <1>1 DEF IInv, TypeOK, table
<1>4. SearchKeepsName' /\ SearchInBounds' /\ NothingPrinted'
  BY <1>1 DEF IInv, TypeOK, SearchKeepsName, SearchInBounds, NothingPrinted, table
<1>5. PrintedWasAsked' /\ SearchAgrees'
  BY <1>1, <1>2 DEF IInv, TypeOK, PrintedWasAsked, SearchAgrees
<1>6. ResultsAgree'
  <2> SUFFICES ASSUME NEW m \in Names, ~first'[m], ~Pending(m)'
               PROVE  result'[m] <=> m \in Entries'
    BY DEF ResultsAgree
  <2>1. m # n
    BY <1>1 DEF Pending
  <2>2. ~first[m]
    BY <1>1, <2>1 DEF IInv, TypeOK
  <2>3. ~Pending(m)
    BY DEF Pending, DebugSearches
  <2> QED
    BY <1>1, <1>2, <2>2, <2>3 DEF IInv, ResultsAgree
<1> QED
  BY <1>2, <1>3, <1>4, <1>5, <1>6 DEF IInv

LEMMA DebugCachedStep ==
  ASSUME IInv, NEW n \in Names, DebugCached(n)
  PROVE  IInv'
<1>1. /\ pc = "run" /\ pc' = pc /\ ~first[n]
      /\ UNCHANGED <<table, search, first, result>>
      /\ printed' = [printed EXCEPT ![n] = IF result[n] THEN "output" ELSE "nothing"]
  BY DEF DebugCached, Searches
<1>2. Sorted' /\ EntriesAreNames' /\ Entries' = Entries
  BY <1>1, TableKept
<1>3. TypeOK'
  BY <1>1 DEF IInv, TypeOK, table, search
<1>4. SearchKeepsName' /\ SearchInBounds' /\ NothingPrinted'
  BY <1>1 DEF SearchKeepsName, SearchInBounds, NothingPrinted
<1>5. PrintedWasAsked'
  BY <1>1 DEF IInv, TypeOK, PrintedWasAsked
<1>6. result[n] <=> n \in Entries
  BY <1>1 DEF IInv, ResultsAgree, Pending
<1>7. SearchAgrees'
  BY <1>1, <1>2, <1>6 DEF IInv, TypeOK, SearchAgrees
<1>8. ResultsAgree'
  BY <1>1, <1>2 DEF IInv, ResultsAgree, Pending, search
<1> QED
  BY <1>2, <1>3, <1>4, <1>5, <1>7, <1>8 DEF IInv

-----------------------------------------------------------------------------
\* A search that goes on with a smaller range that still holds the name.
LEMMA NarrowedStep ==
  ASSUME IInv, pc = "searching", UNCHANGED <<pc, table, name, flags>>,
         TypeOK', SearchKeepsName', SearchInBounds'
  PROVE  IInv'
<1>1. Sorted' /\ EntriesAreNames' /\ Entries' = Entries
  BY TableKept
<1>2. NothingPrinted' /\ PrintedWasAsked' /\ SearchAgrees'
  BY <1>1 DEF IInv, NothingPrinted, PrintedWasAsked, SearchAgrees, flags
<1>3. ResultsAgree'
  BY <1>1 DEF IInv, ResultsAgree, Pending, flags
<1> QED
  BY <1>1, <1>2, <1>3 DEF IInv

\* What a search in progress knows of the range and of the table.
LEMMA SearchFacts ==
  ASSUME IInv, pc = "searching"
  PROVE  /\ nb \in Nat /\ from \in Nat /\ to \in Int /\ to <= nb - 1 /\ nb <= MaxFiles
         /\ name \in Nat
         /\ \A i \in 0 .. nb - 1 : files[i] \in Nat
         /\ \A i, j \in 0 .. nb - 1 : i < j => files[i] <= files[j]
         /\ \A i \in 0 .. nb - 1 : files[i] = name => from <= i /\ i <= to
<1> USE NamesAssumption, MaxFilesAssumption DEF IInv
<1>1. nb \in Nat /\ from \in Nat /\ to \in Int /\ to <= nb - 1 /\ nb <= MaxFiles
  BY DEF TypeOK, SearchInBounds
<1>2. name \in Nat
  BY DEF SearchInBounds
<1>3. \A i \in 0 .. nb - 1 : files[i] \in Nat
  BY DEF EntriesAreNames
<1>4. \A i, j \in 0 .. nb - 1 : i < j => files[i] <= files[j]
  BY DEF Sorted
<1>5. \A i \in 0 .. nb - 1 : files[i] = name => from <= i /\ i <= to
  BY DEF SearchKeepsName
<1> QED
  BY <1>1, <1>2, <1>3, <1>4, <1>5

LEMMA SearchRightStep ==
  ASSUME IInv, SearchRight
  PROVE  IInv'
<1> USE MaxFilesAssumption
<1>1. /\ pc = "searching" /\ from < to /\ files[middle] < name
      /\ from' = middle + 1 /\ to' = to
      /\ UNCHANGED <<pc, table, name, flags>>
  BY DEF SearchRight
<1>2. middle \in Int /\ from <= middle /\ middle < to
  BY <1>1, SearchFacts, MiddleInRange DEF middle
<1>3. middle \in 0 .. nb - 1
  BY <1>1, <1>2, SearchFacts
<1>4. SearchInBounds'
  BY <1>1, <1>2, SearchFacts DEF IInv, SearchInBounds, table, flags
<1>5. \A i \in 0 .. nb - 1 : files[i] = name => middle + 1 <= i /\ i <= to
  <2> SUFFICES ASSUME NEW i \in 0 .. nb - 1, files[i] = name
               PROVE  middle + 1 <= i /\ i <= to
    OBVIOUS
  <2>1. i <= to
    BY <1>1, SearchFacts
  <2>2. ~(i < middle)
    BY <1>1, <1>3, SearchFacts
  <2>3. i # middle
    BY <1>1, <1>3, SearchFacts
  <2> QED
    BY <1>3, <2>1, <2>2, <2>3, SearchFacts
<1>6. SearchKeepsName'
  BY <1>1, <1>5 DEF SearchKeepsName, table
<1>7. from' \in 0 .. MaxFiles
  BY <1>1, <1>2, SearchFacts
<1>8. TypeOK'
  BY <1>1, <1>7 DEF IInv, TypeOK, table, flags
<1> QED
  BY <1>1, <1>4, <1>6, <1>8, NarrowedStep

LEMMA SearchLeftStep ==
  ASSUME IInv, SearchLeft
  PROVE  IInv'
<1> USE MaxFilesAssumption
<1>1. /\ pc = "searching" /\ from < to /\ files[middle] > name
      /\ to' = middle - 1 /\ from' = from
      /\ UNCHANGED <<pc, table, name, flags>>
  BY DEF SearchLeft
<1>2. middle \in Int /\ from <= middle /\ middle < to
  BY <1>1, SearchFacts, MiddleInRange DEF middle
<1>3. middle \in 0 .. nb - 1
  BY <1>1, <1>2, SearchFacts
<1>4. SearchInBounds'
  BY <1>1, <1>2, SearchFacts DEF IInv, SearchInBounds, table, flags
<1>5. \A i \in 0 .. nb - 1 : files[i] = name => from <= i /\ i <= middle - 1
  <2> SUFFICES ASSUME NEW i \in 0 .. nb - 1, files[i] = name
               PROVE  from <= i /\ i <= middle - 1
    OBVIOUS
  <2>1. from <= i
    BY <1>1, SearchFacts
  <2>2. ~(middle < i)
    BY <1>1, <1>3, SearchFacts
  <2>3. i # middle
    BY <1>1, <1>3, SearchFacts
  <2> QED
    BY <1>3, <2>1, <2>2, <2>3, SearchFacts
<1>6. SearchKeepsName'
  BY <1>1, <1>5 DEF SearchKeepsName, table
<1>7. to' \in -1 .. MaxFiles
  BY <1>1, <1>2, SearchFacts
<1>8. TypeOK'
  BY <1>1, <1>7 DEF IInv, TypeOK, table, flags
<1> QED
  BY <1>1, <1>4, <1>6, <1>8, NarrowedStep

\* A search that returns the truth about the table.
LEMMA ReturnStep ==
  ASSUME IInv, pc = "searching", NEW found \in BOOLEAN,
         found <=> name \in Entries, SearchReturns(found)
  PROVE  IInv'
<1>1. /\ pc' = "run" /\ UNCHANGED <<table, search, first>>
      /\ result' = [result EXCEPT ![name] = found]
      /\ printed' = [printed EXCEPT ![name] = IF found THEN "output" ELSE "nothing"]
  BY DEF SearchReturns
<1>2. Sorted' /\ EntriesAreNames' /\ Entries' = Entries
  BY <1>1, TableKept
<1>3. name \in Names
  BY DEF IInv, SearchInBounds
<1>4. TypeOK'
  BY <1>1, <1>3 DEF IInv, TypeOK, table, search
<1>5. SearchKeepsName' /\ SearchInBounds' /\ NothingPrinted'
  BY <1>1 DEF SearchKeepsName, SearchInBounds, NothingPrinted
<1>6. SearchAgrees'
  BY <1>1, <1>2, <1>3 DEF IInv, TypeOK, SearchAgrees
<1>7. ResultsAgree'
  BY <1>1, <1>2, <1>3 DEF IInv, TypeOK, ResultsAgree, Pending
<1>8. PrintedWasAsked'
  BY <1>1, <1>3 DEF IInv, TypeOK, SearchInBounds, PrintedWasAsked
<1> QED
  BY <1>2, <1>4, <1>5, <1>6, <1>7, <1>8 DEF IInv

LEMMA SearchHitsStep ==
  ASSUME IInv, SearchHits
  PROVE  IInv'
<1>1. pc = "searching" /\ from < to /\ files[middle] = name /\ SearchReturns(TRUE)
  BY DEF SearchHits
<1>2. middle \in Int /\ from <= middle /\ middle < to
  BY <1>1, SearchFacts, MiddleInRange DEF middle
<1>3. middle \in 0 .. nb - 1
  BY <1>1, <1>2, SearchFacts
<1>4. name \in Entries
  BY <1>1, <1>3 DEF Entries
<1> QED
  BY <1>1, <1>4, ReturnStep

LEMMA SearchEndsStep ==
  ASSUME IInv, SearchEnds
  PROVE  IInv'
<1> DEFINE found == from = to /\ files[from] = name
<1>1. pc = "searching" /\ from >= to /\ SearchReturns(found)
  BY DEF SearchEnds
<1>2. found => name \in Entries
  BY <1>1, SearchFacts DEF Entries
<1>3. name \in Entries => found
  <2> SUFFICES ASSUME NEW i \in 0 .. nb - 1, files[i] = name PROVE found
    BY DEF Entries
  <2>1. from <= i /\ i <= to
    BY <1>1, SearchFacts
  <2>2. from = i /\ from = to
    BY <1>1, <2>1, SearchFacts
  <2> QED
    BY <2>2
<1> QED
  BY <1>1, <1>2, <1>3, ReturnStep

-----------------------------------------------------------------------------
LEMMA StepHolds == IInv /\ [Next]_vars => IInv'
<1> SUFFICES ASSUME IInv, [Next]_vars PROVE IInv'
  OBVIOUS
<1>1. ASSUME NEW n \in Names, AddInserted(n) PROVE IInv'
  BY <1>1, RequestStep DEF AddInserted
<1>2. ASSUME NEW n \in Names, AddDropped(n) PROVE IInv'
  BY <1>2, RequestStep DEF AddDropped
<1>3. ASSUME NEW n \in Names, AddOverflows(n) PROVE IInv'
  BY <1>3, RequestStep DEF AddOverflows
<1>4. ASSUME NEW n \in Names, DebugSearches(n) PROVE IInv'
  BY <1>4, DebugSearchesStep
<1>5. ASSUME NEW n \in Names, DebugCached(n) PROVE IInv'
  BY <1>5, DebugCachedStep
<1>6. CASE OptionsParsed
  BY <1>6, OptionsParsedStep
<1>7. CASE SearchStep
  BY <1>7, SearchRightStep, SearchLeftStep, SearchHitsStep, SearchEndsStep DEF SearchStep
<1>8. CASE UNCHANGED vars
  BY <1>8 DEF vars, IInv, TypeOK, Sorted, SearchKeepsName, SearchAgrees, EntriesAreNames,
     SearchInBounds, NothingPrinted, ResultsAgree, PrintedWasAsked, Pending, Entries
<1> QED
  BY <1>1, <1>2, <1>3, <1>4, <1>5, <1>6, <1>7, <1>8 DEF Next

\* The inductive invariant holds in every reachable state.
THEOREM TableInvariance == Spec => []IInv
BY InitHolds, StepHolds, PTL DEF Spec

\* Every variable keeps its type; the bounds of the search stay within those
\* of the table, one place before it for an empty one.
THEOREM TableTypes == Spec => []TypeOK
<1>1. IInv => TypeOK
  BY DEF IInv
<1> QED
  BY <1>1, TableInvariance, PTL

\* debugged_files is sorted whatever names are added, in whatever order.
THEOREM TableSorted == Spec => []Sorted
<1>1. IInv => Sorted
  BY DEF IInv
<1> QED
  BY <1>1, TableInvariance, PTL

\* The bounds of __is_debugged never leave out the name it looks for.
THEOREM SearchSound == Spec => []SearchKeepsName
<1>1. IInv => SearchKeepsName
  BY DEF IInv
<1> QED
  BY <1>1, TableInvariance, PTL

\* debug prints exactly when its file is in the table, cached flag or not.
THEOREM OutputAgrees == Spec => []SearchAgrees
<1>1. IInv => SearchAgrees
  BY DEF IInv
<1> QED
  BY <1>1, TableInvariance, PTL

-----------------------------------------------------------------------------
(***************************************************************************)
(* No name given is missing from a table that is not full.                 *)
(***************************************************************************)
RequestsKept == nb < MaxFiles => requested \subseteq Entries

\* The insertion keeps every entry and adds the name.
LEMMA InsertionKeepsEntries ==
  ASSUME TypeOK, nb < MaxFiles, NEW n \in Names, NEW i \in 0 .. nb,
         files' = Inserted(i, n), nb' = nb + 1
  PROVE  Entries \cup {n} \subseteq Entries'
<1> USE MaxFilesAssumption
<1>1. nb \in Nat /\ MaxFiles \in Nat /\ i \in Nat
  BY DEF TypeOK
<1>2. n \in Entries'
  <2>1. i \in 0 .. nb' - 1 /\ files'[i] = n
    BY <1>1 DEF Inserted
  <2> QED
    BY <2>1 DEF Entries
<1>3. ASSUME NEW k \in 0 .. nb - 1 PROVE files[k] \in Entries'
  <2>1. CASE k < i
    <3>1. k \in 0 .. nb' - 1 /\ files'[k] = files[k]
      BY <1>1, <2>1 DEF Inserted
    <3> QED
      BY <3>1 DEF Entries
  <2>2. CASE k >= i
    <3>1. k + 1 \in 0 .. nb' - 1 /\ files'[k + 1] = files[k]
      BY <1>1, <2>2 DEF Inserted
    <3> QED
      BY <3>1 DEF Entries
  <2> QED
    BY <1>1, <2>1, <2>2
<1> QED
  BY <1>2, <1>3 DEF Entries

LEMMA RequestsStep == TypeOK /\ RequestsKept /\ [Next]_vars => RequestsKept'
<1> SUFFICES ASSUME TypeOK, RequestsKept, [Next]_vars PROVE RequestsKept'
  OBVIOUS
<1> USE MaxFilesAssumption
<1>1. ASSUME NEW n \in Names, AddInserted(n) PROVE RequestsKept'
  <2>1. requested' = requested \cup {n} /\ nb < MaxFiles
    BY <1>1 DEF AddInserted, Request
  <2>2. Entries \cup {n} \subseteq Entries'
    BY <1>1, InsertionKeepsEntries DEF AddInserted
  <2> QED
    BY <2>1, <2>2 DEF RequestsKept
<1>2. ASSUME NEW n \in Names, AddDropped(n) \/ AddOverflows(n) PROVE RequestsKept'
  <2>1. nb' = MaxFiles
    BY <1>2 DEF AddDropped, AddOverflows
  <2> QED
    BY <2>1 DEF RequestsKept
<1>3. CASE UNCHANGED table
  BY <1>3 DEF table, RequestsKept, Entries
<1>4. UNCHANGED table \/ \E n \in Names : AddInserted(n) \/ AddDropped(n) \/ AddOverflows(n)
  BY DEF Next, vars, table, OptionsParsed, DebugSearches, DebugCached, SearchStep,
     SearchRight, SearchLeft, SearchHits, SearchEnds, SearchReturns
<1> QED
  BY <1>1, <1>2, <1>3, <1>4

\* --debug enables the output of the file it names, unless the table is full.
THEOREM FlagEnables == Spec => []DebugFlagEnables
<1>1. Init => RequestsKept
  BY DEF Init, RequestsKept
<1>2. IInv => TypeOK
  BY DEF IInv
<1>3. Spec => []RequestsKept
  BY <1>1, <1>2, TableInvariance, RequestsStep, PTL DEF Spec
<1>4. IInv /\ RequestsKept => DebugFlagEnables
  <2> SUFFICES ASSUME IInv, RequestsKept,
                      NEW n \in requested, printed[n] = "nothing", nb # MaxFiles
               PROVE  FALSE
    BY DEF DebugFlagEnables
  <2>1. n \in Names /\ nb < MaxFiles
    BY MaxFilesAssumption DEF IInv, TypeOK
  <2>2. n \in Entries
    BY <2>1 DEF RequestsKept
  <2> QED
    BY <2>1, <2>2 DEF IInv, SearchAgrees
<1> QED
  BY <1>3, <1>4, TableInvariance, PTL
=============================================================================
