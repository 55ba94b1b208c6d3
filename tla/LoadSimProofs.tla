--------------------------- MODULE LoadSimProofs ---------------------------
(***************************************************************************)
(* What runs lacks only what the simulator refused, one socket is ever     *)
(* open, and exit status 0 means success but for the three cases named:    *)
(* for every executable, every number of addresses, whatever the simulator *)
(* answers and wherever it exits.                                          *)
(***************************************************************************)
EXTENDS LoadSim, TLAPS

Before == {"read", "resolve", "connect"}
Loading == {"section", "write", "stuck"}
Connected == Loading \cup {"run", "clean"}

\* The sections before the one at hand that should be in the memory and are not.
Missing == {i \in Unwritten : i < section}

SocketCount ==
  /\ sockets \in 0 .. 1
  /\ pc \in Before => sockets = 0
  /\ pc \in Connected \cup {"connecting"} => sockets = 1
  /\ pc = "connecting" => addresses > 0

\* How far the executable is loaded; nothing is promised of a simulator that
\* exited, but a program that ran lacked only what had been refused.
Progress ==
  /\ \A i \in memory : i < section
  /\ pc \in Before \cup {"connecting"} => section = 1 /\ refused = {}
  /\ pc \in Before \cup {"connecting"} \cup Loading => ~entry
  /\ pc \in Loading /\ alive => refused = {"write"} \X Missing
  /\ pc \in {"write", "stuck"} => section \in Allocated(file)
  /\ pc = "run" /\ alive => Undone = refused \cup {<<"run", 0>>} /\ <<"run", 0>> \notin refused
  /\ pc = "clean" /\ alive => Undone = refused
  /\ pc = "success" /\ sockets > 0 /\ alive => Undone = refused
  /\ ran => pc \in {"clean"} \cup Ends /\ Undone = refused

IInv == TypeOK /\ SocketCount /\ Progress

\* The sections of an executable are numbered from 1.
LEMMA FileSections ==
  ASSUME NEW f \in Files
  PROVE  /\ Len(f.sections) \in Nat /\ DOMAIN f.sections = 1 .. Len(f.sections)
         /\ Allocated(f) \subseteq 1 .. Len(f.sections)
<1>1. f.sections \in Seq(Section)
  BY FilesAssumption
<1> QED
  BY <1>1 DEF Allocated

\* What is missing depends on nothing else.
LEMMA SameUndone ==
  ASSUME UNCHANGED <<file, memory, entry, ran>>
  PROVE  Undone' = Undone /\ Unwritten' = Unwritten
BY DEF Undone, Unwritten, Allocated

LEMMA InitHolds == Init => IInv
<1> SUFFICES ASSUME Init PROVE IInv
  OBVIOUS
<1>1. section \in 1 .. Len(file.sections) + 1
  BY FileSections DEF Init
<1>2. alive \in BOOLEAN /\ entry \in BOOLEAN /\ ran \in BOOLEAN
  BY DEF Init
<1>3. /\ pc = "read" /\ file \in Files /\ addresses = 0 /\ sockets = 0
      /\ sent = "nothing" /\ refused = {} /\ memory = {} /\ section = 1 /\ ~entry /\ ~ran
  BY DEF Init
<1>4. TypeOK
  BY <1>1, <1>2, <1>3, MaxAddressesAssumption DEF TypeOK
<1> QED
  BY <1>3, <1>4 DEF IInv, SocketCount, Progress, Before, Connected, Loading

-----------------------------------------------------------------------------
(***************************************************************************)
(* The steps up to the connection: nothing of the simulator changes        *)
(***************************************************************************)
HostStep ==
  \/ ReadTables \/ ReadTablesFails
  \/ Resolve \/ ResolveFails \/ NoSocket \/ OpenSocket
  \/ Connect \/ ConnectFails \/ NoAddressLeft

LEMMA HostHolds ==
  ASSUME IInv, HostStep
  PROVE  IInv'
<1>1. UNCHANGED <<file, section, sent, refused, alive, memory, entry, ran>>
  BY DEF HostStep, ReadTables, ReadTablesFails, Resolve, ResolveFails, NoSocket, OpenSocket,
         Connect, ConnectFails, NoAddressLeft, CloseAndNext, Step, link
<1>2. TypeOK /\ SocketCount /\ Progress
  BY DEF IInv
<1>3. \/ pc = "read" /\ pc' \in {"resolve", "failure", "killed"} /\ UNCHANGED host
      \/ pc = "resolve" /\ pc' = "connect" /\ addresses' \in 1 .. MaxAddresses /\ UNCHANGED sockets
      \/ pc = "resolve" /\ pc' = "success" /\ UNCHANGED host
      \/ pc = "connect" /\ pc' = "connect" /\ addresses > 0 /\ addresses' = addresses - 1
         /\ UNCHANGED sockets
      \/ pc = "connect" /\ pc' = "connecting" /\ addresses > 0 /\ sockets' = sockets + 1
         /\ UNCHANGED addresses
      \/ pc = "connecting" /\ pc' = "section" /\ UNCHANGED host
      \/ pc = "connecting" /\ pc' = "connect" /\ sockets' = sockets - 1
         /\ addresses' = addresses - 1
      \/ pc = "connect" /\ pc' = "failure" /\ UNCHANGED host
  BY <1>2
  DEF HostStep, ReadTables, ReadTablesFails, Resolve, ResolveFails, NoSocket, OpenSocket,
      Connect, ConnectFails, NoAddressLeft, CloseAndNext, Step, Goes
<1>4. TypeOK'
  <2>1. pc' \in Ends \cup {"resolve", "connect", "connecting", "section"}
    BY <1>3 DEF Ends
  <2>2. addresses' \in 0 .. MaxAddresses /\ sockets' \in Nat
    BY <1>2, <1>3, MaxAddressesAssumption DEF TypeOK, SocketCount, host
  <2> QED
    BY <1>1, <1>2, <2>1, <2>2 DEF TypeOK
<1>5. SocketCount'
  BY <1>1, <1>2, <1>3 DEF SocketCount, Before, Connected, Loading, host
<1>6. Progress'
  <2>1. ~ran' /\ ~entry' /\ section' = 1 /\ refused' = {}
    BY <1>1, <1>2, <1>3 DEF Progress, Before, Ends
  <2>2. Missing' = {}
    BY <1>2, <2>1, <1>1, FileSections DEF Missing, Unwritten, TypeOK
  <2>3. pc' = "success" => sockets' = 0
    BY <1>2, <1>3 DEF SocketCount, Before, host
  <2>4. \A i \in memory' : i < section'
    BY <1>1, <1>2 DEF Progress
  <2>5. pc' \notin {"write", "stuck", "run", "clean"}
    BY <1>3
  <2>6. refused' = {"write"} \X Missing'
    BY <2>1, <2>2
  <2> QED
    BY <2>1, <2>3, <2>4, <2>5, <2>6 DEF Progress
<1> QED
  BY <1>4, <1>5, <1>6 DEF IInv

-----------------------------------------------------------------------------
(***************************************************************************)
(* The loop over the sections, the entry point and the run                 *)
(***************************************************************************)
LEMMA SkipSectionHolds ==
  ASSUME IInv, SkipSection
  PROVE  IInv'
<1>1. /\ pc = "section" /\ pc' = "section" /\ section' = section + 1
      /\ section \in DOMAIN file.sections /\ section \notin Allocated(file)
      /\ UNCHANGED <<file, addresses, sockets, sent, refused, alive, memory, entry, ran>>
  BY DEF SkipSection, Goes, Skipped, Current, NextSection, Allocated, host, link
<1>2. TypeOK /\ SocketCount /\ Progress /\ section \in 1 .. Len(file.sections)
  BY <1>1, FileSections DEF IInv, TypeOK
<1>3. TypeOK'
  BY <1>1, <1>2, FileSections DEF TypeOK
<1>4. SocketCount'
  BY <1>1, <1>2 DEF SocketCount
<1>5. ~ran /\ ~entry /\ (alive => refused = {"write"} \X Missing)
  BY <1>1, <1>2 DEF Progress, Ends, Loading
<1>6. Missing' = Missing
  BY <1>1, <1>2, FileSections DEF Missing, Unwritten, TypeOK
<1>7. \A i \in memory' : i < section'
  BY <1>1, <1>2, FileSections DEF Progress, TypeOK
<1> QED
  BY <1>1, <1>3, <1>4, <1>5, <1>6, <1>7 DEF IInv, Progress, Before, Loading

LEMMA WriteSectionHolds ==
  ASSUME IInv, WriteSection
  PROVE  IInv'
<1>1. /\ pc = "write" /\ pc' = "section" /\ section' = section + 1
      /\ UNCHANGED <<file, addresses, sockets, alive, entry, ran>>
      /\ sent' \in {sent, "answered", "lost"}
  BY DEF WriteSection, Goes, Command, Current, NextSection, host, link
<1>2. \/ UNCHANGED <<memory, refused>> /\ (alive => file.sections[section].size = "empty")
      \/ memory' = memory \cup {section} /\ UNCHANGED refused
      \/ /\ file.sections[section].size = "fits"
         /\ refused' = refused \cup {<<"write", section>>} /\ UNCHANGED memory
  BY DEF WriteSection, Command, Current, link
<1>3. TypeOK /\ SocketCount /\ Progress /\ section \in Allocated(file)
  BY <1>1 DEF IInv, Progress
<1>4. section \in 1 .. Len(file.sections)
  BY <1>3, FileSections DEF TypeOK
<1>5. Allocated(file)' = Allocated(file)
  BY <1>1 DEF Allocated
<1>6. TypeOK'
  <2>1. memory' \subseteq Allocated(file)
    BY <1>2, <1>3 DEF TypeOK
  <2>2. refused' \subseteq ({"write"} \X Allocated(file)) \cup {<<"entry", 0>>, <<"run", 0>>}
    BY <1>2, <1>3 DEF TypeOK
  <2>3. section' \in 1 .. Len(file'.sections) + 1
    BY <1>1, <1>3, <1>4, FileSections DEF TypeOK
  <2> QED
    BY <1>1, <1>3, <1>5, <2>1, <2>2, <2>3 DEF TypeOK
<1>7. SocketCount'
  BY <1>1, <1>3 DEF SocketCount, Before, Connected, Loading
<1>8. ~ran /\ ~entry /\ (alive => refused = {"write"} \X Missing)
  BY <1>1, <1>3 DEF Progress, Ends, Loading
<1>9. alive => refused' = {"write"} \X Missing'
  <2> SUFFICES ASSUME alive PROVE refused' = {"write"} \X Missing'
    OBVIOUS
  <2>1. \A i \in Allocated(file) : i < section' <=> i < section \/ i = section
    BY <1>1, <1>4, FileSections, <1>3 DEF TypeOK
  <2>2. section \notin memory
    BY <1>3, <1>4 DEF Progress
  <2>3. Missing' = {i \in Allocated(file) :
                     /\ file.sections[i].size # "empty"
                     /\ i \notin memory'
                     /\ i < section \/ i = section}
    BY <1>1, <1>5, <2>1 DEF Missing, Unwritten
  <2>4. Missing = {i \in Allocated(file) :
                     file.sections[i].size # "empty" /\ i \notin memory /\ i < section}
    BY DEF Missing, Unwritten
  <2>5. ~(section < section)
    BY <1>4
  <2>6. \/ UNCHANGED refused /\ Missing' = Missing
        \/ refused' = refused \cup {<<"write", section>>} /\ Missing' = Missing \cup {section}
    BY <1>2, <1>3, <2>2, <2>3, <2>4, <2>5
  <2> QED
    BY <1>8, <2>6
<1>10. \A i \in memory' : i < section'
  <2>1. memory' \subseteq memory \cup {section}
    BY <1>2
  <2>2. memory \subseteq 1 .. Len(file.sections)
    BY <1>3, FileSections DEF TypeOK
  <2> QED
    BY <1>1, <1>3, <1>4, <2>1, <2>2, FileSections DEF Progress, TypeOK
<1> QED
  BY <1>1, <1>6, <1>7, <1>8, <1>9, <1>10 DEF IInv, Progress, Before, Loading

\* A section that is too long leaves what was written before it as it is.
LEMMA OverflowHolds ==
  ASSUME IInv, WriteOverflows \/ WaitEnds
  PROVE  IInv'
<1>1. /\ pc \in {"write", "stuck"} /\ pc' \in {"stuck", "killed", "section"}
      /\ UNCHANGED <<file, addresses, sockets, refused, alive, memory, entry, ran>>
      /\ sent' \in {sent, "lost"}
      /\ \/ UNCHANGED section
         \/ pc' = "section" /\ ~alive /\ section' = section + 1
      /\ pc' = "section" => ~alive
  BY DEF WriteOverflows, WaitEnds, Step, Goes, NextSection, host, link
<1>2. TypeOK /\ SocketCount /\ Progress /\ ~ran /\ section \in Allocated(file)
  BY <1>1 DEF IInv, Progress, Ends
<1>3. section \in 1 .. Len(file.sections)
  BY <1>2, FileSections DEF TypeOK
<1>4. TypeOK'
  <2>1. section' \in 1 .. Len(file'.sections) + 1
    BY <1>1, <1>2, <1>3, FileSections DEF TypeOK
  <2> QED
    BY <1>1, <1>2, <2>1 DEF TypeOK, Ends, Allocated
<1>5. SocketCount'
  BY <1>1, <1>2 DEF SocketCount, Before, Connected, Loading
<1>6. pc' = "stuck" => section' = section
  BY <1>1
<1>7. UNCHANGED section => Missing' = Missing
  BY <1>1 DEF Missing, Unwritten, Allocated
<1>8. \A i \in memory' : i < section'
  BY <1>1, <1>2, <1>3, FileSections DEF Progress, TypeOK
<1>9. ~entry /\ (alive => refused = {"write"} \X Missing)
  BY <1>1, <1>2 DEF Progress, Loading
<1>10. pc' = "stuck" => section' \in Allocated(file')
  BY <1>1, <1>2, <1>6 DEF Allocated
<1> QED
  BY <1>1, <1>2, <1>4, <1>5, <1>6, <1>7, <1>8, <1>9, <1>10 DEF IInv, Progress, Before, Loading

LEMMA ReadSectionHolds ==
  ASSUME IInv, ReadSection \/ ReadSectionFails
  PROVE  IInv'
<1>1. /\ pc = "section" /\ pc' \in {"write", "failure"} /\ section \in Allocated(file)
      /\ UNCHANGED <<file, section, addresses, sockets, sent, refused, alive, memory, entry, ran>>
  BY DEF ReadSection, ReadSectionFails, Step, Goes, Skipped, Current, Allocated, host, link
<1>2. TypeOK /\ SocketCount /\ Progress /\ ~ran
  BY <1>1 DEF IInv, Progress, Ends
<1>3. TypeOK'
  BY <1>1, <1>2 DEF TypeOK, Ends
<1>4. SocketCount'
  BY <1>1, <1>2 DEF SocketCount, Before, Connected, Loading
<1>5. Missing' = Missing
  BY <1>1 DEF Missing, Unwritten
<1> QED
  BY <1>1, <1>2, <1>3, <1>4, <1>5 DEF IInv, Progress, Before, Loading

LEMMA WriteEntryHolds ==
  ASSUME IInv, WriteEntry
  PROVE  IInv'
<1>1. /\ pc = "section" /\ pc' = "run" /\ section \notin DOMAIN file.sections
      /\ UNCHANGED <<file, section, addresses, sockets, alive, memory, ran>>
      /\ sent' \in {"answered", "lost"}
  BY DEF WriteEntry, Goes, Command, host
<1>2. \/ entry' = TRUE /\ UNCHANGED refused
      \/ refused' = refused \cup {<<"entry", 0>>} /\ UNCHANGED entry
      \/ ~alive /\ UNCHANGED <<refused, entry>>
  BY DEF WriteEntry, Command
<1>3. TypeOK /\ SocketCount /\ Progress /\ ~ran /\ ~entry
  BY <1>1 DEF IInv, Progress, Ends, Loading
<1>4. TypeOK'
  BY <1>1, <1>2, <1>3 DEF TypeOK, Ends, Allocated
<1>5. SocketCount'
  BY <1>1, <1>3 DEF SocketCount, Before, Connected, Loading
<1>6. alive => Undone' = refused' \cup {<<"run", 0>>}
  <2> SUFFICES ASSUME alive PROVE Undone' = refused' \cup {<<"run", 0>>}
    OBVIOUS
  <2>1. \A i \in Unwritten : i < section
    BY <1>1, <1>3, FileSections DEF TypeOK, Unwritten
  <2>2. refused = {"write"} \X Unwritten
    BY <1>1, <1>3, <2>1 DEF Progress, Loading, Missing
  <2>3. Unwritten' = Unwritten
    BY <1>1 DEF Unwritten, Allocated
  <2>4. Undone' = refused \cup (IF entry' THEN {} ELSE {<<"entry", 0>>}) \cup {<<"run", 0>>}
    BY <1>1, <1>3, <2>2, <2>3 DEF Undone
  <2> QED
    BY <1>2, <1>3, <2>4
<1>7. \A i \in memory' : i < section'
  BY <1>1, <1>3 DEF Progress
<1>8. alive => <<"run", 0>> \notin refused'
  BY <1>1, <1>2, <1>3 DEF Progress, Loading
<1> QED
  BY <1>1, <1>3, <1>4, <1>5, <1>6, <1>7, <1>8 DEF IInv, Progress, Before, Loading

LEMMA RunHolds ==
  ASSUME IInv, Run
  PROVE  IInv'
<1>1. /\ pc = "run" /\ pc' = "clean"
      /\ UNCHANGED <<file, section, addresses, sockets, memory, entry>>
      /\ sent' \in {"answered", "lost"} /\ alive' \in BOOLEAN \cup {alive}
  BY DEF Run, Goes, Command, host
<1>2. \/ alive /\ ran' = TRUE /\ UNCHANGED refused
      \/ alive /\ refused' = refused \cup {<<"run", 0>>} /\ UNCHANGED <<alive, ran>>
      \/ ~alive /\ UNCHANGED <<alive, refused, ran>>
  BY DEF Run, Command
<1>3. TypeOK /\ SocketCount /\ Progress /\ ~ran
  BY <1>1 DEF IInv, Progress, Ends
<1>4. TypeOK'
  BY <1>1, <1>2, <1>3 DEF TypeOK, Ends, Allocated
<1>5. SocketCount'
  BY <1>1, <1>3 DEF SocketCount, Before, Connected, Loading
<1>6. alive => Undone' = refused'
  <2> SUFFICES ASSUME alive PROVE Undone' = refused'
    OBVIOUS
  <2>1. Undone = refused \cup {<<"run", 0>>}
    BY <1>1, <1>3 DEF Progress
  <2>2. Unwritten' = Unwritten
    BY <1>1 DEF Unwritten, Allocated
  <2> DEFINE Rest == ({"write"} \X Unwritten) \cup (IF entry THEN {} ELSE {<<"entry", 0>>})
  <2>3. /\ Undone = Rest \cup {<<"run", 0>>}
        /\ Undone' = Rest \cup (IF ran' THEN {} ELSE {<<"run", 0>>})
    BY <1>1, <1>3, <2>2 DEF Undone
  <2>4. <<"run", 0>> \notin Rest
    OBVIOUS
  <2>5. <<"run", 0>> \notin refused
    BY <1>1, <1>3 DEF Progress
  <2> HIDE DEF Rest
  <2>6. Rest = refused
    BY <2>1, <2>3, <2>4, <2>5
  <2>7. CASE ran' = TRUE /\ UNCHANGED refused
    BY <2>3, <2>6, <2>7
  <2>8. CASE refused' = refused \cup {<<"run", 0>>} /\ UNCHANGED ran
    BY <1>3, <2>3, <2>6, <2>8
  <2> QED
    BY <1>2, <2>7, <2>8
<1>7. alive' \/ ran' => alive
  BY <1>2, <1>3
<1>8. \A i \in memory' : i < section'
  BY <1>1, <1>3 DEF Progress
<1> QED
  BY <1>1, <1>4, <1>5, <1>6, <1>7, <1>8 DEF IInv, Progress, Before, Loading

LEMMA EndHolds ==
  ASSUME IInv, Finish \/ Killed \/ WriteFails
  PROVE  IInv'
<1>1. /\ pc \in Connected /\ pc' \in {"success", "killed"}
      /\ UNCHANGED <<file, section, addresses, sockets, sent, refused, alive, memory, entry, ran>>
      /\ pc' = "success" => pc = "clean" \/ ~alive
  BY DEF Finish, Killed, WriteFails, Step, Goes, Connected, Loading, host, link
<1>2. TypeOK /\ SocketCount /\ Progress
  BY DEF IInv
<1>3. TypeOK'
  BY <1>1, <1>2 DEF TypeOK, Ends
<1>4. SocketCount'
  BY <1>1, <1>2 DEF SocketCount, Before, Connected, Loading
<1>5. Progress'
  BY <1>1, <1>2, SameUndone DEF Progress, Before, Connected, Loading, Ends
<1> QED
  BY <1>3, <1>4, <1>5 DEF IInv

LEMMA SimExitsHolds ==
  ASSUME IInv, SimExits \/ UNCHANGED vars
  PROVE  IInv'
<1>1. /\ UNCHANGED <<pc, file, section, addresses, sockets, sent, refused, memory, entry, ran>>
      /\ alive' = alive \/ alive' = FALSE
  BY DEF SimExits, vars, host, link
<1>2. TypeOK /\ SocketCount /\ Progress
  BY DEF IInv
<1>3. TypeOK'
  BY <1>1, <1>2 DEF TypeOK
<1>4. SocketCount'
  BY <1>1, <1>2 DEF SocketCount
<1>5. Missing' = Missing
  BY <1>1 DEF Missing, Unwritten
<1>6. Progress'
  BY <1>1, <1>2, <1>5, SameUndone DEF Progress
<1> QED
  BY <1>3, <1>4, <1>6 DEF IInv

LEMMA StepHolds == IInv /\ [Next]_vars => IInv'
BY HostHolds, SkipSectionHolds, ReadSectionHolds, WriteSectionHolds, OverflowHolds,
   WriteEntryHolds, RunHolds, EndHolds, SimExitsHolds DEF Next, ClientStep, HostStep

\* Every reachable state satisfies the invariant.
LEMMA AlwaysIInv == Spec => []IInv
BY InitHolds, StepHolds, PTL DEF Spec

-----------------------------------------------------------------------------
\* RunsOnlyWhatWasLoaded: of a program that runs, only the sections, or the
\* entry point, that the simulator refused are missing; load_sim itself leaves
\* none out, whatever the file and wherever the simulator exits.
THEOREM RunsOnlyTheWhole == Spec => []RunsOnlyWhatWasLoaded
<1>1. IInv => RunsOnlyWhatWasLoaded
  BY DEF IInv, Progress, RunsOnlyWhatWasLoaded
<1> QED
  BY <1>1, AlwaysIInv, PTL

\* OneSocket: arm_connect leaves no socket of an earlier address open.
THEOREM NoSocketLeft == Spec => []OneSocket
<1>1. IInv => OneSocket
  BY DEF IInv, SocketCount, OneSocket, Before, Connected, Loading
<1> QED
  BY <1>1, AlwaysIInv, PTL

\* SuccessMeansLoaded: with a connection to a simulator that is still there,
\* exit status 0 says that every command was carried out but those it answered
\* with an error.
THEOREM SuccessIsLoaded == Spec => []SuccessMeansLoaded
<1>1. IInv => SuccessMeansLoaded
  BY DEF IInv, Progress, SuccessMeansLoaded
<1> QED
  BY <1>1, AlwaysIInv, PTL
=============================================================================
