------------------------------ MODULE LoadSim ------------------------------
(***************************************************************************)
(* load_sim: an executable is read section by section and each allocated   *)
(* section is written into the memory of the simulator, which is then      *)
(* given its entry point and run.  GdbLink carries a command to the        *)
(* simulator and its answer back; here that is one step.  The answer may   *)
(* be an error, and the simulator may have exited, in which case the       *)
(* command is lost and the answer is EOF; load_sim looks at neither.       *)
(***************************************************************************)
EXTENDS Naturals, Sequences

CONSTANTS
  Files,        \* the executables
  MaxAddresses  \* how many addresses a host name has at most

\* What matters of a section: "long" is one whose bytes, the special ones
\* escaped, do not fit in a packet (WriteMemory); stored tells whether the file
\* holds as many bytes at the section's offset as the section has.
Section == [alloc : BOOLEAN, size : {"empty", "fits", "long"}, stored : BOOLEAN]

\* header: the ELF header can be read; tables: its magic number is right, the
\* section table and the names can be read.
ASSUME FilesAssumption ==
  Files \subseteq [header : BOOLEAN, tables : BOOLEAN, sections : Seq(Section)]
ASSUME MaxAddressesAssumption == MaxAddresses \in Nat

VARIABLES
  pc,        \* where load_sim is; "success", "failure" and "killed" are its ends
  file,      \* the executable
  section,   \* the loop variable
  addresses, \* the addresses of getaddrinfo not yet tried
  sockets,   \* how many sockets are open
  sent,      \* whether the last command was answered, or lost on a simulator that had exited
  refused,   \* the commands the simulator answered with an error
  alive,     \* the simulator runs
  memory,    \* the sections in the simulator's memory
  entry,     \* the simulator has its entry point
  ran        \* the simulator was told to run

host == <<addresses, sockets>>
link == <<sent, refused, alive, memory, entry, ran>>
vars == <<pc, file, section, host, link>>

Ends == {"success", "failure", "killed"}

Init ==
  /\ pc = "read"
  /\ file \in Files
  /\ section = 1
  /\ addresses = 0 /\ sockets = 0
  /\ sent = "nothing" /\ refused = {}
  /\ alive = TRUE
  /\ memory = {}
  /\ entry = FALSE /\ ran = FALSE

Goes(from, to) == pc = from /\ pc' = to

\* A step of the client that leaves the host and the simulator alone.
Step(from, to) == Goes(from, to) /\ UNCHANGED <<file, section, host, link>>

-----------------------------------------------------------------------------
\* fopen, get_header, valider_elf, get_sections and get_shstrtab.
ReadTables == file.header /\ file.tables /\ Step("read", "resolve")

\* Any of them exits on an error; but valider_elf dereferences the NULL of a
\* header that could not be read.
ReadTablesFails ==
  \/ Step("read", "failure")
  \/ ~file.header /\ Step("read", "killed")

(***************************************************************************)
(* arm_connect                                                             *)
(***************************************************************************)
Resolve ==
  /\ Goes("resolve", "connect")
  /\ addresses' \in 1 .. MaxAddresses
  /\ UNCHANGED <<file, section, sockets, link>>

\* Getaddrinfo reports a name without an address and calls exit(0).
ResolveFails == Step("resolve", "success")

NoSocket ==
  /\ Goes("connect", "connect")
  /\ addresses > 0
  /\ addresses' = addresses - 1
  /\ UNCHANGED <<file, section, sockets, link>>

OpenSocket ==
  /\ Goes("connect", "connecting")
  /\ addresses > 0
  /\ sockets' = sockets + 1
  /\ UNCHANGED <<file, section, addresses, link>>

Connect == alive /\ Step("connecting", "section")

(* Mutants of CloseAndNext: close(sfd) is missing; rp stays where it is.   *)
NextWithoutClose == addresses' = addresses - 1 /\ UNCHANGED sockets
CloseAndSame == sockets' = sockets - 1 /\ UNCHANGED addresses

\* How the loop over the addresses goes on after a connect that failed.
CloseAndNext == addresses' = addresses - 1 /\ sockets' = sockets - 1

ConnectFails ==
  /\ Goes("connecting", "connect")
  /\ CloseAndNext
  /\ UNCHANGED <<file, section, link>>

NoAddressLeft == addresses = 0 /\ Step("connect", "failure")

(***************************************************************************)
(* The loop over the sections, the entry point, and the run                *)
(***************************************************************************)
\* gdb_get_answer: when the simulator is still there, it carries the command
\* out or refuses it, and the client takes one answer for the other.
Command(what, effect) ==
  \/ /\ alive /\ sent' = "answered"
     /\ \/ effect /\ UNCHANGED refused
        \/ refused' = refused \cup {what} /\ UNCHANGED <<alive, memory, entry, ran>>
  \/ /\ ~alive /\ sent' = "lost"
     /\ UNCHANGED <<refused, alive, memory, entry, ran>>

Allocated(f) == {i \in DOMAIN f.sections : f.sections[i].alloc}
Current == file.sections[section]
NextSection == section' = section + 1 /\ UNCHANGED <<file, host>>

Skipped == ~Current.alloc

SkipSection ==
  /\ Goes("section", "section")
  /\ section \in DOMAIN file.sections
  /\ Skipped
  /\ NextSection
  /\ UNCHANGED link

ReadSection ==
  /\ section \in DOMAIN file.sections
  /\ ~Skipped
  /\ Current.stored \/ Current.size = "empty"
  /\ Step("section", "write")

(* Mutants of ReadSectionFails: goes on; exits with EXIT_SUCCESS.          *)
ReadSectionFailsGoesOn ==
  /\ Goes("section", "section")
  /\ section \in Allocated(file) /\ ~Current.stored /\ Current.size # "empty"
  /\ NextSection
  /\ UNCHANGED link
ReadSectionFailsSucceeds ==
  /\ section \in Allocated(file) /\ ~Current.stored /\ Current.size # "empty"
  /\ Step("section", "success")

\* The process exits with the connection open and the sections before this
\* one in the simulator's memory.
ReadSectionFails ==
  /\ section \in DOMAIN file.sections
  /\ ~Skipped
  /\ ~Current.stored /\ Current.size # "empty"
  /\ Step("section", "failure")

\* gdb_write_memory; nothing is sent for an empty section.
WriteSection ==
  /\ Goes("write", "section")
  /\ \/ Current.size = "empty" /\ UNCHANGED link
     \/ /\ Current.size = "fits"
        /\ Command(<<"write", section>>,
                   memory' = memory \cup {section} /\ UNCHANGED <<alive, entry, ran>>)
  /\ NextSection

\* The packet of a longer section runs over the end of gdb->packet: its length
\* destroys the checksum and no simulator finds a packet it could answer, or
\* the pointer gdb->buffer goes too and the next store through it crashes.
WriteOverflows ==
  /\ pc = "write" /\ Current.size = "long"
  /\ Step("write", "stuck") \/ Step("write", "killed")

\* Only the end of the connection ends the wait, as an answer of EOF; the rest
\* of the section may go to the closed connection.
WaitEnds ==
  /\ ~alive
  /\ \/ /\ Goes("stuck", "section")
        /\ sent' = "lost"
        /\ NextSection
        /\ UNCHANGED <<refused, alive, memory, entry, ran>>
     \/ Step("stuck", "killed")

WriteEntry ==
  /\ Goes("section", "run")
  /\ section \notin DOMAIN file.sections
  /\ Command(<<"entry", 0>>, entry' = TRUE /\ UNCHANGED <<alive, memory, ran>>)
  /\ UNCHANGED <<file, section, host>>

\* arm_run: the program runs and the simulator exits, or reports a stop; the
\* client cleans up either way.
Run ==
  /\ Goes("run", "clean")
  /\ Command(<<"run", 0>>, ran' = TRUE /\ alive' \in BOOLEAN /\ UNCHANGED <<memory, entry>>)
  /\ UNCHANGED <<file, section, host>>

Finish == Step("clean", "success")

\* Another write to a simulator that exited raises SIGPIPE.
Killed == sent = "lost" /\ \E p \in {"section", "write", "run", "clean"} : Step(p, "killed")

\* Rio_writen reports the reset of the connection instead: exit(0).
WriteFails ==
  /\ ~alive
  /\ \/ Step("write", "success") /\ Current.size # "empty"
     \/ Step("stuck", "success")
     \/ Step("section", "success") /\ section \notin DOMAIN file.sections
     \/ Step("run", "success")

SimExits ==
  /\ alive
  /\ alive' = FALSE
  /\ UNCHANGED <<pc, file, section, host, sent, refused, memory, entry, ran>>

ClientStep ==
  \/ ReadTables \/ ReadTablesFails
  \/ Resolve \/ ResolveFails \/ NoSocket \/ OpenSocket
  \/ Connect \/ ConnectFails \/ NoAddressLeft
  \/ SkipSection \/ ReadSection \/ ReadSectionFails
  \/ WriteSection \/ WriteOverflows \/ WaitEnds
  \/ WriteEntry \/ Run \/ Finish \/ Killed \/ WriteFails

Next == ClientStep \/ SimExits

\* The client is one thread that blocks only on answers: GdbLink gives the one
\* to a packet with a checksum, and "stuck" is the wait for any other.
Spec == Init /\ [][Next]_vars /\ WF_vars(ClientStep)

(***************************************************************************)
(* Properties                                                              *)
(***************************************************************************)
\* The type of every variable; only allocated sections go to the simulator.
TypeOK ==
  /\ pc \in Ends \cup {"read", "resolve", "connect", "connecting",
                       "section", "write", "stuck", "run", "clean"}
  /\ file \in Files
  /\ section \in 1 .. Len(file.sections) + 1
  /\ addresses \in 0 .. MaxAddresses
  /\ sockets \in Nat
  /\ sent \in {"nothing", "answered", "lost"}
  /\ refused \subseteq ({"write"} \X Allocated(file)) \cup {<<"entry", 0>>, <<"run", 0>>}
  /\ memory \subseteq Allocated(file)
  /\ alive \in BOOLEAN /\ entry \in BOOLEAN /\ ran \in BOOLEAN

Unwritten == {i \in Allocated(file) : file.sections[i].size # "empty" /\ i \notin memory}

\* The commands a whole load takes and the simulator has not carried out.
Undone ==
  ({"write"} \X Unwritten)
    \cup (IF entry THEN {} ELSE {<<"entry", 0>>})
    \cup (IF ran THEN {} ELSE {<<"run", 0>>})

\* What the simulator runs lacks nothing but what it refused itself: it is never
\* told to run after a section that was not read, did not fit in a packet, or
\* was lost on the way, although load_sim looks at no answer.
RunsOnlyWhatWasLoaded == ran => Undone = refused

\* arm_simulator_interface.c:50: the socket of an address that does not answer
\* is closed before the next one is tried.  One socket is ever open, and one
\* is open while the sections are written.
OneSocket ==
  /\ sockets <= 1
  /\ pc \in {"section", "write", "stuck", "run", "clean"} => sockets = 1
  /\ pc = "connect" => sockets = 0

\* README.md:53: the command loads the executable into the simulator.  Exit
\* status 0 means that it did, and ran it, but for three cases: the host name
\* has no address, the simulator is gone (a write that fails exits with 0 too),
\* or it answered commands with an error, and then those alone are missing.
SuccessMeansLoaded ==
  pc = "success" /\ sockets > 0 /\ alive => Undone = refused

\* No section to be written is too long for a packet.
AllFit == \A i \in Allocated(file) : file.sections[i].size # "long"

\* load_sim comes to its end, whatever the addresses of the host, the answers,
\* and the moment the simulator exits, when no section is too long; and with
\* any file once the simulator exits.
LoadTerminates ==
  /\ AllFit => <>(pc \in Ends)
  /\ <>~alive => <>(pc \in Ends)
=============================================================================
