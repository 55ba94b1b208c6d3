----------------------------- MODULE Toolchain -----------------------------
(***************************************************************************)
(* The two commands in a row: process_rel makes an executable of an object *)
(* file, and load_sim reads that file and puts it into the simulator.  The *)
(* sections load_sim meets are those on disk, at the offsets and with the  *)
(* sizes the headers on disk say.                                          *)
(***************************************************************************)
EXTENDS ProcessRel

VARIABLES lpc, lfile, section, addresses, sockets, sent, refused, alive, memory, lentry, ran

L == INSTANCE LoadSim WITH
  pc <- lpc, file <- lfile, entry <- lentry,
  Files <- [header : {TRUE}, tables : BOOLEAN,
            sections : Seq([alloc : BOOLEAN, size : {"empty", "fits", "long"},
                            stored : BOOLEAN])],
  MaxAddresses <- 1

loader == <<lpc, lfile, section, addresses, sockets, sent, refused, alive, memory, lentry, ran>>

(***************************************************************************)
(* The executable as get_header, get_sections and fread find it on disk.   *)
(***************************************************************************)
HeadersOnDisk == [n \in 1 .. Ehdr0.shnum |-> ShdrsAt(n - 1)]
OnDisk(n) == CHOOSE h \in HeadersOnDisk[n] : TRUE

NoExecutable == [header |-> TRUE, tables |-> FALSE, sections |-> << >>]

\* The bytes of a section that fit in one packet when none has to be escaped.
PacketRoom == 1001

SizeClass(n) == IF n = 0 THEN "empty" ELSE IF n <= PacketRoom THEN "fits" ELSE "long"

Executable ==
  IF {} \in {HeadersOnDisk[n] : n \in DOMAIN HeadersOnDisk} THEN NoExecutable
  ELSE [header |-> TRUE, tables |-> TRUE,
        sections |-> [n \in DOMAIN HeadersOnDisk |->
          [alloc |-> OnDisk(n).alloc,
           size |-> SizeClass(OnDisk(n).size),
           stored |-> OnDisk(n).offset + OnDisk(n).size <= out.end]]]

ToolchainInit ==
  /\ Init
  /\ lpc = "waiting" /\ lfile = NoExecutable
  /\ section = 1 /\ addresses = 0 /\ sockets = 0
  /\ sent = "nothing" /\ refused = {} /\ alive = TRUE
  /\ memory = {} /\ lentry = FALSE /\ ran = FALSE

Build == Next /\ UNCHANGED loader

\* load_sim is given the file process_rel wrote, when it finished it.
Launch ==
  /\ pc = "success" /\ Committed
  /\ lpc = "waiting" /\ lpc' = "read"
  /\ lfile' = Executable
  /\ UNCHANGED <<vars, section, addresses, sockets, sent, refused, alive, memory, lentry, ran>>

Run == L!ClientStep /\ UNCHANGED vars
SimExits == lpc # "waiting" /\ L!SimExits /\ UNCHANGED vars

ToolchainNext == Build \/ Launch \/ Run \/ SimExits

ToolchainSpec ==
  /\ ToolchainInit /\ [][ToolchainNext]_<<vars, loader>>
  /\ WF_<<vars, loader>>(Build) /\ WF_<<vars, loader>>(Launch \/ Run)

(***************************************************************************)
(* Properties                                                              *)
(***************************************************************************)
\* The section s of the object file, in the memory of the simulator.
Place(s) == Rank(s) + 1
InMemory(s) == Place(s) \in memory
Address(s) == OnDisk(Place(s)).addr
End(s) == Address(s) + obj.shdrs[s].size

\* No section is written over another one.
SectionsApart ==
  \A s, t \in KeptSections(obj) :
    s # t /\ InMemory(s) /\ InMemory(t) => End(s) <= Address(t) \/ End(t) <= Address(s)

\* The program starts at the first byte of .text.
EntryIsText ==
  \A s \in KeptSections(obj) : LastText(s) /\ InMemory(s) => Ehdr0.entry = Address(s)

\* Where a symbol is in the simulator: at its place in its section, if it has
\* one, wherever that section was loaded.
Location(x) == x.value + IF HasSection(x) THEN Address(x.shndx) ELSE 0

\* A branch, or a data word, leads to where the simulator has its symbol.  It is
\* not so for the symbols of a section that is not .text, .data or .bss, which
\* SymbolsMoveWithSections is about.
ReferencesResolve ==
  \A s \in DOMAIN obj.rels : InMemory(TargetOf(s)) =>
    \A m \in DOMAIN obj.rels[s] :
      LET r == obj.rels[s][m]
          symbol == obj.syms[r.sym]
      IN Moves(symbol) \/ ~ HasSection(symbol) =>
           \E w \in At(OnDisk(Place(TargetOf(s)))) :
             /\ w.kind = "contents"
             /\ PatchAgrees(r, w.words, Location(symbol), Address(TargetOf(s)) + r.offset)

\* README.md:47 and 53: the two commands together run the program of the
\* object file.  When the simulator is told to run, no section in its memory
\* overwrites another, it starts at .text, and each word relocated with a
\* symbol of .text, .data or .bss leads to where that section has been loaded,
\* and each with a symbol that has no section to the value of the symbol.
ProgramLinked ==
  Assembled /\ SymbolsAfterSections /\ ran =>
    SectionsApart /\ EntryIsText /\ ReferencesResolve

\* load_sim never rejects what process_rel finished: once connected it only
\* stops for the simulator, not for a section that is not in the file.
OutputLoads ==
  NamesLast =>
    /\ lpc = "failure" => sockets = 0
    /\ lpc # "waiting" => lfile.tables
=============================================================================
