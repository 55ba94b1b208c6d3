# A verification project for ARM-reimplementation

The repository holds small C programs around ARM object files (ELF32, big
endian): a reader of ELF files (`elf_readelf`), a program that removes the
relocation sections of an object file, gives its sections addresses and applies
the relocations (`process_rel`), and clients that load a program into a remote
ARM simulator over a TCP connection and run it there (`load_sim`,
`ARM_runner_example`). This directory holds TLA+ models of these programs, the
TLC configurations that check them, and TLAPS proofs.

To check everything: `tlc -config X.cfg MCModule` for each pair of the table of
runs below, `tlapm XProofs.tla` for each proof module.

## 1. Inventory

| component | sources | state | operations |
|---|---|---|---|
| process_rel | `process_rel.c` | section mapping, symbols, new section headers, new name table, running address and offset, output file | load, map, read symbols, renumber, copy, relocate, finish |
| relocation arithmetic | `apply_relocation` in `process_rel.c` | none | six relocation types |
| ELF readers | `elf_readelf.c`, `elf_header.c`, `elf_section.c`, `elf_section_contenu.c`, `elf_table_symbole.c`, `elf_relocation.c` | an open stream, heap blocks | options -h -S -s -r -x |
| protocol link | `gdb_protocol.c`, `scanner.l` | the last packet framed, the scanner's error buffer | frame, send, scan, acknowledge, retransmit |
| generated scanner | `scanner.c` (made by flex) | the buffer, the positions in it, the automaton | yylex, read, move and grow the buffer, back up, restart at EOF |
| memory writes | `gdb_write_memory` in `gdb_protocol.c` | the packet being filled | escape, cut, send |
| simulator interface | `arm_simulator_interface.c` | a connection | connect, write, run, step, clean up |
| load_sim | `load_sim.c` | the executable, the loop over its sections | load, set the entry point, run |
| ARM_runner_example | `ARM_runner_example.c` | options | a fixed sample program |
| debug output | `debug.c`, `debug.h` | a sorted table of file names, a cached flag per file | add, search, print |
| arm_simulator | a binary without source | the simulated machine | external |
| csapp wrappers | `csapp.c` (vendored) | what is left of a buffer to write | Getaddrinfo, the loop of Rio_writen, their error exits |
| util | `util.c` | none | is_big_endian, min, error |

How they interact. `process_rel` and the readers call `get_sections` and
`get_shstrtab` of `elf_section.c`, which end the process on an error. `load_sim`
reads the output of `process_rel` with the same functions and calls
`arm_connect`, `arm_write_memory`, `arm_write_register`, `arm_run`; these call
`gdb_protocol.c`, whose every command sends a packet and then calls the scanner
(`yylex`) until it returns a packet or EOF. The scanner calls back into
`gdb_protocol.c` (`gdb_packet_check`, `gdb_require_retransmission`,
`gdb_transmit_packet`) while the command is waiting. The simulator is another
process; its binary contains the messages of the same scanner and packet check,
so both ends of the link are modelled with the same rules. Under the link,
packets go out through `Rio_writen`, in as many pieces as the kernel takes, and
come in through the buffer of the generated scanner, cut anywhere.

Nothing in the clients is multi-threaded. What is hard:

- *ordering in `process_rel`*: headers, symbols and names are read by one part
  of the code while another is still building them; offsets are recorded in
  headers and, separately, by the position of the stream;
- *partial failure*: every `fread`, `fwrite` and `malloc` may fail, and every
  failure after the output was opened goes through `cleanup` to a `return 0`;
- *interleaving of two processes over a line that damages bytes*, with a
  retransmission that sends whatever the packet buffer holds;
- *limits*: the packet, the scanner's error buffer, the table of file names,
  the new name table in a buffer of the size of the old one, the reach of a
  branch;
- *a stream that arrives in pieces*: the scanner has to decide a token without
  waiting for a byte that only comes after its answer, back up when a packet
  turns out not to be one, and tell a byte 0 from the end of its buffer;
- *exits of the simulator* at any moment of a load.

`PROJECT.json` lists these hazards line by line, with the properties that cover
each one, or the reason why none does.

What makes each component correct: for `process_rel`, an output whose parts
agree (the header leads to a table, the table to contents and names, symbols and
patched words to the addresses in the table), or no header that claims so; for
the link, every command carried out once, in order, with its own answer; for a
memory write, a block stored whole in packets that never overflow; for the
loader, no run of a program of which more is missing than the simulator refused
itself; for the readers, one close for each stream that comes back to `main`,
blocks freed on every path, buffers no smaller than what is read into them; for debug output, a search that finds what is in the table; for the
generated scanner, the tokens of the rules of `scanner.l`, as soon as they are
decided; for the two commands in a row, a program in the simulator whose
references lead to where its sections were loaded (which the code achieves for
symbols of `.text`, `.data` and `.bss`; finding 4 below).

## 2. Modules

| module | models | extends |
|---|---|---|
| `RelocArith` | `apply_relocation`: acceptance and encoding of one relocation | |
| `ProcessRel` | one run of `process_rel` | `RelocArith` |
| `RemoteRun` | abstract: what the command link promises | |
| `GdbLink` | `gdb_protocol.c` over `scanner.l`, and the simulator's end | instantiates `RemoteRun` |
| `ScannerRules` | abstract: the rules of `scanner.l` on a stream of bytes | |
| `Scanner` | the generated `scanner.c`: tables, buffer, end of buffer | instantiates `ScannerRules` |
| `WriteMemory` | `gdb_write_memory` and the packet it fills | |
| `RioWriten` | `Rio_writen` of `csapp.c` | |
| `MemoryLink` | `gdb_write_memory` sending its packets with `Rio_writen` | `WriteMemory`, instantiates `RioWriten` |
| `LoadSim` | `load_sim.c` and `arm_connect` | |
| `Toolchain` | `process_rel`, then `load_sim` on its output | `ProcessRel`, instantiates `LoadSim` |
| `DebugTable` | `debug.c`, the macros of `debug.h` | |
| `ElfReaders` | the options of `elf_readelf` | |
| `MC*` | the small instances TLC checks | the module |
| `*Proofs` | theorems and proofs | the module, `TLAPS` |

An operator introduced by a comment "Mutant of X" is a plausible bug of the
definition X that follows it. No specification uses it: it is there to be put in
the place of X, which must make a property fail.

### ProcessRel

`pc` is the place in the code, an action is one iteration of a loop that touches
a file or one whole loop that does not. `mapping`, `newShnum`, `syms`,
`newShdrs`, `names`, `curAddr`, `curOff`, `hdr`, `target` are the program's
variables. A name is the string it selects; `new_shstrtab` is the set of the
strings copied so far with their offsets, so that the half-built table which
`update_symbol_addresses` reads is there to be read, and so are the headers that
nobody has written yet (`Uninitialised`, whose address is `JunkAddress`). The
output file is a set of extents, one for each `fwrite`; writing over part of an
extent destroys it, and a short write leaves a torn one. Sizes, offsets and
addresses are the real numbers. `WellFormed` says what the input objects look
like (those of the toolchain: a null section first, at most one symbol table, a name
table that is kept and holds each name at its `sh_name`, `nameAt`, where one name may be
the end of another; alignments 0 or a power of two, for which `AlignUp` is the mask of
`process_rel.c:360`; relocations that name existing symbols and a section that is kept
and has contents). What more a property needs of the object it states itself:
`SymbolsAfterSections`, `NamesApart`, `NamesLast` (the order of sections of today's
assemblers), `Assembled` (`NamesLast`, one relocation for a place, branches at aligned
places).

A failure is an action of its own (`...Fails`). Which kinds the environment may add
while an object is processed (reads, writes, allocations) is part of the input, the
field `faults`, so that one run has objects with failures and without. A section
beyond the end of the file (a `.bss`) makes the read fail without any fault.

### RelocArith

The acceptance tests of `R_ARM_JUMP24` and `R_ARM_CALL` are written in different
ways in the code and are translated as written. `BranchTarget` is how an ARM core
decodes the word, the reference the encoding is judged by.

### GdbLink and RemoteRun

The bytes in flight towards each end are a sequence of the scanner's tokens:
`ack`, `nak`, a frame with a good or a wrong checksum, or bytes that match no
rule (`Junk`, one for each byte the scanner takes). `packet[e]` is which command
or answer `gdb->packet` holds at end `e`, `errlen[e]` the length of its error
buffer. `ReceiveAck`, `ReceiveNak`, `ReceiveBadPacket`, `AddCharacterToError` are
rules of `scanner.l`, shared by both ends; `SendCommand`, `ReceiveAnswer`,
`ReceiveEOF` are the client's commands; `ReceiveCommand`, `Execute`, `SimDies` the
simulator's (external). The line's faults are `GarbleFrame` (wrong checksum) and
`GarbleToken` (bytes that match no rule), each with a budget.

`RemoteRun` is the promise: the simulator executes command `i` only after the
answer to `i - 1` was taken, each once and in order, and the answer taken for a
command is its own or EOF. `GdbLink` implements it when frames are damaged and
the simulator may exit (run `gdb_link`). It does not when acknowledgements may be
damaged: a garbled `+` makes the other end send its last packet again, and the
client takes a duplicate answer for the next one. `LagBoundedByFaults` is what
remains true.

### Scanner and ScannerRules

The tables `yy_ec`, `yy_accept`, `yy_base`, `yy_def`, `yy_nxt`, `yy_chk`, `yy_meta`
are those of `scanner.c`, with one byte for each class of `yy_ec` and a `nul`;
`Delta` follows them as the code does, default states included. The positions
`yytext_ptr`, `yy_cp`, `yy_c_buf_p` are offsets into `yy_ch_buf`, and `pc` names the
labels of `yylex` and the cases of `yy_get_next_buffer`. A read takes any part of
what the other end wrote (`Read`), so a stream is cut everywhere; `Call` and
`EndOfFile` are the calls of `yylex` around `yyrestart`; `InitFails` and `Fatal`
the allocations and reads that fail.

`ScannerRules` has no buffer: the longest match at the front of the stream is the
next token, and it comes as soon as the bytes sent decide it. `Undecided` is
exactly when more bytes may change the match: the beginning of a packet, or a NUL,
after which the generated code looks one byte further. `Scanner` implements it with
the bytes that are part of no token yet as `rest`.

### WriteMemory, RioWriten, MemoryLink

A byte is `plain` or `special` (to be escaped). `data` is the part of the packet
after its header; `InPacket` tells whether a store is within `MAX_PACKET_SIZE`,
and a store that is not leads to `pc = "undefined"`.

`RioWriten` is the loop of `rio_writen`: `write` takes any part of what is left, is
interrupted, fails, or returns 0, which the code judges by the `errno` that an
earlier call left. `MemoryLink` sends each packet through it: `Transmit` starts the
loop, and the simulator carries the packet out and answers (`Answered`, the
`SendPacket` of `WriteMemory`) only when the bytes it has are those of the packet.

### LoadSim

One action for every step of the loader that can fail or be seen from outside. A
command and its answer are one step (GdbLink is the model of that exchange):
`Command` has it carried out, or refused with an error answer (`refused` collects
those), or lost on a simulator that has exited; `load_sim` does the same in all three
cases. `WriteFails` is the exit of the write wrapper, with status 0, when an exit of
the simulator is noticed. `memory` is the set of sections in the simulator's memory.

A section is `empty` (nothing is sent), `fits` in packets, or is `long`: its one
packet runs over the end of `gdb->packet` (WriteMemory has the bytes). The checksum of
such a packet is destroyed, so no simulator finds a packet to answer, and the client
waits (`WriteOverflows`, `pc = "stuck"`) until the connection ends (`WaitEnds`); or the
store goes through the overwritten pointer `gdb->buffer` and the client crashes.

### Toolchain

`Build` is a step of `process_rel`. `Launch` starts `load_sim` on the file it
finished: `Executable` reads the section headers from the extents on disk, not
from the program's variables, and a section is `stored` when its offset and size
lie within the file. `SizeClass` takes a section for `long` from 1002 bytes on
(`PacketRoom`), as if none of its bytes had to be escaped. From there the steps are
those of `LoadSim`. The properties
relate what is in the simulator's memory to the object file both programs started
from.

### DebugTable

Names are numbers, `strcmp` their order. `first` and `result` are the cached
flags, one pair per source file. The search is one action per iteration.

### ElfReaders

One option over one file, of which each part may be readable or not. `closes`
counts `fclose`, `blocks` the heap blocks of the loop's body. The fields that
`-x` passes to `malloc` without swapping them are sequences of bytes (`Word`,
`Half`), compared byte by byte.

## 3. Runs

| run | module, config | what it asks | result |
|---|---|---|---|
| toolchain | MCToolchain, toolchain.cfg | all objects below, with and without reads, writes and allocations that fail anywhere: `process_rel` alone, and `load_sim` on what it finished | holds |
| process_rel_large_bss | MCProcessRel, process_rel_large_bss.cfg | .bss larger than the rest of the file | violated |
| process_rel_rodata | MCProcessRel, process_rel_rodata.cfg | a symbol of `.rodata` | violated |
| gdb_link | MCGdbLink, gdb_link.cfg | damaged frames, exits: implements RemoteRun, terminates | holds |
| gdb_link_noise | MCGdbLink, gdb_link_noise.cfg | bytes that match no rule | holds |
| gdb_link_silence | MCGdbLink, gdb_link_silence.cfg | a reply without its `$` | violated |
| write_memory | MCMemoryLink, write_memory.cfg | all blocks up to 8 bytes, room for 6, short and interrupted writes | holds |
| write_memory_long | MCWriteMemory, write_memory_long.cfg | 1002 bytes, the real packet | violated |
| debug_table | MCDebugTable, debug_table.cfg | all orders of insertion, all searches | holds |
| elf_readers | MCElfReaders, elf_readers.cfg | all options, partial files | holds |
| load_sim | MCLoadSim, load_sim.cfg | partial files, long sections, hosts, refused commands, exits | holds |
| scanner | MCScanner, scanner.cfg | streams cut anywhere: implements ScannerRules | holds |

The properties, by module:

- **ProcessRel.** `RenumberingSound`: headers land at the rank of their section;
  `sh_link` and `st_shndx` follow it. `LayoutSound`: addresses aligned, disjoint,
  increasing. `SymbolsRelocated`: a symbol table written has every symbol of `.text`,
  `.data` and `.bss` moved exactly once, although it is computed from half-built tables,
  and those that have no section where they were, if the table comes after the sections
  (`SymbolsAfterSections`); of the symbols of other sections it says nothing, since what
  should hold of them, `SymbolsMoveWithSections`, does not (finding 4). `NamesFit`: the names kept fit in
  a buffer of the old size, also where the assembler made one the end of a removed one
  (`.text` inside `.rel.text`), if no two kept names share bytes (`NamesApart`).
  `WritesNeverClobber`: no write destroys part of another. `HeaderCommitsLast`:
  whenever the rewritten header is on disk, wherever the program stopped,
  everything it leads to is, and its entry point is that of the last `.text`.
  `PatchesAgree`: in an `Assembled` object's committed output each patched word decodes
  to the symbol value the output states. `FailureLeavesNoOutput`: no exit with
  `EXIT_FAILURE` once the output exists. These are checked in the run `toolchain`, whose
  fairness no safety property depends on.
- **Toolchain.** `ProgramLinked`: when the simulator is told to run, no section
  overwrites another, it starts at `.text`, and each word relocated with a symbol of
  `.text`, `.data` or `.bss` leads to where that section was loaded, each with a symbol
  that has no section to its value, for `Assembled` objects whose symbol table comes
  after the sections. It is about the sections that are in memory: the simulator may
  have refused others. `OutputLoads`: `load_sim` does not reject what
  `process_rel` finished (`NamesLast`). `SupportedCompletes`: without faults an object whose
  sections can all be read becomes a complete output.
- **GdbLink.** `RefinesRemoteRun`, `ExecutedOnceInOrder`, `AnswersMatch`,
  `RetransmitsWhatWasLost` (what `gdb_transmit_packet` sends is the packet that
  was refused), `ClientTerminates`; with noise, `LagBoundedByFaults` (how far the
  client may be ahead), `RepeatsBoundedByFaults` (a command is carried out again at
  most once for each fault), and `TypeOK`, which holds the bound of the error buffer.
- **Scanner.** `RefinesRules` (liveness included: a decided token does come),
  `NoInternalError` (neither "fatal flex scanner internal error" is reached),
  `ReadsOnlyWhenUndecided` (the scanner blocks in `read` only when it must, or both
  ends would wait), `TypeOK` (every position within the buffer and its end bytes).
- **MemoryLink.** `StaysInPacket`, `SmallBlocksWritten` (what fits arrives whole and
  once unless a write fails).
- **DebugTable.** `Sorted`, `SearchKeepsName`, `SearchAgrees`,
  `DebugFlagEnables`, `SearchTerminates`.
- **ElfReaders.** `ClosedOnce` (the stream of a reader that comes back to `main` is
  closed, and none twice; paths that exit inside a reader may leave it to the system),
  `SmallTablesFit`, `LoopBlocksReleased`, `TypeOK`.
- **LoadSim.** `RunsOnlyWhatWasLoaded`: of what runs, exactly what the simulator refused
  is missing, nothing `load_sim` left out. `SuccessMeansLoaded`: exit status 0 says
  loaded and run, but for a host name without address, a simulator that is gone, and
  refused commands, and then those alone are missing. `OneSocket`: the sockets of
  addresses that did not answer are closed. `LoadTerminates`: it ends if no section is
  too long (`AllFit`), and with any file once the simulator exits.

Bounds, and why they are enough:

- *Objects* (`MCProcessRel`): null, `.text`, `.data`, `.bss` and sometimes
  `.rodata`, zero to two relocation sections in between, symbols, strings, names.
  Every relocation type meets every kind of symbol (undefined, absolute at, just
  within and beyond the reach of a branch, in a removed section, in `.rodata`);
  alignments 0, 1, 8; empty sections; a `.bss` of 4000 bytes; both orders of the name
  table. All failures, at any place, happen to the objects of one alignment with a
  `.rodata`, and to the odd ones (no symbols, no ELF file, names before symbols). Index arithmetic, addresses and
  names depend only on the sequence of kept and removed sections, and the
  theorems of section 4 remove the bound for most of it.
- *GdbLink*: six commands with every kind, up to five damaged frames, one exit;
  in the run with noise, three garbled tokens and two damaged frames, a frame of
  three bytes and an error buffer of four, so that the buffer fills and empties. A fault needs at most a few tokens in
  flight, since each end writes only after it has read.
- *WriteMemory*: a packet with room for six data bytes; the blocks reach from
  empty to beyond it, with every mix of plain and special bytes. The other run
  has the real 1024.
- *MemoryLink*: every way to cut each packet of these blocks into writes.
- *Scanner*: every stream of up to three bytes of the eight classes, up to six made
  of `$`, `#` and digits, up to five with `$`, digits and NULs, open or closed at the
  end, through a buffer of three bytes and reads of two: packets cut everywhere, the
  buffer moved, doubled twice, read on after EOF. A state of the automaton looks no
  further back than its last accepting state, and no pattern has a bound on a length.
- *Toolchain*: all objects of `MCProcessRel`, host with one address.
- *DebugTable*: five places, four names, repetitions: full tables, every path of
  the search. The proofs are for every size.
- *ElfReaders*: up to two sections of every kind; the loops treat each section
  alike. String tables at the boundaries of the bytes, up to 64 KiB.
- *LoadSim*: up to three sections, each allocated or not, empty, short or long, in the
  file or not; two addresses; any answer refused; an exit at any moment.

Fairness. Every program is one thread that runs as long as it can:
weak fairness of its step, no more. `GdbLink` has one such condition for each
process; no fault of the line and no exit ever has to happen. `DebugTable` is
fair only to the search: nothing makes a program call `debug`. `Scanner` is fair to
the scanner, and the callers of `yylex`, who call it until they have a packet or
EOF; nobody has to write. `MemoryLink` is fair to the pieces that `write` takes, so
a write that is interrupted for ever is excluded, and one that fails is not.
`CHECK_DEADLOCK FALSE` appears where the programs end, or, in the runs with
noise, where both ends of the link wait for each other.

## 4. Proofs

All for every value of the constants, under the named assumptions of the modules.

- **ProcessRelProofs.** `Invariance`: the inductive invariant `IInv`, for all
  well-formed objects and all failures. `TypeOK` and the others are not inductive:
  `new_shdrs` is filled in the order of the input, so the invariant has to say, at
  each `pc`, that `section_mapping` is the rank of each kept section
  (`InvMapping`), that exactly the sections before `i` have their header, at their
  rank (`HeadersUpTo`), that each lies below the next and below `current_address`
  (`Below`), and what each symbol's index has become (`InvSymbols`). From it:
  `TypeCorrect`, `RenumberingCorrect`, `LayoutCorrect`, `FailureCorrect`. The
  arithmetic of alignment and the counting of ranks are lemmas; one lemma for each
  action. On `RelocArith`: `SameBranchesAccepted`, at an aligned place the two
  differently written tests accept the same branches, and `BranchReachesSymbol`, an
  accepted branch decodes to the address of the symbol, so masking 24 bits loses
  nothing.
- **OutputProofs.** A second invariant, `FileInv`, on top of `IInv`: what the file and
  the tables it is made from hold at each `pc` (`FileInvariance`). None of the
  properties of the output is inductive, because the program writes section by section
  what only fits together at the end. Its parts:
  `InvNames`, the strings before `i` are in `new_shstrtab`, at offsets below its size,
  no two at one offset, and the size is the number of their bytes (`NameBytes`), which
  is how the names of the loop that measures and the loop that copies are compared;
  `InvPlaces`, the offsets and sizes in the headers made so far do not overlap;
  `InvValues`, symbols are unmoved until their table is copied, and each value in a
  table written is that of the section's final header;
  `InvDisk`, the file is exactly the ELF header, the non-empty sections before `i` and
  the first `k` section headers, nothing else (`Disk`), the old ELF header until the
  last write, and a committed file is `Finished` wherever the program stopped;
  `InvPatches`, the relocation sections before `i` agree with their patched targets,
  and in the reload buffer the entries before `j`; `InvProgress`, what is at each `pc`
  so far of the entry point.
  From it `SymbolsCorrect`, `NamesCorrect` (the bytes of kept names, apart from each
  other in the old table, are no more than it has), `CommitmentCorrect`,
  `RelocationCorrect`, and the action property `WritesCorrect`. For the two commands in
  a row `ToolchainBuilds` shows that loading leaves every behaviour of `process_rel`
  one, so that both invariants carry over; `ToolInv` adds that `load_sim` runs on the
  executable on disk (`ToolchainInvariance`), hence `LoadingCorrect` and
  `LinkingCorrect`, which joins layout, symbols, patches and headers on disk. The
  hypotheses of the properties stay in the theorems: `CommitmentCorrect`, `WritesCorrect`,
  `LoadingCorrect` are about objects whose name table is their last section
  (`NamesLast`), `RelocationCorrect` and `LinkingCorrect` about `Assembled` ones, and
  `LinkingCorrect` about words relocated with a symbol of `.text`, `.data`, `.bss` or of
  no section.
- **DebugTableProofs.** `TableInvariance`: the table is sorted, the search bounds
  enclose every entry equal to the name, a kept result is that of the final table
  (which the invariant must tie to "no debug call during the options").
  From it `TableSorted`, `SearchSound`, `OutputAgrees`, `TableTypes`; with the
  invariant that a table which is not full holds every request, `FlagEnables`.
- **WriteMemoryProofs.** `PacketNeverOverflows`: data never exceeds twice the bytes
  copied, hence the packet holds any block that fits with all its bytes escaped.
  `LinkNeverOverflows`: the same of `MemoryLink`, each step of which is one of
  `WriteMemory` or leaves its variables alone.
- **ElfReadersProofs.** `TablesNeverOverrun`: `e_shentsize`, 40, is 10240 when
  its bytes are not swapped, which makes up for any unswapped number of sections;
  and a size below 64 KiB read the wrong way round is no smaller.
  `StreamClosedOnce`: at each `pc` the invariant `StreamInv` says whether the stream
  is open, so that each reader and `main` agree on who closes it when the reader
  returns; where a reader exits instead, only that it is not closed twice. `BlocksReleased`:
  each way round the loops, their error paths included, leaves no block behind
  (`BlocksInv`). `ReadersTyped`: the types, for which `section` needs the bounds of the
  loops and `closes` needs `StreamInv`.
- **LoadSimProofs.** The invariant says what is missing at each `pc`: of the allocated
  sections before `section`, while the simulator lives, exactly those whose write it
  refused (`Missing`, `Progress`), and how many sockets are open (`SocketCount`). From it `RunsOnlyTheWhole`, `NoSocketLeft`, `SuccessIsLoaded`.
- **ScannerProofs.** The invariant says, for each place of `yylex`, where the
  positions lie and which states the automaton can be in there (`Phases`), that the
  last accepting state belongs to the token at hand wherever the automaton may be in
  one that accepts nothing (`InToken`, `LastFresh`), and that only the state a byte 0
  leads to lies beyond the bytes, by one (`Within`). From it `PositionsInBuffer` and `NeverInternalError`, for every
  stream, every way to cut it and every size of the buffer. Positions alone do not say
  which token is returned, so the second part is about the bytes. `Follows`: the
  compressed tables are a plain automaton (`Follow`). `Shape`: what that automaton has
  read in each state, as a word of the pattern it is in the middle of; lemmas say of
  each such word whether the rules leave it undecided and which rule is first on what
  follows. The invariant `Matching` ties both to the buffer: while the automaton runs,
  the bytes up to `yy_cp` lead to its state and are still undecided, and inside a packet
  `yy_last_accepting_state` is the single `$`; once it stops, the token at hand is
  decided, or a byte 0 was met, which may be the end of the buffer (`Chosen`); once a read
  has returned 0, nothing more will come (`EndKnown`). TLC checked `Matching`
  before its proof. From it `BlocksOnlyWhenUndecided` and `ImplementsRules`: initial
  states map to initial states of `ScannerRules`, every return of a token to its step,
  all else to a stutter.
- **GdbLinkProofs.** Under the assumption `ByteFaults = 0` (only checksums fail).
  The invariant `Turn` lists all that can be under way between the two ends: the
  client is idle, a command is on the line, it was refused and a `-` comes back, it
  is being carried out, the answer is on the line, it was refused, or the simulator
  is gone. Each fixes what `chan` holds and which packet each end keeps. From it
  `CommandsOnceInOrder`, `AnswersAreTheirs`, `RetransmissionFindsItsPacket`, and
  `ImplementsRemoteRun`: initial states map to initial states of `RemoteRun`, every
  step to one of its steps or a stutter.
  The second part is about any faults (`ByteFaults` arbitrary). `TypesCorrect` includes
  the bound of the error buffer. Under noise any number of tokens is in flight, so
  `Turn` no longer lists them; the invariant `Noise` counts them instead. Both channels
  are in order (`Asks`, `InOrder`); a frame, a `-`, a report of invalid data still to
  come (`Owed`: stretches of bytes the scanner reports at once, those it keeps already
  included) and the turn of either end are all one kind of token, of which there is
  one without noise and one more after each garbled token (`Within`); each of them is a
  command carried out again, or puts the client one answer ahead (`Gap`,
  `AnswersLate`). From it `LagCorrect` and `RepeatsCorrect`, under
  `FrameBytes < MaxErrorSize`: a frame whose bytes overflow the error buffer is reported
  twice, and the bounds fail (TLC finds it with 3 and 3). The code satisfies it: a
  packet has at most `MAX_PACKET_SIZE - 1` = 1023 bytes (`gdb_protocol.c:32`), the
  buffer `MAX_ERROR_SIZE` = 1024 (`scanner.l:32`).

Every invariant and action property of the passing runs is proved. Only
model-checked is what needs fairness, which is beyond this prover (liveness and
`ENABLED`): `ClientTerminates`, `LoadTerminates`, `SearchTerminates`,
`SmallBlocksWritten`, `SupportedCompletes`, and of `RefinesRemoteRun` and `RefinesRules`
the fairness part. `ExecutedOnceInOrder`, `AnswersMatch` and the
refinement of `RemoteRun` keep the hypothesis `ByteFaults = 0`, without which they are
false (section 2, GdbLink).

## 5. Where the programs do not do what the repository says

Each of the four violated runs is such a case (`PROJECT.json`, findings):

1. **Exit status 0.** A `.bss` larger than the rest of the file stops the copy
   loop; `process_rel` reports the file as written.
2. **Long sections.** `gdb_write_memory` lets a packet grow beyond its buffer
   from 1002 plain bytes on, and never gets to use a second packet before.
3. **Silence.** Invalid bytes are reported only with the next token, so a reply
   without its `$` leaves both ends waiting.
4. **Other sections.** A symbol of a section other than `.text`, `.data`, `.bss`, such
   as `.rodata`, keeps its offset although the section gets an address
   (`process_rel.c:144-147`), where `tests/TEST_ETAPE7/test_ETAPE7.sh:84-121` adds the
   address of its section to every symbol that has one; words relocated with it lead
   to that offset.

Met while modelling, with no run of their own: when the table of section names is
not the last section, as in old toolchains, `process_rel.c:412-417` writes the part
known so far and counts the whole (the properties of the output file ask for
`NamesLast`);
`get_header` returns NULL on a short file, which no caller tests
(`elf_header.c:191`; `pc = "crashed"` in `ElfReaders`); `-x` allocates 256 bytes
for a string table of 65536 (`elf_section_contenu.c:147`; `pc = "undefined"`);
the 65th `--debug` is dropped or stored beyond the table (`debug.c:39-44`;
`AddDropped`, `AddOverflows`); `load_sim` exits with 0 when the host name cannot
be resolved, when the simulator has gone, and when it answered a write or the entry
point with an error, which is not looked at: the rest is run all the same
(`gdb_protocol.c:72-83, 141, 177`; the three exceptions in `SuccessMeansLoaded`); a
section that does not fit in a packet makes it wait for ever or crash (`pc = "stuck"`
in `LoadSim`, the consequence of finding 2); `-r` on a bad magic number exits without
closing its stream (`elf_relocation.c:27-29`); a damaged acknowledgement can make a command run twice, and
with noise a damaged command is overtaken by the next one
(`RepeatsBoundedByFaults`, `LagBoundedByFaults`); the option `-x` of `elf_readelf`
takes its section from a fixed place of the command line, so it works only as the
first option.

## 6. Not modelled

- Output that stdio still buffers when `fseek` (497), `rewind` (508) or `fclose`
  (515) fails to flush it, and the mallocs nobody checks (`process_rel.c:440, 448`,
  `elf_table_symbole.c:71, 79`, `load_sim.c:33`), which are followed by undefined
  behaviour.
- A second symbol table in one object (the code keeps the last one), the contents
  of `SHT_GROUP` sections, addresses from 2^31 on, file names and the cut of the
  output path at 255 characters.
- The bytes of a `.bss` that `load_sim` takes from the file: `Toolchain` has which
  sections are loaded and where, not what `.bss` holds. Nor which bytes of a section
  are escaped on the way, of which a section that `fits` could have so many that it
  does not.
- Two relocation sections with one target, and two relocations for one place
  (`RelocationsApart`): the code rereads the target from the input, so that the
  second section loses the words of the first.
- In the link: a damaged checksum that still matches, bytes inside a damaged
  token that are themselves `+`, `-` or `#`, the contents of answers.
- In the generated scanner: `yy_hold_char`, and the rest of flex's interface
  (`yyinput`, `yy_scan_*`, several buffers, the accessors), which nothing calls.
- In the readers: the text printed, several options in one command line.
- `util.c`, `filtre.pl`, the other wrappers of `csapp.c`, build files and test
  scripts. They keep no state of their own.
- The simulator, whose source is not in the repository: external, as its clients
  use it.

## 7. Plan

1. Extend: several options of `elf_readelf` in a row; the buffered output of
   `process_rel`; an abstract specification of the relocated object for
   `ProcessRel` to implement.
2. Prove: for `process_rel`, that each step which is not a failure decreases a
   measure (the safety half of `SupportedCompletes`), and that without faults no
   failing action is enabled for a supported object; for `load_sim`, that
   `MemoryLink` delivers exactly the block it was given when no write fails.
