------------------------------ MODULE ProcessRel ------------------------------
(***************************************************************************)
(* src/process_rel.c: one run of the command that copies an ARM object     *)
(* file without its SHT_REL sections, gives every section an address,      *)
(* relocates the symbols and patches the words the relocations name.       *)
(*                                                                         *)
(* One action is one iteration of a loop of the program that reads or      *)
(* writes a file, or one loop that does neither.  `pc' names the place in  *)
(* the code; "failure" is exit(EXIT_FAILURE), "success" is the return 0 of *)
(* main.  Indices are those of the code, from 0.                           *)
(***************************************************************************)
EXTENDS RelocArith, FiniteSets, Sequences

CONSTANTS
  Objects,      \* the input files a behaviour may start from
  NameSize,     \* bytes of a section name with its final '\0'
  JunkAddress,  \* what an uninitialised sh_addr happens to hold
  Uninitialised \* an Elf32_Shdr that malloc returned and nobody has written

EhdrSize == 52
ShdrSize == 40
RelSize == 8
SymbolSize == 16
FirstAddress == 88          \* 0x58, process_rel.c:353
SHN_UNDEF == 0
SHN_LORESERVE == 65280
SHN_ABS == 65521
Removed == -1               \* section_mapping of a SHT_REL section

SectionTypes == {"NULL", "PROGBITS", "NOBITS", "SYMTAB", "STRTAB", "REL"}
RelocatedNames == {".text", ".data", ".bss"}

(* A section header as it is read: `name' is the string sh_name selects in *)
(* the input's string table, "" when sh_name is 0.                         *)
InputHeaders == [type : SectionTypes, name : DOMAIN NameSize \cup {""},
                 alloc : BOOLEAN, addr : Nat, offset : Nat, size : Nat,
                 align : Nat, link : Nat, info : Nat]

(* A header of new_shdrs: `name' is sh_name, an offset in new_shstrtab.    *)
OutputHeaders == [type : SectionTypes, name : Nat,
                  alloc : BOOLEAN, addr : Nat, offset : Nat, size : Nat,
                  align : Nat, link : Nat, info : Nat]

Symbols == [shndx : Nat, value : Nat]
Relocations == [offset : Nat, type : RelocTypes, sym : Nat]
(* A string of new_shstrtab, a word of target_data.                        *)
NameEntries == [at : Nat, str : DOMAIN NameSize \cup {""}]
Words == [offset : Nat, cell : Cells]
ElfHeaders == [shnum : Nat, shoff : Nat, shstrndx : Int, entry : Nat]

Sections(o) == 0 .. (o.shnum - 1)
IsRel(o, s) == o.shdrs[s].type = "REL"
IsSymtab(o, s) == o.shdrs[s].type = "SYMTAB"
KeptSections(o) == {s \in Sections(o) : ~ IsRel(o, s)}

(* sh_addralign: none, or a power of two; addresses stay below 2^31.       *)
Alignments == {0} \cup {2 ^ n : n \in 0 .. 30}

(* What the object files of the toolchain look like: section 0 is the null *)
(* section, the name table is one of the sections kept and holds every     *)
(* name at its sh_name (`nameAt'), there is at most one symbol table,      *)
(* relocations name existing symbols and a section that is kept and has    *)
(* contents; section indices stay below the reserved ones.  `faults' says  *)
(* which calls of the environment may fail while it is processed.          *)
WellFormed(o) ==
  /\ o.shnum \in 1 .. (SHN_LORESERVE - 1)
  /\ o.shdrs \in [Sections(o) -> InputHeaders]
  /\ \A s \in Sections(o) : o.shdrs[s].align \in Alignments
  /\ o.shdrs[0].type = "NULL" /\ o.shdrs[0].name = "" /\ o.shdrs[0].size = 0
  /\ o.shstrndx \in Sections(o)
  /\ o.shdrs[o.shstrndx].type = "STRTAB" /\ o.shdrs[o.shstrndx].size > 0
  /\ o.nameAt \in [Sections(o) -> Nat]
  /\ \A s \in Sections(o) : o.shdrs[s].name # "" =>
       /\ o.nameAt[s] > 0
       /\ o.nameAt[s] + NameSize[o.shdrs[s].name] <= o.shdrs[o.shstrndx].size
  /\ o.symnum \in Nat
  /\ o.syms \in [0 .. (o.symnum - 1) -> Symbols]
  /\ o.symnum > 0 => \E s \in Sections(o) : IsSymtab(o, s)
  /\ \A s \in Sections(o) : IsSymtab(o, s) => o.shdrs[s].size = SymbolSize * o.symnum
  /\ \A s, t \in Sections(o) : IsSymtab(o, s) /\ IsSymtab(o, t) => s = t
  /\ o.rels \in [{s \in Sections(o) : IsRel(o, s)} -> Seq(Relocations)]
  /\ \A s \in DOMAIN o.rels :
       /\ o.shdrs[s].info \in KeptSections(o) \ {o.shstrndx}
       /\ ~ IsSymtab(o, o.shdrs[s].info)
       /\ o.shdrs[s].size = RelSize * Len(o.rels[s])
  /\ \A s \in DOMAIN o.rels : \A r \in 1 .. Len(o.rels[s]) :
       o.rels[s][r].sym < o.symnum
  /\ o.shoff \in Nat /\ o.fileSize \in Nat /\ o.elf \in BOOLEAN
  /\ o.faults \subseteq {"read", "write", "memory"}

ASSUME NamesAssumption == NameSize \in [DOMAIN NameSize -> Nat \ {0}]
ASSUME ObjectsAssumption == \A o \in Objects : WellFormed(o)
ASSUME JunkAssumption == JunkAddress \in Nat /\ Uninitialised \notin OutputHeaders

VARIABLES
  obj,        \* the input file, and the failures it meets; never changes
  pc,         \* where the program is
  i, k, j,    \* loop indices: input section, new_index, relocation entry
  mapping,    \* section_mapping
  newShnum,   \* new_shnum
  syms,       \* sym.symbols
  newShdrs,   \* new_shdrs
  names,      \* new_shstrtab: the strings in it, each with its offset
  namesSize,  \* new_shstrtab_size
  finalSize,  \* final_shstrtab_size
  curAddr,    \* current_address
  curOff,     \* current_offset
  hdr,        \* *header
  entry,      \* entry
  target,     \* target_data: the words patched so far
  out         \* the output file

tables == <<mapping, newShnum>>
build == <<syms, newShdrs, names, namesSize, finalSize, curAddr, curOff>>
vars == <<obj, pc, i, k, j, tables, build, hdr, entry, target, out>>

-----------------------------------------------------------------------------
(***************************************************************************)
(* The output file: a set of extents, each holding what one fwrite wrote,  *)
(* and its length.  Writing over part of an extent destroys it.            *)
(***************************************************************************)
Faults == obj.faults

NoFile == [exists |-> FALSE, extents |-> {}, end |-> 0]
EmptyFile == [exists |-> TRUE, extents |-> {}, end |-> 0]
Extent(at, len, what) == [at |-> at, len |-> len, what |-> what]
Apart(e, at, len) == e.at + e.len <= at \/ at + len <= e.at

Written(file, at, len, what) ==
  [file EXCEPT
     !.extents = {e \in @ : Apart(e, at, len)} \cup {Extent(at, len, what)},
     !.end = IF @ < at + len THEN at + len ELSE @]

Ehdr(h) == [kind |-> "ehdr", header |-> h]
Shdr(h) == [kind |-> "shdr", header |-> h]
Contents(s, words) == [kind |-> "contents", of |-> s, words |-> words]
SymbolTable(s, ss) == [kind |-> "symbols", of |-> s, syms |-> ss]
NameTable(s, ns) == [kind |-> "names", of |-> s, names |-> ns]
Torn == [kind |-> "torn"]     \* what a short fwrite leaves

InputHeader(o) == [shnum |-> o.shnum, shoff |-> o.shoff,
                   shstrndx |-> o.shstrndx, entry |-> 0]

-----------------------------------------------------------------------------
Init ==
  /\ obj \in Objects
  /\ pc = "load"
  /\ i = 0 /\ k = 0 /\ j = 0
  /\ mapping = [s \in Sections(obj) |-> Removed]
  /\ newShnum = 0
  /\ syms = << >>
  /\ newShdrs = << >>
  /\ names = {} /\ namesSize = 0 /\ finalSize = 0
  /\ curAddr = 0 /\ curOff = 0
  /\ hdr = InputHeader(obj) /\ entry = 0
  /\ target = {}
  /\ out = NoFile

Goto(place) == pc' = place

(* exit(EXIT_FAILURE): every one of them is before the fopen of the output *)
ExitFailure ==
  /\ Goto("failure")
  /\ UNCHANGED <<obj, i, k, j, tables, build, hdr, entry, target, out>>

(* Mutant of GotoCleanup: exit where the code jumps to cleanup.            *)
GotoCleanupExits ==
  /\ Goto("failure")
  /\ UNCHANGED <<obj, i, k, j, tables, build, hdr, entry, target>>

(* goto cleanup.  The tables are freed there: what the failing iteration   *)
(* did to them is read by nobody.                                          *)
GotoCleanup ==
  /\ Goto("cleanup")
  /\ UNCHANGED <<obj, i, k, j, tables, build, hdr, entry, target>>

(* A short fwrite of `len' bytes at `at': none or some of them are there.  *)
WriteFails(at, len) ==
  /\ "write" \in Faults
  /\ GotoCleanup
  /\ out' \in {out, Written(out, at, len, Torn)}

-----------------------------------------------------------------------------
(* main: open the input and read its header, get_sections, get_shstrtab.   *)
Load ==
  /\ pc = "load"
  /\ obj.elf
  /\ Goto("map")
  /\ UNCHANGED <<obj, i, k, j, tables, build, hdr, entry, target, out>>

LoadFails ==
  /\ pc = "load"
  /\ ~ obj.elf \/ Faults \cap {"read", "memory"} # {}
  /\ ExitFailure

(* Mutant of MapSection: the type of the section is not tested.            *)
MapSectionKeepsAll ==
  /\ pc = "map" /\ i < obj.shnum
  /\ mapping' = [mapping EXCEPT ![i] = newShnum]
  /\ newShnum' = newShnum + 1
  /\ i' = i + 1
  /\ UNCHANGED <<obj, pc, k, j, build, hdr, entry, target, out>>

(* First pass: number the sections that are kept.                          *)
MapSection ==
  /\ pc = "map" /\ i < obj.shnum
  /\ IF IsRel(obj, i)
       THEN /\ mapping' = [mapping EXCEPT ![i] = Removed]
            /\ UNCHANGED newShnum
       ELSE /\ mapping' = [mapping EXCEPT ![i] = newShnum]
            /\ newShnum' = newShnum + 1
  /\ i' = i + 1
  /\ UNCHANGED <<obj, pc, k, j, build, hdr, entry, target, out>>

AllMapped ==
  /\ pc = "map" /\ i = obj.shnum
  /\ Goto("symbols")
  /\ UNCHANGED <<obj, i, k, j, tables, build, hdr, entry, target, out>>

(* The symbol table, if there is one, is read whole.                       *)
ReadSymbols ==
  /\ pc = "symbols"
  /\ syms' = obj.syms
  /\ Goto("allocate")
  /\ UNCHANGED <<obj, i, k, j, tables, newShdrs, names, namesSize, finalSize,
                 curAddr, curOff, hdr, entry, target, out>>

ReadSymbolsFails ==
  /\ pc = "symbols"
  /\ Faults \cap {"read", "memory"} # {}
  /\ ExitFailure

(* new_shstrtab holds '\0'; the entries of new_shdrs hold anything.        *)
AllocateTables ==
  /\ pc = "allocate"
  /\ names' = {[at |-> 0, str |-> ""]} /\ namesSize' = 1
  /\ newShdrs' = [n \in 0 .. (newShnum - 1) |-> Uninitialised]
  /\ curOff' = EhdrSize
  /\ k' = 0
  /\ Goto("renumber")
  /\ UNCHANGED <<obj, i, j, tables, syms, finalSize, curAddr, hdr, entry, target, out>>

AllocateTablesFails ==
  /\ pc = "allocate"
  /\ "memory" \in Faults
  /\ ExitFailure

(* Mutant of Renumbered: a removed section is not told apart.              *)
RenumberedUnchecked(shndx) ==
  IF shndx < obj.shnum THEN mapping[shndx]
  ELSE IF shndx >= SHN_LORESERVE THEN shndx ELSE SHN_UNDEF

(* st_shndx follows its section; that of a removed section becomes         *)
(* SHN_UNDEF, a reserved index stays.                                      *)
Renumbered(shndx) ==
  IF shndx < obj.shnum /\ mapping[shndx] # Removed THEN mapping[shndx]
  ELSE IF shndx >= SHN_LORESERVE THEN shndx ELSE SHN_UNDEF

(* Mutant of RenumberSymbols: the symbols keep the old section indices.    *)
RenumberSymbolsSkipped ==
  /\ pc = "renumber"
  /\ Goto("open")
  /\ UNCHANGED <<obj, i, k, j, tables, build, hdr, entry, target, out>>

RenumberSymbols ==
  /\ pc = "renumber"
  /\ syms' = [x \in DOMAIN syms |->
                [syms[x] EXCEPT !.shndx = Renumbered(syms[x].shndx)]]
  /\ Goto("open")
  /\ UNCHANGED <<obj, i, k, j, tables, newShdrs, names, namesSize, finalSize,
                 curAddr, curOff, hdr, entry, target, out>>

OpenOutput ==
  /\ pc = "open"
  /\ out' = EmptyFile
  /\ Goto("header")
  /\ UNCHANGED <<obj, i, k, j, tables, build, hdr, entry, target>>

OpenOutputFails ==
  /\ pc = "open"
  /\ "write" \in Faults
  /\ GotoCleanup
  /\ UNCHANGED out

(* The header goes out first as it was read, to be rewritten at the end.   *)
WriteInitialHeader ==
  /\ pc = "header"
  /\ out' = Written(out, 0, EhdrSize, Ehdr(hdr))
  /\ finalSize' = 1
  /\ i' = 0
  /\ Goto("sizes")
  /\ UNCHANGED <<obj, k, j, tables, syms, newShdrs, names, namesSize,
                 curAddr, curOff, hdr, entry, target>>

WriteInitialHeaderFails ==
  /\ pc = "header"
  /\ WriteFails(0, EhdrSize)

-----------------------------------------------------------------------------
(***************************************************************************)
(* The size the new name table will have: one iteration per section.       *)
(***************************************************************************)

(* Mutant of NameCounted: the names of the removed sections count too.     *)
AnyNameCounted(s) == obj.shdrs[s].name # ""

NameCounted(s) == mapping[s] # Removed /\ obj.shdrs[s].name # ""

SizeName ==
  /\ pc = "sizes" /\ i < obj.shnum
  /\ finalSize' = finalSize
                  + IF NameCounted(i) THEN NameSize[obj.shdrs[i].name] ELSE 0
  /\ i' = i + 1
  /\ UNCHANGED <<obj, pc, k, j, tables, syms, newShdrs, names, namesSize,
                 curAddr, curOff, hdr, entry, target, out>>

NamesSized ==
  /\ pc = "sizes" /\ i = obj.shnum
  /\ curOff' = EhdrSize /\ curAddr' = FirstAddress
  /\ i' = 0
  /\ Goto("copy")
  /\ UNCHANGED <<obj, k, j, tables, syms, newShdrs, names, namesSize, finalSize,
                 hdr, entry, target, out>>

-----------------------------------------------------------------------------
(***************************************************************************)
(* The copy loop: one section that is kept, per iteration.                 *)
(***************************************************************************)

(* Mutant of AlignUp: x & ~(a - 1) rounds down.                            *)
AlignDown(x, a) == IF a > 0 THEN x - (x % a) ELSE x

(* (x + a - 1) & ~(a - 1), for a power of two                              *)
AlignUp(x, a) == IF a > 0 THEN (x + a - 1) - ((x + a - 1) % a) ELSE x

IsNameTable(s) == s = obj.shstrndx /\ obj.shdrs[s].type = "STRTAB"

(* Mutant of NewLink: sh_link is copied.                                   *)
OldLink(link) == link

NewLink(link) ==
  IF link < obj.shnum
    THEN IF mapping[link] # Removed THEN mapping[link] ELSE 0
    ELSE link

NewHeader(old) ==
  [old EXCEPT !.addr = AlignUp(curAddr, old.align),
              !.offset = curOff,
              !.name = IF old.name # "" THEN namesSize ELSE 0,
              !.link = NewLink(old.link)]

(* How far a section pushes the next one: an empty section takes room too. *)
Advance(old) ==
  IF old.size > 0 THEN old.size ELSE IF old.align > 0 THEN old.align ELSE 1

(* Fill new_shdrs[new_index] with h, for an input section headed `old':    *)
(* what every iteration does besides the contents.                         *)
AddHeader(old, h) ==
  /\ newShdrs' = [newShdrs EXCEPT ![k] = h]
  /\ curAddr' = AlignUp(curAddr, old.align) + Advance(old)
  /\ IF old.name # ""
       THEN /\ names' = names \cup {[at |-> namesSize, str |-> old.name]}
            /\ namesSize' = namesSize + NameSize[old.name]
       ELSE UNCHANGED <<names, namesSize>>
  /\ i' = i + 1 /\ k' = k + 1
  /\ UNCHANGED <<obj, pc, j, tables, finalSize, hdr, entry, target>>

HasName(h, ns, str) == [at |-> h.name, str |-> str] \in ns

(* update_symbol_addresses, over the headers and names built so far.  The  *)
(* header of a section that has not been copied yet is uninitialised: the  *)
(* symbols in `junk' are those for which its flags and name happen to      *)
(* select it.                                                              *)
UpdatedSymbols(hdrs, ns, junk) ==
  [x \in DOMAIN syms |->
     LET n == syms[x].shndx IN
     IF n = SHN_UNDEF \/ n = SHN_ABS \/ n >= newShnum THEN syms[x]
     ELSE IF hdrs[n] = Uninitialised
       THEN [syms[x] EXCEPT !.value = @ + IF x \in junk THEN JunkAddress ELSE 0]
     ELSE IF hdrs[n].alloc /\ \E str \in RelocatedNames : HasName(hdrs[n], ns, str)
       THEN [syms[x] EXCEPT !.value = @ + hdrs[n].addr]
     ELSE syms[x]]

Copying == pc = "copy" /\ i < obj.shnum /\ mapping[i] # Removed

(* All of the section is in the file: true of what the assembler wrote,    *)
(* but SHT_NOBITS sections have a size and no contents.                    *)
Readable(s) == obj.shdrs[s].offset + obj.shdrs[s].size <= obj.fileSize

SkipRemoved ==
  /\ pc = "copy" /\ i < obj.shnum /\ mapping[i] = Removed
  /\ i' = i + 1
  /\ UNCHANGED <<obj, pc, k, j, tables, build, hdr, entry, target, out>>

CopyEmpty ==
  LET old == obj.shdrs[i] IN
  /\ Copying /\ old.size = 0
  /\ AddHeader(old, NewHeader(old))
  /\ UNCHANGED <<syms, curOff, out>>

CopySymbols ==
  LET old == obj.shdrs[i] IN
  /\ Copying /\ old.size > 0 /\ IsSymtab(obj, i)
  /\ AddHeader(old, NewHeader(old))
  /\ \E junk \in SUBSET {x \in DOMAIN syms :
                           /\ syms[x].shndx \in DOMAIN newShdrs'
                           /\ newShdrs'[syms[x].shndx] = Uninitialised} :
       syms' = UpdatedSymbols(newShdrs', names', junk)
  /\ out' = Written(out, out.end, old.size, SymbolTable(i, syms'))
  /\ curOff' = curOff + old.size

(* The name table goes out as it is now, with the size it will have.       *)
CopyNames ==
  LET old == obj.shdrs[i] IN
  /\ Copying /\ old.size > 0 /\ IsNameTable(i)
  /\ AddHeader(old, [NewHeader(old) EXCEPT !.size = finalSize])
  /\ out' = Written(out, out.end, namesSize', NameTable(i, names'))
  /\ curOff' = curOff + finalSize
  /\ UNCHANGED syms

CopyContents ==
  LET old == obj.shdrs[i] IN
  /\ Copying /\ old.size > 0 /\ ~ IsSymtab(obj, i) /\ ~ IsNameTable(i)
  /\ Readable(i)
  /\ AddHeader(old, NewHeader(old))
  /\ out' = Written(out, out.end, old.size, Contents(i, {}))
  /\ curOff' = curOff + old.size
  /\ UNCHANGED syms

CopyReadFails ==
  /\ Copying /\ obj.shdrs[i].size > 0
  /\ \/ "memory" \in Faults
     \/ /\ ~ IsSymtab(obj, i) /\ ~ IsNameTable(i)
        /\ ~ Readable(i) \/ "read" \in Faults
  /\ GotoCleanup
  /\ UNCHANGED out

CopyWriteFails ==
  /\ Copying /\ obj.shdrs[i].size > 0
  /\ WriteFails(out.end, obj.shdrs[i].size)

AllCopied ==
  /\ pc = "copy" /\ i = obj.shnum
  /\ i' = 0
  /\ Goto("relocate")
  /\ UNCHANGED <<obj, k, j, tables, build, hdr, entry, target, out>>

-----------------------------------------------------------------------------
(***************************************************************************)
(* The relocation loop: the target of each SHT_REL section is read again   *)
(* from the input, patched, and written over its copy.                     *)
(***************************************************************************)
Relocating == pc = "relocate" /\ i < obj.shnum /\ IsRel(obj, i)
TargetOf(s) == obj.shdrs[s].info

(* fread of zero bytes returns 0, which the code takes for an error.       *)
CanReload(s) == obj.shdrs[s].size > 0 /\ Readable(s)

SkipUnrelocated ==
  /\ pc = "relocate" /\ i < obj.shnum /\ ~ IsRel(obj, i)
  /\ i' = i + 1
  /\ UNCHANGED <<obj, pc, k, j, tables, build, hdr, entry, target, out>>

LoadTarget ==
  /\ Relocating
  /\ CanReload(i) /\ CanReload(TargetOf(i))
  /\ target' = {} /\ j' = 1
  /\ Goto("apply")
  /\ UNCHANGED <<obj, i, k, tables, build, hdr, entry, out>>

LoadTargetFails ==
  /\ Relocating
  /\ ~ CanReload(i) \/ ~ CanReload(TargetOf(i)) \/ "read" \in Faults
  /\ GotoCleanup
  /\ UNCHANGED out

(* One call of apply_relocation.  An entry it refuses is reported on       *)
(* stderr and leaves the word alone.                                       *)
ApplyRelocation ==
  /\ pc = "apply" /\ j <= Len(obj.rels[i])
  /\ LET r == obj.rels[i][j]
         S == syms[r.sym].value
         P == newShdrs[mapping[TargetOf(i)]].addr + r.offset
     IN target' = IF Accepted(r.type, S, P)
                    THEN {w \in target : w.offset # r.offset}
                           \cup {[offset |-> r.offset, cell |-> Relocated(r.type, S, P)]}
                    ELSE target
  /\ j' = j + 1
  /\ UNCHANGED <<obj, pc, i, k, tables, build, hdr, entry, out>>

TargetDone == pc = "apply" /\ j > Len(obj.rels[i])

(* Mutant of TargetOffset: the offset the section had in the input.        *)
OldTargetOffset(s) == obj.shdrs[TargetOf(s)].offset

TargetOffset(s) == newShdrs[mapping[TargetOf(s)]].offset

WriteTarget ==
  /\ TargetDone
  /\ out' = Written(out, TargetOffset(i), obj.shdrs[TargetOf(i)].size,
                    Contents(TargetOf(i), target))
  /\ i' = i + 1
  /\ Goto("relocate")
  /\ UNCHANGED <<obj, k, j, tables, build, hdr, entry, target>>

WriteTargetFails ==
  /\ TargetDone
  /\ WriteFails(TargetOffset(i), obj.shdrs[TargetOf(i)].size)

-----------------------------------------------------------------------------
AllRelocated ==
  /\ pc = "relocate" /\ i = obj.shnum
  /\ entry' = 0 /\ k' = 0
  /\ Goto("entry")
  /\ UNCHANGED <<obj, i, j, tables, build, hdr, target, out>>

(* The entry point is the address of the last section named .text.         *)
FindEntry ==
  /\ pc = "entry" /\ k < newShnum
  /\ entry' = IF HasName(newShdrs[k], names, ".text") THEN newShdrs[k].addr ELSE entry
  /\ k' = k + 1
  /\ UNCHANGED <<obj, pc, i, j, tables, build, hdr, target, out>>

FinishHeader ==
  /\ pc = "entry" /\ k = newShnum
  /\ hdr' = [shnum |-> newShnum, shoff |-> curOff,
             shstrndx |-> mapping[obj.shstrndx], entry |-> entry]
  /\ k' = 0
  /\ Goto("table")
  /\ UNCHANGED <<obj, i, j, tables, build, entry, target, out>>

(* The section table goes at the end of the file.                          *)
WriteSectionHeader ==
  /\ pc = "table" /\ k < newShnum
  /\ out' = Written(out, out.end, ShdrSize, Shdr(newShdrs[k]))
  /\ k' = k + 1
  /\ UNCHANGED <<obj, pc, i, j, tables, build, hdr, entry, target>>

WriteSectionHeaderFails ==
  /\ pc = "table" /\ k < newShnum
  /\ WriteFails(out.end, ShdrSize)

(* Mutant of RewriteHeader: does not wait for the whole table.             *)
RewriteHeaderEarly ==
  /\ pc = "table" /\ k <= newShnum
  /\ out' = Written(out, 0, EhdrSize, Ehdr(hdr))
  /\ Goto("cleanup")
  /\ UNCHANGED <<obj, i, k, j, tables, build, hdr, entry, target>>

RewriteHeader ==
  /\ pc = "table" /\ k = newShnum
  /\ out' = Written(out, 0, EhdrSize, Ehdr(hdr))
  /\ Goto("cleanup")
  /\ UNCHANGED <<obj, i, k, j, tables, build, hdr, entry, target>>

(* Also what a failure of the last flush, in fclose, leaves: it is not     *)
(* looked at, and what follows is the same.                                *)
RewriteHeaderFails ==
  /\ pc = "table" /\ k = newShnum
  /\ WriteFails(0, EhdrSize)

(* fclose, free, and back to main, which prints that the file was written  *)
(* and returns 0 whichever way the function got here.                      *)
Cleanup ==
  /\ pc = "cleanup"
  /\ Goto("success")
  /\ UNCHANGED <<obj, i, k, j, tables, build, hdr, entry, target, out>>

-----------------------------------------------------------------------------
Preparation ==
  \/ Load \/ LoadFails \/ MapSection \/ AllMapped
  \/ ReadSymbols \/ ReadSymbolsFails
  \/ AllocateTables \/ AllocateTablesFails \/ RenumberSymbols

Creation ==
  \/ OpenOutput \/ OpenOutputFails
  \/ WriteInitialHeader \/ WriteInitialHeaderFails \/ SizeName \/ NamesSized

Copy ==
  \/ SkipRemoved \/ CopyEmpty \/ CopySymbols \/ CopyNames \/ CopyContents
  \/ CopyReadFails \/ CopyWriteFails \/ AllCopied

Relocation ==
  \/ SkipUnrelocated \/ LoadTarget \/ LoadTargetFails \/ ApplyRelocation
  \/ WriteTarget \/ WriteTargetFails

Completion ==
  \/ AllRelocated \/ FindEntry \/ FinishHeader
  \/ WriteSectionHeader \/ WriteSectionHeaderFails
  \/ RewriteHeader \/ RewriteHeaderFails \/ Cleanup

Next == Preparation \/ Creation \/ Copy \/ Relocation \/ Completion

Spec == Init /\ [][Next]_vars

-----------------------------------------------------------------------------
(***************************************************************************)
(* Properties.                                                             *)
(***************************************************************************)
Places == {"load", "map", "symbols", "allocate", "renumber", "open", "header",
           "sizes", "copy", "relocate", "apply", "entry", "table", "cleanup", "failure", "success"}

Whats ==
  [kind : {"ehdr"}, header : ElfHeaders] \cup [kind : {"shdr"}, header : OutputHeaders]
    \cup [kind : {"contents"}, of : Nat, words : SUBSET Words]
    \cup [kind : {"symbols"}, of : Nat, syms : [DOMAIN obj.syms -> Symbols]]
    \cup [kind : {"names"}, of : Nat, names : SUBSET NameEntries]
    \cup {Torn}
Files == [exists : BOOLEAN, extents : SUBSET [at : Nat, len : Nat, what : Whats],
          end : Nat]

(* The types of the variables; newShdrs may hold uninitialised headers     *)
(* until the copy loop has filled it (process_rel.c:300-306).              *)
TypeOK ==
  /\ WellFormed(obj)
  /\ pc \in Places
  /\ i \in 0 .. obj.shnum /\ k \in 0 .. obj.shnum /\ j \in Nat
  /\ mapping \in [Sections(obj) -> {Removed} \cup Sections(obj)]
  /\ newShnum \in 0 .. obj.shnum
  /\ syms \in {<< >>} \cup [DOMAIN obj.syms -> Symbols]
  /\ newShdrs = << >>
       \/ newShdrs \in [0 .. (newShnum - 1) -> OutputHeaders \cup {Uninitialised}]
  /\ names \subseteq NameEntries
  /\ namesSize \in Nat /\ finalSize \in Nat /\ curAddr \in Nat /\ curOff \in Nat
  /\ hdr \in ElfHeaders /\ entry \in Nat
  /\ target \subseteq Words
  /\ out \in Files

(* The place of a kept section among the sections kept, counted.           *)
RankIn(o, s) == Cardinality({t \in KeptSections(o) : t < s})
Rank(s) == RankIn(obj, s)
Copied == {s \in KeptSections(obj) :
             /\ Rank(s) \in DOMAIN newShdrs
             /\ newShdrs[Rank(s)] # Uninitialised}

(* Removing sections renumbers the others, and everything that names a     *)
(* section by its index still names the same one: the headers land at the  *)
(* rank of their section, sh_link follows its section, st_shndx follows    *)
(* its section and becomes SHN_UNDEF if that one is gone                   *)
(* (process_rel.c:250-257, 312-323, 386-390).                              *)
RenumberingSound ==
  /\ \A s \in Copied :
       LET old == obj.shdrs[s]
           new == newShdrs[Rank(s)]
       IN /\ new.type = old.type /\ new.info = old.info /\ new.alloc = old.alloc
          /\ new.link = IF old.link \in KeptSections(obj) THEN Rank(old.link)
                        ELSE IF old.link < obj.shnum THEN 0 ELSE old.link
  /\ pc \notin {"load", "map", "symbols", "allocate", "renumber", "failure"} =>
       \A x \in DOMAIN syms :
         LET old == obj.syms[x].shndx
         IN syms[x].shndx = IF old \in KeptSections(obj) THEN Rank(old)
                            ELSE IF old >= SHN_LORESERVE THEN old ELSE SHN_UNDEF

(* Addresses given to sections never overlap, not even those of empty      *)
(* ones, and respect sh_addralign (process_rel.c:359-373).                 *)
LayoutSound ==
  \A s \in Copied :
    LET h == newShdrs[Rank(s)] IN
    /\ h.addr >= FirstAddress
    /\ h.align > 0 => h.addr % h.align = 0
    /\ \A t \in Copied : s < t =>
         /\ h.addr + obj.shdrs[s].size <= newShdrs[Rank(t)].addr
         /\ h.addr < newShdrs[Rank(t)].addr

(* Assemblers put the symbol table after every section a symbol is in.     *)
SymbolsAfterSections ==
  \A s \in Sections(obj), x \in DOMAIN obj.syms :
    IsSymtab(obj, s) /\ obj.syms[x].shndx \in KeptSections(obj) =>
      obj.syms[x].shndx < s

(* update_symbol_addresses moves the symbols of these sections.            *)
Moves(sym) ==
  /\ sym.shndx \in KeptSections(obj)
  /\ obj.shdrs[sym.shndx].alloc
  /\ obj.shdrs[sym.shndx].name \in RelocatedNames

(* A symbol that is in a section; index 0 is that of an undefined one.     *)
HasSection(sym) == sym.shndx \in KeptSections(obj) \ {SHN_UNDEF}

(* A symbol table in the output gives each symbol of .text, .data or .bss  *)
(* its value plus the address of its section, added once, and leaves the   *)
(* undefined and absolute ones, and those of a section that was removed,   *)
(* as they were (update_symbol_addresses, called while new_shdrs and       *)
(* new_shstrtab are half built, process_rel.c:129-162 and 403).  What the  *)
(* symbols of the other sections should be is SymbolsMoveWithSections.     *)
SymbolsRelocated ==
  SymbolsAfterSections =>
    \A e \in out.extents : e.what.kind = "symbols" =>
      \A x \in DOMAIN obj.syms :
        LET old == obj.syms[x]
            new == e.what.syms[x]
        IN /\ Moves(old) => new.value = old.value + newShdrs[Rank(old.shndx)].addr
           /\ ~ HasSection(old) => new.value = old.value

(* exit(EXIT_FAILURE) only ever happens before the output file exists.     *)
FailureLeavesNoOutput == pc = "failure" => ~ out.exists

(* The new name table is written in a buffer as large as the old table     *)
(* (process_rel.c:289 and 381), where the assembler lets a name be the end *)
(* of another: .text that of .rel.text.  In the new table each stands      *)
(* alone, and fits as long as no two sections kept share bytes of the old. *)
NamesApart ==
  \A s, t \in KeptSections(obj) :
    s # t /\ obj.shdrs[s].name # "" /\ obj.shdrs[t].name # "" =>
      \/ obj.nameAt[s] + NameSize[obj.shdrs[s].name] <= obj.nameAt[t]
      \/ obj.nameAt[t] + NameSize[obj.shdrs[t].name] <= obj.nameAt[s]
NamesFit == NamesApart => namesSize <= obj.shdrs[obj.shstrndx].size

-----------------------------------------------------------------------------
(***************************************************************************)
(* The output as a reader of the file finds it: from the ELF header on     *)
(* disk to the section table, the names, and the contents.                 *)
(***************************************************************************)
DiskEhdrs == {e.what.header : e \in {f \in out.extents : f.what.kind = "ehdr"}}
Committed == \E h \in DiskEhdrs : h # InputHeader(obj)
Ehdr0 == CHOOSE h \in DiskEhdrs : TRUE

ShdrsAt(n) ==
  {e.what.header : e \in {f \in out.extents :
     /\ f.at = Ehdr0.shoff + ShdrSize * n /\ f.len = ShdrSize
     /\ f.what.kind = "shdr"}}

At(h) == {e.what : e \in {f \in out.extents : f.at = h.offset /\ f.len = h.size}}

KindOf(s) == IF IsSymtab(obj, s) THEN "symbols"
             ELSE IF IsNameTable(s) THEN "names" ELSE "contents"

SectionReadable(s) ==
  \E h \in ShdrsAt(Rank(s)) :
    /\ h.type = obj.shdrs[s].type
    /\ h.size > 0 => \E w \in At(h) : w.kind = KindOf(s) /\ w.of = s
    /\ \E g \in ShdrsAt(Ehdr0.shstrndx) : \E w \in At(g) :
         w.kind = "names" /\ HasName(h, w.names, obj.shdrs[s].name)

(* There may be several .text; the entry point is that of the last one.    *)
LastText(s) ==
  /\ obj.shdrs[s].name = ".text"
  /\ \A t \in KeptSections(obj) : obj.shdrs[t].name = ".text" => t <= s

OutputReadable ==
  /\ Ehdr0.shnum = Cardinality(KeptSections(obj))
  /\ \A s \in KeptSections(obj) : SectionReadable(s)
  /\ \A s \in KeptSections(obj) : LastText(s) =>
       \E h \in ShdrsAt(Rank(s)) : Ehdr0.entry = h.addr

(* The order of sections of the assemblers of today: the table of section  *)
(* names is the last section.                                              *)
NamesLast == \A s \in Sections(obj) : s <= obj.shstrndx

(* The rewritten ELF header is what makes the output a new object: while   *)
(* it is on disk, whatever failed and wherever the program was stopped,    *)
(* every section it leads to is there, at the offset and with the size its *)
(* header says, and has its name (process_rel.c:375-425, 491-512).         *)
HeaderCommitsLast == NamesLast /\ Committed => OutputReadable

(* What the words hold at an offset, and what a branch at P reaches.       *)
CellsAt(words, offset) == {w.cell : w \in {v \in words : v.offset = offset}}
InReach(S, P) ==
  (S - P) % 4 = 0 /\ S - P - 8 >= -33554432 /\ S - P - 8 <= 33554431

(* A patched word agrees with the symbol table and the section addresses   *)
(* of the same file: a branch decodes to the symbol's address, a data word *)
(* holds it; an entry out of reach or misaligned left the word alone.      *)
PatchAgrees(r, words, S, P) ==
  LET cells == CellsAt(words, r.offset) IN
  CASE r.type \in {"JUMP24", "CALL"} ->
         IF InReach(S, P) THEN \E c \in cells : BranchTarget(P, c.field) = S
         ELSE cells = {}
    [] r.type = "ABS32" -> cells = {Data(4, S)}
    [] r.type = "ABS16" -> cells = {Data(2, S % HalfSize)}
    [] r.type = "ABS8" -> cells = {Data(1, S % ByteSize)}
    [] r.type = "OTHER" -> cells = {}

(* What the assembler guarantees of relocations: one SHT_REL section for a *)
(* section, one entry for a place, branches on word boundaries.            *)
RelocationsApart ==
  /\ \A s, t \in DOMAIN obj.rels : TargetOf(s) = TargetOf(t) => s = t
  /\ \A s \in DOMAIN obj.rels : \A m, n \in DOMAIN obj.rels[s] :
       obj.rels[s][m].offset = obj.rels[s][n].offset => m = n
BranchesAligned ==
  \A s \in DOMAIN obj.rels : \A n \in DOMAIN obj.rels[s] :
    obj.rels[s][n].type \in {"JUMP24", "CALL"} =>
      /\ obj.shdrs[TargetOf(s)].align > 0 /\ obj.shdrs[TargetOf(s)].align % 4 = 0
      /\ obj.rels[s][n].offset % 4 = 0
Assembled == NamesLast /\ RelocationsApart /\ BranchesAligned

RelocationAgrees(s, r) ==
  \E h \in ShdrsAt(Rank(TargetOf(s))) : \E w \in At(h) :
    \E e \in out.extents :
      /\ w.kind = "contents" /\ e.what.kind = "symbols"
      /\ PatchAgrees(r, w.words, e.what.syms[r.sym].value, h.addr + r.offset)

(* In a committed output every relocation of the input has been applied,   *)
(* with the values the output itself states (process_rel.c:165-236,        *)
(* 433-481).                                                               *)
PatchesAgree ==
  Assembled /\ Committed =>
    \A s \in DOMAIN obj.rels : \A n \in 1 .. Len(obj.rels[s]) :
      RelocationAgrees(s, obj.rels[s][n])

(* Once bytes are written, a step leaves an extent alone or rewrites it    *)
(* whole: the offsets the headers record are those of the file             *)
(* (process_rel.c:375 against the position of the stream).                 *)
WritesNeverClobber ==
  [][NamesLast => \A e \in out.extents : \E f \in out'.extents :
       f.at = e.at /\ f.len = e.len]_out

(* Without a failure of the environment, an object the loops can read      *)
(* whole is turned into a committed, readable output.                      *)
Supported ==
  /\ obj.elf /\ NamesLast /\ Faults = {}
  /\ \A s \in Sections(obj) : Readable(s)
  /\ \A s \in DOMAIN obj.rels : CanReload(s) /\ CanReload(TargetOf(s))
SupportedCompletes == Supported => <>(pc = "success" /\ Committed /\ OutputReadable)

-----------------------------------------------------------------------------
(***************************************************************************)
(* What the repository says of the program, where the program does not     *)
(* follow it: a run finds it violated.                                     *)
(***************************************************************************)

(* tests/TEST_ETAPE6/supprimer_REL.sh:32-33 takes exit status 0 for "the   *)
(* modified file was written".  Every goto cleanup ends in return 0; with  *)
(* a .bss larger than the rest of the file it happens on its own, since    *)
(* the copy loop reads SHT_NOBITS sections (process_rel.c:420).            *)
ExitZeroMeansWritten == pc = "success" => Committed

(* tests/TEST_ETAPE7/test_ETAPE7.sh:84 asks of every symbol in a section   *)
(* that its value in the modified file be the original one plus the        *)
(* address of the section there.  update_symbol_addresses only does it for *)
(* .text, .data and .bss, so a symbol of .rodata keeps its offset although *)
(* its section has been given an address (process_rel.c:144-147).          *)
SymbolsMoveWithSections ==
  Committed =>
    \A e \in out.extents : e.what.kind = "symbols" =>
      \A x \in DOMAIN obj.syms : HasSection(obj.syms[x]) =>
        \E h \in ShdrsAt(Rank(obj.syms[x].shndx)) :
          e.what.syms[x].value = obj.syms[x].value + h.addr
=============================================================================
