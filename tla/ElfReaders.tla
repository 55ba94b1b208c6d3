---------------------------- MODULE ElfReaders ----------------------------
(***************************************************************************)
(* elf_readelf: what each of its options reads of an object file, in which *)
(* order, and what its error paths give back (the heap blocks of the loop  *)
(* over the sections, the stream).  The text printed is left out.          *)
(*                                                                         *)
(* The fields of the file are big endian.  Every reader but -x sizes its   *)
(* buffers with the swapped fields; -x allocates its two tables with the   *)
(* fields as they stand in the file.                                       *)
(***************************************************************************)
EXTENDS Integers, Sequences

CONSTANTS
  Inputs,   \* the object files
  Options   \* the options given: "h", "S", "s", "r", "x"

Byte == 0 .. 255
Word == [1 .. 4 -> Byte]  \* an Elf32_Word as it stands in the file
Half == [1 .. 2 -> Byte]

\* "symtab" stands for SHT_SYMTAB and SHT_DYNSYM, which -s treats alike; size
\* and strings tell whether the file really holds the section's bytes
\* and those of the string table it links to.
Sections ==
  [type : {"symtab", "rel", "other"}, entsize : Nat, size : BOOLEAN, strings : BOOLEAN]

\* A file: whether each part can be read, and the sizes of its two tables.
Files ==
  [header : BOOLEAN, magic : BOOLEAN, table : BOOLEAN,
   names : {"absent", "whole", "short"}, namesSize : Word, sections : Seq(Sections)]

ASSUME InputsAssumption ==
  /\ Inputs \subseteq Files
  /\ \A f \in Inputs : Len(f.sections) < 65536  \* e_shnum is a Half
ASSUME OptionsAssumption == Options \subseteq {"h", "S", "s", "r", "x"}

VARIABLES
  option,   \* the option being processed
  input,    \* the file it names
  pc,       \* what it reads next; how it ended
  section,  \* the section the loop is at, or the one -x was asked for
  closes,   \* how often fclose was called on the stream
  blocks    \* the heap blocks of the loop that are allocated

vars == <<option, input, pc, section, closes, blocks>>

Ends == {"unopened", "returned", "exited", "crashed", "undefined"}

(***************************************************************************)
(* Big-endian fields on a little-endian host                               *)
(***************************************************************************)
HalfValue(h) == 256 * h[1] + h[2]         \* ntohs(h)
RawHalfValue(h) == 256 * h[2] + h[1]      \* h
ShentsizeField == <<0, 40>>               \* e_shentsize of an Elf32 file

\* ntohl(w) and w as sequences of bytes, the most significant first.
Swapped(w) == w

(* Mutant of Raw: the field is converted, but with ntohs.                  *)
RawNtohs(w) == <<0, 0, w[1], w[2]>>

Raw(w) == [i \in 1 .. 4 |-> w[5 - i]]

AtLeast(v, w) ==
  \/ v = w
  \/ \E i \in 1 .. 4 : v[i] > w[i] /\ \A j \in 1 .. i - 1 : v[j] = w[j]

TableSize(shnum) == HalfValue(ShentsizeField) * HalfValue(shnum)
RawTableSize(shnum) == RawHalfValue(ShentsizeField) * RawHalfValue(shnum)

Shnum(f) == <<Len(f.sections) \div 256, Len(f.sections) % 256>>

TableAllocated(f) ==
  IF option = "x" THEN RawTableSize(Shnum(f)) ELSE TableSize(Shnum(f))

NamesAllocated(f) ==
  IF option = "x" THEN Raw(f.namesSize) ELSE Swapped(f.namesSize)

-----------------------------------------------------------------------------
Init ==
  /\ option \in Options
  /\ input \in Inputs
  /\ pc = "open"
  /\ section \in IF option = "x" THEN 0 .. Len(input.sections) ELSE {1}
  /\ closes = 0
  /\ blocks = {}

Goto(next) == pc' = next
Closed == closes' = closes + 1
StreamKept == UNCHANGED closes

(* Mutant of MainCloses: main closes the stream after -S as well.          *)
MainClosesAfterS == option \in {"h", "S", "s"}

\* main closes the stream itself after -h and -s; the others did it.
MainCloses == option \in {"h", "s"}

\* The reader returns to main, having closed the stream or not.
Return(closed) ==
  /\ Goto("returned")
  /\ closes' = closes + (IF closed THEN 1 ELSE 0) + (IF MainCloses THEN 1 ELSE 0)

\* exit(EXIT_FAILURE), with or without the fclose before it.
Exit(closed) ==
  /\ Goto("exited")
  /\ closes' = closes + (IF closed THEN 1 ELSE 0)

Same == UNCHANGED <<option, input, section, blocks>>

Open ==
  /\ pc = "open"
  /\ Goto("header")
  /\ StreamKept
  /\ Same

\* There is no stream: main, and read_section_content, leave the option at that.
OpenFails ==
  /\ pc = "open"
  /\ Goto("unopened")
  /\ StreamKept
  /\ Same

(***************************************************************************)
(* get_header and the check of the magic number.  When the header cannot   *)
(* be allocated or read get_header closes the stream and returns NULL,     *)
(* which every caller dereferences; -x reads the header itself.            *)
(***************************************************************************)
ReadHeader ==
  /\ pc = "header"
  /\ input.header
  /\ Goto("magic")
  /\ StreamKept
  /\ Same

ReadHeaderFails ==
  /\ pc = "header"
  /\ IF option = "x" THEN Return(TRUE) ELSE Goto("crashed") /\ Closed
  /\ Same

CheckMagic ==
  /\ pc = "magic"
  /\ input.magic
  /\ IF option = "h" THEN Return(FALSE) ELSE Goto("table") /\ StreamKept
  /\ Same

BadMagic ==
  /\ pc = "magic"
  /\ ~input.magic
  /\ \/ option = "h" /\ Return(FALSE)
     \/ option \in {"S", "s"} /\ Exit(TRUE)
     \/ option = "r" /\ Exit(FALSE)
     \/ option = "x" /\ Return(TRUE)
  /\ Same

(***************************************************************************)
(* get_sections and get_shstrtab, and the code -x has in their place.      *)
(* Each fails when the bytes cannot be read and when malloc does.          *)
(***************************************************************************)
TableFails ==
  /\ IF option = "x" THEN Return(TRUE) ELSE Exit(TRUE)
  /\ Same

ReadSections ==
  /\ pc = "table"
  /\ input.table
  /\ Goto(IF TableAllocated(input) >= TableSize(Shnum(input)) THEN "names" ELSE "undefined")
  /\ StreamKept
  /\ Same

ReadSectionsFails ==
  /\ pc = "table"
  /\ TableFails

ReadNames ==
  /\ pc = "names"
  /\ input.names # "short"
  /\ Goto(IF input.names = "absent" \/ AtLeast(NamesAllocated(input), Swapped(input.namesSize))
          THEN "sections" ELSE "undefined")
  /\ StreamKept
  /\ Same

ReadNamesFails ==
  /\ pc = "names"
  /\ input.names # "absent"
  /\ TableFails

(***************************************************************************)
(* The loops over the sections                                             *)
(***************************************************************************)
Current == input.sections[section]
InLoop == pc = "sections" /\ section \in DOMAIN input.sections

(* Mutant of NextSection: every other section is passed over.              *)
NextButOne == section' = section + 2

NextSection == section' = section + 1

\* -S prints every header; -s and -r skip the sections of another type.
SkipSection ==
  /\ InLoop
  /\ \/ option = "S"
     \/ option = "s" /\ Current.type # "symtab"
     \/ option = "r" /\ Current.type # "rel"
  /\ NextSection
  /\ UNCHANGED <<option, input, pc, closes, blocks>>

\* afficher_table_symboles allocates and reads the symbols, then the strings.
AtSymbols == InLoop /\ option = "s" /\ Current.type = "symtab"

ReadSymbols ==
  /\ AtSymbols
  /\ blocks = {}
  /\ Current.size
  /\ blocks' = {"symbols"}
  /\ UNCHANGED <<option, input, pc, section, closes>>

ReadSymbolsFails ==
  /\ AtSymbols
  /\ blocks = {}
  /\ ~Current.size
  /\ Return(FALSE)
  /\ blocks' = {}
  /\ UNCHANGED <<option, input, section>>

(* Mutant of ReadStringsFails: returns without free(symbols).              *)
ReadStringsFailsLeaks ==
  /\ AtSymbols
  /\ blocks = {"symbols"}
  /\ ~Current.strings
  /\ Return(FALSE)
  /\ Same

ReadStringsFails ==
  /\ AtSymbols
  /\ blocks = {"symbols"}
  /\ ~Current.strings
  /\ Return(FALSE)
  /\ blocks' = {}
  /\ UNCHANGED <<option, input, section>>

PrintSymbols ==
  /\ AtSymbols
  /\ blocks = {"symbols"}
  /\ Current.strings
  /\ IF Current.entsize = 0
     THEN Goto("crashed") /\ blocks' = {"symbols", "strtab"} /\ UNCHANGED section
     ELSE UNCHANGED pc /\ blocks' = {} /\ NextSection
  /\ UNCHANGED <<option, input, closes>>

\* print_relocation_info divides by the size of an entry before it reads, and
\* goes on with the next section when it cannot read.
AtRelocations == InLoop /\ option = "r" /\ Current.type = "rel"

AllocateRelocations ==
  /\ AtRelocations
  /\ blocks = {}
  /\ IF Current.entsize = 0 THEN Goto("crashed") /\ UNCHANGED blocks
     ELSE UNCHANGED pc /\ blocks' = {"rels"}
  /\ UNCHANGED <<option, input, section, closes>>

AllocateRelocationsFails ==
  /\ AtRelocations
  /\ blocks = {}
  /\ Current.entsize # 0
  /\ NextSection
  /\ UNCHANGED <<option, input, pc, closes, blocks>>

\* The relocations are printed, or an error; both ways the block is freed.
PrintRelocations ==
  /\ AtRelocations
  /\ blocks = {"rels"}
  /\ blocks' = {}
  /\ NextSection
  /\ UNCHANGED <<option, input, pc, closes>>

EndOfSections ==
  /\ pc = "sections"
  /\ option # "x"
  /\ section \notin DOMAIN input.sections
  /\ Return(option \in {"S", "r"})
  /\ Same

(***************************************************************************)
(* -x: afficher_contenu_section for the section asked for, a message when  *)
(* there is none; read_section_content cleans up after it.                 *)
(***************************************************************************)
AtContents == pc = "sections" /\ option = "x"

SectionNotFound ==
  /\ AtContents
  /\ section = 0
  /\ Return(TRUE)
  /\ Same

ReadContents ==
  /\ AtContents
  /\ section # 0
  /\ blocks = {}
  /\ Current.size
  /\ blocks' = {"contents"}
  /\ UNCHANGED <<option, input, pc, section, closes>>

ReadContentsFails ==
  /\ AtContents
  /\ section # 0
  /\ blocks = {}
  /\ Return(TRUE)
  /\ Same

PrintContents ==
  /\ AtContents
  /\ blocks = {"contents"}
  /\ blocks' = {}
  /\ Return(TRUE)
  /\ UNCHANGED <<option, input, section>>

Next ==
  \/ Open \/ OpenFails
  \/ ReadHeader \/ ReadHeaderFails \/ CheckMagic \/ BadMagic
  \/ ReadSections \/ ReadSectionsFails \/ ReadNames \/ ReadNamesFails
  \/ SkipSection
  \/ ReadSymbols \/ ReadSymbolsFails \/ ReadStringsFails \/ PrintSymbols
  \/ AllocateRelocations \/ AllocateRelocationsFails \/ PrintRelocations
  \/ EndOfSections
  \/ SectionNotFound \/ ReadContents \/ ReadContentsFails \/ PrintContents

Spec == Init /\ [][Next]_vars

(***************************************************************************)
(* Properties                                                              *)
(***************************************************************************)
TypeOK ==
  /\ option \in Options
  /\ pc \in Ends \cup {"open", "header", "magic", "table", "names", "sections"}
  /\ section \in 0 .. Len(input.sections) + 1
  /\ closes \in 0 .. 2
  /\ blocks \subseteq {"symbols", "strtab", "rels", "contents"}

\* Whatever could be read, a reader that comes back to main has had its
\* stream closed exactly once, by itself or by main; and no path closes twice.
ClosedOnce ==
  /\ closes <= 1
  /\ pc = "returned" => closes = 1

\* No path of the loops, the error paths among them, leaves a block of its
\* section allocated when it goes on to the next one or returns.
LoopBlocksReleased ==
  [][section' # section \/ pc' = "returned" => blocks' = {}]_vars

\* The tables fit in the buffers allocated for them, also where -x uses the
\* fields of the file unswapped, for string tables below 64 KiB.
SmallTablesFit ==
  input.namesSize[1] = 0 /\ input.namesSize[2] = 0 => pc # "undefined"
=============================================================================
