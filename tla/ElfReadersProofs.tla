-------------------------- MODULE ElfReadersProofs --------------------------
(***************************************************************************)
(* The two tables that -x allocates with the fields of the file unswapped: *)
(* for every number of sections the section table fits, and for every      *)
(* string table below 64 KiB the names fit.  And what the readers give     *)
(* back: the heap blocks of a section, and the stream, which is closed     *)
(* whenever the reader comes back to main, and never twice.                *)
(***************************************************************************)
EXTENDS ElfReaders, TLAPS

\* 40 * (256 * hi + lo) never exceeds 10240 * (256 * lo + hi).
LEMMA RawTableFits ==
  ASSUME NEW h \in Half
  PROVE  RawTableSize(h) >= TableSize(h)
<1> DEFINE hi == h[1]
           lo == h[2]
<1>1. hi \in 0 .. 255 /\ lo \in 0 .. 255
  BY DEF Half, Byte
<1>2. HalfValue(ShentsizeField) = 40 /\ RawHalfValue(ShentsizeField) = 10240
  BY DEF HalfValue, RawHalfValue, ShentsizeField
<1>3. HalfValue(h) = 256 * hi + lo /\ RawHalfValue(h) = 256 * lo + hi
  BY DEF HalfValue, RawHalfValue
<1> HIDE DEF hi, lo
<1>4. 10240 * (256 * lo + hi) >= 40 * (256 * hi + lo)
  BY <1>1
<1> QED
  BY <1>2, <1>3, <1>4 DEF RawTableSize, TableSize

\* With its two high bytes 0 a word read the wrong way round is no smaller.
LEMMA RawWordAtLeast ==
  ASSUME NEW w \in Word, w[1] = 0, w[2] = 0
  PROVE  AtLeast(Raw(w), Swapped(w))
<1> DEFINE r == Raw(w)
<1>1. w[3] \in Nat /\ w[4] \in Nat
  BY DEF Word, Byte
<1>2. r[1] = w[4] /\ r[2] = w[3] /\ r[3] = 0 /\ r[4] = 0
  BY DEF Raw
<1>3. CASE w[4] > 0
  <2>1. r[1] > w[1] /\ \A j \in 1 .. 0 : r[j] = w[j]
    BY <1>2, <1>3
  <2> HIDE DEF r
  <2>2. \E i \in 1 .. 4 : r[i] > w[i] /\ \A j \in 1 .. i - 1 : r[j] = w[j]
    BY <2>1
  <2> QED
    BY <2>2 DEF AtLeast, Swapped, r
<1>4. CASE w[4] = 0 /\ w[3] > 0
  <2>1. r[2] > w[2] /\ \A j \in 1 .. 2 - 1 : r[j] = w[j]
    BY <1>2, <1>4
  <2> HIDE DEF r
  <2>2. \E i \in 1 .. 4 : r[i] > w[i] /\ \A j \in 1 .. i - 1 : r[j] = w[j]
    BY <2>1
  <2> QED
    BY <2>2 DEF AtLeast, Swapped, r
<1>5. CASE w[4] = 0 /\ w[3] = 0
  <2>1. \A i \in 1 .. 4 : r[i] = w[i]
    BY <1>2, <1>5
  <2>2. r = w
    BY <2>1 DEF Raw, Word
  <2> QED
    BY <2>2 DEF AtLeast, Swapped
<1> QED
  BY <1>1, <1>3, <1>4, <1>5

\* A word is at least itself.
LEMMA AtLeastItself ==
  ASSUME NEW w
  PROVE  AtLeast(w, w)
BY DEF AtLeast

\* The number of sections is the value of its field.
LEMMA ShnumIsHalf ==
  ASSUME NEW f \in Inputs
  PROVE  Shnum(f) \in Half
<1>1. Len(f.sections) \in Nat /\ Len(f.sections) < 65536
  BY InputsAssumption DEF Files
<1> DEFINE n == Len(f.sections)
<1> HIDE DEF n
<1>2. n \in Nat /\ n < 65536
  BY <1>1 DEF n
<1>3. n \div 256 \in 0 .. 255 /\ n % 256 \in 0 .. 255
  BY <1>2
<1>4. Shnum(f) = <<n \div 256, n % 256>>
  BY DEF Shnum, n
<1> QED
  BY <1>3, <1>4 DEF Half, Byte

-----------------------------------------------------------------------------
(***************************************************************************)
(* The inductive invariant: the input is one of the files, and the buffers *)
(* have been large enough so far.                                          *)
(***************************************************************************)
IInv == input \in Inputs /\ SmallTablesFit

LEMMA InitHolds == Init => IInv
BY DEF Init, IInv, SmallTablesFit

LEMMA ReadSectionsStep ==
  ASSUME IInv, ReadSections
  PROVE  pc' # "undefined"
<1>1. TableAllocated(input) >= TableSize(Shnum(input))
  <2>1. Shnum(input) \in Half
    BY ShnumIsHalf DEF IInv
  <2>2. TableSize(Shnum(input)) \in Int
    <3>1. Shnum(input)[1] \in Int /\ Shnum(input)[2] \in Int
      BY <2>1 DEF Half, Byte
    <3>2. HalfValue(ShentsizeField) = 40
      BY DEF HalfValue, ShentsizeField
    <3>3. HalfValue(Shnum(input)) \in Int
      BY <3>1 DEF HalfValue
    <3> QED
      BY <3>2, <3>3 DEF TableSize
  <2> QED
    BY <2>1, <2>2, RawTableFits DEF TableAllocated
<1> QED
  BY <1>1 DEF ReadSections, Goto

LEMMA ReadNamesStep ==
  ASSUME IInv, ReadNames, input.namesSize[1] = 0, input.namesSize[2] = 0
  PROVE  pc' # "undefined"
<1>1. input.namesSize \in Word
  BY InputsAssumption DEF IInv, Files
<1>2. AtLeast(NamesAllocated(input), Swapped(input.namesSize))
  BY <1>1, RawWordAtLeast, AtLeastItself DEF NamesAllocated
<1> QED
  BY <1>2 DEF ReadNames, Goto

LEMMA StepHolds == IInv /\ [Next]_vars => IInv'
<1> SUFFICES ASSUME IInv, [Next]_vars PROVE IInv'
  OBVIOUS
<1>1. input' = input
  BY DEF Next, vars, Open, OpenFails, ReadHeader, ReadHeaderFails, CheckMagic, BadMagic,
     ReadSections, ReadSectionsFails, ReadNames, ReadNamesFails, SkipSection,
     ReadSymbols, ReadSymbolsFails, ReadStringsFails, PrintSymbols, AllocateRelocations,
     AllocateRelocationsFails, PrintRelocations, EndOfSections, SectionNotFound, ReadContents, ReadContentsFails,
     PrintContents, TableFails, Same
<1>2. CASE ReadSections
  BY <1>1, <1>2, ReadSectionsStep DEF IInv, SmallTablesFit
<1>3. CASE ReadNames
  BY <1>1, <1>3, ReadNamesStep DEF IInv, SmallTablesFit
<1>4. CASE ~ReadSections /\ ~ReadNames
  <2>1. pc' # "undefined" \/ pc' = pc
    BY <1>4
    DEF Next, vars, Open, OpenFails, ReadHeader, ReadHeaderFails, CheckMagic, BadMagic,
        ReadSectionsFails, ReadNamesFails, SkipSection,
        ReadSymbols, ReadSymbolsFails, ReadStringsFails, PrintSymbols, AllocateRelocations,
        AllocateRelocationsFails, PrintRelocations, EndOfSections, SectionNotFound, ReadContents, ReadContentsFails,
        PrintContents, TableFails, Goto, Return, Exit
  <2> QED
    BY <1>1, <2>1 DEF IInv, SmallTablesFit
<1> QED
  BY <1>2, <1>3, <1>4

\* -x never overruns its tables when the string table is below 64 KiB,
\* whatever the number of sections and the option.
THEOREM TablesNeverOverrun == Spec => []SmallTablesFit
<1>1. IInv => SmallTablesFit
  BY DEF IInv
<1> QED
  BY <1>1, InitHolds, StepHolds, PTL DEF Spec

-----------------------------------------------------------------------------
(***************************************************************************)
(* The stream                                                              *)
(***************************************************************************)
\* The stream is open until the option ends.  Past the check of the magic number
\* -h is done, so that whoever closes is settled by the option.
StreamInv ==
  /\ option \in {"h", "S", "s", "r", "x"}
  /\ pc \in Ends \cup {"open", "header", "magic", "table", "names", "sections"}
  /\ pc \in {"table", "names", "sections"} => option # "h"
  /\ pc \notin {"returned", "exited", "crashed"} => closes = 0
  /\ pc \in {"exited", "crashed"} => closes \in 0 .. 1
  /\ pc = "returned" => closes = 1

LEMMA StreamInit == Init => StreamInv
BY OptionsAssumption DEF Init, StreamInv, Ends

LEMMA StreamStep == StreamInv /\ [Next]_vars => StreamInv'
<1> SUFFICES ASSUME StreamInv, [Next]_vars PROVE StreamInv'
  OBVIOUS
<1> USE DEF StreamInv, Ends, Goto, Return, Exit, Closed, StreamKept, MainCloses, Same
<1>1. CASE Open \/ OpenFails \/ ReadHeader \/ ReadHeaderFails
  BY <1>1 DEF Open, OpenFails, ReadHeader, ReadHeaderFails
<1>2. CASE CheckMagic
  BY <1>2 DEF CheckMagic
<1>3. CASE BadMagic
  BY <1>3 DEF BadMagic
<1>4. CASE ReadSections \/ ReadNames
  BY <1>4 DEF ReadSections, ReadNames
<1>5. CASE ReadSectionsFails \/ ReadNamesFails
  BY <1>5 DEF ReadSectionsFails, ReadNamesFails, TableFails
<1>6. CASE SkipSection \/ ReadSymbols \/ AllocateRelocationsFails \/ PrintRelocations \/ ReadContents
  BY <1>6 DEF SkipSection, ReadSymbols, AllocateRelocationsFails, PrintRelocations, ReadContents
<1>7. CASE ReadSymbolsFails \/ ReadStringsFails
  BY <1>7 DEF ReadSymbolsFails, ReadStringsFails, AtSymbols, InLoop
<1>8. CASE PrintSymbols \/ AllocateRelocations
  BY <1>8 DEF PrintSymbols, AllocateRelocations, AtSymbols, AtRelocations, InLoop
<1>9. CASE EndOfSections
  BY <1>9 DEF EndOfSections
<1>10. CASE SectionNotFound \/ ReadContentsFails \/ PrintContents
  BY <1>10 DEF SectionNotFound, ReadContentsFails, PrintContents, AtContents
<1>11. CASE UNCHANGED vars
  BY <1>11 DEF vars
<1> QED
  BY <1>1, <1>2, <1>3, <1>4, <1>5, <1>6, <1>7, <1>8, <1>9, <1>10, <1>11 DEF Next

\* ClosedOnce: a reader that comes back to main has had its stream closed once,
\* by itself or by main, and no path closes it twice, whatever option and file,
\* and wherever a read fails.  Nothing more is said of the paths that exit
\* inside a reader: the one of -r on a bad magic number (elf_relocation.c:27-29)
\* closes nothing.
THEOREM StreamClosedOnce == Spec => []ClosedOnce
<1>1. StreamInv => ClosedOnce
  BY DEF StreamInv, ClosedOnce, Ends
<1> QED
  BY <1>1, StreamInit, StreamStep, PTL DEF Spec

-----------------------------------------------------------------------------
(***************************************************************************)
(* The types                                                               *)
(***************************************************************************)
\* The stream may be closed twice as far as the types go; that it is not is
\* StreamInv.  The loop stops one past the last section.
Typed == input \in Inputs /\ StreamInv /\ TypeOK

LEMMA SectionsCounted ==
  ASSUME NEW f \in Inputs
  PROVE  Len(f.sections) \in Nat /\ DOMAIN f.sections = 1 .. Len(f.sections)
BY InputsAssumption DEF Files

LEMMA TypedInit == Init => Typed
<1> SUFFICES ASSUME Init PROVE Typed
  OBVIOUS
<1>1. input \in Inputs /\ Len(input.sections) \in Nat
  BY SectionsCounted DEF Init
<1>2. section \in 0 .. Len(input.sections) + 1
  <2>1. section \in 0 .. Len(input.sections) \/ section = 1
    BY DEF Init
  <2> QED
    BY <1>1, <2>1
<1> QED
  BY <1>1, <1>2, StreamInit DEF Init, Typed, TypeOK

\* Only a section that exists is passed.
LEMMA SectionMoves ==
  ASSUME Typed, [Next]_vars
  PROVE  section' = section \/ (section \in DOMAIN input.sections /\ section' = section + 1)
<1> USE DEF NextSection, InLoop, AtSymbols, AtRelocations, Same
<1>1. CASE SkipSection \/ ReadSymbols \/ ReadSymbolsFails \/ ReadStringsFails \/ PrintSymbols
  BY <1>1 DEF SkipSection, ReadSymbols, ReadSymbolsFails, ReadStringsFails, PrintSymbols
<1>2. CASE AllocateRelocations \/ AllocateRelocationsFails \/ PrintRelocations
  BY <1>2 DEF AllocateRelocations, AllocateRelocationsFails, PrintRelocations
<1>3. CASE \/ Open \/ OpenFails \/ ReadHeader \/ ReadHeaderFails
           \/ CheckMagic \/ BadMagic \/ ReadSections \/ ReadSectionsFails
           \/ ReadNames \/ ReadNamesFails
  BY <1>3 DEF Open, OpenFails, ReadHeader, ReadHeaderFails, CheckMagic, BadMagic,
              ReadSections, ReadSectionsFails, ReadNames, ReadNamesFails, TableFails
<1>4. CASE EndOfSections \/ SectionNotFound \/ ReadContents \/ ReadContentsFails \/ PrintContents
  BY <1>4 DEF EndOfSections, SectionNotFound, ReadContents, ReadContentsFails, PrintContents
<1>5. CASE UNCHANGED vars
  BY <1>5 DEF vars
<1> QED
  BY <1>1, <1>2, <1>3, <1>4, <1>5 DEF Next

\* Nothing is allocated but by the readers of symbols, relocations and contents.
LEMMA BlocksTyped ==
  ASSUME Typed, [Next]_vars
  PROVE  blocks' \subseteq {"symbols", "strtab", "rels", "contents"}
<1>1. blocks \subseteq {"symbols", "strtab", "rels", "contents"}
  BY DEF Typed, TypeOK
<1>2. \/ blocks' = blocks \/ blocks' = {} \/ blocks' = {"symbols"} \/ blocks' = {"rels"}
      \/ blocks' = {"contents"} \/ blocks' = {"symbols", "strtab"}
  BY DEF Next, vars, Same, Open, OpenFails, ReadHeader, ReadHeaderFails, CheckMagic, BadMagic,
         ReadSections, ReadSectionsFails, ReadNames, ReadNamesFails, TableFails, SkipSection,
         ReadSymbols, ReadSymbolsFails, ReadStringsFails, PrintSymbols, AllocateRelocations,
         AllocateRelocationsFails, PrintRelocations, EndOfSections, SectionNotFound,
         ReadContents, ReadContentsFails, PrintContents
<1> QED
  BY <1>1, <1>2

LEMMA FileKept ==
  ASSUME [Next]_vars
  PROVE  input' = input /\ option' = option
BY DEF Next, vars, Same, Open, OpenFails, ReadHeader, ReadHeaderFails, CheckMagic, BadMagic,
       ReadSections, ReadSectionsFails, ReadNames, ReadNamesFails, TableFails, SkipSection,
       ReadSymbols, ReadSymbolsFails, ReadStringsFails, PrintSymbols, AllocateRelocations,
       AllocateRelocationsFails, PrintRelocations, EndOfSections, SectionNotFound,
       ReadContents, ReadContentsFails, PrintContents

LEMMA TypedStep == Typed /\ [Next]_vars => Typed'
<1> SUFFICES ASSUME Typed, [Next]_vars PROVE Typed'
  OBVIOUS
<1>1. StreamInv'
  BY StreamStep DEF Typed
<1>2. input' = input /\ option' = option
  BY FileKept
<1>3. /\ input \in Inputs /\ option \in Options
      /\ section \in 0 .. Len(input.sections) + 1
  BY DEF Typed, TypeOK
<1>4. Len(input.sections) \in Nat /\ DOMAIN input.sections = 1 .. Len(input.sections)
  BY <1>3, SectionsCounted
<1>5. section' \in 0 .. Len(input.sections) + 1
  BY <1>3, <1>4, SectionMoves
<1>6. closes' \in 0 .. 2 /\ pc' \in Ends \cup {"open", "header", "magic", "table", "names", "sections"}
  BY <1>1 DEF StreamInv, Ends
<1> QED
  BY <1>1, <1>2, <1>3, <1>5, <1>6, BlocksTyped DEF Typed, TypeOK

\* TypeOK: the loops of elf_readelf stop one past the last section, and what
\* they hold is one of the four kinds of blocks.
THEOREM ReadersTyped == Spec => []TypeOK
<1>1. Typed => TypeOK
  BY DEF Typed
<1> QED
  BY <1>1, TypedInit, TypedStep, PTL DEF Spec

-----------------------------------------------------------------------------
(***************************************************************************)
(* The heap blocks                                                         *)
(***************************************************************************)
\* A block belongs to the section the loop is at.
BlocksInv ==
  \/ pc = "crashed"
  \/ blocks = {}
  \/ blocks = {"symbols"} /\ AtSymbols
  \/ blocks = {"rels"} /\ AtRelocations
  \/ blocks = {"contents"} /\ AtContents /\ section # 0

Released == section' # section \/ pc' = "returned" => blocks' = {}

LEMMA BlocksStep == BlocksInv /\ [Next]_vars => BlocksInv' /\ (Released \/ UNCHANGED vars)
<1> SUFFICES ASSUME BlocksInv, [Next]_vars PROVE BlocksInv' /\ (Released \/ UNCHANGED vars)
  OBVIOUS
<1> USE DEF BlocksInv, Released, AtSymbols, AtRelocations, AtContents, InLoop, Current,
            Goto, Return, Exit, Same
<1>1. CASE \/ Open \/ OpenFails \/ ReadHeader \/ ReadHeaderFails
           \/ CheckMagic \/ BadMagic \/ ReadSections \/ ReadSectionsFails
           \/ ReadNames \/ ReadNamesFails
  <2>1. pc \in {"open", "header", "magic", "table", "names"}
    BY <1>1 DEF Open, OpenFails, ReadHeader, ReadHeaderFails, CheckMagic, BadMagic,
                ReadSections, ReadSectionsFails, ReadNames, ReadNamesFails
  <2>2. blocks = {}
    BY <2>1
  <2>3. UNCHANGED <<section, blocks>>
    BY <1>1 DEF Open, OpenFails, ReadHeader, ReadHeaderFails, CheckMagic, BadMagic,
                ReadSections, ReadSectionsFails, ReadNames, ReadNamesFails, TableFails
  <2> QED
    BY <2>2, <2>3
<1>2. CASE SkipSection
  BY <1>2 DEF SkipSection
<1>3. CASE ReadSymbols \/ ReadSymbolsFails \/ ReadStringsFails
  BY <1>3 DEF ReadSymbols, ReadSymbolsFails, ReadStringsFails
<1>4. CASE PrintSymbols
  BY <1>4 DEF PrintSymbols
<1>5. CASE AllocateRelocations \/ AllocateRelocationsFails \/ PrintRelocations
  BY <1>5 DEF AllocateRelocations, AllocateRelocationsFails, PrintRelocations
<1>6. CASE EndOfSections
  BY <1>6 DEF EndOfSections
<1>7. CASE SectionNotFound \/ ReadContents \/ ReadContentsFails \/ PrintContents
  BY <1>7 DEF SectionNotFound, ReadContents, ReadContentsFails, PrintContents
<1>8. CASE UNCHANGED vars
  BY <1>8 DEF vars
<1> QED
  BY <1>1, <1>2, <1>3, <1>4, <1>5, <1>6, <1>7, <1>8 DEF Next

\* LoopBlocksReleased: the error paths of the loops, too, free the blocks of a
\* section before the next one.
THEOREM BlocksReleased == Spec => LoopBlocksReleased
<1>1. Init => BlocksInv
  BY DEF Init, BlocksInv
<1>2. Spec => [][Released]_vars
  BY <1>1, BlocksStep, PTL DEF Spec
<1> QED
  BY <1>2 DEF LoopBlocksReleased, Released
=============================================================================
