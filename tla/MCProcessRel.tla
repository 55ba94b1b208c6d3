----------------------------- MODULE MCProcessRel -----------------------------
(***************************************************************************)
(* Small object files for ProcessRel, built as the GNU assembler lays them *)
(* out: null section, code and data each followed by its relocations, then *)
(* symbol table, strings and section names.                                *)
(***************************************************************************)
EXTENDS ProcessRel, FiniteSetsExt, TLC

MCNameSize ==
  ".text" :> 6 @@ ".rel.text" :> 10 @@ ".data" :> 6 @@ ".rel.data" :> 10
    @@ ".bss" :> 5 @@ ".rodata" :> 8 @@ ".symtab" :> 8 @@ ".strtab" :> 8
    @@ ".shstrtab" :> 10

Section(type, name, alloc, size, align) ==
  [type |-> type, name |-> name, alloc |-> alloc, addr |-> 0, offset |-> 0,
   size |-> size, align |-> align, link |-> 0, info |-> 0]

If(condition, seq) == IF condition THEN seq ELSE << >>

(* The old name table, in this order but for the names not used and those  *)
(* that are merged: .text is the end of .rel.text.                         *)
NamesInOrder == <<".rel.text", ".text", ".rel.data", ".data", ".bss", ".rodata",
                  ".symtab", ".strtab", ".shstrtab">>
NamesOf(secs) == {secs[n].name : n \in 1 .. Len(secs)} \ {""}
Merged(n, all) == \/ n = ".text" /\ ".rel.text" \in all
                  \/ n = ".data" /\ ".rel.data" \in all
SizeBefore(m, all) ==
  1 + MapThenSumSet(LAMBDA n : MCNameSize[NamesInOrder[n]],
        {n \in 1 .. (m - 1) : /\ NamesInOrder[n] \in all
                              /\ ~ Merged(NamesInOrder[n], all)})
OldNamesSize(all) == SizeBefore(Len(NamesInOrder) + 1, all)
OldNameAt(name, all) ==
  IF name = "" THEN 0
  ELSE LET m == CHOOSE n \in DOMAIN NamesInOrder : NamesInOrder[n] = name
       IN SizeBefore(m, all) - IF Merged(name, all) THEN MCNameSize[name] ELSE 0

(* c: what varies between the objects.                                     *)
BodyOf(c) ==
  <<Section("NULL", "", FALSE, 0, 0), Section("PROGBITS", ".text", TRUE, 8, 4)>>
    \o If(c.textRels # << >>,
          <<Section("REL", ".rel.text", FALSE, RelSize * Len(c.textRels), 4)>>)
    \o <<Section("PROGBITS", ".data", TRUE, c.dataSize, c.dataAlign)>>
    \o If(c.dataRels # << >>,
          <<Section("REL", ".rel.data", FALSE, RelSize * Len(c.dataRels), 4)>>)
    \o <<Section("NOBITS", ".bss", TRUE, c.bssSize, 1)>>
    \o If(c.rodata, <<Section("PROGBITS", ".rodata", TRUE, 4, 4)>>)

SymbolTableOf(c) ==
  <<Section("SYMTAB", ".symtab", FALSE, 16 * Len(c.symbols), 4),
    Section("STRTAB", ".strtab", FALSE, 3, 1)>>
NamesFor(c) ==
  LET all == NamesOf(BodyOf(c)) \cup {".symtab", ".strtab", ".shstrtab"}
  IN Section("STRTAB", ".shstrtab", FALSE, OldNamesSize(all), 1)

LayoutOf(c) ==
  IF c.order = "names last" THEN BodyOf(c) \o SymbolTableOf(c) \o <<NamesFor(c)>>
  ELSE BodyOf(c) \o <<NamesFor(c)>> \o SymbolTableOf(c)

ObjectOf(c) ==
  LET secs == LayoutOf(c)
      n == Len(secs)
      Index(name) == IF \E s \in 1 .. n : secs[s].name = name
                       THEN (CHOOSE s \in 1 .. n : secs[s].name = name) - 1 ELSE 0
      Bytes(s) == IF secs[s].type = "NOBITS" THEN 0 ELSE secs[s].size
      Offset(s) == EhdrSize + MapThenSumSet(Bytes, 1 .. (s - 1))
      Header(s) ==
        [secs[s + 1] EXCEPT
           !.offset = Offset(s + 1),
           !.link = IF @ = 0 /\ secs[s + 1].type = "REL" THEN Index(".symtab")
                    ELSE IF secs[s + 1].type = "SYMTAB" THEN Index(".strtab") ELSE 0,
           !.info = IF secs[s + 1].name = ".rel.text" THEN Index(".text")
                    ELSE IF secs[s + 1].name = ".rel.data" THEN Index(".data") ELSE 0]
  IN [elf |-> c.elf, faults |-> c.faults, shnum |-> n, shoff |-> Offset(n + 1),
      shstrndx |-> Index(".shstrtab"),
      nameAt |-> [s \in 0 .. (n - 1) |-> OldNameAt(secs[s + 1].name, NamesOf(secs))],
      fileSize |-> Offset(n + 1) + ShdrSize * n,
      shdrs |-> [s \in 0 .. (n - 1) |-> Header(s)],
      symnum |-> Len(c.symbols),
      syms |-> [x \in 0 .. (Len(c.symbols) - 1) |->
                  [shndx |-> IF c.symbols[x + 1].in = "ABS" THEN SHN_ABS
                             ELSE Index(c.symbols[x + 1].in),
                   value |-> c.symbols[x + 1].value]],
      rels |-> [s \in {s \in 0 .. (n - 1) : secs[s + 1].type = "REL"} |->
                  IF secs[s + 1].name = ".rel.text" THEN c.textRels ELSE c.dataRels]]

Symbol(section, value) == [in |-> section, value |-> value]
(* The first symbol is the null one; "" is an undefined symbol.  The       *)
(* absolute ones stand at and past the reach of a branch from .text, which *)
(* is given the address 92.                                                *)
SomeSymbols(last) ==
  <<Symbol("", 0), Symbol(".text", 0), Symbol(".text", 4), Symbol(".data", 1), last>>
LastSymbols == {Symbol("", 0), Symbol(".bss", 0), Symbol(".rel.text", 0),
                Symbol("ABS", 92 + 8 + 33554428), Symbol("ABS", 92 + 8 + 33554432),
                Symbol("ABS", 92 + 8 + 33554430), Symbol(".rodata", 2)}

Rel(offset, type, sym) == [offset |-> offset, type |-> type, sym |-> sym]

Plain == [elf |-> TRUE, faults |-> {}, order |-> "names last",
          dataSize |-> 5, dataAlign |-> 1, bssSize |-> 6, rodata |-> FALSE, textRels |-> << >>, dataRels |-> << >>,
          symbols |-> SomeSymbols(Symbol(".bss", 0))]

(* Every type of entry against every kind of symbol, a second entry in the *)
(* same section, and a second relocated section.                           *)
RelocationConfigs ==
  {[Plain EXCEPT !.textRels = <<Rel(0, type, 4), Rel(4, "CALL", 2)>>,
                 !.dataRels = <<Rel(1, "ABS16", 4)>>,
                 !.rodata = last.in = ".rodata",
                 !.symbols = SomeSymbols(last)]
     : type \in RelocTypes, last \in LastSymbols}

(* Empty and misaligned sections, a .bss the file is not long enough for.  *)
LayoutConfigs ==
  {[Plain EXCEPT !.dataSize = data, !.dataAlign = align, !.bssSize = bss,
                 !.rodata = rodata, !.textRels = rels]
     : data \in {0, 5}, align \in {0, 1, 8}, bss \in {0, 6, 4000},
       rodata \in BOOLEAN, rels \in {<< >>, <<Rel(4, "JUMP24", 3)>>}}

(* Relocations of an empty section, no symbols, not an ELF file, the order *)
(* of the older assemblers.                                                *)
OddConfigs ==
  {[Plain EXCEPT !.dataSize = 0, !.dataRels = <<Rel(0, "ABS32", 1)>>],
   [Plain EXCEPT !.symbols = << >>],
   [Plain EXCEPT !.elf = FALSE],
   [Plain EXCEPT !.order = "names before symbols"],
   [Plain EXCEPT !.order = "names before symbols", !.textRels = <<Rel(0, "CALL", 2)>>]}

(* The environment may fail while an object with one kind of alignment is  *)
(* processed, and while the odd ones are.                                  *)
Failing(cs) == {[c EXCEPT !.faults = {"read", "write", "memory"}] : c \in cs}
FailingConfigs ==
  Failing(OddConfigs \cup {c \in LayoutConfigs : c.dataAlign = 8 /\ c.rodata})
LargeBssConfigs == {c \in LayoutConfigs : c.bssSize = 4000}
RodataConfigs == {c \in RelocationConfigs : c.rodata}

MCObjects ==
  {ObjectOf(c) : c \in RelocationConfigs \cup LayoutConfigs \cup FailingConfigs}
MCLargeBssObjects == {ObjectOf(c) : c \in LargeBssConfigs}
MCRodataObjects == {ObjectOf(c) : c \in RodataConfigs}
=============================================================================
