----------------------------- MODULE OutputProofs -----------------------------
(***************************************************************************)
(* What the file process_rel leaves holds, for all well-formed objects and *)
(* all failures, and what load_sim finds in it: a second inductive         *)
(* invariant, on top of that of ProcessRelProofs.  What concerns the       *)
(* places of the output is for the objects whose name table is the last    *)
(* section (NamesLast).                                                    *)
(***************************************************************************)
EXTENDS ProcessRelProofs, Toolchain

(* The header the copy loop has made for section s.                        *)
H(s) == newShdrs[Rank(s)]
Before(n) == {s \in KeptSections(obj) : s < n}

(***************************************************************************)
(* new_shstrtab: the strings of the sections before n, one after another.  *)
(***************************************************************************)
Named(s) == obj.shdrs[s].name # ""
NameLength(s) == NameSize[obj.shdrs[s].name]

(* The bytes of the names of the sections kept before n.                   *)
NameBytes(n) ==
  UNION {{s} \X (1 .. NameLength(s)) : s \in {t \in Before(n) : Named(t)}}

NamesMade(n) ==
  /\ [at |-> 0, str |-> ""] \in names
  /\ \A s \in Before(n) : HasName(H(s), names, obj.shdrs[s].name)
  /\ \A e \in names : e.at < namesSize
  /\ \A e, f \in names : e.at = f.at => e = f

InvNames ==
  /\ pc \in BeforeCopy => NamesMade(0) /\ namesSize = 1 /\ curOff = EhdrSize
  /\ pc = "sizes" => finalSize = 1 + Cardinality(NameBytes(i))
  /\ pc = "copy" => NamesMade(i) /\ namesSize = 1 + Cardinality(NameBytes(i))
  /\ pc \in AfterCopy => NamesMade(obj.shnum)
  /\ pc \in AfterCopy \cup {"copy"} => finalSize = 1 + Cardinality(NameBytes(obj.shnum))
  /\ namesSize <= 1 + Cardinality(NameBytes(obj.shnum))

(***************************************************************************)
(* The sizes and the offsets of the headers.                               *)
(***************************************************************************)
SizeOf(s) == IF s = obj.shstrndx THEN finalSize ELSE obj.shdrs[s].size

Placed(n) ==
  /\ curOff >= EhdrSize
  /\ \A s \in Before(n) :
       /\ H(s).size = SizeOf(s)
       /\ H(s).offset >= EhdrSize
       /\ H(s).offset + H(s).size <= curOff
       /\ \A t \in Before(n) : s < t => H(s).offset + H(s).size <= H(t).offset

InvPlaces ==
  /\ pc = "copy" => Placed(i)
  /\ pc \in AfterCopy => Placed(obj.shnum)

(***************************************************************************)
(* The values of the symbols.                                              *)
(***************************************************************************)
Unmoved == \A x \in DOMAIN obj.syms : syms[x].value = obj.syms[x].value

MovedValue(x) ==
  obj.syms[x].value + IF Moves(obj.syms[x]) THEN H(obj.syms[x].shndx).addr ELSE 0

InvValues ==
  /\ pc \in {"open", "header", "sizes"} => Unmoved
  /\ pc = "copy" /\ (\A s \in Sections(obj) : IsSymtab(obj, s) => i <= s) => Unmoved
  /\ SymbolsAfterSections =>
       \A e \in out.extents : e.what.kind = "symbols" => \A x \in DOMAIN obj.syms :
         /\ e.what.syms[x].value = MovedValue(x)
         /\ Moves(obj.syms[x]) => H(obj.syms[x].shndx) \in OutputHeaders

(***************************************************************************)
(* The file.                                                               *)
(***************************************************************************)
Stored(n) == {s \in Before(n) : H(s).size > 0}

Holds(s, what) ==
  /\ what.kind = KindOf(s) /\ what.of = s
  /\ IsSymtab(obj, s) => what.syms = syms
  /\ IsNameTable(s) => what.names = names

Keeps(e, s) == e.at = H(s).offset /\ e.len = H(s).size /\ Holds(s, e.what)
HeaderExtent(h) == Extent(0, EhdrSize, Ehdr(h))
TableExtent(m) == Extent(curOff + ShdrSize * m, ShdrSize, Shdr(newShdrs[m]))

(* The file holds header h, the sections before n and m section headers.   *)
Disk(h, n, m) ==
  /\ out.end = curOff + ShdrSize * m
  /\ HeaderExtent(h) \in out.extents
  /\ \A s \in Stored(n) : \E e \in out.extents : Keeps(e, s)
  /\ \A x \in 0 .. (m - 1) : TableExtent(x) \in out.extents
  /\ \A e \in out.extents :
       \/ e = HeaderExtent(h)
       \/ \E s \in Stored(n) : Keeps(e, s)
       \/ \E x \in 0 .. (m - 1) : e = TableExtent(x)

FinalHeader ==
  [shnum |-> newShnum, shoff |-> curOff,
   shstrndx |-> Rank(obj.shstrndx), entry |-> entry]

(* entry is the address of the last .text among the first m headers.       *)
EntryUpTo(m) ==
  \A s \in KeptSections(obj) :
    /\ obj.shdrs[s].name = ".text" /\ Rank(s) < m
    /\ \A t \in KeptSections(obj) : obj.shdrs[t].name = ".text" /\ Rank(t) < m => t <= s
    => entry = H(s).addr

Finished ==
  /\ HeadersUpTo(obj.shnum) /\ NamesMade(obj.shnum) /\ Placed(obj.shnum)
  /\ finalSize > 0
  /\ EntryUpTo(newShnum)
  /\ Disk(FinalHeader, obj.shnum, newShnum)

InvProgress ==
  /\ pc = "header" => out = EmptyFile
  /\ pc \notin {"table"} \cup Ending => hdr = InputHeader(obj)
  /\ pc = "apply" => obj.shdrs[TargetOf(i)].size > 0
  /\ pc = "entry" => EntryUpTo(k)
  /\ pc = "table" => hdr = FinalHeader /\ EntryUpTo(newShnum)

InvDisk ==
  NamesLast =>
    /\ pc = "sizes" => Disk(InputHeader(obj), 0, 0)
    /\ pc = "copy" => Disk(InputHeader(obj), i, 0)
    /\ pc \in {"relocate", "apply", "entry"} => Disk(InputHeader(obj), obj.shnum, 0)
    /\ pc = "table" => Disk(InputHeader(obj), obj.shnum, k)
    /\ pc \in Ending /\ Committed => Finished

(***************************************************************************)
(* The relocations.                                                        *)
(***************************************************************************)
PlaceOf(r) == H(TargetOf(r)).addr
Agrees(r, m, words) ==
  LET e == obj.rels[r][m] IN PatchAgrees(e, words, syms[e.sym].value, PlaceOf(r) + e.offset)

Patched(n) ==
  \A r \in DOMAIN obj.rels : r < n =>
    /\ obj.shdrs[TargetOf(r)].size > 0
    /\ \A e \in out.extents : Keeps(e, TargetOf(r)) =>
         \A m \in DOMAIN obj.rels[r] : Agrees(r, m, e.what.words)

(* Of the relocations of section i, those before n are in target_data.     *)
PatchedTarget(n) ==
  /\ obj.shdrs[TargetOf(i)].size > 0
  /\ \A m \in DOMAIN obj.rels[i] : m < n => Agrees(i, m, target)
  /\ \A w \in target : \E m \in DOMAIN obj.rels[i] :
       m < n /\ w.offset = obj.rels[i][m].offset

InvPatches ==
  Assembled =>
    /\ pc = "relocate" => Patched(i)
    /\ pc = "apply" => Patched(i) /\ PatchedTarget(j)
    /\ pc \in {"entry", "table"} => Patched(obj.shnum)
    /\ pc \in Ending /\ Committed => Patched(obj.shnum)


-----------------------------------------------------------------------------
(***************************************************************************)
(* Lemmas on the input.                                                    *)
(***************************************************************************)
LEMMA KeptFacts ==
  ASSUME NEW o \in Objects, NEW s \in KeptSections(o)
  PROVE  /\ s \in Nat /\ s < o.shnum /\ s \in Sections(o) /\ ~ IsRel(o, s)
         /\ o.shdrs[s] \in InputHeaders
         /\ o.shdrs[s].size \in Nat /\ o.shdrs[s].align \in Nat
         /\ RankIn(o, s) \in Nat /\ RankIn(o, s) < RankIn(o, o.shnum)
         /\ RankIn(o, o.shnum) \in Nat
<1>1. /\ o.shnum \in Nat /\ o.shdrs \in [Sections(o) -> InputHeaders]
  BY ObjectFacts
<1>2. s \in Sections(o) /\ ~ IsRel(o, s)
  BY DEF KeptSections
<1>3. s \in Nat /\ s < o.shnum
  BY <1>1, <1>2 DEF Sections
<1>4. o.shdrs[s] \in InputHeaders
  BY <1>1, <1>2
<1>5. RankIn(o, s) \in Nat /\ RankIn(o, o.shnum) \in Nat
  BY <1>1, <1>3, RankNat
<1>6. RankIn(o, s) < RankIn(o, o.shnum)
  BY <1>1, <1>3, RankStrict
<1> QED
  BY <1>2, <1>3, <1>4, <1>5, <1>6 DEF InputHeaders

LEMMA NameTableFacts ==
  ASSUME NEW o \in Objects
  PROVE  /\ o.shstrndx \in KeptSections(o)
         /\ o.shdrs[o.shstrndx].size \in Nat /\ o.shdrs[o.shstrndx].size > 0
         /\ o.shdrs[o.shstrndx].type = "STRTAB" /\ ~ IsSymtab(o, o.shstrndx)
         /\ o.nameAt \in [Sections(o) -> Nat]
         /\ \A s \in Sections(o) : o.shdrs[s].name # "" =>
              /\ NameSize[o.shdrs[s].name] \in Nat /\ NameSize[o.shdrs[s].name] > 0
              /\ o.nameAt[s] \in Nat /\ o.nameAt[s] > 0
              /\ o.nameAt[s] + NameSize[o.shdrs[s].name] <= o.shdrs[o.shstrndx].size
<1>1. WellFormed(o)
  BY ObjectsAssumption
<1>2. /\ o.shstrndx \in Sections(o)
      /\ o.shdrs[o.shstrndx].type = "STRTAB" /\ o.shdrs[o.shstrndx].size > 0
      /\ o.nameAt \in [Sections(o) -> Nat]
      /\ \A s \in Sections(o) : o.shdrs[s].name # "" =>
           /\ o.nameAt[s] > 0
           /\ o.nameAt[s] + NameSize[o.shdrs[s].name] <= o.shdrs[o.shstrndx].size
  BY <1>1, Zenon DEF WellFormed
<1>3. o.shstrndx \in KeptSections(o) /\ ~ IsSymtab(o, o.shstrndx)
  BY <1>2 DEF KeptSections, IsRel, IsSymtab
<1>4. o.shdrs[o.shstrndx].size \in Nat
  BY <1>3, KeptFacts
<1>5. \A s \in Sections(o) : o.shdrs[s].name # "" =>
        /\ NameSize[o.shdrs[s].name] \in Nat /\ NameSize[o.shdrs[s].name] > 0
        /\ o.nameAt[s] \in Nat
  <2>1. SUFFICES ASSUME NEW s \in Sections(o), o.shdrs[s].name # ""
                 PROVE  /\ NameSize[o.shdrs[s].name] \in Nat
                        /\ NameSize[o.shdrs[s].name] > 0
                        /\ o.nameAt[s] \in Nat
    OBVIOUS
  <2>2. o.shdrs[s] \in InputHeaders
    BY ObjectFacts
  <2>3. o.shdrs[s].name \in DOMAIN NameSize
    BY <2>1, <2>2 DEF InputHeaders
  <2>4. NameSize[o.shdrs[s].name] \in Nat \ {0}
    BY <2>3, NamesAssumption
  <2>5. NameSize[o.shdrs[s].name] \in Nat /\ NameSize[o.shdrs[s].name] > 0
    BY <2>4
  <2>6. o.nameAt[s] \in Nat
    BY <1>2
  <2> QED
    BY <2>5, <2>6
<1> QED
  BY <1>2, <1>3, <1>4, <1>5

(***************************************************************************)
(* The bytes of the names, counted.                                        *)
(***************************************************************************)
LEMMA NameBytesFinite ==
  ASSUME obj \in Objects, NEW n \in Int
  PROVE  /\ IsFiniteSet(NameBytes(n)) /\ Cardinality(NameBytes(n)) \in Nat
         /\ \A e \in NameBytes(n) : \E s \in Before(n) :
              Named(s) /\ e[1] = s /\ e \in {s} \X (1 .. NameLength(s))
<1> DEFINE size == obj.shdrs[obj.shstrndx].size
<1>1. size \in Nat /\ obj.shnum \in Nat
  BY NameTableFacts, ObjectFacts
<1>2. \A s \in Sections(obj) : Named(s) => NameLength(s) \in Nat /\ NameLength(s) <= size
  <2>1. SUFFICES ASSUME NEW s \in Sections(obj), Named(s)
                 PROVE  NameLength(s) \in Nat /\ NameLength(s) <= size
    OBVIOUS
  <2>2. /\ NameLength(s) \in Nat /\ obj.nameAt[s] \in Nat
        /\ obj.nameAt[s] + NameLength(s) <= size
    BY <2>1, NameTableFacts, Zenon DEF Named, NameLength
  <2> HIDE DEF size
  <2> QED
    BY <1>1, <2>2
<1> HIDE DEF size
<1>6. IsFiniteSet(Sections(obj)) /\ IsFiniteSet(1 .. size)
  <2>1. obj.shnum - 1 \in Int
    BY <1>1
  <2>2. 0 \in Int /\ 1 \in Int /\ size \in Int
    BY <1>1
  <2> QED
    BY <2>1, <2>2, FS_Interval, Zenon DEF Sections
<1>3. IsFiniteSet(Sections(obj) \X (1 .. size))
  BY <1>6, FS_Product
<1>4. ASSUME NEW e \in NameBytes(n)
      PROVE  /\ e \in Sections(obj) \X (1 .. size)
             /\ \E s \in Before(n) : Named(s) /\ e[1] = s /\ e \in {s} \X (1 .. NameLength(s))
  <2>1. PICK s \in Before(n) : Named(s) /\ e \in {s} \X (1 .. NameLength(s))
    BY <1>4 DEF NameBytes
  <2>2. s \in Sections(obj)
    BY DEF Before, KeptSections
  <2>3. NameLength(s) \in Nat /\ NameLength(s) <= size
    BY <1>2, <2>1, <2>2
  <2>4. e[1] = s /\ e[2] \in 1 .. NameLength(s) /\ e = <<e[1], e[2]>>
    BY <2>1
  <2>5. e[2] \in 1 .. size
    BY <1>1, <2>3, <2>4
  <2> QED
    BY <2>1, <2>2, <2>4, <2>5
<1>5. NameBytes(n) \in SUBSET (Sections(obj) \X (1 .. size))
  BY <1>4
<1> QED
  BY <1>3, <1>4, <1>5, FS_Subset, FS_CardinalityType

LEMMA NameBytesZero == ASSUME obj \in Objects PROVE Cardinality(NameBytes(0)) = 0
<1>1. Before(0) = {}
  BY KeptFacts DEF Before
<1>2. NameBytes(0) = {}
  BY <1>1 DEF NameBytes
<1> QED
  BY <1>2, FS_EmptySet

LEMMA BeforeStep ==
  ASSUME obj \in Objects, NEW n \in Sections(obj)
  PROVE  Before(n + 1) = IF IsRel(obj, n) THEN Before(n) ELSE Before(n) \cup {n}
<1>1. n \in Nat
  BY ObjectFacts DEF Sections
<1>2. \A s \in KeptSections(obj) : s < n + 1 <=> s < n \/ s = n
  BY <1>1, KeptFacts
<1>3. IsRel(obj, n) <=> n \notin KeptSections(obj)
  BY DEF KeptSections
<1>4. CASE IsRel(obj, n)
  BY <1>2, <1>3, <1>4, Zenon DEF Before
<1>5. CASE ~ IsRel(obj, n)
  BY <1>2, <1>3, <1>5, Zenon DEF Before
<1> QED
  BY <1>4, <1>5

LEMMA NameBytesStep ==
  ASSUME obj \in Objects, NEW n \in Sections(obj)
  PROVE  Cardinality(NameBytes(n + 1)) =
           Cardinality(NameBytes(n)) + (IF ~ IsRel(obj, n) /\ Named(n) THEN NameLength(n) ELSE 0)
<1>1. n \in Nat
  BY ObjectFacts DEF Sections
<1>3. Cardinality(NameBytes(n)) \in Nat /\ IsFiniteSet(NameBytes(n))
  BY <1>1, NameBytesFinite
<1>4. CASE ~ IsRel(obj, n) /\ Named(n)
  <2> DEFINE B == {n} \X (1 .. NameLength(n))
  <2>1. NameLength(n) \in Nat
    BY <1>4, NameTableFacts DEF Named, NameLength
  <2>2. IsFiniteSet(B) /\ Cardinality(B) = NameLength(n)
    <3>1. IsFiniteSet({n}) /\ Cardinality({n}) = 1
      BY FS_Singleton
    <3>2. IsFiniteSet(1 .. NameLength(n)) /\ Cardinality(1 .. NameLength(n)) = NameLength(n)
      BY <2>1, FS_Interval
    <3>3. IsFiniteSet(B) /\ Cardinality(B) = Cardinality({n}) * Cardinality(1 .. NameLength(n))
      BY <3>1, <3>2, FS_Product
    <3> QED
      BY <2>1, <3>1, <3>2, <3>3
  <2>3. {t \in Before(n + 1) : Named(t)} = {t \in Before(n) : Named(t)} \cup {n}
    BY <1>4, BeforeStep, Zenon
  <2>4. NameBytes(n + 1) = NameBytes(n) \cup B
    BY <2>3, Zenon DEF NameBytes
  <2>5. NameBytes(n) \cap B = {}
    <3>1. SUFFICES ASSUME NEW e \in NameBytes(n), e \in B PROVE FALSE
      OBVIOUS
    <3>2. e[1] \in Before(n) /\ e[1] = n
      BY <1>1, <3>1, NameBytesFinite
    <3> QED
      BY <1>1, <3>2 DEF Before
  <2> HIDE DEF B
  <2>6. Cardinality(NameBytes(n) \cap B) = 0
    BY <2>5, FS_EmptySet
  <2>7. Cardinality(NameBytes(n) \cup B) =
          Cardinality(NameBytes(n)) + Cardinality(B) - Cardinality(NameBytes(n) \cap B)
    BY <1>3, <2>2, FS_Union
  <2>8. Cardinality(NameBytes(n + 1)) = Cardinality(NameBytes(n)) + NameLength(n)
    <3>1. Cardinality(NameBytes(n + 1)) = Cardinality(NameBytes(n)) + NameLength(n) - 0
      BY <2>2, <2>4, <2>6, <2>7, Zenon
    <3> QED
      BY <1>3, <2>1, <3>1
  <2> QED
    BY <1>4, <2>8, Zenon
<1>5. CASE IsRel(obj, n) \/ ~ Named(n)
  <2>1. {t \in Before(n + 1) : Named(t)} = {t \in Before(n) : Named(t)}
    BY <1>5, BeforeStep, Zenon
  <2>2. NameBytes(n + 1) = NameBytes(n)
    BY <2>1 DEF NameBytes
  <2> QED
    BY <1>3, <1>5, <2>2
<1> QED
  BY <1>4, <1>5

LEMMA NameBytesMonotone ==
  ASSUME obj \in Objects, NEW m \in Int, NEW n \in Int, m <= n
  PROVE  Cardinality(NameBytes(m)) <= Cardinality(NameBytes(n))
<1>1. Before(m) \subseteq Before(n)
  BY KeptFacts DEF Before
<1>2. NameBytes(m) \in SUBSET NameBytes(n)
  BY <1>1 DEF NameBytes
<1> QED
  BY <1>2, NameBytesFinite, FS_Subset

(* Names that share no bytes have no more bytes than their table.          *)
LEMMA NameBytesFit ==
  ASSUME obj \in Objects, NamesApart
  PROVE  1 + Cardinality(NameBytes(obj.shnum)) <= obj.shdrs[obj.shstrndx].size
<1> DEFINE size == obj.shdrs[obj.shstrndx].size
           S == NameBytes(obj.shnum)
           at(e) == obj.nameAt[e[1]]
           b(e) == e[2]
           f == [e \in S |-> at(e) + b(e) - 1]
<1>1. size \in Nat /\ size > 0
  BY NameTableFacts
<1>2. obj.shnum \in Int
  BY ObjectFacts
<1>3. ASSUME NEW e \in S
      PROVE  /\ e[1] \in KeptSections(obj) /\ Named(e[1])
             /\ b(e) \in 1 .. NameLength(e[1]) /\ e = <<e[1], b(e)>>
             /\ NameLength(e[1]) \in Nat /\ at(e) \in Nat /\ at(e) > 0
             /\ at(e) + NameLength(e[1]) <= size
  <2>1. PICK s \in Before(obj.shnum) :
          Named(s) /\ e[1] = s /\ e \in {s} \X (1 .. NameLength(s))
    BY <1>2, NameBytesFinite
  <2>2. s \in KeptSections(obj) /\ s \in Sections(obj)
    BY <2>1 DEF Before, KeptSections
  <2>3. /\ NameLength(s) \in Nat /\ obj.nameAt[s] \in Nat /\ obj.nameAt[s] > 0
        /\ obj.nameAt[s] + NameLength(s) <= size
    BY <2>1, <2>2, NameTableFacts, Zenon DEF Named, NameLength
  <2>4. b(e) \in 1 .. NameLength(s) /\ e = <<s, b(e)>>
    BY <2>1
  <2> QED
    BY <2>1, <2>2, <2>3, <2>4, Zenon
<1>4. ASSUME NEW d \in S, NEW e \in S, d[1] # e[1]
      PROVE  \/ at(d) + NameLength(d[1]) <= at(e)
             \/ at(e) + NameLength(e[1]) <= at(d)
  BY <1>3, <1>4, Zenon DEF NamesApart, Named, NameLength
<1> HIDE DEF size, S, at, b
<1>5. \A e \in S : f[e] \in 1 .. (size - 1)
  <2>1. SUFFICES ASSUME NEW e \in S PROVE at(e) + b(e) - 1 \in 1 .. (size - 1)
    OBVIOUS
  <2>2. b(e) \in 1 .. NameLength(e[1]) /\ NameLength(e[1]) \in Nat
        /\ at(e) \in Nat /\ at(e) > 0 /\ at(e) + NameLength(e[1]) <= size
    BY <1>3
  <2> QED
    BY <1>1, <2>2
<1>6. ASSUME NEW d \in S, NEW e \in S, f[d] = f[e] PROVE d = e
  <2>1. at(d) + b(d) - 1 = at(e) + b(e) - 1
    BY <1>6
  <2>2. /\ b(d) \in 1 .. NameLength(d[1]) /\ NameLength(d[1]) \in Nat /\ at(d) \in Nat
        /\ b(e) \in 1 .. NameLength(e[1]) /\ NameLength(e[1]) \in Nat /\ at(e) \in Nat
    BY <1>3
  <2>3. d[1] = e[1]
    BY <1>4, <2>1, <2>2
  <2>4. at(d) = at(e)
    BY <2>3 DEF at
  <2>5. b(d) = b(e)
    BY <2>1, <2>2, <2>4
  <2> QED
    BY <1>3, <2>3, <2>5
<1>7. f \in Injection(S, 1 .. (size - 1))
  <2>1. f \in [S -> 1 .. (size - 1)]
    BY <1>5
  <2> HIDE DEF f
  <2> QED
    BY <1>6, <2>1, Zenon DEF Injection, IsInjective
<1> HIDE DEF f
<1>8. IsFiniteSet(1 .. (size - 1)) /\ Cardinality(1 .. (size - 1)) = size - 1
  <2>1. size - 1 \in Int
    BY <1>1
  <2>2. /\ IsFiniteSet(1 .. (size - 1))
        /\ Cardinality(1 .. (size - 1)) = IF 1 > size - 1 THEN 0 ELSE (size - 1) - 1 + 1
    BY <2>1, FS_Interval
  <2> QED
    BY <1>1, <2>2
<1>9. Cardinality(S) <= size - 1
  BY <1>7, <1>8, FS_Injection
<1>10. Cardinality(S) \in Nat
  BY <1>2, NameBytesFinite DEF S
<1> QED
  BY <1>1, <1>9, <1>10 DEF S, size

(***************************************************************************)
(* Lemmas on the copy loop.                                                *)
(***************************************************************************)
LEMMA RankOnto ==
  ASSUME NEW o \in Objects, NEW n \in 0 .. o.shnum, NEW m \in Nat, m < RankIn(o, n)
  PROVE  \E s \in KeptSections(o) : s < n /\ RankIn(o, s) = m
<1> DEFINE S == {t \in KeptSections(o) : t < n}
           r == RankIn(o, n)
           f == [s \in S |-> RankIn(o, s)]
<1>1. n \in Int /\ IsFiniteSet(S) /\ r \in Nat /\ Cardinality(S) = r
  <2>1. n \in Int
    BY ObjectFacts
  <2> QED
    BY <2>1, KeptFinite, RankNat DEF RankIn
<1>2. \A s \in S : RankIn(o, s) \in 0 .. (r - 1)
  <2>1. SUFFICES ASSUME NEW s \in S PROVE RankIn(o, s) \in 0 .. (r - 1)
    OBVIOUS
  <2>2. RankIn(o, s) \in Nat /\ RankIn(o, s) < RankIn(o, n)
    BY <1>1, KeptFacts, RankStrict
  <2> QED
    BY <1>1, <2>2
<1>3. f \in [S -> 0 .. (r - 1)]
  BY <1>2
<1>4. \A s, t \in S : f[s] = f[t] => s = t
  BY RankInjective
<1> HIDE DEF f, S, r
<1>5. f \in Injection(S, 0 .. (r - 1))
  BY <1>3, <1>4, Zenon DEF Injection, IsInjective
<1>6. IsFiniteSet(0 .. (r - 1)) /\ Cardinality(0 .. (r - 1)) = r
  <2>1. r - 1 \in Int /\ 0 \in Int
    BY <1>1
  <2>2. /\ IsFiniteSet(0 .. (r - 1))
        /\ Cardinality(0 .. (r - 1)) = IF 0 > r - 1 THEN 0 ELSE (r - 1) - 0 + 1
    BY <2>1, FS_Interval, Zenon
  <2> QED
    BY <1>1, <2>2
<1>7. f \in Surjection(S, 0 .. (r - 1))
  BY <1>1, <1>5, <1>6, FS_Injection
<1>8. m \in 0 .. (r - 1)
  BY <1>1 DEF r
<1>9. PICK s \in S : f[s] = m
  BY <1>7, <1>8, Zenon DEF Surjection
<1>10. s \in KeptSections(o) /\ s < n
  BY <1>9 DEF S
<1>11. RankIn(o, s) = m
  BY <1>9 DEF f
<1> QED
  BY <1>10, <1>11

LEMMA CopyEffect ==
  ASSUME InCopy
  PROVE  /\ Copying /\ pc = "copy" /\ pc' = "copy" /\ i' = i + 1 /\ k' = k + 1
         /\ UNCHANGED <<obj, j, mapping, newShnum, finalSize, hdr, entry, target>>
         /\ \E h : MadeHeader(h) /\ AddHeader(obj.shdrs[i], h)
<1>1. PICK h : Copying /\ MadeHeader(h) /\ AddHeader(obj.shdrs[i], h)
  BY Zenon DEF InCopy, CopyEmpty, CopySymbols, CopyNames, CopyContents, MadeHeader
<1>2. pc = "copy"
  BY <1>1 DEF Copying
<1>3. /\ pc' = pc /\ i' = i + 1 /\ k' = k + 1
      /\ UNCHANGED <<obj, j, mapping, newShnum, finalSize, hdr, entry, target>>
  BY <1>1, Zenon DEF AddHeader, tables
<1> QED
  BY <1>1, <1>2, <1>3

(* The header of section i is written, no other one is.                    *)
LEMMA CopiedRow ==
  ASSUME IInv, Copying, NEW h, MadeHeader(h), AddHeader(obj.shdrs[i], h)
  PROVE  /\ newShdrs'[Rank(i)] = h
         /\ \A s \in KeptSections(obj) :
              s # i => newShdrs'[Rank(s)] = newShdrs[Rank(s)]
<1>1. /\ obj \in Objects /\ i \in KeptSections(obj) /\ k = RankIn(obj, i)
      /\ k \in Nat /\ k < newShnum /\ newShnum \in Nat
      /\ newShnum = RankIn(obj, obj.shnum) /\ HeadersUpTo(i)
  BY CopyingFacts
<1>2. newShdrs \in [0 .. (newShnum - 1) -> OutputHeaders \cup {Uninitialised}]
  BY <1>1, Zenon DEF HeadersUpTo
<1>3. newShdrs' = [newShdrs EXCEPT ![k] = h]
  BY Zenon DEF AddHeader
<1>4. newShdrs'[k] = h
  BY <1>1, <1>2, <1>3
<1>5. ASSUME NEW s \in KeptSections(obj), s # i
      PROVE  newShdrs'[RankIn(obj, s)] = newShdrs[RankIn(obj, s)]
  <2>1. RankIn(obj, s) # k
    BY <1>1, <1>5, RankInjective
  <2>2. RankIn(obj, s) \in 0 .. (newShnum - 1)
    BY <1>1, KeptFacts
  <2> QED
    BY <1>2, <1>3, <2>1, <2>2
<1> QED
  BY <1>1, <1>4, <1>5, Zenon DEF Rank

(* The fields the iteration chooses.                                       *)
LEMMA MadeFields ==
  ASSUME IInv, Copying
  PROVE  /\ NewHeader(obj.shdrs[i]).name = IF Named(i) THEN namesSize ELSE 0
         /\ NewHeader(obj.shdrs[i]).size = obj.shdrs[i].size
         /\ [NewHeader(obj.shdrs[i]) EXCEPT !.size = finalSize].name
              = NewHeader(obj.shdrs[i]).name
         /\ [NewHeader(obj.shdrs[i]) EXCEPT !.size = finalSize].size = finalSize
<1>1. obj.shdrs[i] \in InputHeaders
  BY CopyingFacts
<1> QED
  BY <1>1 DEF NewHeader, InputHeaders, Named

(* The steps that leave the tables under construction.                     *)
LEMMA BuildFrame ==
  ASSUME InAfterCopy \/ ToEnding
  PROVE  UNCHANGED <<obj, newShnum, mapping, syms, newShdrs, names, namesSize, finalSize, curAddr, curOff>>
<1>1. CASE InAfterCopy
  BY <1>1, Zenon DEF InAfterCopy, SkipUnrelocated, LoadTarget, ApplyRelocation, WriteTarget,
     AllRelocated, FindEntry, FinishHeader, WriteSectionHeader, tables, build
<1>2. CASE ToEnding
  BY <1>2, Zenon DEF ToEnding, OpenOutputFails, WriteInitialHeaderFails, CopyReadFails,
     CopyWriteFails, LoadTargetFails, WriteTargetFails, WriteSectionHeaderFails,
     RewriteHeader, RewriteHeaderFails, Cleanup, WriteFails, GotoCleanup, tables, build
<1> QED
  BY <1>1, <1>2

-----------------------------------------------------------------------------
(***************************************************************************)
(* The names and the sizes of the name table.                              *)
(***************************************************************************)
LEMMA NamesFrame ==
  ASSUME NEW n, NamesMade(n), UNCHANGED <<obj, newShdrs, names, namesSize>>
  PROVE  NamesMade(n)'
  BY Zenon DEF NamesMade, Before, H, Rank, HasName

LEMMA NamesCopied ==
  ASSUME IInv, InCopy, NamesMade(i)
  PROVE  /\ NamesMade(i)'
         /\ namesSize' = namesSize + (IF Named(i) THEN NameLength(i) ELSE 0)
<1>1. /\ obj \in Objects /\ i \in KeptSections(obj) /\ i \in Sections(obj) /\ ~ IsRel(obj, i)
      /\ namesSize \in Nat /\ names \subseteq NameEntries
  BY CopyEffect, CopyingFacts, KeptFacts DEF IInv, InvTypes
<1>2. PICK h : Copying /\ MadeHeader(h) /\ AddHeader(obj.shdrs[i], h) /\ obj' = obj /\ i' = i + 1
  BY CopyEffect
<1>3. h.name = IF Named(i) THEN namesSize ELSE 0
  BY <1>2, MadeFields, Zenon DEF MadeHeader
<1>4. Before(i + 1) = Before(i) \cup {i} /\ i \notin Before(i)
  BY <1>1, BeforeStep, KeptFacts DEF Before
<1>5. newShdrs'[Rank(i)] = h /\ \A s \in Before(i) : newShdrs'[Rank(s)] = newShdrs[Rank(s)]
  <2>1. \A s \in Before(i) : s \in KeptSections(obj) /\ s # i
    BY <1>4 DEF Before
  <2> QED
    BY <1>2, <2>1, CopiedRow, Zenon
<1>6. /\ [at |-> 0, str |-> ""] \in names
      /\ \A s \in Before(i) :
           [at |-> newShdrs[Rank(s)].name, str |-> obj.shdrs[s].name] \in names
      /\ \A e \in names : e.at < namesSize
      /\ \A e, f \in names : e.at = f.at => e = f
  BY Zenon DEF NamesMade, H, HasName
<1>7. SUFFICES /\ [at |-> 0, str |-> ""] \in names'
               /\ \A s \in Before(i) \cup {i} :
                    [at |-> newShdrs'[Rank(s)].name, str |-> obj.shdrs[s].name] \in names'
               /\ \A e \in names' : e.at < namesSize'
               /\ \A e, f \in names' : e.at = f.at => e = f
               /\ namesSize' = namesSize + (IF Named(i) THEN NameLength(i) ELSE 0)
  BY <1>2, <1>4, Zenon DEF NamesMade, H, HasName, Before, Rank
<1>10. \A e \in names : e.at < namesSize
  BY <1>6, Zenon
<1>8. CASE Named(i)
  <2> DEFINE new == [at |-> namesSize, str |-> obj.shdrs[i].name]
  <2>1. names' = names \cup {new} /\ namesSize' = namesSize + NameLength(i)
    BY <1>2, <1>8, Zenon DEF AddHeader, Named, NameLength
  <2>2. NameLength(i) \in Nat /\ NameLength(i) > 0
    BY <1>1, <1>8, NameTableFacts DEF Named, NameLength
  <2>3. [at |-> newShdrs'[Rank(i)].name, str |-> obj.shdrs[i].name] = new
    BY <1>3, <1>5, <1>8, Zenon
  <2>4. new.at = namesSize
    OBVIOUS
  <2> HIDE DEF new
  <2>5. ASSUME NEW s \in Before(i) \cup {i}
        PROVE  [at |-> newShdrs'[Rank(s)].name, str |-> obj.shdrs[s].name] \in names'
    <3>1. CASE s = i
      BY <2>1, <2>3, <3>1, Zenon
    <3>2. CASE s \in Before(i)
      BY <1>5, <1>6, <2>1, <3>2, Zenon
    <3> QED
      BY <3>1, <3>2
  <2>6. \A e \in names : e.at \in Nat
    BY <1>1 DEF NameEntries
  <2>7. \A e \in names' : e.at < namesSize'
    <3>1. ASSUME NEW e \in names PROVE e.at < namesSize + NameLength(i)
      BY <1>1, <1>10, <2>2, <2>6
    <3>2. new.at < namesSize + NameLength(i)
      BY <1>1, <2>2, <2>4
    <3> QED
      BY <2>1, <3>1, <3>2, Zenon
  <2>8. \A e, f \in names' : e.at = f.at => e = f
    <3>1. ASSUME NEW e \in names PROVE e.at # new.at
      BY <1>1, <1>10, <2>4, <2>6
    <3> QED
      BY <1>6, <2>1, <3>1, Zenon
  <2> QED
    BY <1>6, <1>8, <2>1, <2>5, <2>7, <2>8, Zenon
<1>9. CASE ~ Named(i)
  <2>1. names' = names /\ namesSize' = namesSize
    BY <1>2, <1>9, Zenon DEF AddHeader, Named
  <2>2. ASSUME NEW s \in Before(i) \cup {i}
        PROVE  [at |-> newShdrs'[Rank(s)].name, str |-> obj.shdrs[s].name] \in names'
    <3>1. CASE s = i
      BY <1>3, <1>5, <1>6, <1>9, <2>1, <3>1, Zenon DEF Named
    <3>2. CASE s \in Before(i)
      BY <1>5, <1>6, <2>1, <3>2, Zenon
    <3> QED
      BY <3>1, <3>2
  <2>3. namesSize' = namesSize + (IF Named(i) THEN NameLength(i) ELSE 0)
    BY <1>1, <1>9, <2>1
  <2> QED
    BY <1>6, <2>1, <2>2, <2>3, Zenon
<1> QED
  BY <1>8, <1>9

(* A removed section changes nothing.                                      *)
LEMMA SkippedSection ==
  ASSUME IInv, SkipRemoved
  PROVE  i \in Sections(obj) /\ IsRel(obj, i) /\ Before(i + 1) = Before(i)
<1>1. /\ pc = "copy" /\ i < obj.shnum /\ mapping[i] = Removed
      /\ obj \in Objects /\ i \in 0 .. obj.shnum /\ MappedTo(obj.shnum)
  BY DEF SkipRemoved, IInv, InvTypes, InvMapping
<1>2. obj.shnum \in Nat
  BY <1>1, ObjectFacts
<1>3. i \in Sections(obj) /\ i \in Nat
  BY <1>1, <1>2 DEF Sections
<1>4. mapping[i] = IF IsRel(obj, i) THEN Removed ELSE Rank(i)
  BY <1>1, <1>3 DEF MappedTo
<1>5. Rank(i) # Removed
  BY <1>1, <1>3, RankNat DEF Rank, Removed
<1>6. IsRel(obj, i)
  BY <1>1, <1>4, <1>5, Zenon
<1> QED
  BY <1>1, <1>3, <1>6, BeforeStep

LEMMA NamesInit == Init => InvNames
<1> SUFFICES ASSUME Init PROVE InvNames
  OBVIOUS
<1>1. pc = "load" /\ obj \in Objects /\ namesSize = 0
  BY DEF Init
<1>2. Cardinality(NameBytes(obj.shnum)) \in Nat
  BY <1>1, ObjectFacts, NameBytesFinite
<1> QED
  BY <1>1, <1>2 DEF InvNames, BeforeCopy, AfterCopy

LEMMA NamesStep == ASSUME IInv, InvNames, [Next]_vars PROVE InvNames'
<1>1. obj \in Objects /\ pc \in Places /\ i \in 0 .. obj.shnum /\ obj' = obj
  BY ObjectStays DEF IInv, InvTypes
<1>2. obj.shnum \in Nat /\ obj.shnum > 0
  BY <1>1, ObjectFacts
<1>3. \A n \in Nat : Cardinality(NameBytes(n)) \in Nat
  BY <1>1, NameBytesFinite
<1>4. \A n : NameBytes(n)' = NameBytes(n)
  BY <1>1, Zenon DEF NameBytes, Before, Named, NameLength
<1>5. namesSize <= 1 + Cardinality(NameBytes(obj.shnum))
  BY DEF InvNames
<1>6. ASSUME UNCHANGED namesSize
      PROVE  (namesSize <= 1 + Cardinality(NameBytes(obj.shnum)))'
  BY <1>1, <1>4, <1>5, <1>6, Zenon
<1>7. Before(0) = {} /\ \A n : Before(n)' = Before(n)
  <2>1. Before(0) = {}
    BY <1>1, KeptFacts DEF Before
  <2> QED
    BY <1>1, <2>1, Zenon DEF Before
<1>8. CASE UNCHANGED vars
  <2>1. UNCHANGED <<obj, pc, i, newShdrs, names, namesSize, finalSize, curOff>>
    BY <1>8, Zenon DEF vars, build
  <2> QED
    BY <2>1, NamesFrame, <1>4, Zenon DEF InvNames
<1>9. CASE InTables
  <2>1. UNCHANGED namesSize
    BY <1>9, Zenon DEF InTables, Load, MapSection, AllMapped, ReadSymbols, Exits, LoadFails,
       ReadSymbolsFails, AllocateTablesFails, ExitFailure, build
  <2> QED
    BY <1>6, <1>9, <2>1, InTablesFrame DEF InvNames, BeforeTables, BeforeCopy, AfterCopy
<1>10. CASE AllocateTables
  <2>1. /\ pc' = "renumber" /\ names' = {[at |-> 0, str |-> ""]} /\ namesSize' = 1
        /\ curOff' = EhdrSize
    BY <1>10 DEF AllocateTables, Goto
  <2>2. NamesMade(0)'
    <3>1. [at |-> 0, str |-> ""].at < 1
      OBVIOUS
    <3> QED
      BY <1>7, <2>1, <3>1, Zenon DEF NamesMade
  <2>3. (namesSize <= 1 + Cardinality(NameBytes(obj.shnum)))'
    <3>1. 1 <= 1 + Cardinality(NameBytes(obj.shnum))
      BY <1>2, <1>3
    <3> QED
      BY <1>1, <1>4, <2>1, <3>1, Zenon
  <2> QED
    BY <2>1, <2>2, <2>3 DEF InvNames, BeforeCopy, AfterCopy
<1>11. CASE InBeforeCopy
  <2>1. UNCHANGED <<newShdrs, names, namesSize, curOff>>
    BY <1>11, Zenon DEF InBeforeCopy, RenumberSymbols, OpenOutput, WriteInitialHeader,
       SizeName, build
  <2>2. pc \in BeforeCopy /\ pc' \in BeforeCopy
    BY <1>11, InBeforeCopyFrame
  <2>3. NamesMade(0)' /\ (namesSize = 1)' /\ (curOff = EhdrSize)'
    BY <1>1, <2>1, <2>2, NamesFrame DEF InvNames
  <2>4. ASSUME pc' = "sizes" PROVE finalSize' = 1 + Cardinality(NameBytes(i'))
    <3>1. CASE WriteInitialHeader
      <4>1. i' = 0 /\ finalSize' = 1
        BY <3>1 DEF WriteInitialHeader
      <4>2. Cardinality(NameBytes(0)) = 0
        BY <1>1, NameBytesZero
      <4> QED
        BY <4>1, <4>2
    <3>2. CASE SizeName
      <4>1. /\ pc = "sizes" /\ i < obj.shnum /\ i' = i + 1
            /\ finalSize' = finalSize
                 + IF NameCounted(i) THEN NameSize[obj.shdrs[i].name] ELSE 0
        BY <3>2, Zenon DEF SizeName
      <4>2. i \in Sections(obj) /\ i \in Nat /\ MappedTo(obj.shnum)
        BY <1>1, <1>2, <4>1 DEF Sections, IInv, InvMapping
      <4>3. mapping[i] # Removed <=> ~ IsRel(obj, i)
        <5>1. mapping[i] = IF IsRel(obj, i) THEN Removed ELSE Rank(i)
          BY <4>1, <4>2 DEF MappedTo
        <5>2. Rank(i) \in Nat /\ Removed = -1
          BY <1>1, <4>2, RankNat DEF Rank, Removed
        <5> QED
          BY <5>1, <5>2
      <4>4. NameCounted(i) <=> ~ IsRel(obj, i) /\ Named(i)
        BY <4>3 DEF NameCounted, Named
      <4>5. finalSize = 1 + Cardinality(NameBytes(i))
        BY <4>1 DEF InvNames
      <4>6. CASE NameCounted(i)
        <5>1. NameLength(i) \in Nat
          BY <1>1, <4>2, <4>4, <4>6, NameTableFacts DEF Named, NameLength
        <5>2. finalSize' = finalSize + NameLength(i)
          BY <4>1, <4>6, Zenon DEF NameLength
        <5>3. Cardinality(NameBytes(i + 1)) = Cardinality(NameBytes(i)) + NameLength(i)
          BY <1>1, <4>2, <4>4, <4>6, NameBytesStep, Zenon
        <5>4. Cardinality(NameBytes(i)) \in Nat /\ Cardinality(NameBytes(i + 1)) \in Nat
          BY <1>3, <4>2
        <5>5. finalSize' = 1 + Cardinality(NameBytes(i + 1))
          BY <4>5, <5>1, <5>2, <5>3, <5>4
        <5> QED
          BY <4>1, <5>5, Zenon
      <4>7. CASE ~ NameCounted(i)
        <5>1. finalSize' = finalSize + 0
          BY <4>1, <4>7, Zenon
        <5>2. Cardinality(NameBytes(i + 1)) = Cardinality(NameBytes(i)) + 0
          BY <1>1, <4>2, <4>4, <4>7, NameBytesStep, Zenon
        <5>3. Cardinality(NameBytes(i)) \in Nat /\ Cardinality(NameBytes(i + 1)) \in Nat
          BY <1>3, <4>2
        <5>4. finalSize' = 1 + Cardinality(NameBytes(i + 1))
          BY <4>5, <5>1, <5>2, <5>3
        <5> QED
          BY <4>1, <5>4, Zenon
      <4> QED
        BY <4>6, <4>7
    <3>3. CASE RenumberSymbols \/ OpenOutput
      BY <2>4, <3>3 DEF RenumberSymbols, OpenOutput, Goto
    <3> QED
      BY <1>11, <3>1, <3>2, <3>3 DEF InBeforeCopy
  <2>5. (namesSize <= 1 + Cardinality(NameBytes(obj.shnum)))'
    BY <1>6, <2>1
  <2>6. pc' = "sizes" => (finalSize = 1 + Cardinality(NameBytes(i)))'
    BY <1>4, <2>4, Zenon
  <2> QED
    BY <2>2, <2>3, <2>5, <2>6 DEF InvNames, BeforeCopy, AfterCopy
<1>12. CASE NamesSized
  <2>1. /\ pc = "sizes" /\ pc' = "copy" /\ i = obj.shnum /\ i' = 0
        /\ UNCHANGED <<newShdrs, names, namesSize, finalSize>>
    BY <1>12, Zenon DEF NamesSized, Goto
  <2>2. NamesMade(0) /\ namesSize = 1 /\ finalSize = 1 + Cardinality(NameBytes(obj.shnum))
    BY <2>1 DEF InvNames, BeforeCopy
  <2>3. NamesMade(0)'
    BY <1>1, <2>1, <2>2, NamesFrame
  <2>4. Cardinality(NameBytes(0)) = 0
    BY <1>1, NameBytesZero
  <2>5. namesSize' = 1 + Cardinality(NameBytes(0))
    BY <2>1, <2>2, <2>4
  <2> QED
    BY <1>1, <1>4, <1>6, <2>1, <2>2, <2>3, <2>5 DEF InvNames, BeforeCopy, AfterCopy
<1>13. CASE SkipRemoved
  <2>1. /\ pc = "copy" /\ pc' = "copy" /\ i < obj.shnum /\ i' = i + 1 /\ mapping[i] = Removed
        /\ UNCHANGED <<newShdrs, names, namesSize, finalSize>>
    BY <1>13, Zenon DEF SkipRemoved, build
  <2>4. Before(i + 1) = Before(i)
    BY <1>13, SkippedSection
  <2>5. /\ NamesMade(i) /\ namesSize = 1 + Cardinality(NameBytes(i))
        /\ finalSize = 1 + Cardinality(NameBytes(obj.shnum))
    BY <2>1 DEF InvNames
  <2>6. NamesMade(i + 1) /\ NameBytes(i + 1) = NameBytes(i)
    BY <2>4, <2>5, Zenon DEF NamesMade, NameBytes
  <2>7. NamesMade(i)'
    BY <1>1, <2>1, <2>6, Zenon DEF NamesMade, Before, H, Rank, HasName
  <2> QED
    BY <1>1, <1>4, <1>6, <2>1, <2>5, <2>6, <2>7 DEF InvNames, BeforeCopy, AfterCopy
<1>14. CASE InCopy
  <2>1. /\ Copying /\ pc = "copy" /\ pc' = "copy" /\ i' = i + 1 /\ finalSize' = finalSize
    BY <1>14, CopyEffect
  <2>2. /\ NamesMade(i) /\ namesSize = 1 + Cardinality(NameBytes(i))
        /\ finalSize = 1 + Cardinality(NameBytes(obj.shnum))
    BY <2>1 DEF InvNames
  <2>3. /\ NamesMade(i)'
        /\ namesSize' = namesSize + (IF Named(i) THEN NameLength(i) ELSE 0)
    BY <1>14, <2>2, NamesCopied
  <2>4. i \in Sections(obj) /\ i \in Nat /\ ~ IsRel(obj, i) /\ i < obj.shnum
    BY <1>1, <2>1, CopyingFacts, KeptFacts
  <2>5. Cardinality(NameBytes(i + 1)) =
          Cardinality(NameBytes(i)) + (IF Named(i) THEN NameLength(i) ELSE 0)
    BY <1>1, <2>4, NameBytesStep, Zenon
  <2>6. (IF Named(i) THEN NameLength(i) ELSE 0) \in Nat
    BY <1>1, <2>4, NameTableFacts DEF Named, NameLength
  <2>7. namesSize' = 1 + Cardinality(NameBytes(i + 1))
    <3> DEFINE c == IF Named(i) THEN NameLength(i) ELSE 0
    <3> HIDE DEF c
    <3>1. /\ namesSize' = namesSize + c /\ c \in Nat
          /\ Cardinality(NameBytes(i + 1)) = Cardinality(NameBytes(i)) + c
      BY <2>3, <2>5, <2>6 DEF c
    <3>2. Cardinality(NameBytes(i)) \in Nat
      BY <1>3, <2>4
    <3> QED
      BY <2>2, <3>1, <3>2
  <2>8. namesSize' <= 1 + Cardinality(NameBytes(obj.shnum))
    <3>1. Cardinality(NameBytes(i + 1)) <= Cardinality(NameBytes(obj.shnum))
      BY <1>1, <1>2, <2>4, NameBytesMonotone
    <3>2. Cardinality(NameBytes(i + 1)) \in Nat /\ Cardinality(NameBytes(obj.shnum)) \in Nat
      BY <1>2, <1>3, <2>4
    <3> QED
      BY <2>7, <3>1, <3>2
  <2> QED
    BY <1>1, <1>4, <2>1, <2>2, <2>3, <2>7, <2>8 DEF InvNames, BeforeCopy, AfterCopy
<1>15. CASE AllCopied
  <2>1. /\ pc = "copy" /\ pc' = "relocate" /\ i = obj.shnum
        /\ UNCHANGED <<newShdrs, names, namesSize, finalSize>>
    BY <1>15, Zenon DEF AllCopied, Goto, build
  <2>2. NamesMade(obj.shnum) /\ finalSize = 1 + Cardinality(NameBytes(obj.shnum))
    BY <2>1 DEF InvNames
  <2>3. NamesMade(obj.shnum)'
    BY <1>1, <2>1, <2>2, NamesFrame, Zenon
  <2> QED
    BY <1>1, <1>4, <1>6, <2>1, <2>2, <2>3 DEF InvNames, BeforeCopy, AfterCopy
<1>16. CASE InAfterCopy
  <2>1. pc \in AfterCopy /\ pc' \in AfterCopy
    BY <1>16, InAfterCopyFrame
  <2>2. UNCHANGED <<newShdrs, names, namesSize, finalSize>>
    BY <1>16, BuildFrame
  <2>3. NamesMade(obj.shnum) /\ finalSize = 1 + Cardinality(NameBytes(obj.shnum))
    BY <2>1 DEF InvNames
  <2>4. NamesMade(obj.shnum)'
    BY <1>1, <2>2, <2>3, NamesFrame, Zenon
  <2> QED
    BY <1>1, <1>4, <1>6, <2>1, <2>2, <2>3, <2>4 DEF InvNames, BeforeCopy, AfterCopy
<1>17. CASE ToEnding
  <2>1. pc' \in Ending /\ UNCHANGED namesSize
    BY <1>17, ToEndingFrame, BuildFrame
  <2> QED
    BY <1>6, <2>1 DEF InvNames, BeforeCopy, AfterCopy, Ending
<1> QED
  BY <1>8, <1>9, <1>10, <1>11, <1>12, <1>13, <1>14, <1>15, <1>16, <1>17, NextPhases, Zenon

-----------------------------------------------------------------------------
(***************************************************************************)
(* The places of the sections.                                             *)
(***************************************************************************)
LEMMA PlacedFrame ==
  ASSUME NEW n, Placed(n), UNCHANGED <<obj, newShdrs, finalSize, curOff>>
  PROVE  Placed(n)'
  BY Zenon DEF Placed, SizeOf, Before, H, Rank

(* Each iteration moves current_offset by the size of its header, which is *)
(* that of the input but for the name table.                               *)
LEMMA CopyOffset ==
  ASSUME IInv, InCopy
  PROVE  /\ newShdrs'[Rank(i)] \in OutputHeaders
         /\ newShdrs'[Rank(i)].size = SizeOf(i)
         /\ newShdrs'[Rank(i)].offset = curOff
         /\ curOff' = curOff + SizeOf(i)
         /\ SizeOf(i) \in Nat
         /\ \A s \in Before(i) : newShdrs'[Rank(s)] = newShdrs[Rank(s)]
         /\ Before(i + 1) = Before(i) \cup {i}
         /\ \A s \in Before(i) : s \in Nat /\ s < i
<1> DEFINE old == obj.shdrs[i]
           new == NewHeader(old)
           named == [new EXCEPT !.size = finalSize]
<1>1. /\ obj \in Objects /\ i \in KeptSections(obj) /\ i \in Sections(obj) /\ ~ IsRel(obj, i)
      /\ i \in Nat /\ finalSize \in Nat /\ curOff \in Nat /\ Copying
      /\ old.size \in Nat
  BY CopyEffect, CopyingFacts, KeptFacts
<1>2. ASSUME NEW h, MadeHeader(h), AddHeader(old, h), h.size = SizeOf(i)
      PROVE  /\ newShdrs'[Rank(i)] \in OutputHeaders
             /\ newShdrs'[Rank(i)].size = SizeOf(i)
             /\ newShdrs'[Rank(i)].offset = curOff
             /\ \A s \in KeptSections(obj) : s # i => newShdrs'[Rank(s)] = newShdrs[Rank(s)]
  <2>1. h \in OutputHeaders /\ h.offset = curOff
    BY <1>1, <1>2, NewHeaderFacts
  <2>2. /\ newShdrs'[Rank(i)] = h
        /\ \A s \in KeptSections(obj) : s # i => newShdrs'[Rank(s)] = newShdrs[Rank(s)]
    BY <1>1, <1>2, CopiedRow
  <2> QED
    BY <1>2, <2>1, <2>2
<1>3. new.size = old.size /\ named.size = finalSize
  BY <1>1, MadeFields
<1>4. MadeHeader(new) /\ MadeHeader(named)
  BY DEF MadeHeader
<1>5. /\ obj.shdrs[obj.shstrndx].size > 0 /\ obj.shdrs[obj.shstrndx].type = "STRTAB"
      /\ ~ IsSymtab(obj, obj.shstrndx)
  BY <1>1, NameTableFacts
<1>6. \A s \in Before(i) : s \in Nat /\ s < i /\ s # i /\ s \in KeptSections(obj)
  BY <1>1, KeptFacts DEF Before
<1>7. Before(i + 1) = Before(i) \cup {i}
  BY <1>1, BeforeStep
<1>8. SizeOf(i) \in Nat
  BY <1>1 DEF SizeOf
<1> HIDE DEF new, named
<1>9. CASE CopyEmpty
  <2>1. old.size = 0 /\ AddHeader(old, new) /\ curOff' = curOff
    BY <1>9, Zenon DEF CopyEmpty, new
  <2>2. i # obj.shstrndx
    BY <1>5, <2>1
  <2>3. SizeOf(i) = 0 /\ new.size = SizeOf(i)
    BY <1>3, <2>1, <2>2 DEF SizeOf
  <2>4. curOff' = curOff + SizeOf(i)
    BY <1>1, <2>1, <2>3
  <2> QED
    BY <1>2, <1>4, <1>6, <1>7, <1>8, <2>1, <2>3, <2>4, Zenon
<1>10. CASE CopySymbols
  <2>1. IsSymtab(obj, i) /\ AddHeader(old, new) /\ curOff' = curOff + old.size
    BY <1>10, Zenon DEF CopySymbols, new
  <2>2. i # obj.shstrndx
    BY <1>5, <2>1
  <2>3. SizeOf(i) = old.size /\ new.size = SizeOf(i)
    BY <1>3, <2>2 DEF SizeOf
  <2> QED
    BY <1>2, <1>4, <1>6, <1>7, <1>8, <2>1, <2>3, Zenon
<1>11. CASE CopyNames
  <2>1. IsNameTable(i) /\ AddHeader(old, named) /\ curOff' = curOff + finalSize
    BY <1>11, Zenon DEF CopyNames, new, named
  <2>2. SizeOf(i) = finalSize /\ named.size = SizeOf(i)
    BY <1>3, <2>1 DEF SizeOf, IsNameTable
  <2> QED
    BY <1>2, <1>4, <1>6, <1>7, <1>8, <2>1, <2>2, Zenon
<1>12. CASE CopyContents
  <2>1. ~ IsNameTable(i) /\ AddHeader(old, new) /\ curOff' = curOff + old.size
    BY <1>12, Zenon DEF CopyContents, new
  <2>2. SizeOf(i) = old.size /\ new.size = SizeOf(i)
    BY <1>3, <1>5, <2>1 DEF SizeOf, IsNameTable
  <2> QED
    BY <1>2, <1>4, <1>6, <1>7, <1>8, <2>1, <2>2, Zenon
<1> QED
  BY <1>9, <1>10, <1>11, <1>12 DEF InCopy

(* The headers made so far have numbers in their fields.                   *)
LEMMA MadeNumbers ==
  ASSUME obj \in Objects, NEW n, HeadersUpTo(n), NEW s \in Before(n)
  PROVE  /\ H(s) \in OutputHeaders
         /\ H(s).addr \in Nat /\ H(s).offset \in Nat /\ H(s).size \in Nat
         /\ H(s).type = obj.shdrs[s].type /\ H(s).alloc = obj.shdrs[s].alloc
<1>1. s \in KeptSections(obj) /\ s < n
  BY DEF Before
<1>2. HeaderMade(s)
  BY <1>1, Zenon DEF HeadersUpTo
<1>3. /\ H(s) \in OutputHeaders
      /\ H(s).type = obj.shdrs[s].type /\ H(s).alloc = obj.shdrs[s].alloc
  BY <1>2, Zenon DEF HeaderMade, H
<1> QED
  BY <1>3 DEF OutputHeaders

LEMMA PlacedCopied ==
  ASSUME IInv, InCopy, Placed(i)
  PROVE  Placed(i)'
<1> DEFINE B == Before(i)
           new(s) == newShdrs'[Rank(s)]
<1>1. /\ new(i) \in OutputHeaders /\ new(i).size = SizeOf(i) /\ new(i).offset = curOff
      /\ curOff' = curOff + SizeOf(i) /\ SizeOf(i) \in Nat
      /\ \A s \in B : new(s) = H(s) /\ s \in Nat /\ s < i
      /\ Before(i + 1) = B \cup {i}
  BY CopyOffset, Zenon DEF H
<1>2. /\ obj \in Objects /\ i \in Nat /\ curOff \in Nat /\ HeadersUpTo(i)
      /\ i' = i + 1 /\ obj' = obj /\ finalSize' = finalSize
  BY CopyEffect, CopyingFacts
<1>3. /\ curOff >= EhdrSize
      /\ \A s \in B : /\ H(s).size = SizeOf(s)
                      /\ H(s).offset >= EhdrSize
                      /\ H(s).offset + H(s).size <= curOff
                      /\ \A t \in B : s < t => H(s).offset + H(s).size <= H(t).offset
  BY Zenon DEF Placed
<1>4. \A s \in B : H(s).offset \in Nat /\ H(s).size \in Nat
  BY <1>2, MadeNumbers
<1>5. SUFFICES /\ curOff' >= EhdrSize
               /\ \A s \in B \cup {i} :
                    /\ new(s).size = SizeOf(s)
                    /\ new(s).offset >= EhdrSize
                    /\ new(s).offset + new(s).size <= curOff'
                    /\ \A t \in B \cup {i} :
                         s < t => new(s).offset + new(s).size <= new(t).offset
  BY <1>1, <1>2, Zenon DEF Placed, SizeOf, H, Before, Rank
<1> HIDE DEF B, new
<1>6. curOff' >= EhdrSize /\ curOff <= curOff' /\ curOff' \in Nat
  BY <1>1, <1>2, <1>3 DEF EhdrSize
<1>7. ASSUME NEW s \in B \cup {i}
      PROVE  /\ new(s).size = SizeOf(s)
             /\ new(s).offset >= EhdrSize
             /\ new(s).offset + new(s).size <= curOff'
  <2>1. CASE s \in B
    <3>1. new(s) = H(s) /\ H(s).offset \in Nat /\ H(s).size \in Nat
      BY <1>1, <1>4, <2>1
    <3>2. H(s).size = SizeOf(s) /\ H(s).offset >= EhdrSize /\ H(s).offset + H(s).size <= curOff
      BY <1>3, <2>1
    <3> QED
      BY <1>2, <1>6, <3>1, <3>2
  <2>2. CASE s = i
    BY <1>1, <1>2, <1>3, <1>6, <2>2
  <2> QED
    BY <2>1, <2>2
<1>8. ASSUME NEW s \in B \cup {i}, NEW t \in B \cup {i}, s < t
      PROVE  new(s).offset + new(s).size <= new(t).offset
  <2>1. s \in B
    BY <1>1, <1>2, <1>8
  <2>2. new(s) = H(s) /\ H(s).offset + H(s).size <= curOff
    BY <1>1, <1>3, <2>1
  <2>3. CASE t \in B
    BY <1>1, <1>3, <1>8, <2>1, <2>2, <2>3
  <2>4. CASE t = i
    BY <1>1, <2>2, <2>4
  <2> QED
    BY <2>3, <2>4
<1> QED
  BY <1>6, <1>7, <1>8

LEMMA PlacesStep == ASSUME IInv, InvNames, InvPlaces, [Next]_vars PROVE InvPlaces'
<1>1. obj \in Objects /\ pc \in Places /\ i \in 0 .. obj.shnum /\ obj' = obj /\ curOff \in Nat
  BY ObjectStays DEF IInv, InvTypes
<1>2. obj.shnum \in Nat
  BY <1>1, ObjectFacts
<1>3. CASE UNCHANGED vars
  <2>1. UNCHANGED <<obj, pc, i, newShdrs, finalSize, curOff>>
    BY <1>3, Zenon DEF vars, build
  <2> QED
    BY <2>1, PlacedFrame, Zenon DEF InvPlaces
<1>4. CASE InTables \/ AllocateTables \/ InBeforeCopy \/ ToEnding
  <2>1. pc' \notin AfterCopy \cup {"copy"}
    <3>1. CASE AllocateTables
      BY <3>1 DEF AllocateTables, Goto, AfterCopy
    <3> QED
      BY <1>4, <3>1, InTablesFrame, InBeforeCopyFrame, ToEndingFrame
      DEF BeforeTables, BeforeCopy, AfterCopy, Ending
  <2> QED
    BY <2>1 DEF InvPlaces
<1>5. CASE NamesSized
  <2>1. pc' = "copy" /\ i' = 0 /\ curOff' = EhdrSize
    BY <1>5, Zenon DEF NamesSized, Goto
  <2>2. Before(0) = {}
    BY <1>1, KeptFacts DEF Before
  <2>3. Placed(i)'
    <3>1. EhdrSize >= EhdrSize
      BY DEF EhdrSize
    <3> QED
      BY <1>1, <2>1, <2>2, <3>1, Zenon DEF Placed, Before
  <2> QED
    BY <2>1, <2>3 DEF InvPlaces, AfterCopy
<1>6. CASE SkipRemoved
  <2>1. /\ pc = "copy" /\ pc' = "copy" /\ i < obj.shnum /\ i' = i + 1 /\ mapping[i] = Removed
        /\ UNCHANGED <<newShdrs, finalSize, curOff>>
    BY <1>6, Zenon DEF SkipRemoved, build
  <2>2. Before(i + 1) = Before(i)
    BY <1>6, SkippedSection
  <2>3. Placed(i + 1)
    BY <2>1, <2>2, Zenon DEF InvPlaces, Placed
  <2>4. Placed(i)'
    BY <1>1, <2>1, <2>3, Zenon DEF Placed, SizeOf, Before, H, Rank
  <2> QED
    BY <2>1, <2>4 DEF InvPlaces, AfterCopy
<1>7. CASE InCopy
  <2>1. pc = "copy" /\ pc' = "copy"
    BY <1>7, CopyEffect
  <2> QED
    BY <1>7, <2>1, PlacedCopied DEF InvPlaces, AfterCopy
<1>8. CASE AllCopied
  <2>1. /\ pc = "copy" /\ pc' = "relocate" /\ i = obj.shnum
        /\ UNCHANGED <<newShdrs, finalSize, curOff>>
    BY <1>8, Zenon DEF AllCopied, Goto, build
  <2>2. Placed(obj.shnum)
    BY <2>1 DEF InvPlaces
  <2>3. Placed(obj.shnum)'
    BY <1>1, <2>1, <2>2, PlacedFrame, Zenon
  <2> QED
    BY <2>1, <2>3 DEF InvPlaces, AfterCopy
<1>9. CASE InAfterCopy
  <2>1. pc \in AfterCopy /\ pc' \in AfterCopy
    BY <1>9, InAfterCopyFrame
  <2>2. Placed(obj.shnum)'
    BY <1>1, <1>9, <2>1, BuildFrame, PlacedFrame, Zenon DEF InvPlaces
  <2> QED
    BY <2>1, <2>2 DEF InvPlaces, AfterCopy
<1> QED
  BY <1>3, <1>4, <1>5, <1>6, <1>7, <1>8, <1>9, NextPhases, Zenon

-----------------------------------------------------------------------------
(***************************************************************************)
(* The values of the symbols.                                              *)
(***************************************************************************)
LEMMA NullSection ==
  ASSUME NEW o \in Objects
  PROVE  /\ 0 \in KeptSections(o) /\ o.shdrs[0].name = ""
         /\ \A s \in KeptSections(o) : RankIn(o, s) = 0 => s = 0
<1>1. WellFormed(o)
  BY ObjectsAssumption
<1>2. o.shdrs[0].type = "NULL" /\ o.shdrs[0].name = ""
  BY <1>1, Zenon DEF WellFormed
<1>3. 0 \in Sections(o)
  BY ObjectFacts DEF Sections
<1>4. 0 \in KeptSections(o)
  BY <1>2, <1>3 DEF KeptSections, IsRel
<1>5. ASSUME NEW s \in KeptSections(o), RankIn(o, s) = 0 PROVE s = 0
  <2>1. RankIn(o, 0) = 0
    BY RankZero
  <2> QED
    BY <1>4, <1>5, <2>1, RankInjective
<1> QED
  BY <1>2, <1>4, <1>5

LEMMA SymtabFacts ==
  ASSUME NEW o \in Objects, NEW s \in Sections(o), IsSymtab(o, s)
  PROVE  /\ \A t \in Sections(o) : IsSymtab(o, t) => t = s
         /\ o.shdrs[s].size = SymbolSize * o.symnum
         /\ s \in KeptSections(o)
<1>1. WellFormed(o)
  BY ObjectsAssumption
<1>2. /\ \A t, u \in Sections(o) : IsSymtab(o, t) /\ IsSymtab(o, u) => t = u
      /\ \A t \in Sections(o) : IsSymtab(o, t) => o.shdrs[t].size = SymbolSize * o.symnum
  BY <1>1, Zenon DEF WellFormed
<1>3. s \in KeptSections(o)
  BY DEF IsSymtab, KeptSections, IsRel
<1> QED
  BY <1>2, <1>3

(* A written file holds what it held, and the new extent.                  *)
LEMMA WrittenExtents ==
  ASSUME NEW f, NEW at, NEW len, NEW what,
         f = [exists |-> f.exists, extents |-> f.extents, end |-> f.end]
  PROVE  /\ Written(f, at, len, what).extents =
              {e \in f.extents : Apart(e, at, len)} \cup {Extent(at, len, what)}
         /\ Written(f, at, len, what).end = IF f.end < at + len THEN at + len ELSE f.end
<1> DEFINE es == {e \in f.extents : Apart(e, at, len)} \cup {Extent(at, len, what)}
           end == IF f.end < at + len THEN at + len ELSE f.end
<1>1. Written(f, at, len, what) = [f EXCEPT !.extents = es, !.end = end]
  BY DEF Written
<1> HIDE DEF es, end
<1>2. /\ [f EXCEPT !.extents = es, !.end = end].extents = es
      /\ [f EXCEPT !.extents = es, !.end = end].end = end
  OBVIOUS
<1> QED
  BY <1>1, <1>2 DEF es, end

LEMMA OutRecord ==
  ASSUME IInv
  PROVE  out = [exists |-> out.exists, extents |-> out.extents, end |-> out.end]
<1>1. out \in Files
  BY DEF IInv, InvOutput
<1> QED
  BY <1>1 DEF Files

LEMMA OutWritten ==
  ASSUME IInv, NEW at, NEW len, NEW what
  PROVE  /\ Written(out, at, len, what).extents =
              {e \in out.extents : Apart(e, at, len)} \cup {Extent(at, len, what)}
         /\ Written(out, at, len, what).end =
              IF out.end < at + len THEN at + len ELSE out.end
<1>1. out = [exists |-> out.exists, extents |-> out.extents, end |-> out.end]
  BY OutRecord
<1> QED
  BY <1>1, WrittenExtents

(* What a failed write leaves.                                             *)
LEMMA TornExtents ==
  ASSUME IInv, NEW at, NEW len, WriteFails(at, len)
  PROVE  /\ \A e \in out'.extents : e \in out.extents \/ e = Extent(at, len, Torn)
         /\ \A e \in out.extents : e \in out'.extents \/ ~ Apart(e, at, len)
         /\ \/ out' = out
            \/ Extent(at, len, Torn) \in out'.extents
<1>1. out' \in {out, Written(out, at, len, Torn)}
  BY Zenon DEF WriteFails
<1>2. Written(out, at, len, Torn).extents =
        {e \in out.extents : Apart(e, at, len)} \cup {Extent(at, len, Torn)}
  BY OutWritten
<1> QED
  BY <1>1, <1>2, Zenon

(* Only one step writes symbols.                                           *)
LEMMA SymbolsWritten ==
  ASSUME IInv, [Next]_vars, ~ CopySymbols,
         NEW e \in out'.extents, e.what.kind = "symbols"
  PROVE  e \in out.extents
<1>0. /\ \A at, len, h : Extent(at, len, Ehdr(h)).what.kind = "ehdr"
      /\ \A at, len, h : Extent(at, len, Shdr(h)).what.kind = "shdr"
      /\ \A at, len, t, ws : Extent(at, len, Contents(t, ws)).what.kind = "contents"
      /\ \A at, len, t, ns : Extent(at, len, NameTable(t, ns)).what.kind = "names"
      /\ \A at, len : Extent(at, len, Torn).what.kind = "torn"
  BY DEF Extent, Ehdr, Shdr, Contents, NameTable, Torn
<1>1. ASSUME NEW at, NEW len, NEW what, out' = Written(out, at, len, what),
             Extent(at, len, what).what.kind # "symbols"
      PROVE  e \in out.extents
  <2>1. out'.extents = {f \in out.extents : Apart(f, at, len)} \cup {Extent(at, len, what)}
    BY <1>1, OutWritten
  <2> QED
    BY <1>1, <2>1
<1>2. CASE UNCHANGED vars
  BY <1>2, Zenon DEF vars
<1>3. CASE OutputKept
  BY <1>3, OutputKeptFrame
<1>4. CASE OutputWritten
  <2>1. CASE OpenOutput
    BY <2>1 DEF OpenOutput, EmptyFile
  <2>2. CASE WriteInitialHeader
    BY <1>0, <1>1, <2>2 DEF WriteInitialHeader
  <2>3. CASE CopyNames
    BY <1>0, <1>1, <2>3 DEF CopyNames
  <2>4. CASE CopyContents
    BY <1>0, <1>1, <2>4 DEF CopyContents
  <2>5. CASE WriteTarget
    BY <1>0, <1>1, <2>5 DEF WriteTarget
  <2>6. CASE WriteSectionHeader
    BY <1>0, <1>1, <2>6 DEF WriteSectionHeader
  <2>7. CASE RewriteHeader
    BY <1>0, <1>1, <2>7 DEF RewriteHeader
  <2> QED
    BY <1>4, <2>1, <2>2, <2>3, <2>4, <2>5, <2>6, <2>7, Zenon DEF OutputWritten
<1>5. CASE OutputTorn
  <2>1. PICK at, len : WriteFails(at, len)
    BY <1>5, Zenon DEF OutputTorn, WriteInitialHeaderFails, CopyWriteFails, WriteTargetFails,
       WriteSectionHeaderFails, RewriteHeaderFails
  <2> QED
    BY <1>0, <2>1, TornExtents
<1> QED
  BY <1>2, <1>3, <1>4, <1>5, NextPhases, Zenon
  DEF InBeforeCopy, InAfterCopy, ToEnding, InCopy, OutputKept, OutputWritten, OutputTorn

(* A header that is made stays as it is.                                   *)
LEMMA HeaderStays ==
  ASSUME IInv, [Next]_vars, ~ AllocateTables,
         NEW s \in KeptSections(obj), H(s) \in OutputHeaders
  PROVE  H(s)' = H(s)
<1>1. obj' = obj
  BY ObjectStays
<1>2. ASSUME UNCHANGED newShdrs PROVE H(s)' = H(s)
  BY <1>1, <1>2, Zenon DEF H, Rank
<1>3. CASE UNCHANGED vars
  BY <1>2, <1>3, Zenon DEF vars, build
<1>4. CASE InTables
  BY <1>2, <1>4, InTablesFrame
<1>5. CASE InBeforeCopy
  BY <1>2, <1>5, InBeforeCopyFrame
<1>6. CASE NamesSized \/ SkipRemoved \/ AllCopied
  BY <1>2, <1>6, Zenon DEF NamesSized, SkipRemoved, AllCopied, build
<1>7. CASE InAfterCopy \/ ToEnding
  BY <1>2, <1>7, BuildFrame
<1>8. CASE InCopy
  <2>1. PICK h : Copying /\ MadeHeader(h) /\ AddHeader(obj.shdrs[i], h)
    BY <1>8, CopyEffect
  <2>2. obj \in Objects /\ i \in KeptSections(obj) /\ i \in Nat /\ HeadersUpTo(i)
    BY <2>1, CopyingFacts
  <2>3. newShdrs[Rank(i)] = Uninitialised
    BY <2>2 DEF HeadersUpTo
  <2>4. s # i
    BY <2>3, JunkAssumption DEF H
  <2>5. newShdrs'[Rank(s)] = newShdrs[Rank(s)]
    BY <2>1, <2>4, CopiedRow
  <2> QED
    BY <1>1, <2>5, Zenon DEF H, Rank
<1> QED
  BY <1>3, <1>4, <1>5, <1>6, <1>7, <1>8, NextPhases

(* The call of update_symbol_addresses that precedes the fwrite of the     *)
(* symbols adds the address of its section to each symbol it should move.  *)
LEMMA UpdatedValues ==
  ASSUME IInv, InvNames, Unmoved, SymbolsAfterSections, CopySymbols,
         NEW x \in DOMAIN obj.syms
  PROVE  /\ syms'[x].value = MovedValue(x)'
         /\ Moves(obj.syms[x]) => H(obj.syms[x].shndx)' \in OutputHeaders
<1> DEFINE old == obj.syms[x].shndx
           n == syms[x].shndx
           h == newShdrs'[n]
           moved == h.alloc /\ \E str \in RelocatedNames : HasName(h, names', str)
<1>1. /\ Copying /\ pc = "copy" /\ pc' = "copy" /\ IsSymtab(obj, i)
      /\ AddHeader(obj.shdrs[i], NewHeader(obj.shdrs[i]))
      /\ \E junk : syms' = UpdatedSymbols(newShdrs', names', junk)
  <2>1. InCopy
    BY DEF InCopy
  <2> QED
    BY <2>1, CopyEffect, Zenon DEF CopySymbols
<1>2. /\ obj \in Objects /\ obj.shnum \in Nat /\ i \in KeptSections(obj) /\ i < obj.shnum
      /\ newShnum \in Nat /\ newShnum = RankIn(obj, obj.shnum) /\ i \in Nat
      /\ i \in Sections(obj) /\ ~ IsRel(obj, i)
  BY <1>1, CopyingFacts, KeptFacts
<1>3. obj' = obj /\ i' = i + 1
  BY <1>1, Zenon DEF AddHeader
<1>4. /\ syms \in [DOMAIN obj.syms -> Symbols] /\ n = ShndxOf(x)
      /\ syms[x].value = obj.syms[x].value
  BY <1>1 DEF IInv, InvSymbols, BeforeTables, Unmoved
<1>5. syms[x] \in Symbols /\ n \in Nat /\ obj.syms[x] \in Symbols /\ old \in Nat
  BY <1>2, <1>4, ObjectFacts DEF Symbols
<1>6. HeadersUpTo(i)'
  <2>1. InvHeaders'
    BY <1>1, CopiedHeaders DEF MadeHeader
  <2> QED
    BY <1>1, <2>1 DEF InvHeaders
<1>7. NamesMade(i)'
  BY <1>1, NamesCopied DEF InCopy, InvNames
<1>8. syms'[x] = IF n = SHN_UNDEF \/ n = SHN_ABS \/ n >= newShnum THEN syms[x]
                 ELSE IF h = Uninitialised THEN syms'[x]
                 ELSE IF moved THEN [syms[x] EXCEPT !.value = @ + h.addr]
                 ELSE syms[x]
  <2>1. x \in DOMAIN syms
    BY <1>4
  <2>2. PICK junk : syms' = UpdatedSymbols(newShdrs', names', junk)
    BY <1>1
  <2> QED
    BY <2>1, <2>2, Zenon DEF UpdatedSymbols
<1>9. newShnum <= obj.shnum /\ obj.shnum < SHN_LORESERVE
  BY <1>2, ObjectFacts DEF IInv, InvMapping
<1>10. MovedValue(x)' = obj.syms[x].value +
         IF Moves(obj.syms[x]) THEN newShdrs'[Rank(old)].addr ELSE 0
  BY <1>3, Zenon DEF MovedValue, Moves, H, Rank
<1>11. CASE old \in KeptSections(obj)
  <2>1. old < i
    BY <1>1, <1>2, <1>11 DEF SymbolsAfterSections
  <2>2. n = Rank(old) /\ n \in Nat /\ n < newShnum
    <3>1. n = RankIn(obj, old)
      BY <1>4, <1>11, Zenon DEF ShndxOf, Rank
    <3>2. RankIn(obj, old) < RankIn(obj, obj.shnum)
      BY <1>2, <1>11, KeptFacts
    <3> QED
      BY <1>2, <1>5, <3>1, <3>2 DEF Rank
  <2>3. h \in OutputHeaders /\ h.alloc = obj.shdrs[old].alloc /\ h # Uninitialised
    <3>1. PICK t \in KeptSections(obj) : t = old
      BY <1>11
    <3>2. HeaderMade(t)'
      <4>1. t \in KeptSections(obj)' /\ t < i'
        <5>1. t < i + 1
          BY <1>2, <1>5, <2>1, <3>1
        <5> QED
          BY <1>3, <5>1, Zenon
      <4>2. \A u \in KeptSections(obj)' :
              IF u < i' THEN HeaderMade(u)' ELSE (newShdrs[Rank(u)] = Uninitialised)'
        BY <1>6, Zenon DEF HeadersUpTo
      <4> QED
        BY <4>1, <4>2, Zenon
    <3>3. newShdrs'[Rank(t)] \in OutputHeaders
          /\ newShdrs'[Rank(t)].alloc = obj.shdrs[t].alloc
      BY <1>3, <3>2, Zenon DEF HeaderMade, Rank
    <3> QED
      BY <2>2, <3>1, <3>3, JunkAssumption, Zenon
  <2>4. /\ HasName(h, names', obj.shdrs[old].name)
        /\ \A e, f \in names' : e.at = f.at => e = f
    <3>1. old \in Before(i)'
      BY <1>2, <1>3, <1>5, <1>11, <2>1 DEF Before
    <3>2. /\ HasName(newShdrs'[Rank(old)], names', obj.shdrs[old].name)
          /\ \A e, f \in names' : e.at = f.at => e = f
      BY <1>3, <1>7, <3>1, Zenon DEF NamesMade, H, Rank
    <3> QED
      BY <2>2, <3>2, Zenon
  <2>5. (\E str \in RelocatedNames : HasName(h, names', str))
          <=> obj.shdrs[old].name \in RelocatedNames
    <3>1. ASSUME NEW str, HasName(h, names', str) PROVE str = obj.shdrs[old].name
      <4> DEFINE e == [at |-> h.name, str |-> str]
                 f == [at |-> h.name, str |-> obj.shdrs[old].name]
      <4>1. e \in names' /\ f \in names'
        BY <2>4, <3>1 DEF HasName
      <4>2. e.at = f.at
        OBVIOUS
      <4>3. e = f
        BY <2>4, <4>1, <4>2, Zenon
      <4>4. e.str = f.str
        BY <4>3, Zenon
      <4> QED
        BY <4>4
    <3> QED
      BY <2>4, <3>1
  <2>6. moved <=> Moves(obj.syms[x])
    BY <1>11, <2>3, <2>5, Zenon DEF Moves
  <2>7. n # SHN_ABS /\ ~ (n >= newShnum)
    BY <1>2, <1>9, <2>2 DEF SHN_ABS, SHN_LORESERVE
  <2>8. n = SHN_UNDEF => ~ Moves(obj.syms[x])
    <3>1. SUFFICES ASSUME n = 0 PROVE ~ Moves(obj.syms[x])
      BY DEF SHN_UNDEF
    <3>2. RankIn(obj, old) = 0
      BY <2>2, <3>1 DEF Rank
    <3>3. obj.shdrs[old].name = ""
      BY <1>2, <1>11, <3>2, NullSection, Zenon
    <3> QED
      BY <3>3, Zenon DEF Moves, RelocatedNames
  <2> HIDE DEF old, n, h, moved
  <2>9. CASE Moves(obj.syms[x])
    <3>1. syms'[x] = [syms[x] EXCEPT !.value = @ + h.addr]
      BY <1>8, <2>3, <2>6, <2>7, <2>8, <2>9, Zenon
    <3>2. syms'[x].value = syms[x].value + h.addr
      BY <1>5, <3>1 DEF Symbols
    <3>3. MovedValue(x)' = obj.syms[x].value + h.addr
      BY <1>10, <2>2, <2>9, Zenon DEF h
    <3>4. H(obj.syms[x].shndx)' \in OutputHeaders
      BY <1>3, <2>2, <2>3, Zenon DEF H, Rank, h, old
    <3> QED
      BY <1>4, <3>2, <3>3, <3>4, Zenon
  <2>10. CASE ~ Moves(obj.syms[x])
    <3>1. syms'[x] = syms[x]
      BY <1>8, <2>3, <2>6, <2>7, <2>8, <2>10, Zenon
    <3>2. MovedValue(x)' = obj.syms[x].value + 0
      BY <1>10, <2>10, Zenon
    <3> QED
      BY <1>4, <1>5, <2>10, <3>1, <3>2 DEF Symbols
  <2> QED
    BY <2>9, <2>10
<1>12. CASE old \notin KeptSections(obj)
  <2>1. n = SHN_UNDEF \/ n >= newShnum
    <3>1. n = IF old >= SHN_LORESERVE THEN old ELSE SHN_UNDEF
      BY <1>4, <1>12, Zenon DEF ShndxOf
    <3> QED
      BY <1>2, <1>5, <1>9, <3>1 DEF SHN_LORESERVE
  <2>2. syms'[x] = syms[x]
    BY <1>8, <2>1, Zenon
  <2>3. ~ Moves(obj.syms[x])
    BY <1>12 DEF Moves
  <2>4. MovedValue(x)' = obj.syms[x].value + 0
    BY <1>10, <2>3, Zenon
  <2> HIDE DEF old, n, h, moved
  <2> QED
    BY <1>4, <1>5, <2>2, <2>3, <2>4 DEF Symbols
<1> QED
  BY <1>11, <1>12

LEMMA ValuesInit == Init => InvValues
  BY DEF Init, InvValues, NoFile

LEMMA AllocatePlace ==
  ASSUME AllocateTables
  PROVE  pc = "allocate" /\ pc' = "renumber" /\ out' = out
  BY Zenon DEF AllocateTables, Goto

LEMMA ValuesInTables ==
  ASSUME IInv, InvValues, [Next]_vars
  PROVE  /\ pc' \in {"open", "header", "sizes"} => Unmoved'
         /\ pc' = "copy" /\ (\A s \in Sections(obj) : IsSymtab(obj, s) => i' <= s) => Unmoved'
<1>1. obj \in Objects /\ pc \in Places /\ i \in 0 .. obj.shnum /\ obj' = obj
  BY ObjectStays DEF IInv, InvTypes
<1>2. obj.shnum \in Nat /\ i \in Nat /\ \A s \in Sections(obj) : s \in Nat
  BY <1>1, ObjectFacts DEF Sections
<1>3. ASSUME Unmoved, UNCHANGED syms PROVE Unmoved'
  BY <1>1, <1>3, Zenon DEF Unmoved
<1>4. CASE UNCHANGED vars
  <2>1. UNCHANGED <<pc, i, syms>>
    BY <1>4, Zenon DEF vars, build
  <2> QED
    BY <1>3, <2>1, Zenon DEF InvValues
<1>5. CASE InTables \/ AllocateTables \/ AllCopied \/ InAfterCopy \/ ToEnding
  <2>1. pc' \notin {"open", "header", "sizes", "copy"}
    <3>1. CASE AllCopied
      BY <3>1 DEF AllCopied, Goto
    <3> QED
      BY <1>5, <3>1, AllocatePlace, InTablesFrame, InAfterCopyFrame, ToEndingFrame
      DEF BeforeTables, AfterCopy, Ending
  <2> QED
    BY <2>1
<1>6. CASE RenumberSymbols
  <2>1. /\ pc = "renumber" /\ pc' = "open"
        /\ syms' = [x \in DOMAIN syms |->
                      [syms[x] EXCEPT !.shndx = Renumbered(syms[x].shndx)]]
    BY <1>6 DEF RenumberSymbols, Goto
  <2>2. syms = obj.syms
    BY <2>1 DEF IInv, InvSymbols
  <2>3. ASSUME NEW x \in DOMAIN obj.syms PROVE syms'[x].value = obj.syms[x].value
    <3>1. syms'[x] = [obj.syms[x] EXCEPT !.shndx = Renumbered(obj.syms[x].shndx)]
      BY <2>1, <2>2, Zenon
    <3>2. obj.syms[x] \in Symbols
      BY <1>1, ObjectFacts
    <3> QED
      BY <3>1, <3>2 DEF Symbols
  <2> QED
    BY <1>1, <2>1, <2>3, Zenon DEF Unmoved
<1>7. CASE OpenOutput \/ WriteInitialHeader \/ SizeName \/ NamesSized
  <2>1. pc \in {"open", "header", "sizes"}
    BY <1>7 DEF OpenOutput, WriteInitialHeader, SizeName, NamesSized
  <2>2. syms' = syms
    BY <1>7, SymbolsKeptFrame DEF SymbolsKept
  <2> QED
    BY <1>3, <2>1, <2>2, Zenon DEF InvValues
<1>8. CASE SkipRemoved \/ CopyEmpty \/ CopyNames \/ CopyContents
  <2>1. syms' = syms
    BY <1>8, SymbolsKeptFrame DEF SymbolsKept
  <2>2. pc = "copy" /\ pc' = "copy" /\ i' = i + 1
    <3>1. CASE SkipRemoved
      BY <3>1 DEF SkipRemoved
    <3> QED
      BY <1>8, <3>1, CopyEffect DEF InCopy
  <2>3. \A s \in Sections(obj) : i' <= s => i <= s
    BY <1>2, <2>2
  <2> QED
    BY <1>3, <2>1, <2>2, <2>3 DEF InvValues
<1>9. CASE CopySymbols
  <2>1. Copying /\ IsSymtab(obj, i) /\ pc' = "copy" /\ i' = i + 1
    BY <1>9, CopyEffect, Zenon DEF CopySymbols, InCopy
  <2>2. i \in Sections(obj) /\ ~ (i' <= i)
    BY <1>1, <1>2, <2>1, CopyingFacts, KeptFacts
  <2> QED
    BY <2>1, <2>2
<1> QED
  BY <1>4, <1>5, <1>6, <1>7, <1>8, <1>9, NextPhases, Zenon DEF InBeforeCopy, InCopy

LEMMA ValuesStep == ASSUME IInv, InvNames, InvValues, [Next]_vars PROVE InvValues'
<1>1. obj \in Objects /\ obj' = obj
  BY ObjectStays DEF IInv, InvTypes
<1>2. ASSUME SymbolsAfterSections, NEW e \in out'.extents, e.what.kind = "symbols",
             NEW x \in DOMAIN obj.syms
      PROVE  /\ e.what.syms[x].value = MovedValue(x)'
             /\ Moves(obj.syms[x]) => H(obj.syms[x].shndx)' \in OutputHeaders
  <2>1. CASE AllocateTables
    <3>1. out' = NoFile
      BY <2>1, AllocatePlace DEF IInv, InvOutput, BeforeOutput, BeforeTables
    <3> QED
      BY <1>2, <3>1 DEF NoFile
  <2>2. CASE ~ AllocateTables /\ e \in out.extents
    <3>1. /\ e.what.syms[x].value = MovedValue(x)
          /\ Moves(obj.syms[x]) => H(obj.syms[x].shndx) \in OutputHeaders
      BY <1>2, <2>2, Zenon DEF InvValues
    <3>2. Moves(obj.syms[x]) => obj.syms[x].shndx \in KeptSections(obj)
      BY DEF Moves
    <3>3. Moves(obj.syms[x]) => H(obj.syms[x].shndx)' = H(obj.syms[x].shndx)
      BY <1>1, <2>2, <3>1, <3>2, HeaderStays, Zenon DEF H, Rank
    <3>4. MovedValue(x)' = MovedValue(x)
      BY <1>1, <3>3, Zenon DEF MovedValue, Moves, H, Rank
    <3> QED
      BY <3>1, <3>3, <3>4, Zenon
  <2>3. CASE ~ AllocateTables /\ e \notin out.extents
    <3>1. CopySymbols
      BY <1>2, <2>3, SymbolsWritten
    <3>2. /\ pc = "copy" /\ IsSymtab(obj, i) /\ Copying
          /\ out' = Written(out, out.end, obj.shdrs[i].size, SymbolTable(i, syms'))
      BY <3>1, Zenon DEF CopySymbols, Copying
    <3>3. e = Extent(out.end, obj.shdrs[i].size, SymbolTable(i, syms'))
      BY <2>3, <3>2, OutWritten
    <3>4. e.what.syms = syms'
      BY <3>3 DEF Extent, SymbolTable
    <3>5. Unmoved
      <4>1. i \in Sections(obj) /\ i \in Nat
        BY <3>2, CopyingFacts, KeptFacts
      <4>2. \A s \in Sections(obj) : IsSymtab(obj, s) => i <= s
        BY <1>1, <3>2, <4>1, SymtabFacts
      <4> QED
        BY <3>2, <4>2, Zenon DEF InvValues
    <3> QED
      BY <1>2, <3>1, <3>4, <3>5, UpdatedValues, Zenon
  <2> QED
    BY <2>1, <2>2, <2>3
<1>3. SymbolsAfterSections' => SymbolsAfterSections
  BY <1>1, Zenon DEF SymbolsAfterSections
<1>4. \A s : Moves(s)' = Moves(s)
  BY <1>1, Zenon DEF Moves
<1> QED
  BY <1>1, <1>2, <1>3, <1>4, ValuesInTables, Zenon DEF InvValues

-----------------------------------------------------------------------------
(***************************************************************************)
(* The extents of the file.                                                *)
(***************************************************************************)
LEMMA KindFacts == \A s : KindOf(s) \in {"symbols", "names", "contents"}
  BY DEF KindOf

LEMMA ExtentFields ==
  ASSUME NEW at, NEW len, NEW what
  PROVE  /\ Extent(at, len, what).at = at
         /\ Extent(at, len, what).len = len
         /\ Extent(at, len, what).what = what
  BY DEF Extent

LEMMA HeaderFields ==
  ASSUME NEW h
  PROVE  /\ HeaderExtent(h).at = 0 /\ HeaderExtent(h).len = EhdrSize
         /\ HeaderExtent(h).what.kind = "ehdr" /\ HeaderExtent(h).what.header = h
  BY DEF HeaderExtent, Extent, Ehdr

LEMMA TableFields ==
  ASSUME NEW x
  PROVE  /\ TableExtent(x).at = curOff + ShdrSize * x /\ TableExtent(x).len = ShdrSize
         /\ TableExtent(x).what.kind = "shdr" /\ TableExtent(x).what.header = newShdrs[x]
  BY DEF TableExtent, Extent, Shdr

LEMMA DiskBounds ==
  ASSUME obj \in Objects, curOff \in Nat, NEW h, NEW n, NEW m \in Nat,
         HeadersUpTo(n), Placed(n), Disk(h, n, m)
  PROVE  /\ out.end \in Nat /\ curOff <= out.end /\ EhdrSize <= curOff
         /\ \A e \in out.extents :
              /\ e.at \in Nat /\ e.len \in Nat /\ e.at + e.len <= out.end
              /\ e = HeaderExtent(h) \/ e.at >= EhdrSize
<1>1. out.end = curOff + ShdrSize * m /\ curOff >= EhdrSize
  BY DEF Disk, Placed
<1>2. out.end \in Nat /\ curOff <= out.end /\ EhdrSize <= curOff /\ EhdrSize \in Nat
  BY <1>1 DEF ShdrSize, EhdrSize
<1>3. ASSUME NEW e \in out.extents
      PROVE  /\ e.at \in Nat /\ e.len \in Nat /\ e.at + e.len <= out.end
             /\ e = HeaderExtent(h) \/ e.at >= EhdrSize
  <2>1. \/ e = HeaderExtent(h)
        \/ \E s \in Stored(n) : Keeps(e, s)
        \/ \E x \in 0 .. (m - 1) : e = TableExtent(x)
    BY Zenon DEF Disk
  <2>2. CASE e = HeaderExtent(h)
    <3>1. e.at = 0 /\ e.len = EhdrSize
      BY <2>2, HeaderFields
    <3> QED
      BY <1>2, <2>2, <3>1
  <2>3. CASE \E s \in Stored(n) : Keeps(e, s)
    <3>1. PICK s \in Before(n) : e.at = H(s).offset /\ e.len = H(s).size
      BY <2>3, Zenon DEF Keeps, Stored
    <3>2. H(s).offset \in Nat /\ H(s).size \in Nat
      BY MadeNumbers
    <3>3. H(s).offset >= EhdrSize /\ H(s).offset + H(s).size <= curOff
      BY Zenon DEF Placed
    <3> QED
      BY <1>2, <3>1, <3>2, <3>3
  <2>4. CASE \E x \in 0 .. (m - 1) : e = TableExtent(x)
    <3>1. PICK x \in 0 .. (m - 1) : e = TableExtent(x)
      BY <2>4
    <3>2. e.at = curOff + ShdrSize * x /\ e.len = ShdrSize
      BY <3>1, TableFields
    <3> QED
      BY <1>1, <1>2, <3>2 DEF ShdrSize, EhdrSize
  <2> QED
    BY <2>1, <2>2, <2>3, <2>4
<1> QED
  BY <1>2, <1>3

(* A write at the end of the file.                                         *)
LEMMA DiskAppend ==
  ASSUME IInv, NEW h, NEW n, NEW m \in Nat, HeadersUpTo(n), Placed(n), Disk(h, n, m),
         NEW len \in Nat, NEW what
  PROVE  /\ \A e \in out.extents : Apart(e, out.end, len)
         /\ Written(out, out.end, len, what).extents =
              out.extents \cup {Extent(out.end, len, what)}
         /\ Written(out, out.end, len, what).end = out.end + len
<1>1. obj \in Objects /\ curOff \in Nat
  BY DEF IInv, InvTypes
<1>2. /\ out.end \in Nat
      /\ \A e \in out.extents : e.at \in Nat /\ e.len \in Nat /\ e.at + e.len <= out.end
  BY <1>1, DiskBounds
<1>3. \A e \in out.extents : Apart(e, out.end, len)
  BY <1>2 DEF Apart
<1>4. /\ Written(out, out.end, len, what).extents =
           {e \in out.extents : Apart(e, out.end, len)} \cup {Extent(out.end, len, what)}
      /\ Written(out, out.end, len, what).end =
           IF out.end < out.end + len THEN out.end + len ELSE out.end
  BY OutWritten
<1>5. (IF out.end < out.end + len THEN out.end + len ELSE out.end) = out.end + len
  BY <1>2
<1>6. {e \in out.extents : Apart(e, out.end, len)} = out.extents
  BY <1>3
<1> QED
  BY <1>3, <1>4, <1>5, <1>6, Zenon

(* A write over a section.                                                 *)
LEMMA DiskOverSection ==
  ASSUME IInv, NEW h, NEW n, HeadersUpTo(n), Placed(n), Disk(h, n, 0),
         NEW t \in Stored(n), NEW what
  PROVE  /\ \A e \in out.extents :
              IF Keeps(e, t) THEN ~ Apart(e, H(t).offset, H(t).size)
              ELSE Apart(e, H(t).offset, H(t).size)
         /\ Written(out, H(t).offset, H(t).size, what).extents =
              {e \in out.extents : ~ Keeps(e, t)}
                \cup {Extent(H(t).offset, H(t).size, what)}
         /\ Written(out, H(t).offset, H(t).size, what).end = out.end
<1>1. obj \in Objects /\ curOff \in Nat
  BY DEF IInv, InvTypes
<1>2. t \in Before(n) /\ H(t).size > 0
  BY DEF Stored
<1>3. H(t).offset \in Nat /\ H(t).size \in Nat
  BY <1>1, <1>2, MadeNumbers
<1>4. H(t).offset >= EhdrSize /\ H(t).offset + H(t).size <= curOff
  BY <1>2, Zenon DEF Placed
<1>5. out.end \in Nat /\ curOff <= out.end
  <2>1. 0 \in Nat
    OBVIOUS
  <2> QED
    BY <1>1, <2>1, DiskBounds
<1>6. ASSUME NEW e \in out.extents
      PROVE  IF Keeps(e, t) THEN ~ Apart(e, H(t).offset, H(t).size)
             ELSE Apart(e, H(t).offset, H(t).size)
  <2>1. CASE Keeps(e, t)
    <3>1. e.at = H(t).offset /\ e.len = H(t).size
      BY <2>1, Zenon DEF Keeps
    <3>2. ~ Apart(e, H(t).offset, H(t).size)
      BY <1>2, <1>3, <3>1 DEF Apart
    <3> QED
      BY <2>1, <3>2
  <2>2. CASE ~ Keeps(e, t)
    <3>1. e = HeaderExtent(h) \/ \E s \in Stored(n) : Keeps(e, s)
      <4>1. 0 .. (0 - 1) = {}
        OBVIOUS
      <4> QED
        BY <4>1, Zenon DEF Disk
    <3>2. CASE e = HeaderExtent(h)
      <4>1. e.at = 0 /\ e.len = EhdrSize
        BY <3>2, HeaderFields
      <4>2. Apart(e, H(t).offset, H(t).size)
        BY <1>3, <1>4, <4>1 DEF Apart, EhdrSize
      <4> QED
        BY <2>2, <4>2
    <3>3. CASE \E s \in Stored(n) : Keeps(e, s)
      <4>1. PICK s \in Before(n) : Keeps(e, s)
        BY <3>3 DEF Stored
      <4>2. s # t
        BY <2>2, <4>1
      <4>3. e.at = H(s).offset /\ e.len = H(s).size
        BY <4>1, Zenon DEF Keeps
      <4>4. H(s).offset \in Nat /\ H(s).size \in Nat
        BY <1>1, MadeNumbers
      <4>5. s \in Nat /\ t \in Nat
        BY <1>1, <1>2, KeptFacts DEF Before
      <4>6. s < t \/ t < s
        BY <4>2, <4>5
      <4>7. \/ H(s).offset + H(s).size <= H(t).offset
            \/ H(t).offset + H(t).size <= H(s).offset
        BY <1>2, <4>6, Zenon DEF Placed
      <4>8. Apart(e, H(t).offset, H(t).size)
        BY <4>3, <4>7, Zenon DEF Apart
      <4> QED
        BY <2>2, <4>8
    <3> QED
      BY <3>1, <3>2, <3>3
  <2> QED
    BY <2>1, <2>2
<1>7. {e \in out.extents : Apart(e, H(t).offset, H(t).size)} =
      {e \in out.extents : ~ Keeps(e, t)}
  BY <1>6, Zenon
<1>8. /\ Written(out, H(t).offset, H(t).size, what).extents =
           {e \in out.extents : Apart(e, H(t).offset, H(t).size)}
             \cup {Extent(H(t).offset, H(t).size, what)}
      /\ Written(out, H(t).offset, H(t).size, what).end =
           IF out.end < H(t).offset + H(t).size THEN H(t).offset + H(t).size ELSE out.end
  BY OutWritten
<1>9. ~ (out.end < H(t).offset + H(t).size)
  BY <1>1, <1>3, <1>4, <1>5
<1> QED
  BY <1>6, <1>7, <1>8, <1>9, Zenon

(* A write over the ELF header.                                            *)
LEMMA DiskOverHeader ==
  ASSUME IInv, NEW h, NEW n, NEW m \in Nat, HeadersUpTo(n), Placed(n), Disk(h, n, m),
         NEW what
  PROVE  /\ \A e \in out.extents :
              IF e = HeaderExtent(h) THEN ~ Apart(e, 0, EhdrSize) ELSE Apart(e, 0, EhdrSize)
         /\ Written(out, 0, EhdrSize, what).extents =
              {e \in out.extents : e # HeaderExtent(h)} \cup {Extent(0, EhdrSize, what)}
         /\ Written(out, 0, EhdrSize, what).end = out.end
<1>1. obj \in Objects /\ curOff \in Nat
  BY DEF IInv, InvTypes
<1>2. /\ out.end \in Nat /\ curOff <= out.end /\ EhdrSize <= curOff
      /\ \A e \in out.extents :
           /\ e.at \in Nat /\ e.len \in Nat
           /\ e = HeaderExtent(h) \/ e.at >= EhdrSize
  BY <1>1, DiskBounds
<1>3. ASSUME NEW e \in out.extents
      PROVE  IF e = HeaderExtent(h) THEN ~ Apart(e, 0, EhdrSize) ELSE Apart(e, 0, EhdrSize)
  <2>1. CASE e = HeaderExtent(h)
    <3>1. e.at = 0 /\ e.len = EhdrSize
      BY <2>1, HeaderFields
    <3>2. ~ Apart(e, 0, EhdrSize)
      BY <3>1 DEF Apart, EhdrSize
    <3> QED
      BY <2>1, <3>2
  <2>2. CASE e # HeaderExtent(h)
    <3>1. Apart(e, 0, EhdrSize)
      BY <1>2, <2>2 DEF Apart, EhdrSize
    <3> QED
      BY <2>2, <3>1
  <2> QED
    BY <2>1, <2>2
<1>4. {e \in out.extents : Apart(e, 0, EhdrSize)} = {e \in out.extents : e # HeaderExtent(h)}
  BY <1>3, Zenon
<1>5. /\ Written(out, 0, EhdrSize, what).extents =
           {e \in out.extents : Apart(e, 0, EhdrSize)} \cup {Extent(0, EhdrSize, what)}
      /\ Written(out, 0, EhdrSize, what).end =
           IF out.end < 0 + EhdrSize THEN 0 + EhdrSize ELSE out.end
  BY OutWritten
<1>6. ~ (out.end < 0 + EhdrSize)
  BY <1>1, <1>2 DEF EhdrSize
<1> QED
  BY <1>3, <1>4, <1>5, <1>6, Zenon

LEMMA KindFrame ==
  ASSUME obj' = obj
  PROVE  \A s : /\ KindOf(s)' = KindOf(s)
               /\ IsSymtab(obj, s)' = IsSymtab(obj, s)
               /\ IsNameTable(s)' = IsNameTable(s)
               /\ Rank(s)' = Rank(s) /\ Before(s)' = Before(s)
  BY Zenon DEF KindOf, IsNameTable, Rank, Before

LEMMA DiskFrame ==
  ASSUME NEW h, NEW n, NEW m, Disk(h, n, m),
         UNCHANGED <<obj, newShdrs, names, syms, curOff, out>>
  PROVE  Disk(h, n, m)'
<1>1. \A s : H(s)' = H(s)
  BY KindFrame, Zenon DEF H
<1>2. \A e, s : Keeps(e, s)' = Keeps(e, s)
  BY <1>1, KindFrame, Zenon DEF Keeps, Holds
<1>3. Stored(n)' = Stored(n)
  BY <1>1 DEF Stored, Before
<1>4. \A x : TableExtent(x)' = TableExtent(x)
  BY Zenon DEF TableExtent
<1> QED
  BY <1>2, <1>3, <1>4, Zenon DEF Disk

(* What an iteration of the copy loop writes.                              *)
LEMMA CopiedExtent ==
  ASSUME IInv, InvNames, NamesLast, [Next]_vars, InCopy, NEW s, s = i,
         NEW h, Placed(i), Disk(h, i, 0)
  PROVE  /\ IF H(s)'.size > 0
              THEN \E e : /\ out'.extents = out.extents \cup {e}
                         /\ Keeps(e, s)'
              ELSE out'.extents = out.extents
         /\ out'.end = out.end + H(s)'.size
         /\ \A e : \A t \in Before(i) : Keeps(e, t)' <=> Keeps(e, t)
<1> DEFINE old == obj.shdrs[i]
<1>1. /\ Copying /\ pc = "copy" /\ pc' = "copy" /\ i' = i + 1 /\ obj' = obj
      /\ finalSize' = finalSize
  BY CopyEffect
<1>2. /\ obj \in Objects /\ obj.shnum \in Nat /\ i \in KeptSections(obj) /\ i \in Nat
      /\ i < obj.shnum /\ i \in Sections(obj) /\ HeadersUpTo(i) /\ curOff \in Nat
      /\ old.size \in Nat
  BY <1>1, CopyingFacts, KeptFacts
<1>3. /\ H(s)'.size = SizeOf(s) /\ H(s)'.offset = curOff /\ SizeOf(s) \in Nat
      /\ \A t \in Before(i) : H(t)' = H(t)
  BY <1>1, CopyOffset, KindFrame, Zenon DEF H
<1>4. /\ obj.shdrs[obj.shstrndx].size > 0 /\ obj.shdrs[obj.shstrndx].type = "STRTAB"
      /\ ~ IsSymtab(obj, obj.shstrndx) /\ obj.shstrndx \in Nat
  <2>1. /\ obj.shdrs[obj.shstrndx].size > 0 /\ obj.shdrs[obj.shstrndx].type = "STRTAB"
        /\ ~ IsSymtab(obj, obj.shstrndx) /\ obj.shstrndx \in KeptSections(obj)
    BY <1>2, NameTableFacts, Zenon
  <2> QED
    BY <1>2, <2>1, KeptFacts
<1>5. out.end = curOff /\ out.end \in Nat
  <2>1. out.end = curOff + ShdrSize * 0
    BY Zenon DEF Disk
  <2> QED
    BY <1>2, <2>1 DEF ShdrSize
<1>6. \A t \in Before(i) : t # i /\ ~ IsNameTable(t)
  <2>1. SUFFICES ASSUME NEW t \in Before(i) PROVE t # i /\ t # obj.shstrndx
    BY DEF IsNameTable
  <2>2. t < i /\ t \in Nat
    BY <1>2, KeptFacts DEF Before
  <2>3. i <= obj.shstrndx
    BY <1>2 DEF NamesLast
  <2> QED
    BY <1>2, <1>4, <2>2, <2>3
<1>7. ASSUME NEW len \in Nat, NEW what
      PROVE  /\ Written(out, out.end, len, what).extents =
                   out.extents \cup {Extent(out.end, len, what)}
             /\ Written(out, out.end, len, what).end = out.end + len
  <2>1. 0 \in Nat
    OBVIOUS
  <2> QED
    BY <1>2, <2>1, DiskAppend
<1>8. ASSUME NEW what, out' = Written(out, out.end, SizeOf(s), what), SizeOf(s) > 0,
             what.kind = KindOf(s), what.of = s,
             IsSymtab(obj, s) => what.syms = syms',
             IsNameTable(s) => what.names = names'
      PROVE  /\ IF H(s)'.size > 0
                  THEN \E e : /\ out'.extents = out.extents \cup {e}
                             /\ Keeps(e, s)'
                  ELSE out'.extents = out.extents
             /\ out'.end = out.end + H(s)'.size
  <2> DEFINE e == Extent(out.end, SizeOf(s), what)
  <2>1. e.at = out.end /\ e.len = SizeOf(s) /\ e.what = what
    BY ExtentFields
  <2> HIDE DEF e
  <2>2. PICK f : f = e
    OBVIOUS
  <2>3. f.at = out.end /\ f.len = SizeOf(s) /\ f.what = what
    BY <2>1, <2>2
  <2>4. Holds(s, what)'
    BY <1>1, <1>8, KindFrame, Zenon DEF Holds
  <2>5. Keeps(f, s)'
    BY <1>3, <1>5, <2>3, <2>4, Zenon DEF Keeps
  <2>6. out'.extents = out.extents \cup {f} /\ out'.end = out.end + SizeOf(s)
    BY <1>3, <1>7, <1>8, <2>2 DEF e
  <2> QED
    BY <1>3, <1>8, <2>5, <2>6, Zenon
<1> SUFFICES /\ IF H(s)'.size > 0
                  THEN \E e : /\ out'.extents = out.extents \cup {e}
                             /\ Keeps(e, s)'
                  ELSE out'.extents = out.extents
             /\ out'.end = out.end + H(s)'.size
             /\ \A t \in Before(i) : IsSymtab(obj, t) => syms' = syms
  BY <1>1, <1>3, <1>6, KindFrame, Zenon DEF Keeps, Holds
<1>9. CASE CopyEmpty
  <2>1. old.size = 0 /\ out' = out /\ syms' = syms
    BY <1>9, Zenon DEF CopyEmpty
  <2>2. SizeOf(s) = 0
    BY <1>4, <2>1 DEF SizeOf
  <2>3. ~ (H(s)'.size > 0) /\ out'.end = out.end + H(s)'.size
    <3>1. H(s)'.size = 0
      BY <1>3, <2>2, Zenon
    <3> QED
      BY <1>5, <2>1, <3>1
  <2> QED
    BY <2>1, <2>3, Zenon
<1>10. CASE CopySymbols
  <2>1. /\ IsSymtab(obj, i) /\ old.size > 0
        /\ out' = Written(out, out.end, old.size, SymbolTable(i, syms'))
    BY <1>10, Zenon DEF CopySymbols
  <2>2. s # obj.shstrndx /\ SizeOf(s) = old.size
    BY <1>4, <2>1 DEF SizeOf
  <2>3. KindOf(s) = "symbols" /\ ~ IsNameTable(s)
    BY <2>1, <2>2 DEF KindOf, IsNameTable
  <2>4. /\ SymbolTable(i, syms').kind = "symbols" /\ SymbolTable(i, syms').of = s
        /\ SymbolTable(i, syms').syms = syms'
    BY DEF SymbolTable
  <2>5. \A t \in Before(i) : ~ IsSymtab(obj, t)
    BY <1>2, <1>6, <2>1, SymtabFacts DEF Before, KeptSections
  <2> QED
    BY <1>8, <2>1, <2>2, <2>3, <2>4, <2>5, Zenon
<1>11. CASE CopyNames
  <2>1. /\ IsNameTable(i) /\ old.size > 0 /\ syms' = syms
        /\ out' = Written(out, out.end, namesSize', NameTable(i, names'))
    BY <1>11, Zenon DEF CopyNames
  <2>2. s = obj.shstrndx /\ SizeOf(s) = finalSize
    BY <2>1 DEF SizeOf, IsNameTable
  <2>3. KindOf(s) = "names" /\ ~ IsSymtab(obj, s)
    BY <1>4, <2>1, <2>2 DEF KindOf
  <2>4. /\ NameTable(i, names').kind = "names" /\ NameTable(i, names').of = s
        /\ NameTable(i, names').names = names'
    BY DEF NameTable
  <2>5. i + 1 = obj.shnum
    <3>1. obj.shnum - 1 \in Sections(obj)
      BY <1>2 DEF Sections
    <3>2. obj.shnum - 1 <= obj.shstrndx
      BY <3>1 DEF NamesLast
    <3> QED
      BY <1>2, <1>4, <2>2, <3>2
  <2>6. namesSize' = SizeOf(s) /\ namesSize' > 0
    <3>1. InvNames'
      BY NamesStep
    <3>2. namesSize' = 1 + Cardinality(NameBytes(i))' /\ finalSize' = 1 + Cardinality(NameBytes(obj.shnum))'
      BY <1>1, <3>1 DEF InvNames
    <3>3. NameBytes(i)' = NameBytes(obj.shnum)'
      BY <1>1, <2>5, Zenon
    <3>4. Cardinality(NameBytes(obj.shnum)) \in Nat
      BY <1>2, NameBytesFinite
    <3>5. finalSize = 1 + Cardinality(NameBytes(obj.shnum))
      BY <1>1 DEF InvNames
    <3>6. namesSize' = SizeOf(s)
      BY <1>1, <2>2, <3>2, <3>3, Zenon
    <3> QED
      BY <2>2, <3>4, <3>5, <3>6
  <2> QED
    BY <1>8, <2>1, <2>3, <2>4, <2>6, Zenon
<1>12. CASE CopyContents
  <2>1. /\ ~ IsSymtab(obj, i) /\ ~ IsNameTable(i) /\ old.size > 0 /\ syms' = syms
        /\ out' = Written(out, out.end, old.size, Contents(i, {}))
    BY <1>12, Zenon DEF CopyContents
  <2>2. SizeOf(s) = old.size
    BY <1>4, <2>1 DEF SizeOf, IsNameTable
  <2>3. KindOf(s) = "contents"
    BY <2>1 DEF KindOf
  <2>4. Contents(i, {}).kind = "contents" /\ Contents(i, {}).of = s
    BY DEF Contents
  <2> QED
    BY <1>8, <2>1, <2>2, <2>3, <2>4, Zenon
<1> QED
  BY <1>9, <1>10, <1>11, <1>12 DEF InCopy

LEMMA DiskCopied ==
  ASSUME IInv, InvNames, NamesLast, [Next]_vars, InCopy, NEW h, NEW n, n = i + 1,
         Placed(i), Disk(h, i, 0)
  PROVE  Disk(h, n, 0)'
<1>1. PICK s \in KeptSections(obj) : s = i
  BY CopyEffect, CopyingFacts
<1>2. /\ obj \in Objects /\ i \in Nat /\ i \in Sections(obj) /\ ~ IsRel(obj, i)
      /\ curOff \in Nat /\ obj' = obj
  BY CopyEffect, CopyingFacts, KeptFacts
<1>3. /\ IF H(s)'.size > 0
            THEN \E e : out'.extents = out.extents \cup {e} /\ Keeps(e, s)'
            ELSE out'.extents = out.extents
      /\ out'.end = out.end + H(s)'.size
      /\ \A e : \A t \in Before(i) : Keeps(e, t)' <=> Keeps(e, t)
  BY <1>1, CopiedExtent
<1>4. /\ H(s)'.size = SizeOf(s) /\ SizeOf(s) \in Nat /\ curOff' = curOff + SizeOf(s)
      /\ \A t \in Before(i) : H(t)' = H(t)
  BY <1>1, <1>2, CopyOffset, KindFrame, Zenon DEF H
<1>5. Before(n) = Before(i) \cup {s}
  BY <1>1, <1>2, BeforeStep
<1>6. Stored(n)' = {t \in Before(i) \cup {s} : H(t)'.size > 0}
  BY <1>2, <1>5 DEF Stored, Before
<1>7. \A t : t \in Stored(n)' <=> t \in Stored(i) \/ (t = s /\ H(s)'.size > 0)
  <2>1. Stored(i) = {t \in Before(i) : H(t)'.size > 0}
    BY <1>4 DEF Stored
  <2> QED
    BY <1>6, <2>1, Zenon
<1>8. /\ out.end = curOff + ShdrSize * 0
      /\ HeaderExtent(h) \in out.extents
      /\ \A t \in Stored(i) : \E e \in out.extents : Keeps(e, t)
      /\ \A e \in out.extents :
           e = HeaderExtent(h) \/ (\E t \in Stored(i) : Keeps(e, t))
  <2>1. 0 .. (0 - 1) = {}
    OBVIOUS
  <2> QED
    BY <2>1, Zenon DEF Disk
<1>9. out'.end = curOff' + ShdrSize * 0
  BY <1>2, <1>3, <1>4, <1>8 DEF ShdrSize
<1>10. \A t \in Stored(i) : t \in Before(i)
  BY DEF Stored
<1>11. /\ HeaderExtent(h) \in out'.extents
       /\ \A t \in Stored(n)' : \E e \in out'.extents : Keeps(e, t)'
       /\ \A e \in out'.extents :
            e = HeaderExtent(h) \/ (\E t \in Stored(n)' : Keeps(e, t)')
  <2>1. CASE H(s)'.size > 0
    <3>1. PICK e : out'.extents = out.extents \cup {e} /\ Keeps(e, s)'
      BY <1>3, <2>1, Zenon
    <3> QED
      <4>1. s \in Stored(n)' /\ \A t \in Stored(i) : t \in Stored(n)'
        BY <1>7, <2>1
      <4>2. \A d, t : t \in Stored(i) => (Keeps(d, t)' <=> Keeps(d, t))
        BY <1>3, <1>10
      <4>3. ASSUME NEW t \in Stored(n)' PROVE \E d \in out'.extents : Keeps(d, t)'
        <5>1. CASE t \in Stored(i)
          <6>1. PICK d \in out.extents : Keeps(d, t)
            BY <1>8, <5>1
          <6>2. d \in out'.extents /\ Keeps(d, t)'
            BY <3>1, <4>2, <5>1, <6>1
          <6> QED
            BY <6>2
        <5>2. CASE t = s
          BY <3>1, <5>2
        <5> QED
          BY <1>7, <5>1, <5>2
      <4>4. ASSUME NEW d \in out'.extents
            PROVE  d = HeaderExtent(h) \/ (\E t \in Stored(n)' : Keeps(d, t)')
        BY <1>8, <3>1, <4>1, <4>2, Zenon
      <4> QED
        BY <1>8, <3>1, <4>3, <4>4, Zenon
  <2>2. CASE ~ (H(s)'.size > 0)
    <3>1. out'.extents = out.extents
      BY <1>3, <2>2, Zenon
    <3> QED
      BY <1>3, <1>7, <1>8, <1>10, <2>2, <3>1, Zenon
  <2> QED
    BY <2>1, <2>2
<1>12. 0 .. (0 - 1) = {}
  OBVIOUS
<1> QED
  BY <1>9, <1>11, <1>12, Zenon DEF Disk

(* The section a SHT_REL section patches is one with contents.             *)
LEMMA TargetStored ==
  ASSUME IInv, InvPlaces, pc = "apply", obj.shdrs[TargetOf(i)].size > 0
  PROVE  /\ TargetOf(i) \in Stored(obj.shnum)
         /\ TargetOffset(i) = H(TargetOf(i)).offset
         /\ obj.shdrs[TargetOf(i)].size = H(TargetOf(i)).size
         /\ ~ IsSymtab(obj, TargetOf(i)) /\ ~ IsNameTable(TargetOf(i))
         /\ KindOf(TargetOf(i)) = "contents"
         /\ i \in DOMAIN obj.rels /\ i \in Sections(obj) /\ IsRel(obj, i)
<1>1. /\ obj \in Objects /\ i \in 0 .. obj.shnum /\ i < obj.shnum /\ IsRel(obj, i)
      /\ MappedTo(obj.shnum) /\ Placed(obj.shnum)
  BY DEF IInv, InvTypes, InvHeaders, InvMapping, AfterCopy, InvPlaces
<1>2. obj.shnum \in Nat
  BY <1>1, ObjectFacts
<1>3. i \in Sections(obj)
  BY <1>1, <1>2 DEF Sections
<1>4. TargetOf(i) \in KeptSections(obj) /\ TargetOf(i) # obj.shstrndx
      /\ ~ IsSymtab(obj, TargetOf(i))
  BY <1>1, <1>3, RelFacts DEF TargetOf
<1>5. TargetOf(i) \in Before(obj.shnum)
  BY <1>1, <1>4, KeptFacts DEF Before
<1>6. H(TargetOf(i)).size = obj.shdrs[TargetOf(i)].size
  BY <1>1, <1>4, <1>5, Zenon DEF Placed, SizeOf
<1>7. TargetOffset(i) = H(TargetOf(i)).offset
  <2>1. mapping[TargetOf(i)] = Rank(TargetOf(i))
    BY <1>1, <1>4, KeptFacts DEF MappedTo
  <2> QED
    BY <2>1 DEF TargetOffset, H
<1>8. ~ IsNameTable(TargetOf(i)) /\ KindOf(TargetOf(i)) = "contents"
  BY <1>4 DEF IsNameTable, KindOf
<1>9. i \in DOMAIN obj.rels
  <2>1. WellFormed(obj)
    BY <1>1, ObjectsAssumption
  <2>2. obj.rels \in [{s \in Sections(obj) : IsRel(obj, s)} -> Seq(Relocations)]
    BY <2>1, Zenon DEF WellFormed
  <2> QED
    BY <1>1, <1>3, <2>2
<1> QED
  BY <1>1, <1>3, <1>4, <1>5, <1>6, <1>7, <1>8, <1>9 DEF Stored

LEMMA DiskPatched ==
  ASSUME IInv, InvPlaces, WriteTarget, obj.shdrs[TargetOf(i)].size > 0,
         NEW h, NEW n, n = obj.shnum, Disk(h, n, 0)
  PROVE  /\ Disk(h, n, 0)'
         /\ \A e \in out'.extents :
              \/ e \in out.extents /\ ~ Keeps(e, TargetOf(i))
              \/ /\ Keeps(e, TargetOf(i))
                 /\ e.what.of = TargetOf(i) /\ e.what.words = target
                 /\ e.what.kind = "contents"
<1>1. /\ pc = "apply" /\ pc' = "relocate"
      /\ UNCHANGED <<obj, newShdrs, names, syms, curOff>>
      /\ out' = Written(out, TargetOffset(i), obj.shdrs[TargetOf(i)].size,
                        Contents(TargetOf(i), target))
  BY Zenon DEF WriteTarget, TargetDone, Goto, build
<1>2. PICK t : t = TargetOf(i)
  OBVIOUS
<1>3. /\ t \in Stored(n) /\ TargetOffset(i) = H(t).offset
      /\ obj.shdrs[TargetOf(i)].size = H(t).size
      /\ ~ IsSymtab(obj, t) /\ ~ IsNameTable(t) /\ KindOf(t) = "contents"
  BY <1>1, <1>2, TargetStored
<1>4. HeadersUpTo(n) /\ Placed(n)
  BY <1>1 DEF IInv, InvHeaders, InvPlaces, AfterCopy
<1>5. /\ out'.extents = {e \in out.extents : ~ Keeps(e, t)}
                          \cup {Extent(H(t).offset, H(t).size, Contents(t, target))}
      /\ out'.end = out.end
  BY <1>1, <1>2, <1>3, <1>4, DiskOverSection
<1>6. PICK f : f = Extent(H(t).offset, H(t).size, Contents(t, target))
  OBVIOUS
<1>7. /\ f.at = H(t).offset /\ f.len = H(t).size
      /\ f.what.kind = "contents" /\ f.what.of = t /\ f.what.words = target
  BY <1>6 DEF Extent, Contents
<1>8. Keeps(f, t)
  BY <1>3, <1>7, Zenon DEF Keeps, Holds
<1>9. /\ out.end = curOff + ShdrSize * 0
      /\ HeaderExtent(h) \in out.extents
      /\ \A s \in Stored(n) : \E e \in out.extents : Keeps(e, s)
      /\ \A e \in out.extents :
           e = HeaderExtent(h) \/ (\E s \in Stored(n) : Keeps(e, s))
  <2>1. 0 .. (0 - 1) = {}
    OBVIOUS
  <2> QED
    BY <2>1, Zenon DEF Disk
<1>10. /\ \A e, s : Keeps(e, s)' = Keeps(e, s)
       /\ Stored(n)' = Stored(n)
  <2>1. \A s : H(s)' = H(s)
    BY <1>1, KindFrame, Zenon DEF H
  <2>2. \A e, s : Keeps(e, s)' = Keeps(e, s)
    BY <1>1, <2>1, KindFrame, Zenon DEF Keeps, Holds
  <2>3. Stored(n)' = Stored(n)
    BY <1>1, <2>1 DEF Stored, Before
  <2> QED
    BY <2>2, <2>3
<1>11. ~ Keeps(HeaderExtent(h), t)
  BY <1>3, HeaderFields DEF Keeps, Holds
<1>12. \A e, s : Keeps(e, s) /\ Keeps(e, t) => s = t
  BY Zenon DEF Keeps, Holds
<1>13. Disk(h, n, 0)'
  <2>1. out'.extents = {e \in out.extents : ~ Keeps(e, t)} \cup {f}
    BY <1>5, <1>6
  <2>2. HeaderExtent(h) \in out'.extents
    BY <1>9, <1>11, <2>1
  <2>3. ASSUME NEW s \in Stored(n) PROVE \E e \in out'.extents : Keeps(e, s)
    <3>1. CASE s = t
      BY <1>8, <2>1, <3>1
    <3>2. CASE s # t
      <4>1. PICK e \in out.extents : Keeps(e, s)
        BY <1>9
      <4>2. ~ Keeps(e, t)
        BY <1>12, <3>2, <4>1
      <4> QED
        BY <2>1, <4>1, <4>2
    <3> QED
      BY <3>1, <3>2
  <2>4. ASSUME NEW e \in out'.extents
        PROVE  e = HeaderExtent(h) \/ (\E s \in Stored(n) : Keeps(e, s))
    <3>1. e \in out.extents \/ e = f
      BY <2>1
    <3> QED
      BY <1>3, <1>8, <1>9, <3>1, Zenon
  <2>5. 0 .. (0 - 1) = {}
    OBVIOUS
  <2>6. out'.end = curOff' + ShdrSize * 0
    BY <1>1, <1>5, <1>9, Zenon
  <2> QED
    BY <1>10, <2>2, <2>3, <2>4, <2>5, <2>6, Zenon DEF Disk
<1>14. \A e \in out'.extents :
         \/ e \in out.extents /\ ~ Keeps(e, t)
         \/ /\ Keeps(e, t)
            /\ e.what.of = t /\ e.what.words = target /\ e.what.kind = "contents"
  BY <1>5, <1>6, <1>7, <1>8, Zenon
<1> QED
  BY <1>2, <1>13, <1>14, Zenon

(* While the program has not rewritten the header, the file has the one of *)
(* the input.                                                              *)
OnlyInput ==
  \A e \in out.extents : e.what.kind = "ehdr" => e.what.header = InputHeader(obj)

LEMMA DiskEhdr ==
  ASSUME NEW h, NEW n, NEW m, Disk(h, n, m)
  PROVE  /\ \A e \in out.extents : e.what.kind = "ehdr" => e.what.header = h
         /\ DiskEhdrs = {h}
<1>1. ASSUME NEW e \in out.extents, e.what.kind = "ehdr" PROVE e = HeaderExtent(h)
  <2>1. \/ e = HeaderExtent(h)
        \/ \E s \in Stored(n) : Keeps(e, s)
        \/ \E x \in 0 .. (m - 1) : e = TableExtent(x)
    BY Zenon DEF Disk
  <2>2. \A s : ~ Keeps(e, s)
    BY <1>1, KindFacts DEF Keeps, Holds
  <2>3. \A x : e # TableExtent(x)
    BY <1>1, TableFields
  <2> QED
    BY <2>1, <2>2, <2>3, Zenon
<1>2. HeaderExtent(h) \in out.extents
  BY Zenon DEF Disk
<1>3. HeaderExtent(h).what.kind = "ehdr" /\ HeaderExtent(h).what.header = h
  BY HeaderFields
<1>4. \A e \in out.extents : e.what.kind = "ehdr" => e.what.header = h
  BY <1>1, <1>3
<1>5. DiskEhdrs = {h}
  BY <1>2, <1>3, <1>4 DEF DiskEhdrs
<1> QED
  BY <1>4, <1>5

LEMMA Uncommitted == ASSUME OnlyInput PROVE ~ Committed
  BY DEF OnlyInput, Committed, DiskEhdrs

LEMMA InputOnDisk ==
  ASSUME IInv, InvProgress, InvDisk, NamesLast, pc \notin Ending
  PROVE  OnlyInput
<1>1. pc \in Places
  BY DEF IInv, InvTypes
<1>2. CASE pc \in BeforeOutput
  BY <1>2 DEF IInv, InvOutput, NoFile, OnlyInput
<1>3. CASE pc = "header"
  BY <1>3 DEF InvProgress, EmptyFile, OnlyInput
<1>4. CASE pc \in {"sizes", "copy"} \cup AfterCopy
  <2>1. \E n, m : Disk(InputHeader(obj), n, m)
    BY <1>4, Zenon DEF InvDisk, AfterCopy
  <2> QED
    BY <2>1, DiskEhdr, Zenon DEF OnlyInput
<1> QED
  BY <1>1, <1>2, <1>3, <1>4 DEF Places, BeforeOutput, BeforeTables, AfterCopy, Ending

LEMMA FailedUncommitted ==
  ASSUME IInv, OnlyInput, [Next]_vars, ToEnding, ~ RewriteHeader
  PROVE  OnlyInput'
<1>1. obj' = obj
  BY ObjectStays
<1>2. out' = out \/ \E at, len : WriteFails(at, len)
  BY Zenon DEF ToEnding, OpenOutputFails, WriteInitialHeaderFails, CopyReadFails,
     CopyWriteFails, LoadTargetFails, WriteTargetFails, WriteSectionHeaderFails,
     RewriteHeaderFails, Cleanup
<1>3. CASE out' = out
  BY <1>1, <1>3, Zenon DEF OnlyInput
<1>4. CASE \E at, len : WriteFails(at, len)
  <2>1. PICK at, len : WriteFails(at, len)
    BY <1>4
  <2>2. \A e \in out'.extents : e \in out.extents \/ e = Extent(at, len, Torn)
    BY <2>1, TornExtents
  <2>3. Extent(at, len, Torn).what.kind = "torn"
    BY DEF Extent, Torn
  <2>4. \A e \in out'.extents : e.what.kind = "ehdr" => e.what.header = InputHeader(obj)
    BY <2>2, <2>3 DEF OnlyInput
  <2> QED
    BY <1>1, <2>4, Zenon DEF OnlyInput
<1> QED
  BY <1>2, <1>3, <1>4

(* One turn of the loop that looks for .text.                              *)
LEMMA EntryStep ==
  ASSUME IInv, InvNames, FindEntry, EntryUpTo(k), NEW n, n = k + 1
  PROVE  EntryUpTo(n)'
<1>1. /\ pc = "entry" /\ k < newShnum
      /\ entry' = IF HasName(newShdrs[k], names, ".text") THEN newShdrs[k].addr ELSE entry
      /\ UNCHANGED <<obj, newShdrs>>
  BY Zenon DEF FindEntry, build
<1>2. /\ obj \in Objects /\ newShnum = RankIn(obj, obj.shnum) /\ NamesMade(obj.shnum)
      /\ k \in 0 .. newShnum /\ newShnum \in 0 .. obj.shnum
  BY <1>1 DEF IInv, InvTypes, InvMapping, InvHeaders, InvNames, AfterCopy, Rank
<1>3. obj.shnum \in Nat /\ k \in Nat /\ newShnum \in Nat
  BY <1>2, ObjectFacts
<1>4. PICK u \in KeptSections(obj) : RankIn(obj, u) = k
  <2>1. obj.shnum \in 0 .. obj.shnum
    BY <1>3
  <2> QED
    BY <1>1, <1>2, <1>3, <2>1, RankOnto
<1>5. \A s \in KeptSections(obj) : s \in Nat /\ RankIn(obj, s) \in Nat
  BY <1>2, KeptFacts
<1>6. HasName(H(u), names, ".text") <=> obj.shdrs[u].name = ".text"
  <2>1. HasName(H(u), names, obj.shdrs[u].name)
    <3>1. u \in Before(obj.shnum)
      BY <1>2, KeptFacts DEF Before
    <3> QED
      BY <1>2, <3>1, Zenon DEF NamesMade
  <2>2. ASSUME HasName(H(u), names, ".text") PROVE obj.shdrs[u].name = ".text"
    <3> DEFINE e == [at |-> H(u).name, str |-> ".text"]
               f == [at |-> H(u).name, str |-> obj.shdrs[u].name]
    <3>1. e \in names /\ f \in names
      BY <2>1, <2>2 DEF HasName
    <3>2. e.at = f.at
      OBVIOUS
    <3>3. e = f
      BY <1>2, <3>1, <3>2, Zenon DEF NamesMade
    <3>4. e.str = f.str
      BY <3>3, Zenon
    <3> QED
      BY <3>4
  <2> QED
    BY <2>1, <2>2, Zenon
<1>7. entry' = IF obj.shdrs[u].name = ".text" THEN H(u).addr ELSE entry
  BY <1>1, <1>4, <1>6, Zenon DEF H, Rank
<1>8. \A s, t \in KeptSections(obj) : RankIn(obj, s) < RankIn(obj, t) => s < t
  <2>1. SUFFICES ASSUME NEW s \in KeptSections(obj), NEW t \in KeptSections(obj),
                        RankIn(obj, s) < RankIn(obj, t), ~ (s < t)
                 PROVE  FALSE
    OBVIOUS
  <2>2. s \in Nat /\ t \in Nat /\ RankIn(obj, s) \in Nat /\ RankIn(obj, t) \in Nat
    BY <1>5
  <2>3. CASE s = t
    BY <2>1, <2>2, <2>3
  <2>4. CASE t < s
    BY <1>2, <2>1, <2>2, <2>4, RankStrict
  <2> QED
    BY <2>1, <2>2, <2>3, <2>4
<1>9. ASSUME NEW s \in KeptSections(obj), obj.shdrs[s].name = ".text", RankIn(obj, s) < n,
             \A t \in KeptSections(obj) :
               obj.shdrs[t].name = ".text" /\ RankIn(obj, t) < n => t <= s
      PROVE  entry' = H(s).addr
  <2>1. CASE RankIn(obj, s) = k
    <3>1. s = u
      BY <1>2, <1>4, <2>1, RankInjective
    <3> QED
      BY <1>7, <1>9, <3>1
  <2>2. CASE RankIn(obj, s) # k
    <3>1. RankIn(obj, s) < k
      BY <1>3, <1>5, <1>9, <2>2
    <3>2. obj.shdrs[u].name # ".text"
      <4>1. s < u /\ s \in Nat /\ u \in Nat /\ RankIn(obj, u) < n
        BY <1>3, <1>4, <1>5, <1>8, <3>1
      <4> QED
        BY <1>9, <4>1
    <3>3. \A t \in KeptSections(obj) :
            obj.shdrs[t].name = ".text" /\ RankIn(obj, t) < k => t <= s
      BY <1>3, <1>5, <1>9
    <3>4. entry = H(s).addr
      BY <1>9, <3>1, <3>3, Zenon DEF EntryUpTo, Rank
    <3> QED
      BY <1>7, <3>2, <3>4
  <2> QED
    BY <2>1, <2>2
<1>10. \A s : H(s)' = H(s) /\ Rank(s)' = RankIn(obj, s)
  BY <1>1, Zenon DEF H, Rank
<1> QED
  BY <1>1, <1>9, <1>10, Zenon DEF EntryUpTo, Rank

LEMMA EntryFrame ==
  ASSUME NEW n, EntryUpTo(n), UNCHANGED <<obj, newShdrs, entry>>
  PROVE  EntryUpTo(n)'
  BY Zenon DEF EntryUpTo, H, Rank

LEMMA ProgressInit == Init => InvProgress
  BY DEF Init, InvProgress

LEMMA ProgressStep ==
  ASSUME IInv, InvNames, InvProgress, [Next]_vars
  PROVE  InvProgress'
<1>1. obj \in Objects /\ pc \in Places /\ obj' = obj
  BY ObjectStays DEF IInv, InvTypes
<1>2. CASE UNCHANGED vars
  <2>1. UNCHANGED <<obj, pc, i, k, newShnum, newShdrs, curOff, hdr, entry, out>>
    BY <1>2, Zenon DEF vars, tables, build
  <2>2. \A n : EntryUpTo(n) => EntryUpTo(n)'
    BY <2>1, EntryFrame
  <2>3. EntryUpTo(k) => EntryUpTo(k)'
    BY <2>1, Zenon DEF EntryUpTo, H, Rank
  <2>4. EntryUpTo(newShnum) => EntryUpTo(newShnum)'
    BY <2>1, Zenon DEF EntryUpTo, H, Rank
  <2> QED
    BY <2>1, <2>3, <2>4, Zenon DEF InvProgress, FinalHeader, TargetOf, Rank
<1>3. CASE InTables \/ AllocateTables
  <2>1. /\ pc \in BeforeTables /\ pc' \in BeforeTables \cup {"renumber", "failure"}
        /\ UNCHANGED <<obj, hdr>>
    <3>1. UNCHANGED hdr
      BY <1>3, Zenon DEF InTables, Load, MapSection, AllMapped, ReadSymbols, Exits,
         LoadFails, ReadSymbolsFails, AllocateTablesFails, ExitFailure, AllocateTables
    <3> QED
      BY <1>1, <1>3, <3>1, InTablesFrame, AllocatePlace DEF BeforeTables
  <2> QED
    BY <2>1 DEF InvProgress, BeforeTables, Ending
<1>4. CASE InBeforeCopy \/ NamesSized \/ SkipRemoved \/ AllCopied
  <2>1. UNCHANGED <<obj, hdr>>
    BY <1>4, Zenon DEF InBeforeCopy, RenumberSymbols, OpenOutput, WriteInitialHeader,
       SizeName, NamesSized, SkipRemoved, AllCopied
  <2>2. /\ pc \notin {"table"} \cup Ending
        /\ pc' \notin {"apply", "entry", "table"} \cup Ending
        /\ pc' = "header" => out' = EmptyFile
    BY <1>4 DEF InBeforeCopy, RenumberSymbols, OpenOutput, WriteInitialHeader,
       SizeName, NamesSized, SkipRemoved, AllCopied, Goto, Ending
  <2> QED
    BY <2>1, <2>2 DEF InvProgress
<1>5. CASE InCopy
  <2>1. pc = "copy" /\ pc' = "copy" /\ hdr' = hdr
    BY <1>5, CopyEffect
  <2> QED
    BY <1>1, <2>1 DEF InvProgress, Ending
<1>6. CASE SkipUnrelocated \/ LoadTarget \/ ApplyRelocation \/ WriteTarget
  <2>1. UNCHANGED <<obj, hdr, i>> \/ (UNCHANGED <<obj, hdr>> /\ pc' = "relocate")
    BY <1>6, Zenon DEF SkipUnrelocated, LoadTarget, ApplyRelocation, WriteTarget, Goto
  <2>2. /\ pc \in {"relocate", "apply"} /\ pc' \in {"relocate", "apply"}
        /\ pc' = "apply" => i' = i /\ (pc = "apply" \/ CanReload(TargetOf(i)))
    BY <1>6 DEF SkipUnrelocated, LoadTarget, ApplyRelocation, WriteTarget, Goto,
       Relocating, TargetDone
  <2>3. pc' = "apply" => (obj.shdrs[TargetOf(i)].size > 0)'
    BY <2>1, <2>2, Zenon DEF InvProgress, CanReload, TargetOf
  <2> QED
    BY <2>1, <2>2, <2>3 DEF InvProgress, Ending
<1>7. CASE AllRelocated
  <2>1. /\ pc = "relocate" /\ pc' = "entry" /\ k' = 0 /\ hdr' = hdr
    BY <1>7 DEF AllRelocated, Goto
  <2>2. EntryUpTo(k)'
    <3>1. \A s \in KeptSections(obj) : ~ (Rank(s) < 0)
      BY <1>1, KeptFacts DEF Rank
    <3> QED
      BY <1>1, <2>1, <3>1, Zenon DEF EntryUpTo, Rank
  <2> QED
    BY <1>1, <2>1, <2>2 DEF InvProgress, Ending
<1>8. CASE FindEntry
  <2>1. pc = "entry" /\ pc' = "entry" /\ k' = k + 1 /\ hdr' = hdr
    BY <1>8 DEF FindEntry
  <2>2. PICK n : n = k + 1
    OBVIOUS
  <2>3. EntryUpTo(n)'
    BY <1>8, <2>1, <2>2, EntryStep DEF InvProgress
  <2>4. EntryUpTo(k)'
    BY <2>1, <2>2, <2>3, Zenon DEF EntryUpTo
  <2> QED
    BY <1>1, <2>1, <2>4 DEF InvProgress, Ending
<1>9. CASE FinishHeader
  <2>1. /\ pc = "entry" /\ pc' = "table" /\ k = newShnum
        /\ hdr' = [shnum |-> newShnum, shoff |-> curOff,
                   shstrndx |-> mapping[obj.shstrndx], entry |-> entry]
        /\ UNCHANGED <<newShnum, newShdrs, curOff, entry>>
    BY <1>9, Zenon DEF FinishHeader, Goto, tables, build
  <2>2. mapping[obj.shstrndx] = Rank(obj.shstrndx)
    <3>1. obj.shstrndx \in KeptSections(obj)
      BY <1>1, NameTableFacts, Zenon
    <3>2. MappedTo(obj.shnum)
      BY <2>1 DEF IInv, InvMapping
    <3> QED
      BY <1>1, <3>1, <3>2, KeptFacts DEF MappedTo
  <2>3. hdr' = FinalHeader'
    BY <1>1, <2>1, <2>2, Zenon DEF FinalHeader, Rank
  <2>4. EntryUpTo(newShnum)'
    <3>1. EntryUpTo(newShnum)
      BY <2>1, Zenon DEF InvProgress
    <3> QED
      BY <1>1, <2>1, <3>1, Zenon DEF EntryUpTo, H, Rank
  <2> QED
    BY <2>1, <2>3, <2>4, Zenon DEF InvProgress
<1>10. CASE WriteSectionHeader
  <2>1. /\ pc = "table" /\ pc' = "table"
        /\ UNCHANGED <<newShnum, newShdrs, curOff, entry, hdr>>
    BY <1>10, Zenon DEF WriteSectionHeader, tables, build
  <2>2. EntryUpTo(newShnum) /\ hdr = FinalHeader
    BY <2>1 DEF InvProgress
  <2>3. EntryUpTo(newShnum)' /\ hdr' = FinalHeader'
    BY <1>1, <2>1, <2>2, Zenon DEF EntryUpTo, H, Rank, FinalHeader
  <2> QED
    BY <2>1, <2>3, Zenon DEF InvProgress
<1>11. CASE ToEnding
  BY <1>11, ToEndingFrame DEF InvProgress, Ending
<1> QED
  BY <1>2, <1>3, <1>4, <1>5, <1>6, <1>7, <1>8, <1>9, <1>10, <1>11, NextPhases, Zenon
  DEF InAfterCopy

-----------------------------------------------------------------------------
(***************************************************************************)
(* The file, phase by phase.                                               *)
(***************************************************************************)
LEMMA DiskInit == Init => InvDisk
  BY DEF Init, InvDisk, Ending

(* The header that goes out first.                                         *)
LEMMA DiskCreated ==
  ASSUME IInv, InvNames, InvProgress, WriteInitialHeader, NEW h, h = InputHeader(obj)
  PROVE  Disk(h, 0, 0)'
<1>1. /\ pc = "header" /\ out' = Written(out, 0, EhdrSize, Ehdr(hdr))
      /\ UNCHANGED <<obj, newShdrs, curOff>>
  BY Zenon DEF WriteInitialHeader
<1>2. obj \in Objects /\ curOff = EhdrSize /\ out = EmptyFile /\ hdr = h
  BY <1>1 DEF IInv, InvTypes, InvNames, BeforeCopy, InvProgress, Ending
<1>3. out.extents = {} /\ out.end = 0
  BY <1>2 DEF EmptyFile
<1>4. /\ out'.extents =
           {e \in out.extents : Apart(e, 0, EhdrSize)} \cup {Extent(0, EhdrSize, Ehdr(h))}
      /\ out'.end = IF out.end < 0 + EhdrSize THEN 0 + EhdrSize ELSE out.end
  BY <1>1, <1>2, OutWritten
<1>5. out'.extents = {HeaderExtent(h)}
  BY <1>3, <1>4 DEF HeaderExtent
<1>6. out'.end = curOff' + ShdrSize * 0
  BY <1>1, <1>2, <1>3, <1>4 DEF EhdrSize, ShdrSize
<1>7. Stored(0)' = {}
  <2>1. Before(0) = {}
    BY <1>2, KeptFacts DEF Before
  <2> QED
    BY <1>1, <2>1 DEF Stored, Before
<1>8. 0 .. (0 - 1) = {}
  OBVIOUS
<1> QED
  BY <1>5, <1>6, <1>7, <1>8, Zenon DEF Disk

(* One header of the section table.                                        *)
LEMMA DiskTable ==
  ASSUME IInv, InvPlaces, WriteSectionHeader,
         NEW h, NEW n, n = obj.shnum, NEW m \in Nat, m = k, NEW q, q = k + 1, Disk(h, n, m)
  PROVE  Disk(h, n, q)'
<1>1. /\ pc = "table" /\ out' = Written(out, out.end, ShdrSize, Shdr(newShdrs[k]))
      /\ UNCHANGED <<obj, newShdrs, names, syms, curOff>>
  BY Zenon DEF WriteSectionHeader, build
<1>2. /\ HeadersUpTo(n) /\ Placed(n) /\ curOff \in Nat
  BY <1>1 DEF IInv, InvTypes, InvHeaders, InvPlaces, AfterCopy
<1>3. /\ out'.extents = out.extents \cup {Extent(out.end, ShdrSize, Shdr(newShdrs[k]))}
      /\ out'.end = out.end + ShdrSize
  <2>1. ShdrSize \in Nat
    BY DEF ShdrSize
  <2> QED
    BY <1>1, <1>2, <2>1, DiskAppend
<1>4. out.end = curOff + ShdrSize * m
  BY Zenon DEF Disk
<1>5. Extent(out.end, ShdrSize, Shdr(newShdrs[k])) = TableExtent(m)
  BY <1>4, Zenon DEF TableExtent
<1>6. out'.extents = out.extents \cup {TableExtent(m)}
  BY <1>3, <1>5, Zenon
<1>7. out'.end = curOff' + ShdrSize * q
  BY <1>1, <1>2, <1>3, <1>4 DEF ShdrSize
<1>8. \A x : x \in 0 .. (q - 1) <=> x \in 0 .. (m - 1) \/ x = m
  OBVIOUS
<1>9. /\ \A s : H(s)' = H(s)
      /\ \A e, s : Keeps(e, s)' = Keeps(e, s)
      /\ Stored(n)' = Stored(n)
      /\ \A x : TableExtent(x)' = TableExtent(x)
  <2>1. \A s : H(s)' = H(s)
    BY <1>1, KindFrame, Zenon DEF H
  <2>2. \A e, s : Keeps(e, s)' = Keeps(e, s)
    BY <1>1, <2>1, KindFrame, Zenon DEF Keeps, Holds
  <2>3. Stored(n)' = Stored(n)
    BY <1>1, <2>1 DEF Stored, Before
  <2>4. \A x : TableExtent(x)' = TableExtent(x)
    BY <1>1, Zenon DEF TableExtent
  <2> QED
    BY <2>1, <2>2, <2>3, <2>4
<1>10. /\ HeaderExtent(h) \in out.extents
       /\ \A s \in Stored(n) : \E e \in out.extents : Keeps(e, s)
       /\ \A x \in 0 .. (m - 1) : TableExtent(x) \in out.extents
       /\ \A e \in out.extents :
            \/ e = HeaderExtent(h)
            \/ \E s \in Stored(n) : Keeps(e, s)
            \/ \E x \in 0 .. (m - 1) : e = TableExtent(x)
  BY Zenon DEF Disk
<1>11. /\ HeaderExtent(h) \in out'.extents
       /\ \A s \in Stored(n) : \E e \in out'.extents : Keeps(e, s)
       /\ \A x \in 0 .. (q - 1) : TableExtent(x) \in out'.extents
       /\ \A e \in out'.extents :
            \/ e = HeaderExtent(h)
            \/ \E s \in Stored(n) : Keeps(e, s)
            \/ \E x \in 0 .. (q - 1) : e = TableExtent(x)
  BY <1>6, <1>8, <1>10, Zenon
<1> QED
  BY <1>7, <1>9, <1>11, Zenon DEF Disk

(* The header that goes out last.                                          *)
LEMMA DiskRewritten ==
  ASSUME IInv, InvPlaces, RewriteHeader,
         NEW h, NEW g, g = hdr, NEW n, n = obj.shnum, NEW m \in Nat, Disk(h, n, m)
  PROVE  Disk(g, n, m)'
<1>1. /\ pc = "table" /\ out' = Written(out, 0, EhdrSize, Ehdr(hdr))
      /\ UNCHANGED <<obj, newShdrs, names, syms, curOff>>
  BY Zenon DEF RewriteHeader, build
<1>2. HeadersUpTo(n) /\ Placed(n)
  BY <1>1 DEF IInv, InvHeaders, InvPlaces, AfterCopy
<1>3. /\ out'.extents = {e \in out.extents : e # HeaderExtent(h)}
                          \cup {Extent(0, EhdrSize, Ehdr(hdr))}
      /\ out'.end = out.end
  BY <1>1, <1>2, DiskOverHeader
<1>4. out'.extents = {e \in out.extents : e # HeaderExtent(h)} \cup {HeaderExtent(g)}
  BY <1>3, Zenon DEF HeaderExtent
<1>5. /\ \A s : ~ Keeps(HeaderExtent(h), s)
      /\ \A x : TableExtent(x) # HeaderExtent(h)
  <2>1. \A s : ~ Keeps(HeaderExtent(h), s)
    BY HeaderFields, KindFacts DEF Keeps, Holds
  <2>2. \A x : TableExtent(x) # HeaderExtent(h)
    <3>1. HeaderExtent(h).what.kind = "ehdr"
      BY HeaderFields
    <3>2. \A x : TableExtent(x).what.kind = "shdr"
      BY TableFields
    <3> QED
      BY <3>1, <3>2
  <2> QED
    BY <2>1, <2>2
<1>6. /\ \A s \in Stored(n) : \E e \in out.extents : Keeps(e, s)
      /\ \A x \in 0 .. (m - 1) : TableExtent(x) \in out.extents
      /\ \A e \in out.extents :
           \/ e = HeaderExtent(h)
           \/ \E s \in Stored(n) : Keeps(e, s)
           \/ \E x \in 0 .. (m - 1) : e = TableExtent(x)
  BY Zenon DEF Disk
<1>7. /\ HeaderExtent(g) \in out'.extents
      /\ \A s \in Stored(n) : \E e \in out'.extents : Keeps(e, s)
      /\ \A x \in 0 .. (m - 1) : TableExtent(x) \in out'.extents
      /\ \A e \in out'.extents :
           \/ e = HeaderExtent(g)
           \/ \E s \in Stored(n) : Keeps(e, s)
           \/ \E x \in 0 .. (m - 1) : e = TableExtent(x)
  BY <1>4, <1>5, <1>6, Zenon
<1>8. out'.end = curOff' + ShdrSize * m
  BY <1>1, <1>3, Zenon DEF Disk
<1>9. /\ \A e, s : Keeps(e, s)' = Keeps(e, s)
      /\ Stored(n)' = Stored(n)
      /\ \A x : TableExtent(x)' = TableExtent(x)
  <2>1. \A s : H(s)' = H(s)
    BY <1>1, KindFrame, Zenon DEF H
  <2>2. \A e, s : Keeps(e, s)' = Keeps(e, s)
    BY <1>1, <2>1, KindFrame, Zenon DEF Keeps, Holds
  <2>3. Stored(n)' = Stored(n)
    BY <1>1, <2>1 DEF Stored, Before
  <2>4. \A x : TableExtent(x)' = TableExtent(x)
    BY <1>1, Zenon DEF TableExtent
  <2> QED
    BY <2>2, <2>3, <2>4
<1> QED
  BY <1>7, <1>8, <1>9, Zenon DEF Disk

LEMMA FinishedFrame ==
  ASSUME Finished, UNCHANGED <<obj, newShnum, newShdrs, names, namesSize, finalSize, syms, curOff, entry, out>>
  PROVE  Finished'
<1>1. PICK h : h = FinalHeader
  OBVIOUS
<1>2. PICK n : n = obj.shnum
  OBVIOUS
<1>3. PICK m : m = newShnum
  OBVIOUS
<1>4. /\ HeadersUpTo(n) /\ NamesMade(n) /\ Placed(n) /\ finalSize > 0
      /\ EntryUpTo(m) /\ Disk(h, n, m)
  BY <1>1, <1>2, <1>3 DEF Finished
<1>5. /\ HeadersUpTo(n)' /\ NamesMade(n)' /\ Placed(n)' /\ EntryUpTo(m)' /\ Disk(h, n, m)'
  BY <1>4, HeadersFrame, NamesFrame, PlacedFrame, EntryFrame, DiskFrame
<1>6. h = FinalHeader' /\ n = obj'.shnum /\ m = newShnum'
  BY <1>1, <1>2, <1>3, Zenon DEF FinalHeader, Rank
<1> QED
  BY <1>4, <1>5, <1>6, Zenon
  DEF Finished, HeadersUpTo, NamesMade, Placed, EntryUpTo, Disk, Stored, Before

LEMMA DiskStep ==
  ASSUME IInv, InvNames, InvPlaces, InvProgress, InvDisk, [Next]_vars
  PROVE  InvDisk'
<1>1. obj \in Objects /\ pc \in Places /\ obj' = obj /\ i \in 0 .. obj.shnum
  BY ObjectStays DEF IInv, InvTypes
<1>2. SUFFICES ASSUME NamesLast
               PROVE  /\ pc' = "sizes" => Disk(InputHeader(obj), 0, 0)'
                      /\ pc' = "copy" => Disk(InputHeader(obj), i, 0)'
                      /\ pc' \in {"relocate", "apply", "entry"} =>
                           Disk(InputHeader(obj), obj.shnum, 0)'
                      /\ pc' = "table" => Disk(InputHeader(obj), obj.shnum, k)'
                      /\ pc' \in Ending /\ Committed' => Finished'
  BY <1>1, Zenon DEF InvDisk, NamesLast
<1>3. PICK h, n : h = InputHeader(obj) /\ n = obj.shnum
  OBVIOUS
<1>4. ASSUME Disk(h, 0, 0)' PROVE Disk(InputHeader(obj), 0, 0)'
  BY <1>1, <1>3, <1>4, Zenon DEF Disk
<1>5. ASSUME NEW m, Disk(h, m, 0)', i' = m PROVE Disk(InputHeader(obj), i, 0)'
  BY <1>1, <1>3, <1>5, Zenon DEF Disk, Stored, Before
<1>6. ASSUME Disk(h, n, 0)' PROVE Disk(InputHeader(obj), obj.shnum, 0)'
  BY <1>1, <1>3, <1>6, Zenon DEF Disk, Stored, Before
<1>7. ASSUME NEW m, Disk(h, n, m)', k' = m PROVE Disk(InputHeader(obj), obj.shnum, k)'
  BY <1>1, <1>3, <1>7, Zenon DEF Disk, Stored, Before
<1>8. ASSUME NEW m, NEW q, Disk(h, m, q),
             UNCHANGED <<obj, newShdrs, names, syms, curOff, out>>
      PROVE  Disk(h, m, q)'
  BY <1>8, DiskFrame
<1>9. PICK m, q : m = i /\ q = k
  OBVIOUS
<1>10. CASE UNCHANGED vars
  <2>1. UNCHANGED <<obj, pc, i, k, newShnum, newShdrs, names, namesSize, finalSize, syms, curOff, entry, out>>
    BY <1>10, Zenon DEF vars, tables, build
  <2>2. Committed' => Committed
    BY <2>1, Zenon DEF Committed, DiskEhdrs
  <2>3. /\ pc = "sizes" => Disk(h, 0, 0)
        /\ pc = "copy" => Disk(h, m, 0)
        /\ pc \in {"relocate", "apply", "entry"} => Disk(h, n, 0)
        /\ pc = "table" => Disk(h, n, q)
        /\ pc \in Ending /\ Committed => Finished
    BY <1>2, <1>3, <1>9, Zenon DEF InvDisk
  <2> QED
    BY <1>4, <1>5, <1>6, <1>7, <1>8, <1>9, <2>1, <2>2, <2>3, FinishedFrame, Zenon
<1>11. CASE InTables \/ AllocateTables \/ RenumberSymbols \/ OpenOutput
  <2>1. pc' \notin {"sizes", "copy", "relocate", "apply", "entry", "table"} \cup Ending
    <3>1. CASE RenumberSymbols \/ OpenOutput
      BY <3>1 DEF RenumberSymbols, OpenOutput, Goto, Ending
    <3> QED
      BY <1>11, <3>1, InTablesFrame, AllocatePlace DEF BeforeTables, Ending
  <2> QED
    BY <2>1
<1>12. CASE WriteInitialHeader
  <2>1. pc' = "sizes"
    BY <1>12 DEF WriteInitialHeader, Goto
  <2>2. Disk(h, 0, 0)'
    BY <1>3, <1>12, DiskCreated
  <2> QED
    BY <1>4, <2>1, <2>2 DEF Ending
<1>13. CASE SizeName
  <2>1. pc = "sizes" /\ pc' = "sizes" /\ UNCHANGED <<obj, newShdrs, names, syms, curOff, out>>
    BY <1>13, Zenon DEF SizeName
  <2>2. Disk(h, 0, 0)
    BY <1>2, <1>3, <2>1, Zenon DEF InvDisk
  <2> QED
    BY <1>4, <1>8, <2>1, <2>2 DEF Ending
<1>14. CASE NamesSized
  <2>1. /\ pc = "sizes" /\ pc' = "copy" /\ i' = 0 /\ curOff' = EhdrSize
        /\ UNCHANGED <<obj, newShdrs, names, syms, out>>
    BY <1>14, Zenon DEF NamesSized, Goto
  <2>2. Disk(h, 0, 0) /\ curOff' = curOff
    BY <1>2, <1>3, <2>1, Zenon DEF InvDisk, InvNames, BeforeCopy
  <2>3. Disk(h, 0, 0)'
    BY <1>8, <2>1, <2>2
  <2> QED
    BY <1>5, <2>1, <2>3 DEF Ending
<1>15. CASE SkipRemoved
  <2>1. /\ pc = "copy" /\ pc' = "copy" /\ i' = i + 1
        /\ UNCHANGED <<obj, newShdrs, names, syms, curOff, out>>
    BY <1>15, Zenon DEF SkipRemoved, build
  <2>2. PICK p : p = i + 1
    OBVIOUS
  <2>3. Before(p) = Before(i)
    BY <1>15, <2>2, SkippedSection
  <2>4. Disk(h, i, 0)
    BY <1>2, <1>3, <2>1, Zenon DEF InvDisk
  <2>5. Disk(h, p, 0)
    BY <2>3, <2>4, Zenon DEF Disk, Stored
  <2>6. Disk(h, p, 0)'
    BY <1>8, <2>1, <2>5
  <2> QED
    BY <1>5, <2>1, <2>2, <2>6 DEF Ending
<1>16. CASE InCopy
  <2>1. pc = "copy" /\ pc' = "copy" /\ i' = i + 1
    BY <1>16, CopyEffect
  <2>2. PICK p : p = i + 1
    OBVIOUS
  <2>3. Disk(h, i, 0) /\ Placed(i)
    BY <1>2, <1>3, <2>1, Zenon DEF InvDisk, InvPlaces
  <2>4. Disk(h, p, 0)'
    BY <1>2, <1>16, <2>2, <2>3, DiskCopied
  <2> QED
    BY <1>5, <2>1, <2>2, <2>4 DEF Ending
<1>17. CASE AllCopied
  <2>1. /\ pc = "copy" /\ pc' = "relocate" /\ i = n
        /\ UNCHANGED <<obj, newShdrs, names, syms, curOff, out>>
    BY <1>3, <1>17, Zenon DEF AllCopied, Goto, build
  <2>2. Disk(h, n, 0)
    BY <1>2, <1>3, <2>1, Zenon DEF InvDisk
  <2> QED
    BY <1>6, <1>8, <2>1, <2>2 DEF Ending
<1>18. CASE SkipUnrelocated \/ LoadTarget \/ ApplyRelocation \/ AllRelocated \/ FindEntry
  <2>1. UNCHANGED <<obj, newShdrs, names, syms, curOff, out>>
    BY <1>18, Zenon DEF SkipUnrelocated, LoadTarget, ApplyRelocation, AllRelocated,
       FindEntry, build
  <2>2. pc \in {"relocate", "apply", "entry"} /\ pc' \in {"relocate", "apply", "entry"}
    BY <1>18 DEF SkipUnrelocated, LoadTarget, ApplyRelocation, AllRelocated,
       FindEntry, Relocating, Goto
  <2>3. Disk(h, n, 0)
    BY <1>2, <1>3, <2>2, Zenon DEF InvDisk
  <2> QED
    BY <1>6, <1>8, <2>1, <2>2, <2>3 DEF Ending
<1>19. CASE WriteTarget
  <2>1. pc = "apply" /\ pc' = "relocate"
    BY <1>19 DEF WriteTarget, TargetDone, Goto
  <2>2. Disk(h, n, 0) /\ obj.shdrs[TargetOf(i)].size > 0
    BY <1>2, <1>3, <2>1, Zenon DEF InvDisk, InvProgress
  <2>3. Disk(h, n, 0)'
    BY <1>3, <1>19, <2>2, DiskPatched
  <2> QED
    BY <1>6, <2>1, <2>3 DEF Ending
<1>20. CASE FinishHeader
  <2>1. /\ pc = "entry" /\ pc' = "table" /\ k' = 0
        /\ UNCHANGED <<obj, newShdrs, names, syms, curOff, out>>
    BY <1>20, Zenon DEF FinishHeader, Goto, build
  <2>2. Disk(h, n, 0)
    BY <1>2, <1>3, <2>1, Zenon DEF InvDisk
  <2> QED
    BY <1>7, <1>8, <2>1, <2>2 DEF Ending
<1>21. CASE WriteSectionHeader
  <2>1. pc = "table" /\ pc' = "table" /\ k' = k + 1
    BY <1>21 DEF WriteSectionHeader
  <2>2. PICK p : p = k + 1
    OBVIOUS
  <2>3. Disk(h, n, q) /\ q \in Nat
    BY <1>2, <1>3, <1>9, <2>1 DEF InvDisk, IInv, InvHeaders, InvMapping
  <2>4. Disk(h, n, p)'
    BY <1>3, <1>9, <1>21, <2>2, <2>3, DiskTable
  <2> QED
    BY <1>7, <2>1, <2>2, <2>4 DEF Ending
<1>22. CASE RewriteHeader
  <2>1. /\ pc = "table" /\ pc' = "cleanup" /\ k = newShnum
        /\ UNCHANGED <<obj, newShnum, newShdrs, names, namesSize, finalSize, syms, curOff, entry, hdr>>
    BY <1>22, Zenon DEF RewriteHeader, Goto, tables, build
  <2>2. Disk(h, n, q) /\ q \in Nat /\ q = newShnum
    BY <1>2, <1>3, <1>9, <2>1 DEF InvDisk, IInv, InvHeaders, InvMapping
  <2>3. PICK g : g = hdr
    OBVIOUS
  <2>4. Disk(g, n, q)'
    BY <1>3, <1>22, <2>2, <2>3, DiskRewritten
  <2>5. /\ HeadersUpTo(n) /\ NamesMade(n) /\ Placed(n) /\ EntryUpTo(q) /\ hdr = FinalHeader
    BY <1>3, <2>1, <2>2 DEF IInv, InvHeaders, InvNames, InvPlaces, InvProgress, AfterCopy
  <2>6. finalSize > 0
    <3>1. finalSize = 1 + Cardinality(NameBytes(obj.shnum))
      BY <2>1 DEF InvNames, AfterCopy
    <3>2. Cardinality(NameBytes(obj.shnum)) \in Nat
      BY <1>1, ObjectFacts, NameBytesFinite
    <3> QED
      BY <3>1, <3>2
  <2>7. HeadersUpTo(n)' /\ NamesMade(n)' /\ Placed(n)' /\ EntryUpTo(q)'
    BY <2>1, <2>5, HeadersFrame, NamesFrame, PlacedFrame, EntryFrame
  <2>8. g = FinalHeader' /\ n = obj'.shnum /\ q = newShnum' /\ (finalSize > 0)'
    BY <1>1, <1>3, <2>1, <2>2, <2>3, <2>5, <2>6, Zenon DEF FinalHeader, Rank
  <2>9. Finished'
    BY <2>4, <2>7, <2>8, Zenon
    DEF Finished, HeadersUpTo, NamesMade, Placed, EntryUpTo, Disk, Stored, Before
  <2> QED
    BY <2>1, <2>9
<1>23. CASE ToEnding /\ ~ RewriteHeader
  <2>1. pc' \in Ending
    BY <1>23, ToEndingFrame
  <2>2. CASE pc \notin Ending
    <3>1. ~ Committed'
      <4>1. OnlyInput
        BY <1>2, <2>2, InputOnDisk
      <4>2. OnlyInput'
        BY <1>23, <4>1, FailedUncommitted
      <4> QED
        BY <4>2 DEF OnlyInput, Committed, DiskEhdrs
    <3> QED
      BY <2>1, <3>1 DEF Ending
  <2>3. CASE pc \in Ending
    <3>1. Cleanup
      BY <1>23, <2>3 DEF ToEnding, OpenOutputFails, WriteInitialHeaderFails, CopyReadFails,
         CopyWriteFails, LoadTargetFails, WriteTargetFails, WriteSectionHeaderFails,
         RewriteHeaderFails, Copying, Relocating, TargetDone, Ending
    <3>2. UNCHANGED <<obj, newShnum, newShdrs, names, namesSize, finalSize, syms, curOff, entry, out>>
      BY <3>1, Zenon DEF Cleanup, tables, build
    <3>3. Committed' => Committed
      BY <3>2, Zenon DEF Committed, DiskEhdrs
    <3>4. Committed' => Finished'
      BY <1>2, <2>3, <3>2, <3>3, FinishedFrame DEF InvDisk
    <3> QED
      BY <2>1, <3>4 DEF Ending
  <2> QED
    BY <2>2, <2>3
<1> QED
  BY <1>10, <1>11, <1>12, <1>13, <1>14, <1>15, <1>16, <1>17, <1>18, <1>19, <1>20, <1>21,
     <1>22, <1>23, NextPhases, Zenon DEF InBeforeCopy, InAfterCopy

LEMMA PlacesInit == Init => InvPlaces
  BY DEF Init, InvPlaces, AfterCopy

LEMMA PatchesInit == Init => InvPatches
  BY DEF Init, InvPatches, Ending

-----------------------------------------------------------------------------
(***************************************************************************)
(* The relocations of the words.                                           *)
(***************************************************************************)
LEMMA RelDomain ==
  ASSUME NEW o \in Objects
  PROVE  /\ DOMAIN o.rels = {s \in Sections(o) : IsRel(o, s)}
         /\ \A s \in DOMAIN o.rels : s \in Nat /\ s < o.shnum
<1>1. WellFormed(o)
  BY ObjectsAssumption
<1>2. o.rels \in [{s \in Sections(o) : IsRel(o, s)} -> Seq(Relocations)]
  BY <1>1, Zenon DEF WellFormed
<1>3. o.shnum \in Nat
  BY ObjectFacts
<1> QED
  BY <1>2, <1>3 DEF Sections

LEMMA RelEntry ==
  ASSUME NEW o \in Objects, NEW s \in DOMAIN o.rels
  PROVE  /\ s \in Sections(o) /\ IsRel(o, s)
         /\ o.rels[s] \in Seq(Relocations) /\ Len(o.rels[s]) \in Nat
         /\ DOMAIN o.rels[s] = 1 .. Len(o.rels[s])
         /\ \A m \in DOMAIN o.rels[s] :
              /\ o.rels[s][m] \in Relocations
              /\ o.rels[s][m].offset \in Nat /\ o.rels[s][m].sym \in Nat
              /\ o.rels[s][m].type \in RelocTypes
              /\ o.rels[s][m].sym \in DOMAIN o.syms
<1>1. s \in Sections(o) /\ IsRel(o, s)
  BY RelDomain
<1>2. /\ o.rels[s] \in Seq(Relocations)
      /\ \A r \in 1 .. Len(o.rels[s]) : o.rels[s][r].sym < o.symnum
  BY <1>1, RelFacts
<1>3. Len(o.rels[s]) \in Nat /\ DOMAIN o.rels[s] = 1 .. Len(o.rels[s])
  BY <1>2
<1>4. \A m \in DOMAIN o.rels[s] : o.rels[s][m] \in Relocations
  BY <1>2, <1>3
<1>5. \A m \in DOMAIN o.rels[s] :
        /\ o.rels[s][m].offset \in Nat /\ o.rels[s][m].sym \in Nat
        /\ o.rels[s][m].type \in RelocTypes
  BY <1>4 DEF Relocations
<1>6. o.symnum \in Nat /\ DOMAIN o.syms = 0 .. (o.symnum - 1)
  BY ObjectFacts
<1>7. \A m \in DOMAIN o.rels[s] : o.rels[s][m].sym \in DOMAIN o.syms
  BY <1>2, <1>3, <1>5, <1>6
<1> QED
  BY <1>1, <1>2, <1>3, <1>4, <1>5, <1>7

LEMMA PatchSame ==
  ASSUME NEW r, NEW words, NEW others, NEW S, NEW P,
         CellsAt(words, r.offset) = CellsAt(others, r.offset),
         PatchAgrees(r, words, S, P)
  PROVE  PatchAgrees(r, others, S, P)
  BY DEF PatchAgrees

LEMMA AlignedSum ==
  ASSUME NEW a \in Nat, NEW align \in Nat, NEW off \in Nat, align > 0,
         align % 4 = 0, a % align = 0, off % 4 = 0
  PROVE  (a + off) % 4 = 0
<1>1. align = 4 * (align \div 4) /\ off = 4 * (off \div 4)
  BY FourDivides
<1>2. a = align * (a \div align)
  BY SMT
<1> DEFINE p == align \div 4
           q == a \div align
           r == off \div 4
<1>3. p \in Nat /\ q \in Nat /\ r \in Nat
  BY SMT
<1> HIDE DEF p, q, r
<1>4. a = 4 * (p * q) /\ off = 4 * r /\ align = 4 * p
  BY <1>1, <1>2, <1>3, SMT DEF p, q, r
<1>5. p * q \in Nat
  BY <1>3, SMT
<1> HIDE DEF p, q, r
<1>6. PICK x \in Nat : a = 4 * x
  BY <1>4, <1>5
<1> QED
  BY <1>3, <1>4, <1>6, SMT

(* The place of a branch is a multiple of four: 4 divides align, which     *)
(* divides the address of the section.                                     *)
LEMMA PatchedWord ==
  ASSUME NEW r \in Relocations, NEW words, NEW S \in Nat, NEW P \in Nat,
         r.type \in {"JUMP24", "CALL"} => P % 4 = 0,
         CellsAt(words, r.offset) =
           IF Accepted(r.type, S, P) THEN {Relocated(r.type, S, P)} ELSE {}
  PROVE  PatchAgrees(r, words, S, P)
<1>1. r.type \in RelocTypes
  BY DEF Relocations
<1>2. CASE r.type \in {"JUMP24", "CALL"}
  <2>1. Accepted(r.type, S, P) <=> JumpAccepted(S, P)
    BY <1>2, SameBranchesAccepted DEF Accepted
  <2>2. JumpAccepted(S, P) <=> InReach(S, P)
    <3>1. P % 4 = 0
      BY <1>2
    <3>2. S % 4 = 0 <=> (S - P) % 4 = 0
      BY <3>1, SMT
    <3>3. (S - P) % 4 = 0 => (S - P - 8 <= 33554431 <=> S - P - 8 <= 33554428)
      BY SMT
    <3> QED
      BY <3>2, <3>3, SMT DEF JumpAccepted, Displacement, InReach
  <2>3. ASSUME Accepted(r.type, S, P)
        PROVE  \E c \in CellsAt(words, r.offset) : BranchTarget(P, c.field) = S
    <3>1. BranchTarget(P, Relocated(r.type, S, P).field) = S
      BY <1>2, <2>3, BranchReachesSymbol
    <3>2. Relocated(r.type, S, P) \in CellsAt(words, r.offset)
      BY <2>3
    <3> QED
      BY <3>1, <3>2
  <2>4. IF InReach(S, P)
          THEN \E c \in CellsAt(words, r.offset) : BranchTarget(P, c.field) = S
          ELSE CellsAt(words, r.offset) = {}
    BY <2>1, <2>2, <2>3, Zenon
  <2> QED
    BY <1>2, <2>4, Zenon DEF PatchAgrees
<1>3. CASE r.type \in {"ABS32", "ABS16", "ABS8"}
  <2>1. CellsAt(words, r.offset) = {Relocated(r.type, S, P)}
    BY <1>3 DEF Accepted
  <2> QED
    BY <1>3, <2>1 DEF PatchAgrees, Relocated
<1>4. CASE r.type = "OTHER"
  <2>1. CellsAt(words, r.offset) = {}
    BY <1>4 DEF Accepted
  <2> QED
    BY <1>4, <2>1 DEF PatchAgrees
<1> QED
  BY <1>1, <1>2, <1>3, <1>4 DEF RelocTypes

(* One entry: the words patched before it stay, and it gets its own.       *)
LEMMA TargetPatched ==
  ASSUME IInv, Assembled, ApplyRelocation, PatchedTarget(j), NEW n, n = j + 1
  PROVE  PatchedTarget(n)'
<1>1. /\ pc = "apply" /\ j <= Len(obj.rels[i]) /\ obj' = obj /\ i' = i
      /\ UNCHANGED <<newShdrs, syms>>
  BY Zenon DEF ApplyRelocation, build
<1>2. /\ obj \in Objects /\ i \in 0 .. obj.shnum /\ i < obj.shnum /\ IsRel(obj, i)
      /\ j \in Nat /\ j >= 1 /\ HeadersUpTo(obj.shnum) /\ MappedTo(obj.shnum)
      /\ syms \in [DOMAIN obj.syms -> Symbols]
  BY <1>1 DEF IInv, InvTypes, InvHeaders, InvMapping, InvSymbols, AfterCopy, BeforeTables
<1>3. obj.shnum \in Nat /\ i \in DOMAIN obj.rels
  <2>1. obj.shnum \in Nat
    BY <1>2, ObjectFacts
  <2>2. i \in Sections(obj)
    BY <1>2, <2>1 DEF Sections
  <2> QED
    BY <1>2, <2>1, <2>2, RelDomain
<1> DEFINE R == obj.rels[i]
<1>4. /\ R \in Seq(Relocations) /\ DOMAIN R = 1 .. Len(R) /\ Len(R) \in Nat
      /\ \A m \in DOMAIN R : /\ R[m] \in Relocations /\ R[m].offset \in Nat
                             /\ R[m].sym \in DOMAIN obj.syms
  BY <1>2, <1>3, RelEntry
<1>5. j \in DOMAIN R
  BY <1>1, <1>2, <1>4
<1>6. PICK t : t = TargetOf(i)
  OBVIOUS
<1>7. /\ t \in KeptSections(obj) /\ mapping[t] = Rank(t) /\ HeaderMade(t)
  <2>1. t \in KeptSections(obj)
    BY <1>2, <1>3, <1>6, RelEntry, RelFacts DEF TargetOf
  <2>2. t \in Sections(obj) /\ t < obj.shnum /\ ~ IsRel(obj, t)
    BY <1>2, <2>1, KeptFacts
  <2> QED
    BY <1>2, <2>1, <2>2, Zenon DEF MappedTo, HeadersUpTo
<1>8. PICK r, S, P : r = R[j] /\ S = syms[r.sym].value /\ P = PlaceOf(i) + r.offset
  OBVIOUS
<1>9. newShdrs[mapping[TargetOf(i)]].addr = PlaceOf(i) /\ PlaceOf(i) = H(t).addr
  BY <1>6, <1>7, Zenon DEF PlaceOf, H
<1>10. target' = IF Accepted(r.type, S, P)
                   THEN {w \in target : w.offset # r.offset}
                          \cup {[offset |-> r.offset, cell |-> Relocated(r.type, S, P)]}
                   ELSE target
  BY <1>8, <1>9 DEF ApplyRelocation
<1>11. /\ r \in Relocations /\ S \in Nat /\ H(t).addr \in Nat /\ r.offset \in Nat
  <2>1. H(t) \in OutputHeaders
    BY <1>7, Zenon DEF HeaderMade, H
  <2>2. syms[r.sym] \in Symbols
    BY <1>2, <1>4, <1>5, <1>8
  <2> QED
    BY <1>4, <1>5, <1>8, <2>1, <2>2 DEF OutputHeaders, Symbols
<1>12. P \in Nat /\ (r.type \in {"JUMP24", "CALL"} => P % 4 = 0)
  <2>1. P \in Nat
    BY <1>8, <1>9, <1>11
  <2>2. ASSUME r.type \in {"JUMP24", "CALL"} PROVE P % 4 = 0
    <3>1. /\ obj.shdrs[t].align > 0 /\ obj.shdrs[t].align % 4 = 0 /\ r.offset % 4 = 0
      BY <1>3, <1>5, <1>6, <1>8, <2>2, Zenon DEF Assembled, BranchesAligned
    <3>2. obj.shdrs[t].align \in Nat
      BY <1>2, <1>7, KeptFacts
    <3>3. H(t).addr % obj.shdrs[t].align = 0
      BY <1>7, <3>1 DEF HeaderMade, H
    <3>4. (H(t).addr + r.offset) % 4 = 0
      BY <1>11, <3>1, <3>2, <3>3, AlignedSum
    <3> QED
      BY <1>8, <1>9, <3>4
  <2> QED
    BY <2>1, <2>2
<1>13. /\ obj.shdrs[TargetOf(i)].size > 0
       /\ \A m \in DOMAIN R : m < j => Agrees(i, m, target)
       /\ \A w \in target : \E m \in DOMAIN R : m < j /\ w.offset = R[m].offset
  BY Zenon DEF PatchedTarget
<1>14. \A m \in DOMAIN R : m < j => R[m].offset # r.offset
  <2>1. SUFFICES ASSUME NEW m \in DOMAIN R, m < j, R[m].offset = r.offset PROVE FALSE
    OBVIOUS
  <2>2. m = j
    BY <1>3, <1>5, <1>8, <2>1, Zenon DEF Assembled, RelocationsApart
  <2> QED
    BY <1>2, <2>1, <2>2
<1>15. \A w \in target : w.offset # r.offset
  BY <1>13, <1>14
<1>16. CellsAt(target', r.offset) =
         IF Accepted(r.type, S, P) THEN {Relocated(r.type, S, P)} ELSE {}
  <2> DEFINE new == [offset |-> r.offset, cell |-> Relocated(r.type, S, P)]
             old == {w \in target : w.offset # r.offset}
  <2>1. CASE Accepted(r.type, S, P)
    <3>1. target' = old \cup {new}
      BY <1>10, <2>1
    <3>2. new.offset = r.offset /\ new.cell = Relocated(r.type, S, P)
      OBVIOUS
    <3>3. \A w \in old : w.offset # r.offset
      OBVIOUS
    <3> HIDE DEF new, old
    <3>4. {w \in target' : w.offset = r.offset} = {new}
      BY <3>1, <3>2, <3>3
    <3>5. CellsAt(target', r.offset) = {new.cell}
      BY <3>4 DEF CellsAt
    <3> QED
      BY <2>1, <3>2, <3>5
  <2>2. CASE ~ Accepted(r.type, S, P)
    <3>1. {w \in target' : w.offset = r.offset} = {}
      BY <1>10, <1>15, <2>2
    <3>2. CellsAt(target', r.offset) = {}
      BY <3>1 DEF CellsAt
    <3> QED
      BY <2>2, <3>2
  <2> QED
    BY <2>1, <2>2
<1>17. \A o : o # r.offset => CellsAt(target', o) = CellsAt(target, o)
  BY <1>10, <1>15 DEF CellsAt
<1>18. PatchAgrees(r, target', S, P)
  BY <1>11, <1>12, <1>16, PatchedWord
<1> HIDE DEF R
<1>19. ASSUME NEW m \in DOMAIN R, m < n PROVE Agrees(i, m, target')
  <2>1. CASE m = j
    BY <1>8, <1>18, <2>1, Zenon DEF Agrees, R
  <2>2. CASE m # j
    <3>1. m < j
      BY <1>2, <1>4, <1>19, <2>2
    <3>2. Agrees(i, m, target) /\ R[m].offset # r.offset
      BY <1>13, <1>14, <3>1
    <3>3. CellsAt(target, R[m].offset) = CellsAt(target', R[m].offset)
      BY <1>17, <3>2
    <3>4. PatchAgrees(R[m], target, syms[R[m].sym].value, PlaceOf(i) + R[m].offset)
      BY <3>2, Zenon DEF Agrees, R
    <3>5. PatchAgrees(R[m], target', syms[R[m].sym].value, PlaceOf(i) + R[m].offset)
      BY <3>3, <3>4, PatchSame
    <3> QED
      BY <3>5, Zenon DEF Agrees, R
  <2> QED
    BY <2>1, <2>2
<1>20. ASSUME NEW w \in target'
       PROVE  \E m \in DOMAIN R : m < n /\ w.offset = R[m].offset
  <2>1. CASE w \in target
    <3>1. PICK m \in DOMAIN R : m < j /\ w.offset = R[m].offset
      BY <1>13, <2>1
    <3>2. m < n
      BY <1>2, <1>4, <3>1
    <3> QED
      BY <3>1, <3>2
  <2>2. CASE w \notin target
    <3>1. w.offset = R[j].offset
      BY <1>8, <1>10, <2>2
    <3>2. j < n
      BY <1>2
    <3> QED
      BY <1>5, <3>1, <3>2
  <2> QED
    BY <2>1, <2>2
<1>21. PICK s : s = i
  OBVIOUS
<1>22. \A m, words : Agrees(s, m, words)' <=> Agrees(s, m, words)
  BY <1>1, Zenon DEF Agrees, PlaceOf, H, Rank, TargetOf
<1>23. PICK words : words = target'
  OBVIOUS
<1>24. \A m \in DOMAIN R : m < n => Agrees(s, m, words)'
  BY <1>19, <1>21, <1>22, <1>23
<1>25. \A m \in DOMAIN obj'.rels[i'] : m < n => Agrees(i, m, target)'
  BY <1>1, <1>21, <1>23, <1>24, Zenon DEF R, Agrees, PlaceOf
<1>26. obj'.shdrs[TargetOf(i)'].size > 0
  BY <1>1, <1>13, Zenon DEF TargetOf
<1>27. \A w \in target' : \E m \in DOMAIN obj'.rels[i'] :
         m < n /\ w.offset = obj'.rels[i'][m].offset
  BY <1>1, <1>20, Zenon DEF R
<1> QED
  BY <1>25, <1>26, <1>27, Zenon DEF PatchedTarget

(* What leaves the contents of the file alone leaves the patches alone.    *)
LEMMA PatchedFrame ==
  ASSUME NEW n, Patched(n), UNCHANGED <<obj, newShdrs, names, syms>>,
         \A e \in out'.extents : e \in out.extents \/ e.what.kind \in {"ehdr", "shdr"}
  PROVE  Patched(n)'
<1>1. \A s : H(s)' = H(s)
  BY KindFrame, Zenon DEF H
<1>2. \A e, s : Keeps(e, s)' <=> Keeps(e, s)
  BY <1>1, KindFrame, Zenon DEF Keeps, Holds
<1>3. \A e, s : Keeps(e, s) => e.what.kind \notin {"ehdr", "shdr"}
  BY KindFacts DEF Keeps, Holds
<1>4. \A r, m, words : Agrees(r, m, words)' <=> Agrees(r, m, words)
  BY <1>1, Zenon DEF Agrees, PlaceOf, TargetOf
<1>5. \A r : TargetOf(r)' = TargetOf(r)
  BY Zenon DEF TargetOf
<1>6. ASSUME NEW r \in DOMAIN obj.rels, r < n
      PROVE  /\ obj.shdrs[TargetOf(r)].size > 0
             /\ \A e \in out'.extents : Keeps(e, TargetOf(r)) =>
                  \A m \in DOMAIN obj.rels[r] : Agrees(r, m, e.what.words)
  BY <1>3, <1>6, Zenon DEF Patched
<1> QED
  BY <1>2, <1>4, <1>5, <1>6, Zenon DEF Patched

(* The target of relocation section i is written over its copy.            *)
LEMMA PatchedWritten ==
  ASSUME IInv, InvPlaces, Assembled, WriteTarget, Patched(i), PatchedTarget(j),
         NEW h, NEW q, q = obj.shnum, Disk(h, q, 0), NEW n, n = i + 1
  PROVE  Patched(n)'
<1>1. /\ pc = "apply" /\ j > Len(obj.rels[i])
      /\ UNCHANGED <<obj, newShdrs, names, syms>>
  BY Zenon DEF WriteTarget, TargetDone, build
<1>2. obj \in Objects /\ i \in DOMAIN obj.rels /\ j \in Nat /\ obj.shdrs[TargetOf(i)].size > 0
  BY <1>1, TargetStored DEF IInv, InvTypes, PatchedTarget
<1>3. /\ \A r \in DOMAIN obj.rels : r \in Nat
      /\ DOMAIN obj.rels[i] = 1 .. Len(obj.rels[i]) /\ Len(obj.rels[i]) \in Nat
  BY <1>2, RelDomain, RelEntry
<1>4. \A e \in out'.extents :
        \/ e \in out.extents /\ ~ Keeps(e, TargetOf(i))
        \/ /\ Keeps(e, TargetOf(i))
           /\ e.what.of = TargetOf(i) /\ e.what.words = target
           /\ e.what.kind = "contents"
  BY <1>2, DiskPatched
<1>5. \A m \in DOMAIN obj.rels[i] : Agrees(i, m, target)
  <2>1. \A m \in DOMAIN obj.rels[i] : m < j
    BY <1>1, <1>2, <1>3
  <2> QED
    BY <2>1, Zenon DEF PatchedTarget
<1>6. ASSUME NEW r \in DOMAIN obj.rels, r < n, NEW e \in out'.extents,
             Keeps(e, TargetOf(r)), NEW m \in DOMAIN obj.rels[r]
      PROVE  Agrees(r, m, e.what.words)
  <2>1. CASE r = i
    <3>1. e.what.words = target
      BY <1>4, <1>6, <2>1, Zenon
    <3> QED
      BY <1>5, <1>6, <2>1, <3>1
  <2>2. CASE r # i
    <3>1. r < i
      BY <1>2, <1>3, <1>6, <2>2
    <3>2. TargetOf(r) # TargetOf(i)
      BY <1>2, <2>2, Zenon DEF Assembled, RelocationsApart
    <3>3. e \in out.extents
      BY <1>4, <1>6, <3>2, Zenon DEF Keeps, Holds
    <3> QED
      BY <1>6, <3>1, <3>3, Zenon DEF Patched
  <2> QED
    BY <2>1, <2>2
<1>7. ASSUME NEW r \in DOMAIN obj.rels, r < n PROVE obj.shdrs[TargetOf(r)].size > 0
  <2>1. r = i \/ r < i
    BY <1>2, <1>3, <1>7
  <2> QED
    BY <1>2, <2>1, Zenon DEF Patched
<1>8. \A s : H(s)' = H(s)
  BY <1>1, KindFrame, Zenon DEF H
<1>9. \A e, s : Keeps(e, s)' <=> Keeps(e, s)
  BY <1>1, <1>8, KindFrame, Zenon DEF Keeps, Holds
<1>10. \A r, m, words : Agrees(r, m, words)' <=> Agrees(r, m, words)
  BY <1>1, <1>8, Zenon DEF Agrees, PlaceOf, TargetOf
<1>11. \A r : TargetOf(r)' = TargetOf(r)
  BY <1>1, Zenon DEF TargetOf
<1> QED
  BY <1>1, <1>6, <1>7, <1>9, <1>10, <1>11, Zenon DEF Patched

LEMMA PatchesStep ==
  ASSUME IInv, InvNames, InvPlaces, InvProgress, InvDisk, InvPatches, [Next]_vars
  PROVE  InvPatches'
<1>1. obj \in Objects /\ pc \in Places /\ obj' = obj /\ i \in 0 .. obj.shnum
  BY ObjectStays DEF IInv, InvTypes
<1>2. SUFFICES ASSUME Assembled
               PROVE  /\ pc' = "relocate" => Patched(i)'
                      /\ pc' = "apply" => Patched(i)' /\ PatchedTarget(j)'
                      /\ pc' \in {"entry", "table"} => Patched(obj.shnum)'
                      /\ pc' \in Ending /\ Committed' => Patched(obj.shnum)'
  BY <1>1, Zenon
  DEF InvPatches, Assembled, NamesLast, RelocationsApart, BranchesAligned, TargetOf
<1>3. PICK n, m : n = obj.shnum /\ m = i
  OBVIOUS
<1>4. /\ pc = "relocate" => Patched(m)
      /\ pc = "apply" => Patched(m) /\ PatchedTarget(j)
      /\ pc \in {"entry", "table"} => Patched(n)
      /\ pc \in Ending /\ Committed => Patched(n)
  BY <1>2, <1>3, Zenon DEF InvPatches
<1>5. ASSUME Patched(n)' PROVE Patched(obj.shnum)'
  BY <1>1, <1>3, <1>5, Zenon DEF Patched
<1>6. ASSUME NEW p, Patched(p)', i' = p PROVE Patched(i)'
  BY <1>6, Zenon DEF Patched
<1>7. ASSUME NEW p, Patched(p), UNCHANGED <<obj, newShdrs, names, syms, out>>
      PROVE  Patched(p)'
  BY <1>7, PatchedFrame, Zenon
<1>8. CASE UNCHANGED vars
  <2>1. UNCHANGED <<obj, pc, i, j, newShdrs, names, syms, target, out>>
    BY <1>8, Zenon DEF vars, build
  <2>2. Committed' => Committed
    BY <2>1, Zenon DEF Committed, DiskEhdrs
  <2>3. PatchedTarget(j) => PatchedTarget(j)'
    BY <2>1, Zenon DEF PatchedTarget, Agrees, PlaceOf, H, Rank, TargetOf
  <2> QED
    BY <1>3, <1>4, <1>5, <1>6, <1>7, <2>1, <2>2, <2>3, Zenon
<1>9. CASE InTables \/ AllocateTables \/ InBeforeCopy \/ NamesSized \/ SkipRemoved \/ InCopy
  <2>1. pc' \notin {"relocate", "apply", "entry", "table"} \cup Ending
    <3>1. CASE NamesSized \/ SkipRemoved
      BY <3>1 DEF NamesSized, SkipRemoved, Goto, Ending
    <3>2. CASE InCopy
      BY <3>2, CopyEffect DEF Ending
    <3> QED
      BY <1>9, <3>1, <3>2, InTablesFrame, InBeforeCopyFrame, AllocatePlace
      DEF BeforeTables, BeforeCopy, Ending
  <2> QED
    BY <2>1
<1>10. CASE AllCopied
  <2>1. pc' = "relocate" /\ i' = 0
    BY <1>10 DEF AllCopied, Goto
  <2>2. \A r \in DOMAIN obj.rels : ~ (r < 0)
    BY <1>1, RelDomain
  <2>3. Patched(0)'
    BY <1>1, <2>2, Zenon DEF Patched
  <2> QED
    BY <1>6, <2>1, <2>3 DEF Ending
<1>11. CASE SkipUnrelocated
  <2>1. /\ pc = "relocate" /\ pc' = "relocate" /\ i' = i + 1 /\ i < obj.shnum
        /\ ~ IsRel(obj, i) /\ UNCHANGED <<obj, newShdrs, names, syms, out>>
    BY <1>11, Zenon DEF SkipUnrelocated, build
  <2>2. PICK p : p = i + 1
    OBVIOUS
  <2>3. \A r \in DOMAIN obj.rels : r < p => r < m
    <3>1. i \notin DOMAIN obj.rels
      BY <1>1, <2>1, RelDomain
    <3>2. \A r \in DOMAIN obj.rels : r \in Nat
      BY <1>1, RelDomain
    <3>3. i \in Nat
      BY <1>1, ObjectFacts
    <3> QED
      BY <1>3, <2>2, <3>1, <3>2, <3>3
  <2>4. Patched(p)
    BY <1>4, <2>1, <2>3, Zenon DEF Patched
  <2>5. Patched(p)'
    BY <1>7, <2>1, <2>4
  <2> QED
    BY <1>6, <2>1, <2>2, <2>5 DEF Ending
<1>12. CASE LoadTarget
  <2>1. /\ pc = "relocate" /\ pc' = "apply" /\ i' = i /\ target' = {} /\ j' = 1
        /\ obj.shdrs[TargetOf(i)].size > 0
        /\ UNCHANGED <<obj, newShdrs, names, syms, out>>
    BY <1>12, Zenon DEF LoadTarget, Relocating, CanReload, Goto, build
  <2>2. Patched(m)'
    BY <1>4, <1>7, <2>1
  <2>3. i \in DOMAIN obj.rels
    <3>1. i < obj.shnum /\ IsRel(obj, i)
      BY <1>12 DEF LoadTarget, Relocating
    <3>2. i \in Sections(obj)
      BY <1>1, <3>1, ObjectFacts DEF Sections
    <3> QED
      BY <1>1, <3>1, <3>2, RelDomain
  <2>4. \A x \in DOMAIN obj.rels[i] : ~ (x < 1)
    BY <1>1, <2>3, RelEntry
  <2>5. PatchedTarget(1)'
    BY <2>1, <2>4, Zenon DEF PatchedTarget, TargetOf
  <2>6. PatchedTarget(j)'
    BY <2>1, <2>5, Zenon DEF PatchedTarget
  <2> QED
    BY <1>3, <1>6, <2>1, <2>2, <2>6 DEF Ending
<1>13. CASE ApplyRelocation
  <2>1. /\ pc = "apply" /\ pc' = "apply" /\ i' = i /\ j' = j + 1
        /\ UNCHANGED <<obj, newShdrs, names, syms, out>>
    BY <1>13, Zenon DEF ApplyRelocation, build
  <2>2. Patched(m)'
    BY <1>4, <1>7, <2>1
  <2>3. PICK p : p = j + 1
    OBVIOUS
  <2>4. PatchedTarget(p)'
    BY <1>2, <1>4, <1>13, <2>1, <2>3, TargetPatched
  <2>5. PatchedTarget(j)'
    BY <2>1, <2>3, <2>4, Zenon DEF PatchedTarget
  <2> QED
    BY <1>3, <1>6, <2>1, <2>2, <2>5 DEF Ending
<1>14. CASE WriteTarget
  <2>1. pc = "apply" /\ pc' = "relocate" /\ i' = i + 1
    BY <1>14 DEF WriteTarget, TargetDone, Goto
  <2>2. PICK h, p : h = InputHeader(obj) /\ p = i + 1
    OBVIOUS
  <2>3. Disk(h, n, 0)
    BY <1>2, <1>3, <2>1, <2>2, Zenon DEF InvDisk, Assembled
  <2>4. Patched(i) /\ PatchedTarget(j)
    BY <1>3, <1>4, <2>1
  <2>5. Patched(p)'
    BY <1>2, <1>3, <1>14, <2>2, <2>3, <2>4, PatchedWritten
  <2> QED
    BY <1>6, <2>1, <2>2, <2>5 DEF Ending
<1>15. CASE AllRelocated
  <2>1. /\ pc = "relocate" /\ pc' = "entry" /\ i = obj.shnum
        /\ UNCHANGED <<obj, newShdrs, names, syms, out>>
    BY <1>15, Zenon DEF AllRelocated, Goto, build
  <2>2. Patched(n)'
    BY <1>3, <1>4, <1>7, <2>1
  <2> QED
    BY <1>5, <2>1, <2>2 DEF Ending
<1>16. CASE FindEntry \/ FinishHeader
  <2>1. UNCHANGED <<obj, newShdrs, names, syms, out>>
    BY <1>16, Zenon DEF FindEntry, FinishHeader, build
  <2>2. pc = "entry" /\ pc' \in {"entry", "table"}
    BY <1>16 DEF FindEntry, FinishHeader, Goto
  <2>3. Patched(n)'
    BY <1>4, <1>7, <2>1, <2>2
  <2> QED
    BY <1>5, <2>2, <2>3 DEF Ending
<1>17. CASE WriteSectionHeader \/ RewriteHeader
  <2>1. /\ pc = "table" /\ pc' \in {"table", "cleanup"}
    BY <1>17 DEF WriteSectionHeader, RewriteHeader, Goto
  <2>2. UNCHANGED <<obj, newShdrs, names, syms>>
    BY <1>17, Zenon DEF WriteSectionHeader, RewriteHeader, build
  <2>3. \A e \in out'.extents : e \in out.extents \/ e.what.kind \in {"ehdr", "shdr"}
    <3>1. PICK at, len, what : out' = Written(out, at, len, what)
                               /\ what.kind \in {"ehdr", "shdr"}
      BY <1>17 DEF WriteSectionHeader, RewriteHeader, Ehdr, Shdr
    <3>2. \A e \in out'.extents : e \in out.extents \/ e = Extent(at, len, what)
      BY <3>1, OutWritten
    <3> QED
      BY <3>1, <3>2, ExtentFields
  <2>4. Patched(n)'
    BY <1>4, <2>1, <2>2, <2>3, PatchedFrame
  <2> QED
    BY <1>5, <2>1, <2>4
<1>18. CASE ToEnding /\ ~ RewriteHeader
  <2>1. pc' \in Ending
    BY <1>18, ToEndingFrame
  <2>2. CASE pc \notin Ending
    <3>1. OnlyInput
      BY <1>2, <2>2, InputOnDisk DEF Assembled
    <3>2. OnlyInput'
      BY <1>18, <3>1, FailedUncommitted
    <3>3. ~ Committed'
      BY <3>2 DEF OnlyInput, Committed, DiskEhdrs
    <3> QED
      BY <2>1, <3>3 DEF Ending
  <2>3. CASE pc \in Ending
    <3>1. Cleanup
      BY <1>18, <2>3 DEF ToEnding, OpenOutputFails, WriteInitialHeaderFails, CopyReadFails,
         CopyWriteFails, LoadTargetFails, WriteTargetFails, WriteSectionHeaderFails,
         RewriteHeaderFails, Copying, Relocating, TargetDone, Ending
    <3>2. UNCHANGED <<obj, newShdrs, names, syms, out>>
      BY <3>1, Zenon DEF Cleanup, build
    <3>3. Committed' => Committed
      BY <3>2, Zenon DEF Committed, DiskEhdrs
    <3>4. Committed' => Patched(n)'
      BY <1>4, <1>7, <2>3, <3>2, <3>3
    <3> QED
      BY <1>5, <2>1, <3>4 DEF Ending
  <2> QED
    BY <2>2, <2>3
<1> QED
  BY <1>8, <1>9, <1>10, <1>11, <1>12, <1>13, <1>14, <1>15, <1>16, <1>17, <1>18,
     NextPhases, Zenon DEF InAfterCopy

-----------------------------------------------------------------------------
(***************************************************************************)
(* The theorems on process_rel.                                            *)
(***************************************************************************)
FileInv ==
  InvNames /\ InvPlaces /\ InvValues /\ InvProgress /\ InvDisk /\ InvPatches

LEMMA FileInit == Init => FileInv
  BY NamesInit, PlacesInit, ValuesInit, ProgressInit, DiskInit, PatchesInit DEF FileInv

LEMMA FileStep == ASSUME IInv, FileInv, [Next]_vars PROVE FileInv'
  BY NamesStep, PlacesStep, ValuesStep, ProgressStep, DiskStep, PatchesStep DEF FileInv

(* At every step, for any well-formed object and any failures: the names,  *)
(* the headers, the symbols; and, if the name table is the last section,   *)
(* what the file holds: the header of the input, then the sections copied  *)
(* so far at the offsets of their headers, then the section table; and the *)
(* patched words in it, if the object is Assembled (process_rel.c:243-513).*)
THEOREM FileInvariance == Spec => []FileInv
<1>1. Init => FileInv
  BY FileInit
<1>2. IInv /\ FileInv /\ [Next]_vars => FileInv'
  BY FileStep
<1> QED
  BY <1>1, <1>2, Invariance, PTL DEF Spec

(* A symbol that moves has a section, and one that does not keeps its      *)
(* value.                                                                  *)
LEMMA MovedSymbol ==
  ASSUME obj \in Objects, NEW x \in DOMAIN obj.syms
  PROVE  /\ Moves(obj.syms[x]) => HasSection(obj.syms[x])
         /\ ~ Moves(obj.syms[x]) => MovedValue(x) = obj.syms[x].value
<1>1. obj.shdrs[0].name = ""
  BY NullSection
<1>2. "" \notin RelocatedNames
  BY DEF RelocatedNames
<1>3. Moves(obj.syms[x]) => HasSection(obj.syms[x])
  BY <1>1, <1>2 DEF Moves, HasSection, SHN_UNDEF
<1>4. obj.syms[x] \in Symbols
  BY ObjectFacts
<1>5. obj.syms[x].value \in Nat
  BY <1>4 DEF Symbols
<1>6. ASSUME ~ Moves(obj.syms[x]) PROVE MovedValue(x) = obj.syms[x].value + 0
  BY <1>6, Zenon DEF MovedValue
<1> QED
  BY <1>3, <1>5, <1>6

(* Symbols: in any symbol table written, the address of the section has    *)
(* been added to each symbol of .text, .data or .bss, once, and symbols    *)
(* that have no section kept are untouched (process_rel.c:129-162, 403).   *)
THEOREM SymbolsCorrect == Spec => []SymbolsRelocated
<1>1. ASSUME IInv, FileInv PROVE SymbolsRelocated
  <2>1. obj \in Objects
    BY <1>1 DEF IInv, InvTypes
  <2>2. SUFFICES ASSUME SymbolsAfterSections,
                        NEW e \in out.extents, e.what.kind = "symbols",
                        NEW x \in DOMAIN obj.syms
                 PROVE  /\ Moves(obj.syms[x]) =>
                             e.what.syms[x].value =
                               obj.syms[x].value + newShdrs[Rank(obj.syms[x].shndx)].addr
                        /\ ~ HasSection(obj.syms[x]) =>
                             e.what.syms[x].value = obj.syms[x].value
    BY Zenon DEF SymbolsRelocated
  <2>3. e.what.syms[x].value = MovedValue(x)
    BY <1>1, <2>2, Zenon DEF FileInv, InvValues
  <2>4. Moves(obj.syms[x]) =>
          MovedValue(x) = obj.syms[x].value + newShdrs[Rank(obj.syms[x].shndx)].addr
    BY Zenon DEF MovedValue, H
  <2>5. ~ HasSection(obj.syms[x]) => MovedValue(x) = obj.syms[x].value
    BY <2>1, MovedSymbol, Zenon
  <2> QED
    BY <2>3, <2>4, <2>5, Zenon
<1> QED
  BY <1>1, Invariance, FileInvariance, PTL

(* The new name table never outgrows its buffer, if the names of the old   *)
(* one share no bytes (process_rel.c:289, 381).                            *)
THEOREM NamesCorrect == Spec => []NamesFit
<1>1. ASSUME IInv, FileInv PROVE NamesFit
  <2>1. SUFFICES ASSUME NamesApart
                 PROVE  namesSize <= obj.shdrs[obj.shstrndx].size
    BY DEF NamesFit
  <2>2. obj \in Objects /\ namesSize \in Nat
    BY <1>1 DEF IInv, InvTypes
  <2>3. 1 + Cardinality(NameBytes(obj.shnum)) <= obj.shdrs[obj.shstrndx].size
    BY <2>1, <2>2, NameBytesFit
  <2>4. namesSize <= 1 + Cardinality(NameBytes(obj.shnum))
    BY <1>1 DEF FileInv, InvNames
  <2>5. /\ Cardinality(NameBytes(obj.shnum)) \in Nat
        /\ obj.shdrs[obj.shstrndx].size \in Nat
    <3>1. obj.shdrs[obj.shstrndx].size \in Nat
      BY <2>2, NameTableFacts, Zenon
    <3>2. obj.shnum \in Int
      BY <2>2, ObjectFacts
    <3> QED
      BY <2>2, <3>1, <3>2, NameBytesFinite
  <2> QED
    BY <2>2, <2>3, <2>4, <2>5
<1> QED
  BY <1>1, Invariance, FileInvariance, PTL

LEMMA CommittedFinished ==
  ASSUME IInv, FileInv, NamesLast, Committed
  PROVE  pc \in Ending /\ Finished
<1>1. pc \in Ending
  BY InputOnDisk, Uncommitted DEF FileInv
<1> QED
  BY <1>1, Zenon DEF FileInv, InvDisk

(* What a reader finds from the header of a finished file on.              *)
LEMMA FinishedFacts ==
  ASSUME IInv, Finished, pc \in Ending
  PROVE  /\ DiskEhdrs = {FinalHeader} /\ Ehdr0 = FinalHeader
         /\ newShnum = Rank(obj.shnum) /\ newShnum = Cardinality(KeptSections(obj))
         /\ newShnum \in Nat
         /\ \A n \in 0 .. (newShnum - 1) : ShdrsAt(n) = {newShdrs[n]}
         /\ \A s \in KeptSections(obj) :
              /\ Rank(s) \in 0 .. (newShnum - 1) /\ ShdrsAt(Rank(s)) = {H(s)}
              /\ HeaderMade(s) /\ s \in Before(obj.shnum) /\ H(s).size = SizeOf(s)
              /\ H(s).size > 0 => \E e \in out.extents : Keeps(e, s)
<1>1. obj \in Objects /\ MappedTo(obj.shnum) /\ newShnum = Rank(obj.shnum)
      /\ newShnum \in 0 .. obj.shnum /\ curOff \in Nat
  BY DEF IInv, InvTypes, InvMapping, Ending
<1>2. obj.shnum \in Nat /\ newShnum \in Nat
  BY <1>1, ObjectFacts
<1>3. HeadersUpTo(obj.shnum) /\ Placed(obj.shnum) /\ Disk(FinalHeader, obj.shnum, newShnum)
  BY DEF Finished
<1>4. DiskEhdrs = {FinalHeader}
  BY <1>3, DiskEhdr
<1>5. Ehdr0 = FinalHeader
  BY <1>4, Zenon DEF Ehdr0
<1>6. newShnum = Cardinality(KeptSections(obj))
  <2>1. {t \in KeptSections(obj) : t < obj.shnum} = KeptSections(obj)
    BY <1>1, KeptFacts
  <2> QED
    BY <1>1, <2>1 DEF Rank, RankIn
<1>7. Ehdr0.shoff = curOff
  BY <1>5 DEF FinalHeader
<1>8. ASSUME NEW n \in 0 .. (newShnum - 1) PROVE ShdrsAt(n) = {newShdrs[n]}
  <2>1. TableExtent(n) \in out.extents
    BY <1>3, <1>8, Zenon DEF Disk
  <2>2. ASSUME NEW e \in out.extents, e.at = curOff + ShdrSize * n, e.what.kind = "shdr"
        PROVE  e = TableExtent(n)
    <3>1. \/ e = HeaderExtent(FinalHeader)
          \/ \E s \in Stored(obj.shnum) : Keeps(e, s)
          \/ \E x \in 0 .. (newShnum - 1) : e = TableExtent(x)
      BY <1>3, Zenon DEF Disk
    <3>2. e # HeaderExtent(FinalHeader)
      <4>1. HeaderExtent(FinalHeader).what.kind = "ehdr"
        BY HeaderFields
      <4> QED
        BY <2>2, <4>1
    <3>3. \A s : ~ Keeps(e, s)
      BY <2>2, KindFacts DEF Keeps, Holds
    <3>4. PICK x \in 0 .. (newShnum - 1) : e = TableExtent(x)
      BY <3>1, <3>2, <3>3, Zenon
    <3>5. e.at = curOff + ShdrSize * x
      BY <3>4, TableFields
    <3>6. x = n
      BY <1>1, <1>2, <1>8, <2>2, <3>5, SMT DEF ShdrSize
    <3> QED
      BY <3>4, <3>6
  <2>3. \A e : /\ e \in out.extents
               /\ e.at = Ehdr0.shoff + ShdrSize * n /\ e.len = ShdrSize
               /\ e.what.kind = "shdr"
               <=> e = TableExtent(n)
    BY <1>7, <2>1, <2>2, TableFields, Zenon
  <2>4. {f \in out.extents : /\ f.at = Ehdr0.shoff + ShdrSize * n /\ f.len = ShdrSize
                             /\ f.what.kind = "shdr"} = {TableExtent(n)}
    BY <2>3, Zenon
  <2>5. ShdrsAt(n) = {TableExtent(n).what.header}
    BY <2>4 DEF ShdrsAt
  <2> QED
    BY <2>5, TableFields
<1>9. ASSUME NEW s \in KeptSections(obj)
      PROVE  /\ Rank(s) \in 0 .. (newShnum - 1) /\ ShdrsAt(Rank(s)) = {H(s)}
             /\ HeaderMade(s) /\ s \in Before(obj.shnum) /\ H(s).size = SizeOf(s)
             /\ H(s).size > 0 => \E e \in out.extents : Keeps(e, s)
  <2>1. s \in Before(obj.shnum)
    BY <1>1, KeptFacts DEF Before
  <2>2. s < obj.shnum /\ Rank(s) \in Nat /\ Rank(s) < newShnum
    BY <1>1, KeptFacts DEF Rank
  <2>3. Rank(s) \in 0 .. (newShnum - 1)
    BY <1>2, <2>2
  <2>4. HeaderMade(s)
    BY <1>3, <2>2, Zenon DEF HeadersUpTo
  <2>5. H(s).size = SizeOf(s)
    BY <1>3, <2>1, Zenon DEF Placed
  <2>6. ASSUME H(s).size > 0 PROVE \E e \in out.extents : Keeps(e, s)
    BY <1>3, <2>1, <2>6, Zenon DEF Disk, Stored
  <2>7. ShdrsAt(Rank(s)) = {H(s)}
    BY <1>8, <2>3, Zenon DEF H
  <2> QED
    BY <2>1, <2>3, <2>4, <2>5, <2>6, <2>7
<1> QED
  BY <1>1, <1>2, <1>4, <1>5, <1>6, <1>8, <1>9

LEMMA KeepsAt == ASSUME NEW s, NEW e \in out.extents, Keeps(e, s) PROVE e.what \in At(H(s))
  BY DEF Keeps, At

(* Commitment: at every step, after any failure, an output whose header    *)
(* has been rewritten is complete, if the name table of the object is its  *)
(* last section (process_rel.c:375-425, 491-512).                          *)
THEOREM CommitmentCorrect == Spec => []HeaderCommitsLast
<1>1. ASSUME IInv, FileInv PROVE HeaderCommitsLast
  <2>1. SUFFICES ASSUME NamesLast, Committed PROVE OutputReadable
    BY DEF HeaderCommitsLast
  <2>2. pc \in Ending /\ Finished
    BY <1>1, <2>1, CommittedFinished
  <2>3. obj \in Objects /\ NamesMade(obj.shnum) /\ finalSize > 0 /\ EntryUpTo(newShnum)
    BY <1>1, <2>2 DEF IInv, InvTypes, Finished
  <2>4. /\ Ehdr0 = FinalHeader /\ newShnum = Cardinality(KeptSections(obj))
        /\ newShnum \in Nat
        /\ \A s \in KeptSections(obj) :
             /\ Rank(s) \in 0 .. (newShnum - 1) /\ ShdrsAt(Rank(s)) = {H(s)}
             /\ HeaderMade(s) /\ s \in Before(obj.shnum) /\ H(s).size = SizeOf(s)
             /\ H(s).size > 0 => \E e \in out.extents : Keeps(e, s)
    BY <1>1, <2>2, FinishedFacts
  <2>5. /\ Ehdr0.shnum = Cardinality(KeptSections(obj))
        /\ Ehdr0.shstrndx = Rank(obj.shstrndx) /\ Ehdr0.entry = entry
    BY <2>4 DEF FinalHeader
  <2>6. /\ obj.shstrndx \in KeptSections(obj) /\ IsNameTable(obj.shstrndx)
        /\ KindOf(obj.shstrndx) = "names"
    BY <2>3, NameTableFacts, Zenon DEF IsNameTable, KindOf
  <2>7. PICK f \in out.extents : Keeps(f, obj.shstrndx)
    BY <2>3, <2>4, <2>6 DEF SizeOf
  <2>8. f.what \in At(H(obj.shstrndx)) /\ f.what.kind = "names" /\ f.what.names = names
    BY <2>6, <2>7, KeepsAt, Zenon DEF Keeps, Holds
  <2>9. ASSUME NEW s \in KeptSections(obj) PROVE SectionReadable(s)
    <3>1. H(s) \in ShdrsAt(Rank(s)) /\ H(s).type = obj.shdrs[s].type
      BY <2>4 DEF HeaderMade, H
    <3>2. ASSUME H(s).size > 0
          PROVE  \E w \in At(H(s)) : w.kind = KindOf(s) /\ w.of = s
      <4>1. PICK e \in out.extents : Keeps(e, s)
        BY <2>4, <3>2
      <4> QED
        BY <4>1, KeepsAt, Zenon DEF Keeps, Holds
    <3>3. HasName(H(s), f.what.names, obj.shdrs[s].name)
      BY <2>3, <2>4, <2>8, Zenon DEF NamesMade
    <3>4. H(obj.shstrndx) \in ShdrsAt(Ehdr0.shstrndx)
      BY <2>4, <2>5, <2>6
    <3> QED
      BY <2>8, <3>1, <3>2, <3>3, <3>4, Zenon DEF SectionReadable
  <2>10. ASSUME NEW s \in KeptSections(obj), LastText(s)
         PROVE  \E h \in ShdrsAt(Rank(s)) : Ehdr0.entry = h.addr
    <3>1. Rank(s) < newShnum
      BY <2>4
    <3>2. entry = H(s).addr
      BY <2>3, <2>10, <3>1, Zenon DEF EntryUpTo, LastText
    <3>3. H(s) \in ShdrsAt(Rank(s))
      BY <2>4
    <3> QED
      BY <2>5, <3>2, <3>3
  <2> QED
    BY <2>5, <2>9, <2>10, Zenon DEF OutputReadable
<1> QED
  BY <1>1, Invariance, FileInvariance, PTL

LEMMA SymtabExists ==
  ASSUME NEW o \in Objects, NEW x \in DOMAIN o.syms
  PROVE  \E s \in KeptSections(o) : IsSymtab(o, s) /\ o.shdrs[s].size > 0
<1>1. WellFormed(o)
  BY ObjectsAssumption
<1>2. o.symnum > 0 => \E s \in Sections(o) : IsSymtab(o, s)
  BY <1>1, Zenon DEF WellFormed
<1>3. o.symnum \in Nat /\ o.symnum > 0
  BY ObjectFacts
<1>4. PICK s \in Sections(o) : IsSymtab(o, s)
  BY <1>2, <1>3
<1>5. s \in KeptSections(o) /\ o.shdrs[s].size = SymbolSize * o.symnum
  BY <1>4, SymtabFacts
<1> QED
  BY <1>3, <1>4, <1>5 DEF SymbolSize

(* What a finished file says of an entry of a relocation section.          *)
LEMMA FinishedPatches ==
  ASSUME IInv, Finished, pc \in Ending, Patched(obj.shnum),
         NEW s \in DOMAIN obj.rels, NEW m \in DOMAIN obj.rels[s]
  PROVE  /\ TargetOf(s) \in KeptSections(obj)
         /\ \E w \in At(H(TargetOf(s))) :
              w.kind = "contents" /\ Agrees(s, m, w.words)
         /\ \E e \in out.extents : e.what.kind = "symbols" /\ e.what.syms = syms
<1>1. obj \in Objects
  BY DEF IInv, InvTypes
<1>2. /\ s \in Sections(obj) /\ IsRel(obj, s) /\ s < obj.shnum
      /\ obj.rels[s][m].sym \in DOMAIN obj.syms
  BY <1>1, RelEntry, RelDomain
<1>3. PICK t : t = TargetOf(s)
  OBVIOUS
<1>4. t \in KeptSections(obj) /\ t # obj.shstrndx /\ ~ IsSymtab(obj, t)
  BY <1>1, <1>2, <1>3, RelFacts DEF TargetOf
<1>5. \A u \in KeptSections(obj) :
        /\ H(u).size = SizeOf(u)
        /\ H(u).size > 0 => \E e \in out.extents : Keeps(e, u)
  BY FinishedFacts
<1>6. KindOf(t) = "contents"
  BY <1>4 DEF KindOf, IsNameTable
<1>7. /\ obj.shdrs[t].size > 0
      /\ \A e \in out.extents : Keeps(e, t) => Agrees(s, m, e.what.words)
  BY <1>2, <1>3, Zenon DEF Patched
<1>8. PICK e \in out.extents : Keeps(e, t)
  BY <1>4, <1>5, <1>7 DEF SizeOf
<1>9. e.what \in At(H(t)) /\ e.what.kind = "contents" /\ Agrees(s, m, e.what.words)
  BY <1>6, <1>7, <1>8, KeepsAt, Zenon DEF Keeps, Holds
<1>10. PICK u \in KeptSections(obj) : IsSymtab(obj, u) /\ obj.shdrs[u].size > 0
  BY <1>1, <1>2, SymtabExists
<1>11. u # obj.shstrndx
  BY <1>1, <1>10, NameTableFacts, Zenon
<1>12. PICK f \in out.extents : Keeps(f, u)
  BY <1>5, <1>10, <1>11 DEF SizeOf
<1>13. f.what.kind = "symbols" /\ f.what.syms = syms
  BY <1>10, <1>12, Zenon DEF Keeps, Holds, KindOf
<1> QED
  BY <1>3, <1>4, <1>9, <1>13

(* Relocation: in a committed output every branch of the input decodes to  *)
(* the address of its symbol and every data word holds it, as the symbol   *)
(* table and the section headers of that output state them; for all        *)
(* addresses and entries of an Assembled object (process_rel.c:165-236,    *)
(* 433-481).                                                               *)
THEOREM RelocationCorrect == Spec => []PatchesAgree
<1>1. ASSUME IInv, FileInv PROVE PatchesAgree
  <2>1. SUFFICES ASSUME Assembled, Committed,
                        NEW s \in DOMAIN obj.rels, NEW m \in 1 .. Len(obj.rels[s])
                 PROVE  RelocationAgrees(s, obj.rels[s][m])
    BY Zenon DEF PatchesAgree
  <2>2. pc \in Ending /\ Finished
    BY <1>1, <2>1, CommittedFinished DEF Assembled
  <2>3. obj \in Objects /\ Patched(obj.shnum)
    BY <1>1, <2>1, <2>2, Zenon DEF IInv, InvTypes, FileInv, InvPatches
  <2>4. m \in DOMAIN obj.rels[s]
    BY <2>3, RelEntry
  <2>5. /\ TargetOf(s) \in KeptSections(obj)
        /\ \E w \in At(H(TargetOf(s))) : w.kind = "contents" /\ Agrees(s, m, w.words)
        /\ \E e \in out.extents : e.what.kind = "symbols" /\ e.what.syms = syms
    BY <1>1, <2>2, <2>3, <2>4, FinishedPatches
  <2>6. H(TargetOf(s)) \in ShdrsAt(Rank(TargetOf(s)))
    BY <1>1, <2>2, <2>5, FinishedFacts
  <2>7. PICK w \in At(H(TargetOf(s))) : w.kind = "contents" /\ Agrees(s, m, w.words)
    BY <2>5
  <2>8. PICK e \in out.extents : e.what.kind = "symbols" /\ e.what.syms = syms
    BY <2>5
  <2>9. PatchAgrees(obj.rels[s][m], w.words, e.what.syms[obj.rels[s][m].sym].value,
                    H(TargetOf(s)).addr + obj.rels[s][m].offset)
    BY <2>7, <2>8, Zenon DEF Agrees, PlaceOf
  <2> QED
    BY <2>6, <2>7, <2>8, <2>9, Zenon DEF RelocationAgrees
<1> QED
  BY <1>1, Invariance, FileInvariance, PTL

(***************************************************************************)
(* No write damages another.                                               *)
(***************************************************************************)
Fits(at, len) ==
  \A e \in out.extents : Apart(e, at, len) \/ (e.at = at /\ e.len = len)

PlacesKept ==
  \A e \in out.extents : \E f \in out'.extents : f.at = e.at /\ f.len = e.len

LEMMA FittingWrite ==
  ASSUME IInv, NEW at, NEW len, Fits(at, len), NEW what,
         out' = Written(out, at, len, what)
  PROVE  PlacesKept
<1>1. out'.extents = {e \in out.extents : Apart(e, at, len)} \cup {Extent(at, len, what)}
  BY OutWritten
<1>2. Extent(at, len, what).at = at /\ Extent(at, len, what).len = len
  BY ExtentFields
<1> QED
  BY <1>1, <1>2, Zenon DEF PlacesKept, Fits

LEMMA FittingFailure ==
  ASSUME IInv, NEW at, NEW len, Fits(at, len), WriteFails(at, len)
  PROVE  PlacesKept
<1>1. out' = out \/ out' = Written(out, at, len, Torn)
  BY DEF WriteFails
<1> QED
  BY <1>1, FittingWrite DEF PlacesKept

(* Where the writes of the program go, at each place.                      *)
LEMMA WritesFit ==
  ASSUME IInv, FileInv, NamesLast
  PROVE  /\ pc = "header" => Fits(0, EhdrSize)
         /\ pc = "copy" => \A len \in Nat : Fits(out.end, len)
         /\ pc = "apply" => Fits(TargetOffset(i), obj.shdrs[TargetOf(i)].size)
         /\ pc = "table" => Fits(out.end, ShdrSize) /\ Fits(0, EhdrSize)
<1>1. ASSUME pc = "header" PROVE Fits(0, EhdrSize)
  BY <1>1 DEF FileInv, InvProgress, EmptyFile, Fits
<1>2. PICK h, n : h = InputHeader(obj) /\ n = obj.shnum
  OBVIOUS
<1>3. ASSUME pc = "copy", NEW len \in Nat PROVE Fits(out.end, len)
  <2>1. HeadersUpTo(i) /\ Placed(i) /\ Disk(h, i, 0)
    BY <1>2, <1>3, Zenon DEF IInv, InvHeaders, FileInv, InvPlaces, InvDisk
  <2>2. 0 \in Nat
    OBVIOUS
  <2>3. \A e \in out.extents : Apart(e, out.end, len)
    BY <2>1, <2>2, DiskAppend
  <2> QED
    BY <2>3 DEF Fits
<1>4. ASSUME pc = "apply" PROVE Fits(TargetOffset(i), obj.shdrs[TargetOf(i)].size)
  <2>1. PICK t : t = TargetOf(i)
    OBVIOUS
  <2>2. /\ t \in Stored(n) /\ TargetOffset(i) = H(t).offset
        /\ obj.shdrs[TargetOf(i)].size = H(t).size
    BY <1>2, <1>4, <2>1, TargetStored DEF FileInv, InvProgress
  <2>3. HeadersUpTo(n) /\ Placed(n) /\ Disk(h, n, 0)
    BY <1>2, <1>4, Zenon DEF IInv, InvHeaders, FileInv, InvPlaces, InvDisk, AfterCopy
  <2>4. \A e \in out.extents :
          IF Keeps(e, t) THEN ~ Apart(e, H(t).offset, H(t).size)
          ELSE Apart(e, H(t).offset, H(t).size)
    BY <2>2, <2>3, DiskOverSection
  <2> QED
    BY <2>2, <2>4, Zenon DEF Fits, Keeps
<1>5. ASSUME pc = "table" PROVE Fits(out.end, ShdrSize) /\ Fits(0, EhdrSize)
  <2>1. PICK m : m = k
    OBVIOUS
  <2>2. HeadersUpTo(n) /\ Placed(n) /\ Disk(h, n, m)
    BY <1>2, <1>5, <2>1, Zenon DEF IInv, InvHeaders, FileInv, InvPlaces, InvDisk, AfterCopy
  <2>3. m \in Nat
    <3>1. k \in 0 .. newShnum
      BY DEF IInv, InvHeaders
    <3> QED
      BY <2>1, <3>1
  <2>4. ShdrSize \in Nat
    BY DEF ShdrSize
  <2>5. \A e \in out.extents : Apart(e, out.end, ShdrSize)
    BY <2>2, <2>3, <2>4, DiskAppend
  <2>6. \A e \in out.extents :
          IF e = HeaderExtent(h) THEN ~ Apart(e, 0, EhdrSize) ELSE Apart(e, 0, EhdrSize)
    BY <2>2, <2>3, DiskOverHeader
  <2>7. HeaderExtent(h).at = 0 /\ HeaderExtent(h).len = EhdrSize
    BY HeaderFields
  <2>8. Fits(0, EhdrSize)
    BY <2>6, <2>7, Zenon DEF Fits
  <2> QED
    BY <2>5, <2>8 DEF Fits
<1> QED
  BY <1>1, <1>3, <1>4, <1>5

LEMMA PlacesKeptStep == ASSUME IInv, FileInv, NamesLast, [Next]_vars PROVE PlacesKept
<1>1. CASE out' = out
  BY <1>1 DEF PlacesKept
<1>2. CASE UNCHANGED vars
  BY <1>1, <1>2, Zenon DEF vars
<1>3. CASE OutputKept
  BY <1>1, <1>3, OutputKeptFrame
<1>4. CASE OpenOutput
  <2>1. out = NoFile
    BY <1>4 DEF OpenOutput, IInv, InvOutput, BeforeOutput
  <2> QED
    BY <2>1 DEF NoFile, PlacesKept
<1>5. CASE WriteInitialHeader \/ WriteInitialHeaderFails
  <2>1. Fits(0, EhdrSize)
    BY <1>5, WritesFit DEF WriteInitialHeader, WriteInitialHeaderFails
  <2>2. (\E what : out' = Written(out, 0, EhdrSize, what)) \/ WriteFails(0, EhdrSize)
    BY <1>5, Zenon DEF WriteInitialHeader, WriteInitialHeaderFails
  <2> QED
    BY <2>1, <2>2, FittingWrite, FittingFailure
<1>6. CASE CopySymbols \/ CopyContents \/ CopyNames
  <2>1. InCopy
    BY <1>6, Zenon DEF InCopy
  <2>2. pc = "copy"
    BY <2>1, CopyEffect
  <2>3. PICK h, s : h = InputHeader(obj) /\ s = i
    OBVIOUS
  <2>4. Placed(i) /\ Disk(h, i, 0)
    BY <2>2, <2>3, Zenon DEF FileInv, InvPlaces, InvDisk
  <2>5. IF H(s)'.size > 0
          THEN \E e : out'.extents = out.extents \cup {e} /\ Keeps(e, s)'
          ELSE out'.extents = out.extents
    BY <2>1, <2>3, <2>4, CopiedExtent DEF FileInv
  <2>6. \A e \in out.extents : e \in out'.extents
    BY <2>5, Zenon
  <2> QED
    BY <2>6 DEF PlacesKept
<1>7. CASE CopyWriteFails
  <2>1. pc = "copy" /\ obj.shdrs[i].size \in Nat
    <3>1. Copying
      BY <1>7 DEF CopyWriteFails
    <3>2. pc = "copy" /\ obj \in Objects
      BY <3>1 DEF Copying, IInv, InvTypes
    <3>3. i \in KeptSections(obj)
      BY <3>1, CopyingFacts
    <3> QED
      BY <3>2, <3>3, KeptFacts
  <2>2. Fits(out.end, obj.shdrs[i].size)
    BY <2>1, WritesFit
  <2> QED
    BY <1>7, <2>2, FittingFailure DEF CopyWriteFails
<1>8. CASE WriteTarget \/ WriteTargetFails
  <2>1. pc = "apply"
    BY <1>8 DEF WriteTarget, WriteTargetFails, TargetDone
  <2>2. Fits(TargetOffset(i), obj.shdrs[TargetOf(i)].size)
    BY <2>1, WritesFit
  <2>3. \/ \E what : out' = Written(out, TargetOffset(i), obj.shdrs[TargetOf(i)].size, what)
        \/ WriteFails(TargetOffset(i), obj.shdrs[TargetOf(i)].size)
    BY <1>8, Zenon DEF WriteTarget, WriteTargetFails
  <2> QED
    BY <2>2, <2>3, FittingWrite, FittingFailure
<1>9. CASE WriteSectionHeader \/ WriteSectionHeaderFails \/ RewriteHeader \/ RewriteHeaderFails
  <2>1. pc = "table"
    BY <1>9 DEF WriteSectionHeader, WriteSectionHeaderFails, RewriteHeader, RewriteHeaderFails
  <2>2. Fits(out.end, ShdrSize) /\ Fits(0, EhdrSize)
    BY <2>1, WritesFit
  <2>3. \/ \E what : out' = Written(out, out.end, ShdrSize, what)
        \/ \E what : out' = Written(out, 0, EhdrSize, what)
        \/ WriteFails(out.end, ShdrSize)
        \/ WriteFails(0, EhdrSize)
    BY <1>9, Zenon
    DEF WriteSectionHeader, WriteSectionHeaderFails, RewriteHeader, RewriteHeaderFails
  <2> QED
    BY <2>2, <2>3, FittingWrite, FittingFailure
<1> QED
  BY <1>2, <1>3, <1>4, <1>5, <1>6, <1>7, <1>8, <1>9, NextPhases, Zenon
  DEF OutputKept, InBeforeCopy, InCopy, InAfterCopy, ToEnding

(* Writes: none of them, whole or torn, covers part of what an earlier one *)
(* left; a write over an extent covers all of it, if the name table of the *)
(* object is its last section (process_rel.c:375 against the position of   *)
(* the stream, 470-481, 512).                                              *)
THEOREM WritesCorrect == Spec => WritesNeverClobber
<1>1. ASSUME IInv, FileInv, [Next]_vars
      PROVE  [NamesLast => \A e \in out.extents : \E f \in out'.extents :
                f.at = e.at /\ f.len = e.len]_out
  BY <1>1, PlacesKeptStep, Zenon DEF PlacesKept
<1> QED
  BY <1>1, Invariance, FileInvariance, PTL DEF Spec, WritesNeverClobber

-----------------------------------------------------------------------------
(***************************************************************************)
(* The two commands together.                                              *)
(***************************************************************************)
ToolInv ==
  /\ ran => lpc # "waiting"
  /\ lpc # "waiting" => pc = "success" /\ Committed /\ lfile = Executable
  /\ lpc \in {"waiting", "read", "resolve", "connect"} => sockets = 0
  /\ lpc = "connecting" => sockets = 1
  /\ NamesLast /\ lpc = "failure" => sockets = 0

LEMMA BuildStep == ASSUME [ToolchainNext]_<<vars, loader>> PROVE [Next]_vars
  BY Zenon DEF ToolchainNext, Build, Launch, Run, SimExits

(* Loading does not touch the file, and the program that made it is over:  *)
(* every behaviour of the two commands is one of process_rel.              *)
THEOREM ToolchainBuilds == ToolchainSpec => Spec
<1>1. ToolchainInit => Init
  BY DEF ToolchainInit
<1>2. [ToolchainNext]_<<vars, loader>> => [Next]_vars
  BY BuildStep
<1> QED
  BY <1>1, <1>2, PTL DEF ToolchainSpec, Spec

LEMMA SuccessStops == ASSUME pc = "success" PROVE ~ Next
<1>1. ~ (InTables \/ AllocateTables \/ InBeforeCopy \/ NamesSized)
  BY InTablesFrame, InBeforeCopyFrame
  DEF BeforeTables, BeforeCopy, AllocateTables, NamesSized
<1>2. ~ (SkipRemoved \/ InCopy \/ AllCopied)
  BY Zenon DEF SkipRemoved, InCopy, AllCopied, CopyEmpty, CopySymbols, CopyNames,
     CopyContents, Copying
<1>3. ~ (InAfterCopy \/ ToEnding)
  BY InAfterCopyFrame, ToEndingFrame DEF AfterCopy
<1> QED
  BY <1>1, <1>2, <1>3, NextPhases

LEMMA ExecutableFrame ==
  ASSUME out' = out
  PROVE  Executable' = Executable
<1>1. DiskEhdrs' = DiskEhdrs
  BY Zenon DEF DiskEhdrs
<1>2. Ehdr0' = Ehdr0
  BY <1>1, Zenon DEF Ehdr0
<1>3. \A n : ShdrsAt(n)' = ShdrsAt(n)
  BY <1>2, Zenon DEF ShdrsAt
<1>4. HeadersOnDisk' = HeadersOnDisk
  BY <1>2, <1>3, Zenon DEF HeadersOnDisk
<1>5. \A n : OnDisk(n)' = OnDisk(n)
  BY <1>4, Zenon DEF OnDisk
<1> QED
  BY <1>4, <1>5, Zenon DEF Executable

(* The executable load_sim is given: all of its headers are there, and     *)
(* each section is in the file or is empty.                                *)
LEMMA ExecutableFacts ==
  ASSUME IInv, FileInv, NamesLast, Committed
  PROVE  /\ \A s \in KeptSections(obj) : OnDisk(Place(s)) = H(s)
         /\ Executable.tables
         /\ \A n \in DOMAIN Executable.sections :
              Executable.sections[n].stored \/ Executable.sections[n].size = "empty"
<1>1. pc \in Ending /\ Finished /\ obj \in Objects /\ curOff \in Nat
  BY CommittedFinished DEF IInv, InvTypes
<1>2. /\ Ehdr0 = FinalHeader /\ newShnum = Rank(obj.shnum) /\ newShnum \in Nat
      /\ \A n \in 0 .. (newShnum - 1) : ShdrsAt(n) = {newShdrs[n]}
      /\ \A s \in KeptSections(obj) : Rank(s) \in 0 .. (newShnum - 1)
  BY <1>1, FinishedFacts
<1>3. Ehdr0.shnum = newShnum
  BY <1>2 DEF FinalHeader
<1>4. ASSUME NEW n \in 1 .. newShnum
      PROVE  HeadersOnDisk[n] = {newShdrs[n - 1]} /\ OnDisk(n) = newShdrs[n - 1]
  <2>1. n - 1 \in 0 .. (newShnum - 1)
    BY <1>2
  <2>2. HeadersOnDisk[n] = {newShdrs[n - 1]}
    BY <1>2, <1>3, <2>1 DEF HeadersOnDisk
  <2>3. OnDisk(n) = newShdrs[n - 1]
    BY <2>2, Zenon DEF OnDisk
  <2> QED
    BY <2>2, <2>3
<1>5. DOMAIN HeadersOnDisk = 1 .. newShnum
  BY <1>3 DEF HeadersOnDisk
<1>6. {} \notin {HeadersOnDisk[n] : n \in DOMAIN HeadersOnDisk}
  BY <1>4, <1>5
<1>7. Executable = [header |-> TRUE, tables |-> TRUE,
                    sections |-> [n \in DOMAIN HeadersOnDisk |->
                      [alloc |-> OnDisk(n).alloc,
                       size |-> SizeClass(OnDisk(n).size),
                       stored |-> OnDisk(n).offset + OnDisk(n).size <= out.end]]]
  BY <1>6, Zenon DEF Executable
<1>8. Executable.tables
  BY <1>7
<1>9. ASSUME NEW s \in KeptSections(obj) PROVE OnDisk(Place(s)) = H(s)
  <2>1. Rank(s) \in 0 .. (newShnum - 1)
    BY <1>2
  <2>2. Rank(s) + 1 \in 1 .. newShnum /\ (Rank(s) + 1) - 1 = Rank(s)
    BY <1>2, <2>1
  <2>3. OnDisk(Rank(s) + 1) = newShdrs[Rank(s)]
    BY <1>4, <2>2
  <2> QED
    BY <2>3 DEF Place, H
<1>10. ASSUME NEW n \in 1 .. newShnum
       PROVE  OnDisk(n).offset + OnDisk(n).size <= out.end
  <2>1. n - 1 \in Nat /\ n - 1 < RankIn(obj, obj.shnum)
    BY <1>2 DEF Rank
  <2>2. obj.shnum \in Nat /\ obj.shnum \in 0 .. obj.shnum
    BY <1>1, ObjectFacts
  <2>3. PICK s \in KeptSections(obj) : s < obj.shnum /\ RankIn(obj, s) = n - 1
    BY <1>1, <2>1, <2>2, RankOnto
  <2>4. s \in Before(obj.shnum)
    BY <2>3 DEF Before
  <2>5. /\ HeadersUpTo(obj.shnum) /\ Placed(obj.shnum)
        /\ Disk(FinalHeader, obj.shnum, newShnum)
    BY <1>1 DEF Finished
  <2>6. H(s).offset + H(s).size <= curOff
    BY <2>4, <2>5 DEF Placed
  <2>7. curOff <= out.end /\ out.end \in Nat
    BY <1>1, <1>2, <2>5, DiskBounds
  <2>8. H(s).offset \in Nat /\ H(s).size \in Nat
    BY <1>1, <2>4, <2>5, MadeNumbers
  <2>9. OnDisk(n) = H(s)
    BY <1>4, <2>3 DEF H, Rank
  <2> QED
    BY <1>1, <2>6, <2>7, <2>8, <2>9
<1>11. ASSUME NEW n \in DOMAIN Executable.sections
       PROVE  Executable.sections[n].stored
  <2> DEFINE row(x) == [alloc |-> OnDisk(x).alloc,
                        size |-> SizeClass(OnDisk(x).size),
                        stored |-> OnDisk(x).offset + OnDisk(x).size <= out.end]
  <2>1. Executable.sections = [x \in 1 .. newShnum |-> row(x)]
    BY <1>5, <1>7
  <2> HIDE DEF row
  <2>2. n \in 1 .. newShnum /\ Executable.sections[n] = row(n)
    BY <1>11, <2>1
  <2>3. row(n).stored
    BY <1>10, <2>2 DEF row
  <2> QED
    BY <2>2, <2>3
<1> QED
  BY <1>8, <1>9, <1>11

(* What a step of load_sim does to its place, its file and its sockets.    *)
LEMMA LoaderStep ==
  ASSUME L!ClientStep
  PROVE  /\ lpc # "waiting" /\ lpc' # "waiting" /\ lfile' = lfile
         /\ lpc' \in {"read", "resolve", "connect"} =>
              \/ lpc \in {"read", "resolve", "connect"} /\ sockets' = sockets
              \/ lpc = "connecting" /\ sockets' = sockets - 1
         /\ lpc' = "connecting" => lpc = "connect" /\ sockets' = sockets + 1
         /\ lpc' = "failure" =>
              \/ lpc \in {"read", "connect"} /\ sockets' = sockets
              \/ /\ section \in DOMAIN lfile.sections
                 /\ ~ lfile.sections[section].stored
                 /\ lfile.sections[section].size # "empty"
<1>1. CASE L!ReadTables \/ L!ReadTablesFails \/ L!Resolve \/ L!ResolveFails \/ L!NoSocket
  BY <1>1 DEF L!ReadTables, L!ReadTablesFails, L!Resolve, L!ResolveFails, L!NoSocket,
     L!Step, L!Goes, L!host
<1>2. CASE L!OpenSocket \/ L!Connect \/ L!ConnectFails \/ L!NoAddressLeft
  BY <1>2 DEF L!OpenSocket, L!Connect, L!ConnectFails, L!CloseAndNext, L!NoAddressLeft,
     L!Step, L!Goes, L!host
<1>3. CASE L!SkipSection \/ L!ReadSection \/ L!ReadSectionFails \/ L!WriteSection
  BY <1>3 DEF L!SkipSection, L!ReadSection, L!ReadSectionFails, L!WriteSection,
     L!NextSection, L!Current, L!Step, L!Goes, L!host
<1>4. CASE L!WriteOverflows \/ L!WaitEnds \/ L!WriteEntry \/ L!Run \/ L!Finish
           \/ L!Killed \/ L!WriteFails
  BY <1>4 DEF L!WriteOverflows, L!WaitEnds, L!NextSection, L!WriteEntry, L!Run, L!Finish,
     L!Killed, L!WriteFails, L!Step, L!Goes, L!host
<1> QED
  BY <1>1, <1>2, <1>3, <1>4 DEF L!ClientStep

LEMMA ToolInit == ToolchainInit => ToolInv
  BY DEF ToolchainInit, ToolInv

LEMMA ToolStep ==
  ASSUME IInv, FileInv, ToolInv, [ToolchainNext]_<<vars, loader>>
  PROVE  ToolInv'
<1>1. obj' = obj
  BY BuildStep, ObjectStays
<1>2. NamesLast' <=> NamesLast
  BY <1>1, Zenon DEF NamesLast
<1>3. ASSUME UNCHANGED vars
      PROVE  /\ pc' = pc /\ (Committed' <=> Committed) /\ Executable' = Executable
  <2>1. UNCHANGED <<obj, pc, out>>
    BY <1>3, Zenon DEF vars
  <2>2. Committed' <=> Committed
    BY <2>1, Zenon DEF Committed, DiskEhdrs
  <2> QED
    BY <2>1, <2>2, ExecutableFrame
<1>4. ASSUME UNCHANGED loader PROVE UNCHANGED <<lpc, lfile, sockets, ran>>
  BY <1>4, Zenon DEF loader
<1>5. CASE UNCHANGED <<vars, loader>>
  <2>1. UNCHANGED vars /\ UNCHANGED loader
    BY <1>5, Zenon
  <2>2. UNCHANGED <<lpc, lfile, sockets, ran>>
    BY <1>4, <2>1
  <2> QED
    BY <1>2, <1>3, <2>1, <2>2, Zenon DEF ToolInv
<1>6. CASE Build
  <2>1. Next /\ UNCHANGED <<lpc, lfile, sockets, ran>>
    BY <1>4, <1>6 DEF Build
  <2>2. lpc = "waiting"
    BY <2>1, SuccessStops DEF ToolInv
  <2> QED
    BY <1>2, <2>1, <2>2 DEF ToolInv
<1>7. CASE Launch
  <2>1. /\ pc = "success" /\ Committed /\ lpc = "waiting" /\ lpc' = "read"
        /\ lfile' = Executable /\ UNCHANGED <<vars, sockets, ran>>
    BY <1>7, Zenon DEF Launch
  <2>2. sockets = 0
    BY <2>1 DEF ToolInv
  <2>3. pc' = "success" /\ Committed' /\ lfile' = Executable'
    BY <1>3, <2>1, Zenon
  <2> QED
    BY <2>1, <2>2, <2>3 DEF ToolInv
<1>8. CASE Run
  <2>1. L!ClientStep /\ UNCHANGED vars
    BY <1>8 DEF Run
  <2>2. pc = "success" /\ Committed /\ lfile = Executable
    BY <2>1, LoaderStep DEF ToolInv
  <2>3. pc' = "success" /\ Committed' /\ lfile' = Executable'
    BY <1>3, <2>1, <2>2, LoaderStep, Zenon
  <2>4. lpc' \in {"read", "resolve", "connect"} => sockets' = 0
    BY <2>1, LoaderStep DEF ToolInv
  <2>5. lpc' = "connecting" => sockets' = 1
    BY <2>1, LoaderStep DEF ToolInv
  <2>6. ASSUME NamesLast, lpc' = "failure" PROVE sockets' = 0
    <3>1. \A n \in DOMAIN lfile.sections :
            lfile.sections[n].stored \/ lfile.sections[n].size = "empty"
      BY <2>2, <2>6, ExecutableFacts
    <3> QED
      BY <2>1, <2>6, <3>1, LoaderStep DEF ToolInv
  <2> QED
    BY <1>2, <2>1, <2>3, <2>4, <2>5, <2>6, LoaderStep DEF ToolInv
<1>9. CASE SimExits
  <2>1. UNCHANGED vars /\ UNCHANGED <<lpc, lfile, sockets, ran>>
    BY <1>9, Zenon DEF SimExits, L!SimExits, L!host
  <2> QED
    BY <1>2, <1>3, <2>1, Zenon DEF ToolInv
<1> QED
  BY <1>5, <1>6, <1>7, <1>8, <1>9 DEF ToolchainNext

(* At every step of the two commands: the invariants of process_rel, and   *)
(* that load_sim runs on the executable on disk (ToolInv).                 *)
THEOREM ToolchainInvariance == ToolchainSpec => [](IInv /\ FileInv /\ ToolInv)
<1>1. ToolchainInit => ToolInv
  BY ToolInit
<1>2. IInv /\ FileInv /\ ToolInv /\ [ToolchainNext]_<<vars, loader>> => ToolInv'
  BY ToolStep
<1> QED
  BY <1>1, <1>2, ToolchainBuilds, Invariance, FileInvariance, PTL DEF ToolchainSpec

(* load_sim never stops for a section or a table that is not in the file   *)
(* process_rel finished, if the name table of the object is its last       *)
(* section (load_sim.c:22-38).                                             *)
THEOREM LoadingCorrect == ToolchainSpec => []OutputLoads
<1>1. IInv /\ FileInv /\ ToolInv => OutputLoads
  BY ExecutableFacts, Zenon DEF OutputLoads, ToolInv
<1> QED
  BY <1>1, ToolchainInvariance, PTL

(* Linking: for every object as today's assemblers lay it out, when the    *)
(* simulator runs the program no section overwrites another, it starts at  *)
(* .text, each word relocated with a symbol of .text, .data or .bss leads  *)
(* to where that section is loaded, and each with a symbol that has no     *)
(* section to its value (process_rel.c:129-236).                           *)
THEOREM LinkingCorrect == ToolchainSpec => []ProgramLinked
<1>1. ASSUME IInv, FileInv, ToolInv PROVE ProgramLinked
  <2>1. SUFFICES ASSUME Assembled, SymbolsAfterSections, ran
                 PROVE  SectionsApart /\ EntryIsText /\ ReferencesResolve
    BY Zenon DEF ProgramLinked
  <2>2. NamesLast /\ Committed
    BY <1>1, <2>1 DEF ToolInv, Assembled
  <2>3. pc \in Ending /\ Finished /\ obj \in Objects /\ Patched(obj.shnum)
    BY <1>1, <2>1, <2>2, CommittedFinished, Zenon
    DEF IInv, InvTypes, FileInv, InvPatches
  <2>4. \A s \in KeptSections(obj) : Address(s) = H(s).addr
    BY <1>1, <2>2, ExecutableFacts DEF Address
  <2>5. HeadersUpTo(obj.shnum) /\ EntryUpTo(newShnum)
    BY <2>3 DEF Finished
  <2>6. /\ Ehdr0 = FinalHeader
        /\ \A s \in KeptSections(obj) : Rank(s) \in 0 .. (newShnum - 1)
    BY <1>1, <2>3, FinishedFacts
  <2>7. \A s \in KeptSections(obj) : s \in Nat /\ s < obj.shnum
    BY <2>3, KeptFacts
  <2>8. SectionsApart
    <3>1. SUFFICES ASSUME NEW s \in KeptSections(obj), NEW t \in KeptSections(obj), s # t
                   PROVE  End(s) <= Address(t) \/ End(t) <= Address(s)
      BY Zenon DEF SectionsApart
    <3>2. s < t \/ t < s
      BY <2>7, <3>1
    <3>3. \A u, v \in KeptSections(obj) : u < v => Below(u, H(v).addr)
      BY <2>5, <2>7, Zenon DEF HeadersUpTo, H
    <3>4. \A u, v \in KeptSections(obj) : u < v => End(u) <= Address(v)
      BY <2>4, <3>3 DEF End, Below, H
    <3> QED
      BY <3>2, <3>4
  <2>9. EntryIsText
    <3>1. SUFFICES ASSUME NEW s \in KeptSections(obj), LastText(s)
                   PROVE  Ehdr0.entry = Address(s)
      BY Zenon DEF EntryIsText
    <3>2. Rank(s) < newShnum
      BY <1>1, <2>3, <2>6, FinishedFacts
    <3>3. entry = H(s).addr
      BY <2>5, <3>1, <3>2, Zenon DEF EntryUpTo, LastText
    <3> QED
      BY <2>4, <2>6, <3>3 DEF FinalHeader
  <2>10. ReferencesResolve
    <3>1. SUFFICES ASSUME NEW s \in DOMAIN obj.rels, NEW m \in DOMAIN obj.rels[s],
                          \/ Moves(obj.syms[obj.rels[s][m].sym])
                          \/ ~ HasSection(obj.syms[obj.rels[s][m].sym])
                   PROVE  \E w \in At(OnDisk(Place(TargetOf(s)))) :
                            /\ w.kind = "contents"
                            /\ PatchAgrees(obj.rels[s][m], w.words,
                                 Location(obj.syms[obj.rels[s][m].sym]),
                                 Address(TargetOf(s)) + obj.rels[s][m].offset)
      BY Zenon DEF ReferencesResolve
    <3>2. /\ TargetOf(s) \in KeptSections(obj)
          /\ \E w \in At(H(TargetOf(s))) : w.kind = "contents" /\ Agrees(s, m, w.words)
          /\ \E e \in out.extents : e.what.kind = "symbols" /\ e.what.syms = syms
      BY <1>1, <2>3, FinishedPatches
    <3>3. PICK x \in DOMAIN obj.syms : x = obj.rels[s][m].sym
      BY <2>3, RelEntry
    <3>4. syms[x].value = MovedValue(x)
      BY <1>1, <2>1, <3>2, Zenon DEF FileInv, InvValues
    <3>5. MovedValue(x) = Location(obj.syms[x])
      <4>1. CASE Moves(obj.syms[x])
        <5>1. /\ HasSection(obj.syms[x])
              /\ Address(obj.syms[x].shndx) = H(obj.syms[x].shndx).addr
          BY <2>3, <2>4, <4>1, MovedSymbol, Zenon DEF Moves
        <5> QED
          BY <4>1, <5>1, Zenon DEF MovedValue, Location
      <4>2. CASE ~ HasSection(obj.syms[x])
        <5>1. ~ Moves(obj.syms[x])
          BY <2>3, <4>2, MovedSymbol, Zenon
        <5> QED
          BY <4>2, <5>1, Zenon DEF MovedValue, Location
      <4> QED
        BY <3>1, <3>3, <4>1, <4>2
    <3>6. OnDisk(Place(TargetOf(s))) = H(TargetOf(s))
      BY <1>1, <2>2, <3>2, ExecutableFacts
    <3>7. PICK w \in At(H(TargetOf(s))) : w.kind = "contents" /\ Agrees(s, m, w.words)
      BY <3>2
    <3>8. PatchAgrees(obj.rels[s][m], w.words, Location(obj.syms[x]),
                      Address(TargetOf(s)) + obj.rels[s][m].offset)
      <4>1. Location(obj.syms[x]) = syms[obj.rels[s][m].sym].value
        BY <3>3, <3>4, <3>5
      <4>2. Address(TargetOf(s)) = PlaceOf(s)
        BY <2>4, <3>2, Zenon DEF PlaceOf
      <4> QED
        BY <3>7, <4>1, <4>2, Zenon DEF Agrees
    <3> QED
      BY <3>3, <3>6, <3>7, <3>8, Zenon
  <2> QED
    BY <2>8, <2>9, <2>10
<1> QED
  BY <1>1, ToolchainInvariance, PTL

=============================================================================
