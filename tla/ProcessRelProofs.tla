--------------------------- MODULE ProcessRelProofs ---------------------------
(***************************************************************************)
(* An inductive invariant of ProcessRel, and what follows from it for all  *)
(* objects and all failures.                                               *)
(***************************************************************************)
EXTENDS ProcessRel, FiniteSetTheorems, TLAPS

(* The places of the program, by what has been done on the way to them.    *)
BeforeTables == {"load", "map", "symbols", "allocate"}
BeforeCopy == {"renumber", "open", "header", "sizes"}
AfterCopy == {"relocate", "apply", "entry", "table"}
Ending == {"cleanup", "success"}

(* Where the output file does not exist yet.                               *)
BeforeOutput == BeforeTables \cup {"renumber", "open", "failure"}

(* The sections before n are mapped to their rank.                         *)
MappedTo(n) ==
  \A s \in Sections(obj) : s < n =>
    mapping[s] = IF IsRel(obj, s) THEN Removed ELSE Rank(s)

LinkOf(s) ==
  LET link == obj.shdrs[s].link IN
  IF link \in KeptSections(obj) THEN Rank(link)
  ELSE IF link < obj.shnum THEN 0 ELSE link

(* What the copy loop made of section s.                                   *)
HeaderMade(s) ==
  LET h == newShdrs[Rank(s)]
      old == obj.shdrs[s]
  IN /\ h \in OutputHeaders
     /\ h.type = old.type /\ h.info = old.info /\ h.alloc = old.alloc
     /\ h.align = old.align /\ h.link = LinkOf(s)
     /\ h.addr >= FirstAddress
     /\ h.align > 0 => h.addr % h.align = 0

Below(s, address) ==
  /\ newShdrs[Rank(s)].addr + obj.shdrs[s].size <= address
  /\ newShdrs[Rank(s)].addr < address

(* The sections before n have their header, the others have none.          *)
HeadersUpTo(n) ==
  /\ newShdrs \in [0 .. (newShnum - 1) -> OutputHeaders \cup {Uninitialised}]
  /\ \A m \in 0 .. (Rank(n) - 1) : newShdrs[m] \in OutputHeaders
  /\ \A s \in KeptSections(obj) :
       IF s < n THEN HeaderMade(s) ELSE newShdrs[Rank(s)] = Uninitialised
  /\ \A s, t \in KeptSections(obj) :
       s < t /\ t < n => Below(s, newShdrs[Rank(t)].addr)

ShndxOf(x) ==
  LET old == obj.syms[x].shndx IN
  IF old \in KeptSections(obj) THEN Rank(old)
  ELSE IF old >= SHN_LORESERVE THEN old ELSE SHN_UNDEF

InvTypes ==
  /\ obj \in Objects
  /\ pc \in Places
  /\ i \in 0 .. obj.shnum /\ j \in Nat
  /\ mapping \in [Sections(obj) -> {Removed} \cup Sections(obj)]
  /\ names \subseteq NameEntries
  /\ namesSize \in Nat /\ finalSize \in Nat /\ curAddr \in Nat /\ curOff \in Nat
  /\ hdr \in ElfHeaders /\ entry \in Nat
  /\ target \subseteq Words

InvMapping ==
  /\ pc = "load" => i = 0 /\ newShnum = 0
  /\ pc = "map" => MappedTo(i) /\ newShnum = Rank(i)
  /\ pc \notin {"load", "map", "failure"} =>
       MappedTo(obj.shnum) /\ newShnum = Rank(obj.shnum)
  /\ newShnum \in 0 .. obj.shnum

InvSymbols ==
  /\ pc \in {"load", "map", "symbols", "failure"} =>
       syms \in {<< >>} \cup [DOMAIN obj.syms -> Symbols]
  /\ pc \in {"allocate", "renumber"} => syms = obj.syms
  /\ pc \notin BeforeTables \cup {"renumber", "failure"} =>
       /\ syms \in [DOMAIN obj.syms -> Symbols]
       /\ \A x \in DOMAIN obj.syms : syms[x].shndx = ShndxOf(x)

InvHeaders ==
  /\ pc \in BeforeTables \cup {"failure"} => k = 0 /\ newShdrs = << >>
  /\ pc \in BeforeCopy => k = 0 /\ HeadersUpTo(0)
  /\ pc = "copy" =>
       /\ k = Rank(i)
       /\ HeadersUpTo(i)
       /\ curAddr >= FirstAddress
       /\ \A s \in KeptSections(obj) : s < i => Below(s, curAddr)
  /\ pc \in AfterCopy => HeadersUpTo(obj.shnum)
  /\ pc \in Ending => \E n \in 0 .. obj.shnum : HeadersUpTo(n)
  /\ pc = "apply" => i < obj.shnum /\ IsRel(obj, i) /\ j >= 1
  /\ k \in 0 .. newShnum

InvOutput ==
  /\ pc \in BeforeOutput => out = NoFile
  /\ out \in Files

IInv == InvTypes /\ InvMapping /\ InvSymbols /\ InvHeaders /\ InvOutput

-----------------------------------------------------------------------------
(***************************************************************************)
(* What the branch encoding of RelocArith computes, for all values.        *)
(***************************************************************************)
LEMMA FourDivides ==
  ASSUME NEW d \in Int, d % 4 = 0
  PROVE  d = 4 * (d \div 4)
  BY SMT

LEMMA ModFacts ==
  ASSUME NEW w \in Int, NEW m \in Nat, m > 0
  PROVE  /\ w % m \in 0 .. (m - 1)
         /\ 0 <= w /\ w < m => w % m = w
         /\ -m <= w /\ w < 0 => w % m = w + m
<1>1. w % m \in 0 .. (m - 1)
  BY SMTT(20)
<1>2. ASSUME 0 <= w, w < m PROVE w % m = w
  BY <1>2, SMTT(20)
<1>3. ASSUME -m <= w, w < 0 PROVE w % m = w + m
  BY <1>3, SMTT(20)
<1> QED
  BY <1>1, <1>2, <1>3

LEMMA SizeFacts ==
  /\ FieldSize \in Nat /\ FieldSize > 0
  /\ Reach \in Nat /\ Reach > 0
  /\ FieldSize = 2 * Reach
  BY SMT DEF FieldSize, Reach

LEMMA FieldRange == ASSUME NEW w \in Int PROVE Field(w) \in 0 .. (FieldSize - 1)
  BY SizeFacts, ModFacts DEF Field

(* A displacement in reach survives the truncation to 24 bits: sign        *)
(* extending the field gives it back.                                      *)
LEMMA FieldRoundTrip ==
  ASSUME NEW w \in Int, -Reach <= w, w < Reach
  PROVE  /\ Field(w) \in 0 .. (FieldSize - 1)
         /\ SignExtend(Field(w)) = w
<1>1. CASE w >= 0
  <2>1. Field(w) = w
    BY <1>1, SizeFacts, ModFacts DEF Field
  <2> QED
    BY <1>1, <2>1, SizeFacts DEF SignExtend
<1>2. CASE w < 0
  <2>1. Field(w) = w + FieldSize
    BY <1>2, SizeFacts, ModFacts DEF Field
  <2> QED
    BY <1>2, <2>1, SizeFacts DEF SignExtend
<1> QED
  BY <1>1, <1>2, FieldRange

(* The two tests of process_rel.c:195-205 and 217-227 are written          *)
(* differently, one on bytes and one on words; for a word-aligned place    *)
(* they accept the same branches.                                          *)
THEOREM SameBranchesAccepted ==
  ASSUME NEW S \in Int, NEW P \in Int, P % 4 = 0
  PROVE  JumpAccepted(S, P) <=> CallAccepted(S, P)
<1>1. S % 4 = 0 <=> Displacement(S, P) % 4 = 0
  BY SMT DEF Displacement
<1>2. ASSUME Displacement(S, P) % 4 = 0
      PROVE  /\ Displacement(S, P) >= -33554432
                  <=> Displacement(S, P) \div 4 >= -8388608
             /\ Displacement(S, P) <= 33554428
                  <=> Displacement(S, P) \div 4 <= 8388607
  BY <1>2, SMT DEF Displacement
<1> QED
  BY <1>1, <1>2, SMT DEF JumpAccepted, CallAccepted

(* An accepted branch goes to the symbol: decoding the field that          *)
(* process_rel.c:208 or 229 writes gives the symbol's address.             *)
THEOREM BranchReachesSymbol ==
  ASSUME NEW S \in Int, NEW P \in Int, P % 4 = 0,
         NEW type \in {"JUMP24", "CALL"}, Accepted(type, S, P)
  PROVE  /\ Relocated(type, S, P).field \in 0 .. (FieldSize - 1)
         /\ BranchTarget(P, Relocated(type, S, P).field) = S
<1> DEFINE w == Displacement(S, P) \div 4
<1>1. CallAccepted(S, P)
  BY SameBranchesAccepted DEF Accepted
<1>2. Displacement(S, P) \in Int
  BY DEF Displacement
<1>3. w \in Int /\ -Reach <= w /\ w < Reach
  BY <1>1, <1>2, SMT DEF CallAccepted, Reach
<1>4. Displacement(S, P) = 4 * w
  BY <1>1, <1>2, FourDivides DEF CallAccepted
<1>5. Relocated(type, S, P).field = Field(w)
  BY DEF Relocated, Branch
<1>6. Field(w) \in 0 .. (FieldSize - 1) /\ SignExtend(Field(w)) = w
  BY <1>3, FieldRoundTrip, SMT
<1>7. BranchTarget(P, Field(w)) = S
  <2>1. BranchTarget(P, Field(w)) = P + 8 + 4 * w
    BY <1>6 DEF BranchTarget
  <2>2. P + 8 + Displacement(S, P) = S
    BY DEF Displacement
  <2> QED
    BY <1>3, <1>4, <2>1, <2>2
<1> QED
  BY <1>5, <1>6, <1>7

-----------------------------------------------------------------------------
(***************************************************************************)
(* Lemmas on the input: what a well-formed object gives the proofs.        *)
(***************************************************************************)
LEMMA ObjectFacts ==
  ASSUME NEW o \in Objects
  PROVE  /\ o.shnum \in Nat /\ o.shnum > 0 /\ o.shnum < SHN_LORESERVE
         /\ o.shdrs \in [Sections(o) -> InputHeaders]
         /\ o.shstrndx \in Sections(o)
         /\ o.shdrs[o.shstrndx].type = "STRTAB"
         /\ o.symnum \in Nat
         /\ o.syms \in [0 .. (o.symnum - 1) -> Symbols]
         /\ o.shoff \in Nat
<1>1. WellFormed(o)
  BY ObjectsAssumption
<1>2. o.shnum \in 1 .. (SHN_LORESERVE - 1)
  BY <1>1, Zenon DEF WellFormed
<1>3. SHN_LORESERVE \in Nat
  BY DEF SHN_LORESERVE
<1>4. \A n \in 1 .. (SHN_LORESERVE - 1) : n \in Nat /\ n > 0 /\ n < SHN_LORESERVE
  BY <1>3
<1>5. o.shnum \in Nat /\ o.shnum > 0 /\ o.shnum < SHN_LORESERVE
  BY <1>2, <1>4
<1> QED
  BY <1>1, <1>5, Zenon DEF WellFormed

LEMMA RelFacts ==
  ASSUME NEW o \in Objects, NEW s \in Sections(o), IsRel(o, s)
  PROVE  /\ o.rels[s] \in Seq(Relocations)
         /\ o.shdrs[s].info \in KeptSections(o) \ {o.shstrndx}
         /\ ~ IsSymtab(o, o.shdrs[s].info)
         /\ \A r \in 1 .. Len(o.rels[s]) : o.rels[s][r].sym < o.symnum
<1>1. WellFormed(o)
  BY ObjectsAssumption
<1>2. /\ o.rels \in [{t \in Sections(o) : IsRel(o, t)} -> Seq(Relocations)]
      /\ \A t \in DOMAIN o.rels :
           /\ o.shdrs[t].info \in KeptSections(o) \ {o.shstrndx}
           /\ ~ IsSymtab(o, o.shdrs[t].info)
      /\ \A t \in DOMAIN o.rels : \A r \in 1 .. Len(o.rels[t]) :
           o.rels[t][r].sym < o.symnum
  BY <1>1, Zenon DEF WellFormed
<1>3. s \in DOMAIN o.rels
  BY <1>2
<1> QED
  BY <1>2, <1>3

(***************************************************************************)
(* Lemmas on ranks.                                                        *)
(***************************************************************************)
LEMMA KeptFinite ==
  ASSUME NEW o \in Objects, NEW n \in Int
  PROVE  IsFiniteSet({t \in KeptSections(o) : t < n})
<1>0. o.shnum - 1 \in Int
  BY ObjectFacts
<1>1. IsFiniteSet(Sections(o))
  BY <1>0, FS_Interval DEF Sections
<1>2. {t \in KeptSections(o) : t < n} \subseteq Sections(o)
  BY DEF KeptSections
<1> QED
  BY <1>1, <1>2, FS_Subset

LEMMA RankNat == ASSUME NEW o \in Objects, NEW n \in Int PROVE RankIn(o, n) \in Nat
  BY KeptFinite, FS_CardinalityType DEF RankIn

LEMMA RankZero == ASSUME NEW o \in Objects PROVE RankIn(o, 0) = 0
<1>1. {t \in KeptSections(o) : t < 0} = {}
  BY ObjectFacts DEF KeptSections, Sections
<1> QED
  BY <1>1, FS_EmptySet DEF RankIn

LEMMA RankStep ==
  ASSUME NEW o \in Objects, NEW s \in Sections(o)
  PROVE  RankIn(o, s + 1) = RankIn(o, s) + (IF IsRel(o, s) THEN 0 ELSE 1)
<1> DEFINE K(n) == {t \in KeptSections(o) : t < n}
<1>0. s \in Int /\ s + 1 \in Int
  BY ObjectFacts DEF Sections
<1>1. CASE IsRel(o, s)
  <2>1. K(s + 1) = K(s)
    BY <1>1, ObjectFacts DEF KeptSections, Sections
  <2>2. RankIn(o, s + 1) = RankIn(o, s)
    BY <2>1 DEF RankIn
  <2> QED
    BY <1>0, <1>1, <2>2, RankNat
<1>2. CASE ~ IsRel(o, s)
  <2>1. K(s + 1) = K(s) \cup {s}
    BY <1>2, ObjectFacts DEF KeptSections, Sections
  <2>2. s \notin K(s)
    BY ObjectFacts DEF KeptSections, Sections
  <2>3. IsFiniteSet(K(s))
    BY <1>0, KeptFinite
  <2>4. Cardinality(K(s) \cup {s}) = Cardinality(K(s)) + 1
    BY <2>2, <2>3, FS_AddElement
  <2> QED
    BY <1>2, <2>1, <2>4 DEF RankIn
<1> QED
  BY <1>1, <1>2

LEMMA RankMonotone ==
  ASSUME NEW o \in Objects, NEW s \in Sections(o), NEW n \in Int, s < n
  PROVE  RankIn(o, s + 1) <= RankIn(o, n)
<1>1. {t \in KeptSections(o) : t < s + 1} \subseteq {t \in KeptSections(o) : t < n}
  BY ObjectFacts DEF KeptSections, Sections
<1> QED
  BY <1>1, KeptFinite, FS_Subset, Zenon DEF RankIn

LEMMA RankStrict ==
  ASSUME NEW o \in Objects, NEW s \in KeptSections(o), NEW n \in Int, s < n
  PROVE  RankIn(o, s) < RankIn(o, n)
<1>1. s \in Sections(o) /\ ~ IsRel(o, s) /\ s \in Int /\ s + 1 \in Int
  BY ObjectFacts DEF KeptSections, Sections
<1>2. RankIn(o, s + 1) = RankIn(o, s) + 1 /\ RankIn(o, s + 1) <= RankIn(o, n)
  BY <1>1, RankStep, RankMonotone
<1> QED
  BY <1>1, <1>2, RankNat

LEMMA RankInjective ==
  ASSUME NEW o \in Objects, NEW s \in KeptSections(o), NEW t \in KeptSections(o),
         s # t
  PROVE  RankIn(o, s) # RankIn(o, t)
<1>1. s \in Int /\ t \in Int
  BY ObjectFacts DEF KeptSections, Sections
<1>2. s < t \/ t < s
  BY <1>1
<1>3. RankIn(o, s) \in Nat /\ RankIn(o, t) \in Nat
  BY <1>1, RankNat
<1> QED
  BY <1>1, <1>2, <1>3, RankStrict

LEMMA RankBound ==
  ASSUME NEW o \in Objects, NEW n \in 0 .. o.shnum
  PROVE  RankIn(o, n) \in 0 .. n
<1>1. n \in Nat
  BY ObjectFacts
<1>2. {t \in KeptSections(o) : t < n} \subseteq 0 .. (n - 1)
  BY <1>1, ObjectFacts DEF KeptSections, Sections
<1>3. IsFiniteSet(0 .. (n - 1)) /\ Cardinality(0 .. (n - 1)) = n
  <2>1. IsFiniteSet(0 .. (n - 1))
    BY <1>1, FS_Interval
  <2>2. Cardinality(0 .. (n - 1)) = IF 0 > n - 1 THEN 0 ELSE (n - 1) - 0 + 1
    BY <1>1, FS_Interval
  <2> QED
    BY <1>1, <2>1, <2>2
<1>4. RankIn(o, n) <= n
  BY <1>2, <1>3, FS_Subset DEF RankIn
<1> QED
  BY <1>1, <1>4, RankNat

(***************************************************************************)
(* Lemmas on the operators of the copy and relocation loops.               *)
(***************************************************************************)
LEMMA RoundDown ==
  ASSUME NEW y \in Nat, NEW a \in Nat, a > 0
  PROVE  /\ (y - (y % a)) % a = 0
         /\ y % a \in 0 .. (a - 1)
<1>1. (y - (y % a)) % a = 0
  BY SMTT(20)
<1>2. y % a \in 0 .. (a - 1)
  BY SMTT(20)
<1> QED
  BY <1>1, <1>2

LEMMA AlignUpFacts ==
  ASSUME NEW x \in Nat, NEW a \in Nat
  PROVE  /\ AlignUp(x, a) \in Nat
         /\ AlignUp(x, a) >= x
         /\ a > 0 => AlignUp(x, a) % a = 0
<1>1. CASE a > 0
  <2> DEFINE y == x + a - 1
  <2>1. y \in Nat
    BY <1>1
  <2> HIDE DEF y
  <2>2. (y - (y % a)) % a = 0 /\ y % a \in 0 .. (a - 1)
    BY <1>1, <2>1, RoundDown
  <2>3. y - (y % a) \in Int
    BY <1>1, <2>1, <2>2
  <2>4. x <= y - (y % a)
    BY <1>1, <2>1, <2>2 DEF y
  <2>5. AlignUp(x, a) = y - (y % a)
    BY <1>1 DEF AlignUp, y
  <2> QED
    BY <2>2, <2>3, <2>4, <2>5
<1>2. CASE a = 0
  BY <1>2 DEF AlignUp
<1> QED
  BY <1>1, <1>2

LEMMA RelocatedType ==
  ASSUME NEW type \in RelocTypes, NEW S \in Nat, NEW P \in Nat, Accepted(type, S, P)
  PROVE  Relocated(type, S, P) \in Cells
<1>1. CASE type = "ABS32"
  <2>1. Relocated(type, S, P) = Data(4, S)
    BY <1>1, Zenon DEF Relocated
  <2> QED
    BY <2>1 DEF Data, Cells
<1>2. CASE type = "ABS16"
  <2>1. Relocated(type, S, P) = Data(2, S % HalfSize)
    BY <1>2, Zenon DEF Relocated
  <2>2. S % HalfSize \in Nat
    BY SMT DEF HalfSize
  <2> QED
    BY <2>1, <2>2 DEF Data, Cells
<1>3. CASE type = "ABS8"
  <2>1. Relocated(type, S, P) = Data(1, S % ByteSize)
    BY <1>3, Zenon DEF Relocated
  <2>2. S % ByteSize \in Nat
    BY SMT DEF ByteSize
  <2> QED
    BY <2>1, <2>2 DEF Data, Cells
<1> DEFINE field == Field(Displacement(S, P) \div 4)
<1>4. field \in 0 .. (FieldSize - 1)
  <2>1. Displacement(S, P) \div 4 \in Int
    BY SMT DEF Displacement
  <2> QED
    BY <2>1, FieldRange
<1>5. CASE type = "JUMP24"
  <2>1. Relocated(type, S, P) = Branch(Kept, field)
    BY <1>5, Zenon DEF Relocated
  <2> HIDE DEF field
  <2> QED
    BY <1>4, <2>1 DEF Branch, Cells
<1>6. CASE type = "CALL"
  <2>1. Relocated(type, S, P) = Branch(CallOpcode, field)
    BY <1>6, Zenon DEF Relocated
  <2> HIDE DEF field
  <2> QED
    BY <1>4, <2>1 DEF Branch, Cells
<1> QED
  BY <1>1, <1>2, <1>3, <1>5, <1>6 DEF Accepted

(* A file of typed extents stays one.                                      *)
LEMMA WrittenTyped ==
  ASSUME NEW at \in Nat, NEW len \in Nat, NEW what \in Whats, out \in Files
  PROVE  /\ Written(out, at, len, what) \in Files
         /\ Written(out, at, len, what).exists = out.exists
<1> DEFINE es == {e \in out.extents : Apart(e, at, len)} \cup {Extent(at, len, what)}
           end == IF out.end < at + len THEN at + len ELSE out.end
<1>1. Written(out, at, len, what) = [out EXCEPT !.extents = es, !.end = end]
  BY DEF Written
<1>2. Extent(at, len, what) \in [at : Nat, len : Nat, what : Whats]
  BY DEF Extent
<1>3. es \in SUBSET [at : Nat, len : Nat, what : Whats] /\ end \in Nat
  BY <1>2 DEF Files
<1> HIDE DEF es, end
<1> QED
  BY <1>1, <1>3 DEF Files

-----------------------------------------------------------------------------
(***************************************************************************)
(* The invariant holds initially.                                          *)
(***************************************************************************)
LEMMA InvInit == Init => IInv
<1> SUFFICES ASSUME Init PROVE IInv
  OBVIOUS
<1>1. obj \in Objects
  BY DEF Init
<1>2. /\ obj.shnum \in Nat /\ obj.shnum > 0
      /\ obj.shoff \in Nat /\ obj.shstrndx \in Int
  BY <1>1, ObjectFacts DEF Sections
<1>3. InvTypes
  BY <1>1, <1>2, SMT DEF Init, InvTypes, Places, ElfHeaders, InputHeader
<1>4. InvMapping
  BY <1>2 DEF Init, InvMapping
<1>5. InvSymbols
  BY DEF Init, InvSymbols, BeforeTables
<1>6. InvHeaders
  BY DEF Init, InvHeaders, BeforeTables, BeforeCopy, AfterCopy, Ending
<1>7. InvOutput
  BY DEF Init, InvOutput, NoFile, Files
<1> QED
  BY <1>3, <1>4, <1>5, <1>6, <1>7 DEF IInv

-----------------------------------------------------------------------------
(***************************************************************************)
(* The types are preserved.                                                *)
(***************************************************************************)

(* What the iterations of the copy loop have in common.                    *)
LEMMA AddHeaderTypes ==
  ASSUME IInv, Copying, NEW h, AddHeader(obj.shdrs[i], h)
  PROVE  /\ i \in KeptSections(obj) /\ i' = i + 1
         /\ names' \subseteq NameEntries
         /\ namesSize' \in Nat
         /\ curAddr' \in Nat
<1>1. obj \in Objects /\ i \in 0 .. obj.shnum /\ pc = "copy" /\ i < obj.shnum
      /\ names \subseteq NameEntries
      /\ namesSize \in Nat /\ curAddr \in Nat
  BY DEF IInv, InvTypes, Copying
<1>2. obj.shnum \in Nat /\ obj.shdrs \in [Sections(obj) -> InputHeaders]
  BY <1>1, ObjectFacts
<1>3. i \in Sections(obj)
  BY <1>1, <1>2 DEF Sections
<1>4. i \in KeptSections(obj)
  <2>1. mapping[i] = IF IsRel(obj, i) THEN Removed ELSE Rank(i)
    BY <1>1, <1>3, <1>2 DEF IInv, InvMapping, MappedTo, Sections
  <2> QED
    BY <1>3, <2>1 DEF Copying, KeptSections
<1>5. i' = i + 1
  BY Zenon DEF AddHeader
<1> DEFINE old == obj.shdrs[i]
<1>6. old \in InputHeaders
  BY <1>2, <1>3
<1>7. /\ old.name \in DOMAIN NameSize \cup {""}
      /\ old.size \in Nat /\ old.align \in Nat
  BY <1>6 DEF InputHeaders
<1>8. AddHeader(old, h)
  OBVIOUS
<1> HIDE DEF old
<1>9. names' \subseteq NameEntries
  <2>1. CASE old.name # ""
    <3>1. names' = names \cup {[at |-> namesSize, str |-> old.name]}
      BY <1>8, <2>1, Zenon DEF AddHeader
    <3>2. [at |-> namesSize, str |-> old.name] \in NameEntries
      BY <1>1, <1>7 DEF NameEntries
    <3> QED
      BY <1>1, <3>1, <3>2
  <2>2. CASE old.name = ""
    BY <1>1, <1>8, <2>2 DEF AddHeader
  <2> QED
    BY <2>1, <2>2
<1>10. namesSize' \in Nat
  <2>1. CASE old.name # ""
    <3>1. namesSize' = namesSize + NameSize[old.name]
      BY <1>8, <2>1, Zenon DEF AddHeader
    <3>2. NameSize[old.name] \in Nat
      BY <1>7, <2>1, NamesAssumption
    <3> QED
      BY <1>1, <3>1, <3>2
  <2>2. CASE old.name = ""
    BY <1>1, <1>8, <2>2 DEF AddHeader
  <2> QED
    BY <2>1, <2>2
<1>11. curAddr' \in Nat
  <2>1. AlignUp(curAddr, old.align) \in Nat
    BY <1>1, <1>7, AlignUpFacts
  <2>2. Advance(old) \in Nat
    BY <1>7 DEF Advance
  <2>3. curAddr' = AlignUp(curAddr, old.align) + Advance(old)
    BY <1>8, Zenon DEF AddHeader
  <2> QED
    BY <2>1, <2>2, <2>3
<1> QED
  BY <1>4, <1>5, <1>9, <1>10, <1>11

(* One call of apply_relocation leaves typed words.                        *)
LEMMA ApplyTypes ==
  ASSUME IInv, ApplyRelocation
  PROVE  target' \subseteq Words /\ j' \in Nat
<1> DEFINE r == obj.rels[i][j]
           S == syms[r.sym].value
           P == newShdrs[mapping[TargetOf(i)]].addr + r.offset
           new == [offset |-> r.offset, cell |-> Relocated(r.type, S, P)]
<1>1. /\ obj \in Objects /\ pc = "apply" /\ i \in 0 .. obj.shnum /\ j \in Nat
      /\ target \subseteq Words
      /\ i < obj.shnum /\ IsRel(obj, i) /\ j >= 1 /\ j <= Len(obj.rels[i])
      /\ HeadersUpTo(obj.shnum)
  BY DEF IInv, InvTypes, InvHeaders, ApplyRelocation, AfterCopy
<1>2. obj.shnum \in Nat /\ obj.symnum \in Nat
      /\ obj.syms \in [0 .. (obj.symnum - 1) -> Symbols]
  BY <1>1, ObjectFacts
<1>3. i \in Sections(obj)
  BY <1>1, <1>2 DEF Sections
<1>4. /\ obj.rels[i] \in Seq(Relocations)
      /\ obj.shdrs[i].info \in KeptSections(obj)
      /\ \A n \in 1 .. Len(obj.rels[i]) : obj.rels[i][n].sym < obj.symnum
  BY <1>1, <1>3, RelFacts
<1>5. r \in Relocations /\ r.sym < obj.symnum
  <2>1. j \in 1 .. Len(obj.rels[i])
    BY <1>1, <1>4
  <2> QED
    BY <1>4, <2>1
<1>6. r.offset \in Nat /\ r.type \in RelocTypes /\ r.sym \in Nat
  BY <1>5 DEF Relocations
<1>7. S \in Nat
  <2>1. syms \in [0 .. (obj.symnum - 1) -> Symbols]
    BY <1>1, <1>2 DEF IInv, InvSymbols, BeforeTables
  <2>2. r.sym \in 0 .. (obj.symnum - 1)
    BY <1>2, <1>5, <1>6
  <2> QED
    BY <2>1, <2>2 DEF Symbols
<1>8. P \in Nat
  <2>1. TargetOf(i) \in KeptSections(obj)
    BY <1>4 DEF TargetOf
  <2>2. TargetOf(i) \in Sections(obj) /\ TargetOf(i) < obj.shnum
    BY <1>2, <2>1 DEF KeptSections, Sections
  <2>3. mapping[TargetOf(i)] = Rank(TargetOf(i))
    BY <1>1, <2>1, <2>2 DEF IInv, InvMapping, MappedTo, KeptSections
  <2>4. HeaderMade(TargetOf(i))
    BY <1>1, <2>1, <2>2 DEF HeadersUpTo
  <2>5. newShdrs[mapping[TargetOf(i)]].addr \in Nat
    BY <2>3, <2>4 DEF HeaderMade, OutputHeaders
  <2> QED
    BY <1>6, <2>5
<1>9. target' = IF Accepted(r.type, S, P)
                  THEN {w \in target : w.offset # r.offset} \cup {new}
                  ELSE target
  BY DEF ApplyRelocation
<1>10. Accepted(r.type, S, P) => Relocated(r.type, S, P) \in Cells
  BY <1>6, <1>7, <1>8, RelocatedType
<1>11. j' \in Nat
  BY <1>1 DEF ApplyRelocation
<1> HIDE DEF S, P, r
<1>12. target' \subseteq Words
  <2>1. Accepted(r.type, S, P) => new \in Words
    BY <1>6, <1>10 DEF Words
  <2> HIDE DEF new
  <2> QED
    BY <1>1, <1>9, <2>1
<1> QED
  BY <1>11, <1>12

(* The steps that change none of the variables InvTypes types, but pc.     *)
Quiet ==
  \/ Load \/ LoadFails \/ AllMapped \/ ReadSymbols \/ ReadSymbolsFails
  \/ AllocateTablesFails \/ RenumberSymbols \/ OpenOutput \/ OpenOutputFails
  \/ WriteInitialHeaderFails \/ CopyReadFails \/ CopyWriteFails
  \/ LoadTargetFails \/ WriteTargetFails
  \/ WriteSectionHeader \/ WriteSectionHeaderFails
  \/ RewriteHeader \/ RewriteHeaderFails \/ Cleanup

LEMMA TypesStep == ASSUME IInv, [Next]_vars PROVE InvTypes'
<1>1. /\ obj \in Objects /\ pc \in Places
      /\ i \in 0 .. obj.shnum /\ j \in Nat
      /\ mapping \in [Sections(obj) -> {Removed} \cup Sections(obj)]
      /\ names \subseteq NameEntries
      /\ namesSize \in Nat /\ finalSize \in Nat /\ curAddr \in Nat /\ curOff \in Nat
      /\ hdr \in ElfHeaders /\ entry \in Nat
      /\ target \subseteq Words
  BY DEF IInv, InvTypes
<1>2. obj.shnum \in Nat /\ obj.shnum > 0 /\ obj.shdrs \in [Sections(obj) -> InputHeaders]
  BY <1>1, ObjectFacts
<1>3. CASE UNCHANGED vars
  BY <1>1, <1>3, Zenon DEF vars, tables, build, InvTypes
<1>4. CASE Quiet
  <2>1. UNCHANGED <<obj, i, j, mapping, names, namesSize, finalSize, curAddr, curOff,
                    hdr, entry, target>>
    BY <1>4, Zenon DEF Quiet, tables, build, Load, LoadFails, AllMapped, ReadSymbols,
       ReadSymbolsFails, AllocateTablesFails, RenumberSymbols, OpenOutput,
       OpenOutputFails, WriteInitialHeaderFails, CopyReadFails, CopyWriteFails,
       LoadTargetFails, WriteTargetFails, WriteSectionHeader, WriteSectionHeaderFails,
       RewriteHeader, RewriteHeaderFails, Cleanup, ExitFailure, GotoCleanup, WriteFails
  <2>2. pc' \in Places
    BY <1>1, <1>4 DEF Quiet, Places, Goto, Load, LoadFails, AllMapped, ReadSymbols,
       ReadSymbolsFails, AllocateTablesFails, RenumberSymbols, OpenOutput,
       OpenOutputFails, WriteInitialHeaderFails, CopyReadFails, CopyWriteFails,
       LoadTargetFails, WriteTargetFails, WriteSectionHeader, WriteSectionHeaderFails,
       RewriteHeader, RewriteHeaderFails, Cleanup, ExitFailure, GotoCleanup, WriteFails
  <2> QED
    BY <1>1, <2>1, <2>2, Zenon DEF InvTypes
<1>5. 0 \in 0 .. obj.shnum /\ (i < obj.shnum => i + 1 \in 0 .. obj.shnum)
  BY <1>1, <1>2
<1>6. i < obj.shnum => i \in Sections(obj)
  BY <1>1, <1>2 DEF Sections
<1>7. CASE MapSection
  <2>1. i < obj.shnum /\ newShnum \in Sections(obj)
    <3>1. pc = "map" /\ i < obj.shnum /\ newShnum = RankIn(obj, i)
      BY <1>7 DEF MapSection, IInv, InvMapping, Rank
    <3>2. RankIn(obj, i) \in 0 .. i
      BY <1>1, RankBound
    <3> QED
      BY <1>1, <1>2, <3>1, <3>2 DEF Sections
  <2>2. mapping' \in [Sections(obj) -> {Removed} \cup Sections(obj)]
    BY <1>1, <1>7, <2>1 DEF MapSection
  <2>3. /\ i' = i + 1
        /\ UNCHANGED <<obj, pc, j, names, namesSize, finalSize, curAddr, curOff,
                       hdr, entry, target>>
    BY <1>7, Zenon DEF MapSection, build
  <2> QED
    BY <1>1, <1>5, <2>1, <2>2, <2>3, Zenon DEF InvTypes
<1>8. CASE AllocateTables
  <2>1. names' = {[at |-> 0, str |-> ""]} /\ namesSize' = 1 /\ curOff' = EhdrSize
        /\ pc' = "renumber"
        /\ UNCHANGED <<obj, i, j, mapping, finalSize, curAddr, hdr, entry, target>>
    BY <1>8, Zenon DEF AllocateTables, tables, Goto
  <2>2. [at |-> 0, str |-> ""] \in NameEntries
    BY DEF NameEntries
  <2>3. names' \subseteq NameEntries
    BY <2>1, <2>2
  <2>4. namesSize' \in Nat /\ curOff' \in Nat /\ pc' \in Places
    BY <2>1 DEF EhdrSize, Places
  <2> QED
    BY <1>1, <2>1, <2>3, <2>4, Zenon DEF InvTypes
<1>9. CASE WriteInitialHeader
  <2>1. /\ finalSize' = 1 /\ i' = 0 /\ pc' = "sizes"
        /\ UNCHANGED <<obj, j, mapping, names, namesSize, curAddr, curOff,
                       hdr, entry, target>>
    BY <1>9, Zenon DEF WriteInitialHeader, tables, Goto
  <2>2. finalSize' \in Nat /\ pc' \in Places
    BY <2>1 DEF Places
  <2> QED
    BY <1>1, <1>5, <2>1, <2>2, Zenon DEF InvTypes
<1>10. CASE SizeName
  <2>1. /\ i < obj.shnum /\ i' = i + 1
        /\ UNCHANGED <<obj, pc, j, mapping, names, namesSize, curAddr, curOff,
                       hdr, entry, target>>
    BY <1>10, Zenon DEF SizeName, tables
  <2>2. finalSize' \in Nat
    <3>1. obj.shdrs[i].name \in DOMAIN NameSize \cup {""}
      BY <1>2, <1>6, <2>1 DEF InputHeaders
    <3>2. NameCounted(i) => NameSize[obj.shdrs[i].name] \in Nat
      BY <3>1, NamesAssumption DEF NameCounted
    <3>3. finalSize' = finalSize
                        + (IF NameCounted(i) THEN NameSize[obj.shdrs[i].name] ELSE 0)
      BY <1>10, Zenon DEF SizeName
    <3> QED
      BY <1>1, <3>2, <3>3
  <2> QED
    BY <1>1, <1>5, <2>1, <2>2, Zenon DEF InvTypes
<1>11. CASE NamesSized
  <2>1. /\ curOff' = EhdrSize /\ curAddr' = FirstAddress /\ i' = 0 /\ pc' = "copy"
        /\ UNCHANGED <<obj, j, mapping, names, namesSize, finalSize, hdr, entry, target>>
    BY <1>11, Zenon DEF NamesSized, tables, Goto
  <2>2. curOff' \in Nat /\ curAddr' \in Nat /\ pc' \in Places
    BY <2>1 DEF Places, EhdrSize, FirstAddress
  <2> QED
    BY <1>1, <1>5, <2>1, <2>2, Zenon DEF InvTypes
<1>12. CASE SkipRemoved \/ SkipUnrelocated
  <2>1. /\ i < obj.shnum /\ i' = i + 1
        /\ UNCHANGED <<obj, pc, j, mapping, names, namesSize, finalSize, curAddr, curOff,
                       hdr, entry, target>>
    BY <1>12, Zenon DEF SkipRemoved, SkipUnrelocated, tables, build
  <2> QED
    BY <1>1, <1>5, <2>1, Zenon DEF InvTypes
<1>13. CASE CopyEmpty \/ CopySymbols \/ CopyNames \/ CopyContents
  <2>1. PICK h : Copying /\ AddHeader(obj.shdrs[i], h)
    BY <1>13, Zenon DEF CopyEmpty, CopySymbols, CopyNames, CopyContents
  <2>2. /\ i \in KeptSections(obj) /\ i' = i + 1 /\ i < obj.shnum
        /\ names' \subseteq NameEntries /\ namesSize' \in Nat /\ curAddr' \in Nat
    BY <2>1, AddHeaderTypes DEF Copying
  <2>3. UNCHANGED <<obj, pc, j, mapping, finalSize, hdr, entry, target>>
    BY <2>1, Zenon DEF AddHeader, tables
  <2>4. curOff' \in Nat
    <3>1. obj.shdrs[i].size \in Nat
      BY <1>2, <1>6, <2>2 DEF InputHeaders
    <3>2. curOff' \in {curOff, curOff + obj.shdrs[i].size, curOff + finalSize}
      BY <1>13, Zenon DEF CopyEmpty, CopySymbols, CopyNames, CopyContents
    <3> QED
      BY <1>1, <3>1, <3>2
  <2> QED
    BY <1>1, <1>5, <2>2, <2>3, <2>4, Zenon DEF InvTypes
<1>14. CASE AllCopied
  <2>1. /\ i' = 0 /\ pc' = "relocate"
        /\ UNCHANGED <<obj, j, mapping, names, namesSize, finalSize, curAddr, curOff,
                       hdr, entry, target>>
    BY <1>14, Zenon DEF AllCopied, tables, build, Goto
  <2>2. pc' \in Places
    BY <2>1 DEF Places
  <2> QED
    BY <1>1, <1>5, <2>1, <2>2, Zenon DEF InvTypes
<1>15. CASE LoadTarget
  <2>1. /\ target' = {} /\ j' = 1 /\ pc' = "apply"
        /\ UNCHANGED <<obj, i, mapping, names, namesSize, finalSize, curAddr, curOff,
                       hdr, entry>>
    BY <1>15, Zenon DEF LoadTarget, tables, build, Goto
  <2>2. pc' \in Places /\ target' \subseteq Words /\ j' \in Nat
    BY <2>1 DEF Places
  <2> QED
    BY <1>1, <2>1, <2>2, Zenon DEF InvTypes
<1>16. CASE ApplyRelocation
  <2>1. UNCHANGED <<obj, pc, i, mapping, names, namesSize, finalSize, curAddr, curOff,
                    hdr, entry>>
    BY <1>16, Zenon DEF ApplyRelocation, tables, build
  <2> QED
    BY <1>1, <1>16, <2>1, ApplyTypes, Zenon DEF InvTypes
<1>17. CASE WriteTarget
  <2>1. /\ i' = i + 1 /\ pc' = "relocate"
        /\ UNCHANGED <<obj, j, mapping, names, namesSize, finalSize, curAddr, curOff,
                       hdr, entry, target>>
    BY <1>17, Zenon DEF WriteTarget, tables, build, Goto
  <2>2. i < obj.shnum /\ pc' \in Places
    BY <1>17, <2>1 DEF WriteTarget, TargetDone, IInv, InvHeaders, Places
  <2> QED
    BY <1>1, <1>5, <2>1, <2>2, Zenon DEF InvTypes
<1>18. CASE AllRelocated
  <2>1. /\ entry' = 0 /\ pc' = "entry"
        /\ UNCHANGED <<obj, i, j, mapping, names, namesSize, finalSize, curAddr, curOff,
                       hdr, target>>
    BY <1>18, Zenon DEF AllRelocated, tables, build, Goto
  <2>2. pc' \in Places /\ entry' \in Nat
    BY <2>1 DEF Places
  <2> QED
    BY <1>1, <2>1, <2>2, Zenon DEF InvTypes
<1>19. CASE FindEntry
  <2>1. UNCHANGED <<obj, pc, i, j, mapping, names, namesSize, finalSize, curAddr, curOff,
                    hdr, target>>
    BY <1>19, Zenon DEF FindEntry, tables, build
  <2>2. entry' \in Nat
    <3>1. k < newShnum /\ HeadersUpTo(obj.shnum) /\ newShnum = Rank(obj.shnum)
          /\ k \in 0 .. newShnum /\ newShnum \in 0 .. obj.shnum
      BY <1>19 DEF FindEntry, IInv, InvHeaders, InvMapping, AfterCopy
    <3>2. k \in 0 .. (Rank(obj.shnum) - 1)
      BY <1>2, <3>1
    <3>3. newShdrs[k] \in OutputHeaders
      BY <3>1, <3>2 DEF HeadersUpTo
    <3>4. newShdrs[k].addr \in Nat
      BY <3>3 DEF OutputHeaders
    <3>5. entry' \in {newShdrs[k].addr, entry}
      BY <1>19, Zenon DEF FindEntry
    <3> QED
      BY <1>1, <3>4, <3>5
  <2> QED
    BY <1>1, <2>1, <2>2, Zenon DEF InvTypes
<1>20. CASE FinishHeader
  <2>1. /\ hdr' = [shnum |-> newShnum, shoff |-> curOff,
                   shstrndx |-> mapping[obj.shstrndx], entry |-> entry]
        /\ pc' = "table"
        /\ UNCHANGED <<obj, i, j, mapping, names, namesSize, finalSize, curAddr, curOff,
                       entry, target>>
    BY <1>20, Zenon DEF FinishHeader, tables, build, Goto
  <2>2. newShnum \in Nat
    BY <1>2 DEF IInv, InvMapping
  <2>3. mapping[obj.shstrndx] \in Int
    BY <1>1, <1>2, ObjectFacts DEF Sections, Removed
  <2>4. hdr' \in ElfHeaders /\ pc' \in Places
    BY <1>1, <2>1, <2>2, <2>3 DEF ElfHeaders, Places
  <2> QED
    BY <1>1, <2>1, <2>4, Zenon DEF InvTypes
<1> QED
  BY <1>3, <1>4, <1>7, <1>8, <1>9, <1>10, <1>11, <1>12, <1>13, <1>14, <1>15, <1>16,
     <1>17, <1>18, <1>19, <1>20, Zenon
  DEF Next, Preparation, Creation, Copy, Relocation, Completion, Quiet

-----------------------------------------------------------------------------
(***************************************************************************)
(* The mapping.                                                            *)
(***************************************************************************)

(* The steps after the first pass over the sections, but for the exits.    *)
Later ==
  \/ ReadSymbols \/ AllocateTables \/ RenumberSymbols
  \/ Creation \/ Copy \/ Relocation \/ Completion
Exits == LoadFails \/ ReadSymbolsFails \/ AllocateTablesFails

LEMMA NextParts == Next <=> Load \/ MapSection \/ AllMapped \/ Exits \/ Later
  BY Zenon DEF Next, Preparation, Exits, Later

LEMMA ExitFrame ==
  ASSUME Exits
  PROVE  /\ pc' = "failure"
         /\ pc \in {"load", "symbols", "allocate"}
         /\ UNCHANGED <<obj, i, k, j, tables, build, hdr, entry, target, out>>
  BY Zenon DEF Exits, LoadFails, ReadSymbolsFails, AllocateTablesFails, ExitFailure, Goto

LEMMA LaterFrame ==
  ASSUME Later
  PROVE  /\ pc \notin {"load", "map", "failure"} /\ pc' \notin {"load", "map", "failure"}
         /\ UNCHANGED <<obj, mapping, newShnum>>
<1>1. CASE ReadSymbols \/ AllocateTables \/ RenumberSymbols
  BY <1>1 DEF ReadSymbols, AllocateTables, RenumberSymbols, Goto, tables
<1>2. CASE Creation
  BY <1>2 DEF Creation, OpenOutput, OpenOutputFails, WriteInitialHeader,
     WriteInitialHeaderFails, SizeName, NamesSized, GotoCleanup, WriteFails, Goto, tables
<1>3. CASE Copy
  <2>1. CASE SkipRemoved \/ CopyReadFails \/ CopyWriteFails \/ AllCopied
    BY <2>1 DEF SkipRemoved, CopyReadFails, CopyWriteFails, AllCopied, Copying,
       GotoCleanup, WriteFails, Goto, tables
  <2>2. CASE CopyEmpty \/ CopySymbols \/ CopyNames \/ CopyContents
    <3>1. PICK h : Copying /\ AddHeader(obj.shdrs[i], h)
      BY <2>2, Zenon DEF CopyEmpty, CopySymbols, CopyNames, CopyContents
    <3>2. pc = "copy" /\ pc' = pc /\ UNCHANGED <<obj, mapping, newShnum>>
      BY <3>1, Zenon DEF Copying, AddHeader, tables
    <3> QED
      BY <3>2
  <2> QED
    BY <1>3, <2>1, <2>2, Zenon DEF Copy
<1>4. CASE Relocation
  BY <1>4 DEF Relocation, SkipUnrelocated, LoadTarget, LoadTargetFails, ApplyRelocation,
     WriteTarget, WriteTargetFails, Relocating, TargetDone,
     GotoCleanup, WriteFails, Goto, tables
<1>5. CASE Completion
  BY <1>5 DEF Completion, AllRelocated, FindEntry, FinishHeader, WriteSectionHeader,
     WriteSectionHeaderFails, RewriteHeader, RewriteHeaderFails, Cleanup,
     GotoCleanup, WriteFails, Goto, tables
<1> QED
  BY <1>1, <1>2, <1>3, <1>4, <1>5, Zenon DEF Later

LEMMA MappingStep == ASSUME IInv, [Next]_vars PROVE InvMapping'
<1>1. obj \in Objects /\ i \in 0 .. obj.shnum /\ InvMapping
      /\ mapping \in [Sections(obj) -> {Removed} \cup Sections(obj)]
  BY DEF IInv, InvTypes
<1>2. obj.shnum \in Nat /\ obj.shnum > 0
  BY <1>1, ObjectFacts
<1>3. CASE UNCHANGED vars
  BY <1>1, <1>3 DEF vars, tables, InvMapping, MappedTo, Rank
<1>4. CASE Load
  <2>1. pc = "load" /\ pc' = "map" /\ UNCHANGED <<obj, i, mapping, newShnum>>
    BY <1>4 DEF Load, Goto, tables
  <2>2. i = 0 /\ newShnum = 0 /\ RankIn(obj, 0) = 0
    BY <1>1, <2>1, RankZero DEF InvMapping
  <2>3. MappedTo(0)
    BY <1>2 DEF MappedTo, Sections
  <2> QED
    BY <1>2, <2>1, <2>2, <2>3 DEF InvMapping, MappedTo, Rank
<1>5. CASE MapSection
  <2>1. /\ pc = "map" /\ pc' = "map" /\ i < obj.shnum /\ i' = i + 1 /\ obj' = obj
        /\ mapping' = [mapping EXCEPT ![i] = IF IsRel(obj, i) THEN Removed ELSE newShnum]
        /\ newShnum' = newShnum + (IF IsRel(obj, i) THEN 0 ELSE 1)
    BY <1>1, <1>5 DEF MapSection, InvMapping
  <2>2. i \in Sections(obj) /\ i \in Nat
    BY <1>1, <1>2, <2>1 DEF Sections
  <2>3. MappedTo(i) /\ newShnum = RankIn(obj, i)
    BY <1>1, <2>1 DEF InvMapping, Rank
  <2>4. newShnum' = RankIn(obj, i + 1)
    BY <1>1, <2>1, <2>2, <2>3, RankStep
  <2>5. \A s \in Sections(obj) : s < i + 1 =>
          mapping'[s] = IF IsRel(obj, s) THEN Removed ELSE RankIn(obj, s)
    BY <1>1, <1>2, <2>1, <2>2, <2>3 DEF MappedTo, Rank, Sections
  <2>6. newShnum' \in 0 .. obj.shnum
    <3>1. i + 1 \in 0 .. obj.shnum
      BY <1>2, <2>1, <2>2
    <3>2. RankIn(obj, i + 1) \in 0 .. (i + 1)
      BY <1>1, <3>1, RankBound
    <3> QED
      BY <1>2, <2>4, <3>1, <3>2
  <2> QED
    BY <2>1, <2>4, <2>5, <2>6 DEF InvMapping, MappedTo, Rank
<1>6. CASE AllMapped
  <2>1. pc = "map" /\ pc' = "symbols" /\ i = obj.shnum /\ UNCHANGED <<obj, mapping, newShnum>>
    BY <1>6 DEF AllMapped, Goto, tables
  <2> QED
    BY <1>1, <2>1 DEF InvMapping, MappedTo, Rank
<1>7. CASE Exits
  <2>1. pc' = "failure" /\ UNCHANGED <<obj, newShnum>>
    BY <1>7, ExitFrame DEF tables
  <2> QED
    BY <1>1, <2>1 DEF InvMapping
<1>8. CASE Later
  BY <1>1, <1>8, LaterFrame DEF InvMapping, MappedTo, Rank
<1> QED
  BY <1>3, <1>4, <1>5, <1>6, <1>7, <1>8, NextParts

-----------------------------------------------------------------------------
(***************************************************************************)
(* The headers.                                                            *)
(***************************************************************************)

(* Where the program is in the copy loop, and what it has made so far.     *)
LEMMA CopyingFacts ==
  ASSUME IInv, Copying
  PROVE  /\ obj \in Objects /\ obj.shnum \in Nat
         /\ i \in KeptSections(obj) /\ i \in Nat /\ i < obj.shnum
         /\ obj.shdrs[i] \in InputHeaders
         /\ k = RankIn(obj, i) /\ k \in Nat /\ k < newShnum
         /\ newShnum \in Nat /\ newShnum = RankIn(obj, obj.shnum)
         /\ RankIn(obj, i + 1) = k + 1
         /\ MappedTo(obj.shnum) /\ HeadersUpTo(i)
         /\ curAddr \in Nat /\ curAddr >= FirstAddress
         /\ namesSize \in Nat /\ finalSize \in Nat /\ curOff \in Nat
         /\ \A s \in KeptSections(obj) : s < i => Below(s, curAddr)
<1>1. /\ obj \in Objects /\ i \in 0 .. obj.shnum /\ pc = "copy" /\ i < obj.shnum
      /\ curAddr \in Nat /\ namesSize \in Nat /\ finalSize \in Nat /\ curOff \in Nat
      /\ mapping[i] # Removed
  BY DEF IInv, InvTypes, Copying
<1>2. obj.shnum \in Nat /\ obj.shdrs \in [Sections(obj) -> InputHeaders]
  BY <1>1, ObjectFacts
<1>3. i \in Sections(obj) /\ i \in Nat
  BY <1>1, <1>2 DEF Sections
<1>4. MappedTo(obj.shnum) /\ newShnum = RankIn(obj, obj.shnum)
  BY <1>1 DEF IInv, InvMapping, Rank
<1>5. i \in KeptSections(obj) /\ ~ IsRel(obj, i)
  BY <1>1, <1>3, <1>4 DEF MappedTo, KeptSections
<1>6. /\ k = RankIn(obj, i) /\ HeadersUpTo(i) /\ curAddr >= FirstAddress
      /\ \A s \in KeptSections(obj) : s < i => Below(s, curAddr)
  BY <1>1 DEF IInv, InvHeaders, Rank
<1>7. k \in Nat /\ k < newShnum /\ newShnum \in Nat
  BY <1>1, <1>2, <1>3, <1>4, <1>5, <1>6, RankStrict, RankNat
<1>8. RankIn(obj, i + 1) = k + 1
  BY <1>1, <1>3, <1>5, <1>6, RankStep
<1>9. obj.shdrs[i] \in InputHeaders
  BY <1>2, <1>3
<1> QED
  BY <1>1, <1>2, <1>3, <1>4, <1>5, <1>6, <1>7, <1>8, <1>9

(* The header an iteration of the copy loop puts in new_shdrs, with the    *)
(* size it has in the input or that of the new name table.                 *)
MadeHeader(h) ==
  h \in {NewHeader(obj.shdrs[i]), [NewHeader(obj.shdrs[i]) EXCEPT !.size = finalSize]}

LEMMA NewHeaderFacts ==
  ASSUME IInv, Copying, NEW h, MadeHeader(h)
  PROVE  LET old == obj.shdrs[i] IN
         /\ h \in OutputHeaders
         /\ h.type = old.type /\ h.info = old.info /\ h.alloc = old.alloc
         /\ h.align = old.align /\ h.link = LinkOf(i)
         /\ h.addr = AlignUp(curAddr, old.align)
         /\ h.offset = curOff
<1> DEFINE old == obj.shdrs[i]
           addr == AlignUp(curAddr, old.align)
           name == IF old.name # "" THEN namesSize ELSE 0
           link == NewLink(old.link)
           n == [old EXCEPT !.addr = addr, !.offset = curOff, !.name = name, !.link = link]
<1>1. /\ obj \in Objects /\ old \in InputHeaders /\ obj.shnum \in Nat
      /\ curAddr \in Nat /\ namesSize \in Nat /\ finalSize \in Nat /\ curOff \in Nat
      /\ MappedTo(obj.shnum)
  BY CopyingFacts
<1>2. old.align \in Nat /\ old.link \in Nat
  BY <1>1 DEF InputHeaders
<1>3. addr \in Nat
  BY <1>1, <1>2, AlignUpFacts
<1>4. name \in Nat
  BY <1>1
<1>5. link = LinkOf(i) /\ link \in Nat
  <2>1. CASE old.link \in Sections(obj)
    <3>1. old.link < obj.shnum
      BY <1>1, <2>1 DEF Sections
    <3>2. mapping[old.link] = IF IsRel(obj, old.link) THEN Removed ELSE Rank(old.link)
      BY <1>1, <2>1, <3>1 DEF MappedTo
    <3>3. Rank(old.link) \in Nat
      BY <1>1, <1>2, RankNat DEF Rank
    <3>4. CASE IsRel(obj, old.link)
      BY <3>1, <3>2, <3>4 DEF NewLink, LinkOf, KeptSections
    <3>5. CASE ~ IsRel(obj, old.link)
      BY <2>1, <3>1, <3>2, <3>3, <3>5 DEF NewLink, LinkOf, KeptSections, Removed
    <3> QED
      BY <3>4, <3>5
  <2>2. CASE old.link \notin Sections(obj)
    <3>1. ~ (old.link < obj.shnum)
      BY <1>1, <1>2, <2>2 DEF Sections
    <3>2. old.link \notin KeptSections(obj)
      BY <2>2 DEF KeptSections
    <3> QED
      BY <1>2, <3>1, <3>2 DEF NewLink, LinkOf
  <2> QED
    BY <2>1, <2>2
<1>6. NewHeader(old) = n
  BY DEF NewHeader
<1> HIDE DEF old, addr, name, link
<1>7. /\ n \in OutputHeaders
      /\ n.type = old.type /\ n.info = old.info /\ n.alloc = old.alloc
      /\ n.align = old.align /\ n.link = link /\ n.addr = addr /\ n.offset = curOff
  BY <1>1, <1>3, <1>4, <1>5 DEF InputHeaders, OutputHeaders
<1> HIDE DEF n
<1>8. h \in {n, [n EXCEPT !.size = finalSize]}
  BY <1>6 DEF MadeHeader, old
<1>9. /\ h \in OutputHeaders
      /\ h.type = n.type /\ h.info = n.info /\ h.alloc = n.alloc
      /\ h.align = n.align /\ h.link = n.link /\ h.addr = n.addr /\ h.offset = n.offset
  BY <1>1, <1>7, <1>8 DEF OutputHeaders
<1> QED
  BY <1>5, <1>7, <1>9 DEF old, addr

(* One iteration of the copy loop: the header of section i is made, those  *)
(* of the other sections stay.                                             *)
LEMMA CopiedHeaders ==
  ASSUME IInv, Copying, NEW h, MadeHeader(h), AddHeader(obj.shdrs[i], h)
  PROVE  InvHeaders'
<1> DEFINE old == obj.shdrs[i]
<1>1. /\ obj \in Objects /\ obj.shnum \in Nat
      /\ i \in KeptSections(obj) /\ i \in Nat /\ i < obj.shnum
      /\ old \in InputHeaders
      /\ k = RankIn(obj, i) /\ k \in Nat /\ k < newShnum
      /\ newShnum \in Nat /\ newShnum = RankIn(obj, obj.shnum)
      /\ RankIn(obj, i + 1) = k + 1
      /\ HeadersUpTo(i)
      /\ curAddr \in Nat /\ curAddr >= FirstAddress
      /\ \A s \in KeptSections(obj) : s < i => Below(s, curAddr)
  BY CopyingFacts
<1>2. /\ h \in OutputHeaders
      /\ h.type = old.type /\ h.info = old.info /\ h.alloc = old.alloc
      /\ h.align = old.align /\ h.link = LinkOf(i)
      /\ h.addr = AlignUp(curAddr, old.align)
  BY NewHeaderFacts
<1>3. /\ pc' = "copy" /\ i' = i + 1 /\ k' = k + 1
      /\ newShdrs' = [newShdrs EXCEPT ![k] = h]
      /\ curAddr' = AlignUp(curAddr, old.align) + Advance(old)
      /\ UNCHANGED <<obj, newShnum>>
  BY Zenon DEF AddHeader, Copying, tables
<1>4. old.align \in Nat /\ old.size \in Nat
  BY <1>1 DEF InputHeaders
<1>5. /\ AlignUp(curAddr, old.align) \in Nat /\ AlignUp(curAddr, old.align) >= curAddr
      /\ old.align > 0 => AlignUp(curAddr, old.align) % old.align = 0
  BY <1>1, <1>4, AlignUpFacts
<1>6. Advance(old) \in Nat /\ Advance(old) >= old.size /\ Advance(old) >= 1
  BY <1>4 DEF Advance
<1>7. newShdrs \in [0 .. (newShnum - 1) -> OutputHeaders \cup {Uninitialised}]
      /\ \A m \in 0 .. (RankIn(obj, i) - 1) : newShdrs[m] \in OutputHeaders
  BY <1>1, Zenon DEF HeadersUpTo, Rank
<1>8. \A s \in KeptSections(obj) :
        /\ s \in Nat /\ s < obj.shnum
        /\ RankIn(obj, s) \in 0 .. (newShnum - 1)
  <2>1. SUFFICES ASSUME NEW s \in KeptSections(obj)
                 PROVE  /\ s \in Nat /\ s < obj.shnum
                        /\ RankIn(obj, s) \in 0 .. (newShnum - 1)
    OBVIOUS
  <2>2. s \in Nat /\ s < obj.shnum
    BY <1>1 DEF KeptSections, Sections
  <2> QED
    BY <1>1, <2>2, RankStrict, RankNat
<1>9. newShdrs' \in [0 .. (newShnum - 1) -> OutputHeaders \cup {Uninitialised}]
  BY <1>1, <1>2, <1>3, <1>7
<1>10. \A m \in 0 .. k : newShdrs'[m] \in OutputHeaders
  BY <1>1, <1>2, <1>3, <1>7
<1>11. newShdrs'[RankIn(obj, i)] = h
  BY <1>1, <1>3, <1>7
<1>12. \A s \in KeptSections(obj) :
         s < i \/ i < s => newShdrs'[RankIn(obj, s)] = newShdrs[RankIn(obj, s)]
  <2>1. SUFFICES ASSUME NEW s \in KeptSections(obj), s < i \/ i < s
                 PROVE  newShdrs'[RankIn(obj, s)] = newShdrs[RankIn(obj, s)]
    OBVIOUS
  <2>2. s \in Nat /\ i \in Nat
    BY <1>1, <1>8, <2>1, Zenon
  <2>3. s # i
    BY <2>1, <2>2
  <2>4. RankIn(obj, s) # k
    BY <1>1, <2>1, <2>3, RankInjective
  <2>5. RankIn(obj, s) \in 0 .. (newShnum - 1)
    BY <1>8, <2>1
  <2> QED
    BY <1>3, <1>7, <2>4, <2>5
<1>13. \A s \in KeptSections(obj) :
         IF s < i THEN HeaderMade(s) ELSE newShdrs[RankIn(obj, s)] = Uninitialised
  BY <1>1, Zenon DEF HeadersUpTo, Rank
<1>14. \A s, t \in KeptSections(obj) :
         s < t /\ t < i => Below(s, newShdrs[RankIn(obj, t)].addr)
  BY <1>1, Zenon DEF HeadersUpTo, Rank
<1> HIDE DEF old
<1>15. \A s \in KeptSections(obj) : s < i + 1 => HeaderMade(s)'
  <2>1. SUFFICES ASSUME NEW s \in KeptSections(obj), s < i + 1 PROVE HeaderMade(s)'
    OBVIOUS
  <2>2. LinkOf(s)' = LinkOf(s)
    BY <1>3 DEF LinkOf, Rank
  <2>3. CASE s < i
    <3>1. HeaderMade(s) /\ newShdrs'[RankIn(obj, s)] = newShdrs[RankIn(obj, s)]
      BY <1>12, <1>13, <2>1, <2>3
    <3> QED
      BY <1>3, <2>2, <3>1 DEF HeaderMade, Rank
  <2>4. CASE s = i
    <3>1. h.addr >= FirstAddress
      BY <1>1, <1>2, <1>5 DEF FirstAddress
    <3>2. newShdrs'[RankIn(obj, s)] = h
      BY <1>11, <2>4
    <3>3. /\ h.type = obj.shdrs[s].type /\ h.info = obj.shdrs[s].info
          /\ h.alloc = obj.shdrs[s].alloc /\ h.align = obj.shdrs[s].align
          /\ h.link = LinkOf(s)
      BY <1>2, <2>4 DEF old
    <3>4. h.align > 0 => h.addr % h.align = 0
      BY <1>2, <1>5
    <3> QED
      BY <1>2, <1>3, <2>2, <3>1, <3>2, <3>3, <3>4 DEF HeaderMade, Rank
  <2>5. s \in Nat /\ i \in Nat
    BY <1>1, <1>8, <2>1, Zenon
  <2> QED
    BY <2>1, <2>3, <2>4, <2>5
<1>16. \A s \in KeptSections(obj) : s < i =>
         /\ newShdrs[RankIn(obj, s)].addr \in Nat
         /\ obj.shdrs[s].size \in Nat
  <2>1. SUFFICES ASSUME NEW s \in KeptSections(obj), s < i
                 PROVE  /\ newShdrs[RankIn(obj, s)].addr \in Nat
                        /\ obj.shdrs[s].size \in Nat
    OBVIOUS
  <2>2. HeaderMade(s)
    BY <1>13, <2>1
  <2>3. newShdrs[RankIn(obj, s)].addr \in Nat
    BY <2>2 DEF HeaderMade, Rank, OutputHeaders
  <2>4. obj.shdrs[s] \in InputHeaders
    BY <1>1, <2>1, ObjectFacts DEF KeptSections
  <2> QED
    BY <2>3, <2>4 DEF InputHeaders
<1>17. \A s \in KeptSections(obj) : i < s => newShdrs'[RankIn(obj, s)] = Uninitialised
  <2>1. SUFFICES ASSUME NEW s \in KeptSections(obj), i < s
                 PROVE  newShdrs'[RankIn(obj, s)] = Uninitialised
    OBVIOUS
  <2>2. s \in Nat /\ i \in Nat
    BY <1>1, <1>8, <2>1, Zenon
  <2>3. ~ (s < i)
    BY <2>1, <2>2
  <2> QED
    BY <1>12, <1>13, <2>1, <2>3
<1> DEFINE EndsBelow(s, address) ==
             /\ newShdrs'[RankIn(obj, s)].addr + obj.shdrs[s].size <= address
             /\ newShdrs'[RankIn(obj, s)].addr < address
<1>18. \A s, t \in KeptSections(obj) :
         s < t /\ t < i + 1 => EndsBelow(s, newShdrs'[RankIn(obj, t)].addr)
  <2>1. SUFFICES ASSUME NEW s \in KeptSections(obj), NEW t \in KeptSections(obj),
                        s < t, t < i + 1
                 PROVE  EndsBelow(s, newShdrs'[RankIn(obj, t)].addr)
    OBVIOUS
  <2>2. s \in Nat /\ t \in Nat /\ s < i
    <3>1. s \in Nat /\ t \in Nat /\ i \in Nat
      BY <1>1, <1>8, <2>1, Zenon
    <3> QED
      BY <2>1, <3>1
  <2>3. newShdrs'[RankIn(obj, s)] = newShdrs[RankIn(obj, s)]
    BY <1>12, <2>1, <2>2
  <2>4. CASE t < i
    <3>1. newShdrs'[RankIn(obj, t)] = newShdrs[RankIn(obj, t)]
      BY <1>12, <2>1, <2>4
    <3>2. Below(s, newShdrs[RankIn(obj, t)].addr)
      BY <1>14, <2>1, <2>4
    <3> QED
      BY <2>3, <3>1, <3>2 DEF Below, Rank
  <2>5. CASE t = i
    <3>1. Below(s, curAddr)
      BY <1>1, <2>2
    <3>2. EndsBelow(s, h.addr)
      BY <1>1, <1>2, <1>5, <1>16, <2>2, <2>3, <3>1 DEF Below, Rank
    <3> QED
      BY <1>11, <2>5, <3>2
  <2> QED
    BY <1>1, <2>1, <2>2, <2>4, <2>5
<1>19. \A s \in KeptSections(obj) : s < i + 1 => EndsBelow(s, curAddr')
  <2>1. SUFFICES ASSUME NEW s \in KeptSections(obj), s < i + 1
                 PROVE  EndsBelow(s, curAddr')
    OBVIOUS
  <2>2. CASE s < i
    <3>1. Below(s, curAddr)
      BY <1>1, <2>2
    <3>2. newShdrs'[RankIn(obj, s)] = newShdrs[RankIn(obj, s)]
      BY <1>12, <2>1, <2>2
    <3>3. curAddr <= curAddr' /\ curAddr' \in Nat /\ curAddr \in Nat
      BY <1>1, <1>3, <1>5, <1>6
    <3>4. newShdrs[RankIn(obj, s)].addr \in Nat /\ obj.shdrs[s].size \in Nat
      BY <1>16, <2>2
    <3>5. /\ newShdrs[RankIn(obj, s)].addr + obj.shdrs[s].size <= curAddr
          /\ newShdrs[RankIn(obj, s)].addr < curAddr
      BY <3>1, Zenon DEF Below, Rank
    <3>6. /\ newShdrs[RankIn(obj, s)].addr + obj.shdrs[s].size <= curAddr'
          /\ newShdrs[RankIn(obj, s)].addr < curAddr'
      BY <3>3, <3>4, <3>5
    <3> QED
      BY <3>2, <3>6, Zenon
  <2>3. CASE s = i
    <3>1. /\ h.addr + old.size <= curAddr'
          /\ h.addr < curAddr'
      BY <1>2, <1>3, <1>4, <1>5, <1>6
    <3> QED
      BY <1>11, <2>3, <3>1 DEF old
  <2> QED
    BY <1>1, <1>8, <2>1, <2>2, <2>3
<1>20. HeadersUpTo(i)'
  <2>1. \A s \in KeptSections(obj) :
          IF s < i + 1 THEN HeaderMade(s)' ELSE newShdrs'[RankIn(obj, s)] = Uninitialised
    BY <1>1, <1>8, <1>15, <1>17
  <2>2. RankIn(obj, i + 1) - 1 = k
    BY <1>1
  <2> QED
    BY <1>3, <1>9, <1>10, <1>18, <2>1, <2>2 DEF HeadersUpTo, Below, Rank
<1>21. curAddr' >= FirstAddress /\ k' \in 0 .. newShnum
  BY <1>1, <1>3, <1>5, <1>6 DEF FirstAddress
<1>22. \A s \in KeptSections(obj) : s < i + 1 => Below(s, curAddr)'
  BY <1>3, <1>19 DEF Below, Rank
<1>23. k' = RankIn(obj, i + 1)
  BY <1>1, <1>3
<1> QED
  BY <1>3, <1>20, <1>21, <1>22, <1>23
  DEF InvHeaders, BeforeTables, BeforeCopy, AfterCopy, Ending, Rank

LEMMA HeadersFrame ==
  ASSUME NEW n, HeadersUpTo(n), UNCHANGED <<obj, newShnum, newShdrs>>
  PROVE  HeadersUpTo(n)'
  BY Zenon DEF HeadersUpTo, HeaderMade, Below, LinkOf, Rank

(* The steps that leave the headers and go from a phase to the same or to  *)
(* the end.                                                                *)
InTables == Load \/ MapSection \/ AllMapped \/ ReadSymbols \/ Exits
InBeforeCopy == RenumberSymbols \/ OpenOutput \/ WriteInitialHeader \/ SizeName
InAfterCopy ==
  \/ SkipUnrelocated \/ LoadTarget \/ ApplyRelocation \/ WriteTarget
  \/ AllRelocated \/ FindEntry \/ FinishHeader \/ WriteSectionHeader
ToEnding ==
  \/ OpenOutputFails \/ WriteInitialHeaderFails \/ CopyReadFails \/ CopyWriteFails
  \/ LoadTargetFails \/ WriteTargetFails \/ WriteSectionHeaderFails
  \/ RewriteHeader \/ RewriteHeaderFails \/ Cleanup
InCopy == CopyEmpty \/ CopySymbols \/ CopyNames \/ CopyContents

LEMMA NextPhases ==
  Next <=> \/ InTables \/ AllocateTables \/ InBeforeCopy \/ NamesSized
           \/ SkipRemoved \/ InCopy \/ AllCopied \/ InAfterCopy \/ ToEnding
  BY Zenon DEF Next, Preparation, Creation, Copy, Relocation, Completion, Exits,
     InTables, InBeforeCopy, InAfterCopy, ToEnding, InCopy

LEMMA InTablesFrame ==
  ASSUME InTables
  PROVE  /\ pc \in BeforeTables /\ pc' \in BeforeTables \cup {"failure"}
         /\ UNCHANGED <<obj, k, newShdrs>>
<1>1. UNCHANGED <<obj, k, newShdrs>>
  BY Zenon DEF InTables, Load, MapSection, AllMapped, ReadSymbols, Exits, LoadFails,
     ReadSymbolsFails, AllocateTablesFails, ExitFailure, tables, build
<1>2. pc \in BeforeTables /\ pc' \in BeforeTables \cup {"failure"}
  BY DEF InTables, Load, MapSection, AllMapped, ReadSymbols, Exits, LoadFails,
     ReadSymbolsFails, AllocateTablesFails, ExitFailure, Goto, BeforeTables
<1> QED
  BY <1>1, <1>2

LEMMA InBeforeCopyFrame ==
  ASSUME InBeforeCopy
  PROVE  /\ pc \in BeforeCopy /\ pc' \in BeforeCopy
         /\ UNCHANGED <<obj, k, newShnum, newShdrs>>
<1>1. UNCHANGED <<obj, k, newShnum, newShdrs>>
  BY Zenon DEF InBeforeCopy, RenumberSymbols, OpenOutput, WriteInitialHeader, SizeName,
     tables, build
<1>2. pc \in BeforeCopy /\ pc' \in BeforeCopy
  BY DEF InBeforeCopy, RenumberSymbols, OpenOutput, WriteInitialHeader, SizeName,
     Goto, BeforeCopy
<1> QED
  BY <1>1, <1>2

LEMMA InAfterCopyFrame ==
  ASSUME InAfterCopy
  PROVE  /\ pc \in AfterCopy /\ pc' \in AfterCopy
         /\ UNCHANGED <<obj, newShnum, newShdrs>>
<1>1. UNCHANGED <<obj, newShnum, newShdrs>>
  BY Zenon DEF InAfterCopy, SkipUnrelocated, LoadTarget, ApplyRelocation, WriteTarget,
     AllRelocated, FindEntry, FinishHeader, WriteSectionHeader, tables, build
<1>2. pc \in AfterCopy /\ pc' \in AfterCopy
  BY DEF InAfterCopy, SkipUnrelocated, LoadTarget, ApplyRelocation, WriteTarget,
     AllRelocated, FindEntry, FinishHeader, WriteSectionHeader, Relocating, TargetDone,
     Goto, AfterCopy
<1> QED
  BY <1>1, <1>2

LEMMA ToEndingFrame ==
  ASSUME ToEnding
  PROVE  /\ pc \in {"open", "header", "copy", "cleanup"} \cup AfterCopy
         /\ pc' \in Ending
         /\ UNCHANGED <<obj, k, newShnum, newShdrs>>
<1>1. UNCHANGED <<obj, k, newShnum, newShdrs>>
  BY Zenon DEF ToEnding, OpenOutputFails, WriteInitialHeaderFails, CopyReadFails,
     CopyWriteFails, LoadTargetFails, WriteTargetFails, WriteSectionHeaderFails,
     RewriteHeader, RewriteHeaderFails, Cleanup, WriteFails, GotoCleanup, tables, build
<1>2. /\ pc \in {"open", "header", "copy", "cleanup"} \cup AfterCopy
      /\ pc' \in Ending
  BY DEF ToEnding, OpenOutputFails, WriteInitialHeaderFails, CopyReadFails,
     CopyWriteFails, LoadTargetFails, WriteTargetFails, WriteSectionHeaderFails,
     RewriteHeader, RewriteHeaderFails, Cleanup, WriteFails, GotoCleanup,
     Copying, Relocating, TargetDone, Goto, AfterCopy, Ending
<1> QED
  BY <1>1, <1>2

LEMMA HeadersStep == ASSUME IInv, [Next]_vars PROVE InvHeaders'
<1>1. obj \in Objects /\ pc \in Places /\ i \in 0 .. obj.shnum /\ InvHeaders /\ InvMapping
  BY DEF IInv, InvTypes
<1>2. obj.shnum \in Nat /\ obj.shnum > 0 /\ newShnum \in 0 .. obj.shnum
      /\ k \in 0 .. newShnum
  BY <1>1, ObjectFacts DEF InvMapping, InvHeaders
<1>3. newShnum' \in 0 .. obj'.shnum
  BY MappingStep DEF InvMapping
<1>4. CASE UNCHANGED vars
  <2>1. UNCHANGED <<obj, pc, i, k, j, newShnum, newShdrs, curAddr>>
    BY <1>4, Zenon DEF vars, tables, build
  <2>2. \A n : HeadersUpTo(n) => HeadersUpTo(n)'
    BY <2>1, HeadersFrame
  <2>3. HeadersUpTo(i) => HeadersUpTo(i)'
    BY <2>1, Zenon DEF HeadersUpTo, HeaderMade, Below, LinkOf, Rank
  <2>4. HeadersUpTo(obj.shnum) => HeadersUpTo(obj.shnum)'
    BY <2>1, Zenon DEF HeadersUpTo, HeaderMade, Below, LinkOf, Rank
  <2>5. (\A s \in KeptSections(obj) : s < i => Below(s, curAddr))
          => (\A s \in KeptSections(obj) : s < i => Below(s, curAddr))'
    BY <2>1, Zenon DEF Below, Rank
  <2>6. (\E n \in 0 .. obj.shnum : HeadersUpTo(n))
          => (\E n \in 0 .. obj.shnum : HeadersUpTo(n))'
    BY <2>1, <2>2, Zenon
  <2>7. Rank(i)' = Rank(i) /\ (IsRel(obj, i)' <=> IsRel(obj, i))
    BY <2>1, Zenon DEF Rank, IsRel
  <2>8. HeadersUpTo(0) => HeadersUpTo(0)'
    BY <2>2, Zenon
  <2>9. InvHeaders
    BY <1>1
  <2> QED
    BY <2>1, <2>3, <2>4, <2>5, <2>6, <2>7, <2>8, <2>9, Zenon DEF InvHeaders
<1>5. CASE InTables
  <2>1. k = 0 /\ newShdrs = << >>
    BY <1>1, <1>5, InTablesFrame DEF InvHeaders
  <2>2. 0 \in 0 .. newShnum'
    BY <1>2, <1>3, <1>5, InTablesFrame
  <2> QED
    BY <1>5, <2>1, <2>2, InTablesFrame
    DEF InvHeaders, BeforeTables, BeforeCopy, AfterCopy, Ending
<1>6. CASE AllocateTables
  <2>1. /\ pc = "allocate" /\ pc' = "renumber" /\ k' = 0
        /\ newShdrs' = [n \in 0 .. (newShnum - 1) |-> Uninitialised]
        /\ UNCHANGED <<obj, newShnum>>
    BY <1>6, Zenon DEF AllocateTables, Goto, tables
  <2>2. newShnum = RankIn(obj, obj.shnum) /\ RankIn(obj, 0) = 0
    BY <1>1, <2>1, RankZero DEF InvMapping, Rank
  <2>3. \A s \in KeptSections(obj) :
          s \in Nat /\ RankIn(obj, s) \in 0 .. (newShnum - 1)
    <3>1. SUFFICES ASSUME NEW s \in KeptSections(obj)
                   PROVE  s \in Nat /\ RankIn(obj, s) \in 0 .. (newShnum - 1)
      OBVIOUS
    <3>2. s \in Nat /\ s < obj.shnum
      BY <1>2 DEF KeptSections, Sections
    <3> QED
      BY <1>1, <1>2, <2>2, <3>2, RankStrict, RankNat
  <2>4. newShdrs' \in [0 .. (newShnum - 1) -> OutputHeaders \cup {Uninitialised}]
    BY <2>1
  <2>5. \A m \in 0 .. (0 - 1) : newShdrs'[m] \in OutputHeaders
    OBVIOUS
  <2>6. \A s \in KeptSections(obj) : ~ (s < 0) /\ newShdrs'[RankIn(obj, s)] = Uninitialised
    BY <2>1, <2>3
  <2>7. HeadersUpTo(0)'
    BY <2>1, <2>2, <2>4, <2>5, <2>6 DEF HeadersUpTo, Rank
  <2> QED
    BY <1>2, <2>1, <2>7 DEF InvHeaders, BeforeTables, BeforeCopy, AfterCopy, Ending
<1>7. CASE InBeforeCopy
  <2>1. k = 0 /\ HeadersUpTo(0)
    BY <1>1, <1>7, InBeforeCopyFrame DEF InvHeaders
  <2>2. HeadersUpTo(0)'
    BY <1>7, <2>1, InBeforeCopyFrame, HeadersFrame
  <2> QED
    BY <1>2, <1>7, <2>1, <2>2, InBeforeCopyFrame
    DEF InvHeaders, BeforeTables, BeforeCopy, AfterCopy, Ending
<1>8. CASE NamesSized
  <2>1. /\ pc = "sizes" /\ pc' = "copy" /\ i' = 0 /\ curAddr' = FirstAddress
        /\ UNCHANGED <<obj, k, newShnum, newShdrs>>
    BY <1>8, Zenon DEF NamesSized, Goto, tables, build
  <2>2. k = 0 /\ HeadersUpTo(0) /\ RankIn(obj, 0) = 0
    BY <1>1, <2>1, RankZero DEF InvHeaders, BeforeCopy
  <2>3. \A s \in KeptSections(obj) : ~ (s < 0)
    BY <1>2 DEF KeptSections, Sections
  <2>4. HeadersUpTo(i)'
    BY <2>1, <2>2, Zenon DEF HeadersUpTo, HeaderMade, Below, LinkOf, Rank
  <2>5. k' = Rank(i)' /\ curAddr' >= FirstAddress
    BY <2>1, <2>2 DEF Rank, FirstAddress
  <2>6. \A s \in KeptSections(obj)' : s < i' => Below(s, curAddr)'
    BY <2>1, <2>3
  <2> QED
    BY <1>2, <2>1, <2>4, <2>5, <2>6
    DEF InvHeaders, BeforeTables, BeforeCopy, AfterCopy, Ending
<1>9. CASE SkipRemoved
  <2>1. /\ pc = "copy" /\ i < obj.shnum /\ mapping[i] = Removed /\ i' = i + 1
        /\ UNCHANGED <<obj, pc, k, newShnum, newShdrs, curAddr>>
    BY <1>9, Zenon DEF SkipRemoved, tables, build
  <2>2. i \in Sections(obj) /\ i \in Nat
    BY <1>1, <1>2, <2>1 DEF Sections
  <2>3. IsRel(obj, i)
    <3>1. mapping[i] = IF IsRel(obj, i) THEN Removed ELSE Rank(i)
      BY <1>1, <2>1, <2>2 DEF InvMapping, MappedTo
    <3>2. Rank(i) \in Nat
      BY <1>1, <2>2, RankNat DEF Rank
    <3> QED
      BY <2>1, <3>1, <3>2 DEF Removed
  <2>4. RankIn(obj, i + 1) = RankIn(obj, i)
    BY <1>1, <2>2, <2>3, RankStep, RankNat
  <2>5. /\ k = RankIn(obj, i) /\ HeadersUpTo(i) /\ curAddr >= FirstAddress
        /\ \A s \in KeptSections(obj) : s < i => Below(s, curAddr)
    BY <1>1, <2>1 DEF InvHeaders, Rank
  <2>6. \A s \in KeptSections(obj) : s < i + 1 <=> s < i
    <3>1. SUFFICES ASSUME NEW s \in KeptSections(obj) PROVE s < i + 1 <=> s < i
      OBVIOUS
    <3>2. s \in Nat /\ s # i
      BY <1>2, <2>3 DEF KeptSections, Sections
    <3> QED
      BY <2>2, <3>2
  <2>7. HeadersUpTo(i)'
    BY <2>1, <2>4, <2>5, <2>6, Zenon DEF HeadersUpTo, HeaderMade, Below, LinkOf, Rank
  <2>8. k' = Rank(i)' /\ curAddr' >= FirstAddress
    BY <2>1, <2>4, <2>5 DEF Rank
  <2>9. \A s \in KeptSections(obj)' : s < i' => Below(s, curAddr)'
    BY <2>1, <2>5, <2>6, Zenon DEF Below, Rank
  <2> QED
    BY <1>2, <2>1, <2>7, <2>8, <2>9
    DEF InvHeaders, BeforeTables, BeforeCopy, AfterCopy, Ending
<1>10. CASE InCopy
  <2>1. PICK h : Copying /\ MadeHeader(h) /\ AddHeader(obj.shdrs[i], h)
    BY <1>10, Zenon DEF InCopy, CopyEmpty, CopySymbols, CopyNames, CopyContents, MadeHeader
  <2> QED
    BY <2>1, CopiedHeaders
<1>11. CASE AllCopied
  <2>1. /\ pc = "copy" /\ pc' = "relocate" /\ i = obj.shnum
        /\ UNCHANGED <<obj, k, newShnum, newShdrs>>
    BY <1>11, Zenon DEF AllCopied, Goto, tables, build
  <2>2. HeadersUpTo(obj.shnum)
    BY <1>1, <2>1 DEF InvHeaders
  <2>3. HeadersUpTo(obj.shnum)'
    BY <2>1, <2>2, Zenon DEF HeadersUpTo, HeaderMade, Below, LinkOf, Rank
  <2> QED
    BY <1>2, <2>1, <2>3 DEF InvHeaders, BeforeTables, BeforeCopy, AfterCopy, Ending
<1>12. CASE InAfterCopy
  <2>1. HeadersUpTo(obj.shnum)
    BY <1>1, <1>12, InAfterCopyFrame DEF InvHeaders
  <2>2. HeadersUpTo(obj.shnum)'
    BY <1>12, <2>1, InAfterCopyFrame, Zenon
    DEF HeadersUpTo, HeaderMade, Below, LinkOf, Rank
  <2>3. k' \in 0 .. newShnum
    <3>1. k' = k \/ k' = 0 \/ (k' = k + 1 /\ k < newShnum)
      BY <1>12, Zenon DEF InAfterCopy, SkipUnrelocated, LoadTarget, ApplyRelocation,
         WriteTarget, AllRelocated, FindEntry, FinishHeader, WriteSectionHeader
    <3> QED
      BY <1>2, <3>1
  <2>4. pc' = "apply" => i' < obj.shnum /\ IsRel(obj, i') /\ j' >= 1
    <3>1. CASE LoadTarget
      <4>1. i' = i /\ j' = 1 /\ i < obj.shnum /\ IsRel(obj, i)
        BY <3>1, Zenon DEF LoadTarget, Relocating
      <4> QED
        BY <4>1
    <3>2. CASE ApplyRelocation
      <4>1. i' = i /\ j' = j + 1 /\ pc = "apply"
        BY <3>2, Zenon DEF ApplyRelocation
      <4>2. i < obj.shnum /\ IsRel(obj, i) /\ j >= 1 /\ j \in Nat
        BY <1>1, <4>1 DEF InvHeaders, IInv, InvTypes
      <4> QED
        BY <4>1, <4>2
    <3>3. CASE ~ (LoadTarget \/ ApplyRelocation)
      BY <1>12, <3>3 DEF InAfterCopy, SkipUnrelocated, WriteTarget, AllRelocated, FindEntry,
         FinishHeader, WriteSectionHeader, Goto
    <3> QED
      BY <3>1, <3>2, <3>3
  <2>5. IsRel(obj, i)' <=> IsRel(obj, i')
    BY <1>12, InAfterCopyFrame DEF IsRel
  <2> QED
    BY <1>12, <2>2, <2>3, <2>4, <2>5, InAfterCopyFrame
    DEF InvHeaders, BeforeTables, BeforeCopy, AfterCopy, Ending
<1>13. CASE ToEnding
  <2>1. PICK n \in 0 .. obj.shnum : HeadersUpTo(n)
    <3>1. 0 \in 0 .. obj.shnum /\ obj.shnum \in 0 .. obj.shnum
      BY <1>2
    <3> QED
      BY <1>1, <1>13, <3>1, ToEndingFrame DEF InvHeaders, BeforeCopy, Ending
  <2>2. HeadersUpTo(n)'
    BY <1>13, <2>1, ToEndingFrame, HeadersFrame
  <2>3. \E m \in 0 .. obj'.shnum : HeadersUpTo(m)'
    BY <1>13, <2>1, <2>2, ToEndingFrame
  <2> QED
    BY <1>2, <1>13, <2>3, ToEndingFrame
    DEF InvHeaders, BeforeTables, BeforeCopy, AfterCopy, Ending
<1> QED
  BY <1>4, <1>5, <1>6, <1>7, <1>8, <1>9, <1>10, <1>11, <1>12, <1>13, NextPhases

-----------------------------------------------------------------------------
(***************************************************************************)
(* The symbols.                                                            *)
(***************************************************************************)
LEMMA RenumberedFacts ==
  ASSUME IInv, pc = "renumber", NEW x \in DOMAIN obj.syms
  PROVE  /\ Renumbered(obj.syms[x].shndx) = ShndxOf(x)
         /\ ShndxOf(x) \in Nat
<1> DEFINE old == obj.syms[x].shndx
<1>1. obj \in Objects /\ MappedTo(obj.shnum)
  BY DEF IInv, InvTypes, InvMapping
<1>2. obj.shnum \in Nat
  BY <1>1, ObjectFacts
<1>3. old \in Nat
  BY <1>1, ObjectFacts DEF Symbols
<1>4. CASE old < obj.shnum
  <2>1. old \in Sections(obj)
    BY <1>2, <1>3, <1>4 DEF Sections
  <2>2. mapping[old] = IF IsRel(obj, old) THEN Removed ELSE Rank(old)
    BY <1>1, <1>4, <2>1 DEF MappedTo
  <2>3. Rank(old) \in Nat
    BY <1>1, <1>3, RankNat DEF Rank
  <2> HIDE DEF old
  <2>4. CASE IsRel(obj, old)
    BY <1>3, <1>4, <2>1, <2>2, <2>4 DEF Renumbered, ShndxOf, KeptSections, SHN_UNDEF, old
  <2>5. CASE ~ IsRel(obj, old)
    BY <1>4, <2>1, <2>2, <2>3, <2>5 DEF Renumbered, ShndxOf, KeptSections, Removed, old
  <2> QED
    BY <2>4, <2>5
<1>5. CASE ~ (old < obj.shnum)
  <2>1. old \notin KeptSections(obj)
    BY <1>2, <1>5 DEF KeptSections, Sections
  <2> QED
    BY <1>3, <1>5, <2>1 DEF Renumbered, ShndxOf, SHN_UNDEF
<1> QED
  BY <1>4, <1>5

(* update_symbol_addresses changes values only.                            *)
LEMMA UpdatedFacts ==
  ASSUME NEW hdrs, NEW ns, NEW junk, obj \in Objects,
         newShnum \in Nat,
         hdrs \in [0 .. (newShnum - 1) -> OutputHeaders \cup {Uninitialised}],
         syms \in [DOMAIN obj.syms -> Symbols]
  PROVE  /\ UpdatedSymbols(hdrs, ns, junk) \in [DOMAIN obj.syms -> Symbols]
         /\ \A x \in DOMAIN obj.syms :
              UpdatedSymbols(hdrs, ns, junk)[x].shndx = syms[x].shndx
<1> DEFINE new == UpdatedSymbols(hdrs, ns, junk)
<1>1. DOMAIN syms = DOMAIN obj.syms /\ DOMAIN new = DOMAIN obj.syms
  BY DEF UpdatedSymbols
<1>2. \A x \in DOMAIN obj.syms : new[x] \in Symbols /\ new[x].shndx = syms[x].shndx
  <2>1. SUFFICES ASSUME NEW x \in DOMAIN obj.syms
                 PROVE  new[x] \in Symbols /\ new[x].shndx = syms[x].shndx
    OBVIOUS
  <2> DEFINE n == syms[x].shndx
             add == IF n = SHN_UNDEF \/ n = SHN_ABS \/ n >= newShnum THEN 0
                    ELSE IF hdrs[n] = Uninitialised
                      THEN IF x \in junk THEN JunkAddress ELSE 0
                    ELSE IF hdrs[n].alloc /\ \E str \in RelocatedNames : HasName(hdrs[n], ns, str)
                      THEN hdrs[n].addr
                    ELSE 0
  <2>2. syms[x] \in Symbols /\ n \in Nat /\ syms[x].value \in Nat
    BY DEF Symbols
  <2>3. ~ (n >= newShnum) /\ hdrs[n] # Uninitialised => hdrs[n].addr \in Nat
    <3>1. SUFFICES ASSUME ~ (n >= newShnum), hdrs[n] # Uninitialised PROVE hdrs[n].addr \in Nat
      OBVIOUS
    <3>2. hdrs[n] \in OutputHeaders
      BY <2>2, <3>1
    <3> QED
      BY <3>2 DEF OutputHeaders
  <2>4. JunkAddress \in Nat
    BY JunkAssumption
  <2>5. add \in Nat
    BY <2>3, <2>4
  <2>6. new[x] = IF n = SHN_UNDEF \/ n = SHN_ABS \/ n >= newShnum THEN syms[x]
                 ELSE IF hdrs[n] = Uninitialised
                   THEN [syms[x] EXCEPT !.value = @ + IF x \in junk THEN JunkAddress ELSE 0]
                 ELSE IF hdrs[n].alloc
                           /\ \E str \in RelocatedNames : HasName(hdrs[n], ns, str)
                   THEN [syms[x] EXCEPT !.value = @ + hdrs[n].addr]
                 ELSE syms[x]
    BY <1>1, Zenon DEF UpdatedSymbols
  <2>7. new[x] = syms[x] \/ new[x] = [syms[x] EXCEPT !.value = @ + add]
    BY <2>6, Zenon
  <2> HIDE DEF new, add, n
  <2> QED
    BY <2>2, <2>5, <2>7 DEF Symbols
<1> HIDE DEF new
<1>3. new \in [DOMAIN obj.syms -> Symbols]
  <2>1. new = [x \in DOMAIN obj.syms |-> new[x]]
    BY <1>1 DEF UpdatedSymbols, new
  <2> QED
    BY <1>2, <2>1
<1> QED
  BY <1>2, <1>3 DEF new

(* The steps that neither read nor write the symbols.                      *)
SymbolsKept ==
  \/ OpenOutput \/ WriteInitialHeader \/ SizeName \/ NamesSized
  \/ SkipRemoved \/ CopyEmpty \/ CopyNames \/ CopyContents \/ AllCopied
  \/ InAfterCopy \/ ToEnding

LEMMA SymbolsKeptFrame ==
  ASSUME SymbolsKept
  PROVE  /\ pc \notin BeforeTables \cup {"renumber", "failure"}
         /\ pc' \notin BeforeTables \cup {"renumber", "failure"}
         /\ UNCHANGED <<obj, newShnum, mapping, syms>>
<1>1. CASE OpenOutput \/ WriteInitialHeader \/ SizeName \/ NamesSized
  BY <1>1 DEF OpenOutput, WriteInitialHeader, SizeName, NamesSized, Goto, tables, build,
     BeforeTables
<1>2. CASE SkipRemoved \/ AllCopied
  BY <1>2 DEF SkipRemoved, AllCopied, Goto, tables, build, BeforeTables
<1>3. CASE CopyEmpty \/ CopyNames \/ CopyContents
  <2>1. PICK h : Copying /\ AddHeader(obj.shdrs[i], h) /\ UNCHANGED syms
    BY <1>3, Zenon DEF CopyEmpty, CopyNames, CopyContents
  <2>2. pc = "copy" /\ pc' = pc /\ UNCHANGED <<obj, newShnum, mapping, syms>>
    BY <2>1, Zenon DEF Copying, AddHeader, tables
  <2> QED
    BY <2>2 DEF BeforeTables
<1>4. CASE InAfterCopy
  <2>1. UNCHANGED <<obj, newShnum, mapping, syms>>
    BY <1>4, Zenon DEF InAfterCopy, SkipUnrelocated, LoadTarget, ApplyRelocation,
       WriteTarget, AllRelocated, FindEntry, FinishHeader, WriteSectionHeader, tables, build
  <2> QED
    BY <1>4, <2>1, InAfterCopyFrame DEF AfterCopy, BeforeTables
<1>5. CASE ToEnding
  <2>1. UNCHANGED <<obj, newShnum, mapping, syms>>
    BY <1>5, Zenon DEF ToEnding, OpenOutputFails, WriteInitialHeaderFails, CopyReadFails,
       CopyWriteFails, LoadTargetFails, WriteTargetFails, WriteSectionHeaderFails,
       RewriteHeader, RewriteHeaderFails, Cleanup, WriteFails, GotoCleanup, tables, build
  <2> QED
    BY <1>5, <2>1, ToEndingFrame DEF AfterCopy, BeforeTables, Ending
<1> QED
  BY <1>1, <1>2, <1>3, <1>4, <1>5, Zenon DEF SymbolsKept

LEMMA SymbolsStep == ASSUME IInv, [Next]_vars PROVE InvSymbols'
<1>1. obj \in Objects /\ pc \in Places /\ InvSymbols
  BY DEF IInv, InvTypes
<1>2. obj.syms \in [DOMAIN obj.syms -> Symbols]
  BY <1>1, ObjectFacts
<1>3. CASE UNCHANGED vars
  <2>1. UNCHANGED <<obj, pc, syms>>
    BY <1>3, Zenon DEF vars, build
  <2> QED
    BY <1>1, <2>1, Zenon DEF InvSymbols, ShndxOf, Rank
<1>4. CASE InTables
  <2>1. CASE ReadSymbols
    <3>1. pc' = "allocate" /\ syms' = obj.syms /\ obj' = obj
      BY <2>1, Zenon DEF ReadSymbols, Goto
    <3> QED
      BY <3>1 DEF InvSymbols, BeforeTables
  <2>2. CASE Load \/ MapSection \/ AllMapped \/ Exits
    <3>1. UNCHANGED <<obj, syms>>
      BY <2>2, Zenon DEF Load, MapSection, AllMapped, Exits, LoadFails, ReadSymbolsFails,
         AllocateTablesFails, ExitFailure, build
    <3>2. pc' \in {"map", "symbols", "failure"}
      BY <2>2 DEF Load, MapSection, AllMapped, Exits, LoadFails, ReadSymbolsFails,
         AllocateTablesFails, ExitFailure, Goto
    <3>3. syms \in {<< >>} \cup [DOMAIN obj.syms -> Symbols]
      BY <1>1, <1>2, <1>4, InTablesFrame DEF InvSymbols, BeforeTables
    <3> QED
      BY <3>1, <3>2, <3>3 DEF InvSymbols, BeforeTables
  <2> QED
    BY <1>4, <2>1, <2>2, Zenon DEF InTables
<1>5. CASE AllocateTables
  <2>1. pc = "allocate" /\ pc' = "renumber" /\ UNCHANGED <<obj, syms>>
    BY <1>5, Zenon DEF AllocateTables, Goto
  <2> QED
    BY <1>1, <2>1 DEF InvSymbols, BeforeTables
<1>6. CASE RenumberSymbols
  <2>1. /\ pc = "renumber" /\ pc' = "open" /\ obj' = obj
        /\ syms' = [x \in DOMAIN syms |->
                      [syms[x] EXCEPT !.shndx = Renumbered(syms[x].shndx)]]
    BY <1>6, Zenon DEF RenumberSymbols, Goto
  <2>2. syms = obj.syms
    BY <1>1, <2>1 DEF InvSymbols
  <2>3. \A x \in DOMAIN obj.syms :
          Renumbered(obj.syms[x].shndx) = ShndxOf(x) /\ ShndxOf(x) \in Nat
    BY <2>1, RenumberedFacts
  <2>4. \A x \in DOMAIN obj.syms :
          syms'[x] \in Symbols /\ syms'[x].shndx = ShndxOf(x)
    <3>1. SUFFICES ASSUME NEW x \in DOMAIN obj.syms
                   PROVE  syms'[x] \in Symbols /\ syms'[x].shndx = ShndxOf(x)
      OBVIOUS
    <3>2. syms'[x] = [obj.syms[x] EXCEPT !.shndx = ShndxOf(x)]
      BY <2>1, <2>2, <2>3, Zenon
    <3>3. obj.syms[x] \in Symbols /\ ShndxOf(x) \in Nat
      BY <1>2, <2>3
    <3> QED
      BY <3>2, <3>3 DEF Symbols
  <2>5. syms' \in [DOMAIN obj.syms -> Symbols]
    BY <2>1, <2>2, <2>4
  <2>6. \A x \in DOMAIN obj.syms : ShndxOf(x)' = ShndxOf(x)
    BY <2>1, Zenon DEF ShndxOf, Rank
  <2> QED
    BY <2>1, <2>4, <2>5, <2>6 DEF InvSymbols, BeforeTables
<1>7. CASE CopySymbols
  <2>1. Copying /\ AddHeader(obj.shdrs[i], NewHeader(obj.shdrs[i]))
    BY <1>7, Zenon DEF CopySymbols
  <2>2. pc = "copy" /\ pc' = "copy" /\ obj' = obj /\ newShnum' = newShnum
    BY <2>1, Zenon DEF Copying, AddHeader, tables
  <2>3. PICK junk : syms' = UpdatedSymbols(newShdrs', names', junk)
    BY <1>7, Zenon DEF CopySymbols
  <2>4. newShdrs' \in [0 .. (newShnum - 1) -> OutputHeaders \cup {Uninitialised}]
    <3>1. InvHeaders'
      BY <2>1, CopiedHeaders DEF MadeHeader
    <3> QED
      BY <2>2, <3>1 DEF InvHeaders, HeadersUpTo
  <2>5. /\ syms \in [DOMAIN obj.syms -> Symbols]
        /\ \A x \in DOMAIN obj.syms : syms[x].shndx = ShndxOf(x)
    BY <1>1, <2>2 DEF InvSymbols, BeforeTables
  <2>6. newShnum \in Nat
    BY <2>1, CopyingFacts
  <2>7. /\ syms' \in [DOMAIN obj.syms -> Symbols]
        /\ \A x \in DOMAIN obj.syms : syms'[x].shndx = syms[x].shndx
    BY <1>1, <2>3, <2>4, <2>5, <2>6, UpdatedFacts
  <2>8. \A x \in DOMAIN obj.syms : ShndxOf(x)' = ShndxOf(x)
    BY <2>2, Zenon DEF ShndxOf, Rank
  <2> QED
    BY <2>2, <2>5, <2>7, <2>8 DEF InvSymbols, BeforeTables
<1>8. CASE SymbolsKept
  <2>1. /\ syms \in [DOMAIN obj.syms -> Symbols]
        /\ \A x \in DOMAIN obj.syms : syms[x].shndx = ShndxOf(x)
    BY <1>1, <1>8, SymbolsKeptFrame DEF InvSymbols
  <2>2. \A x \in DOMAIN obj.syms : ShndxOf(x)' = ShndxOf(x)
    BY <1>8, SymbolsKeptFrame, Zenon DEF ShndxOf, Rank
  <2> QED
    BY <1>8, <2>1, <2>2, SymbolsKeptFrame DEF InvSymbols, BeforeTables
<1> QED
  BY <1>3, <1>4, <1>5, <1>6, <1>7, <1>8, NextPhases, Zenon
  DEF InBeforeCopy, InCopy, SymbolsKept

-----------------------------------------------------------------------------
(***************************************************************************)
(* The output file.                                                        *)
(***************************************************************************)
LEMMA ObjectStays == ASSUME [Next]_vars PROVE obj' = obj
<1>1. CASE UNCHANGED vars
  BY <1>1, Zenon DEF vars
<1>2. CASE Load \/ MapSection \/ AllMapped
  BY <1>2, Zenon DEF Load, MapSection, AllMapped
<1>3. CASE Exits
  BY <1>3, ExitFrame
<1>4. CASE Later
  BY <1>4, LaterFrame
<1> QED
  BY <1>1, <1>2, <1>3, <1>4, NextParts

(* What the program writes.                                                *)
LEMMA WhatsFacts ==
  /\ \A h \in ElfHeaders : Ehdr(h) \in Whats
  /\ \A h \in OutputHeaders : Shdr(h) \in Whats
  /\ \A s \in Nat : \A ws \in SUBSET Words : Contents(s, ws) \in Whats
  /\ \A s \in Nat : \A ss \in [DOMAIN obj.syms -> Symbols] : SymbolTable(s, ss) \in Whats
  /\ \A s \in Nat : \A ns \in SUBSET NameEntries : NameTable(s, ns) \in Whats
  /\ Torn \in Whats
<1>1. \A h \in ElfHeaders : Ehdr(h) \in [kind : {"ehdr"}, header : ElfHeaders]
  BY DEF Ehdr
<1>2. \A h \in OutputHeaders : Shdr(h) \in [kind : {"shdr"}, header : OutputHeaders]
  BY DEF Shdr
<1>3. \A s \in Nat : \A ws \in SUBSET Words :
        Contents(s, ws) \in [kind : {"contents"}, of : Nat, words : SUBSET Words]
  BY DEF Contents
<1>4. ASSUME NEW T
      PROVE  \A s \in Nat : \A ss \in T :
               SymbolTable(s, ss) \in [kind : {"symbols"}, of : Nat, syms : T]
  BY DEF SymbolTable
<1>5. \A s \in Nat : \A ns \in SUBSET NameEntries :
        NameTable(s, ns) \in [kind : {"names"}, of : Nat, names : SUBSET NameEntries]
  BY DEF NameTable
<1> QED
  BY <1>1, <1>2, <1>3, <1>4, <1>5, Zenon DEF Whats

LEMMA WriteFailsTyped ==
  ASSUME NEW at \in Nat, NEW len \in Nat, out \in Files, WriteFails(at, len)
  PROVE  out' \in Files
<1>1. out' \in {out, Written(out, at, len, Torn)}
  BY Zenon DEF WriteFails
<1>2. Written(out, at, len, Torn) \in Files
  BY WhatsFacts, WrittenTyped
<1> QED
  BY <1>1, <1>2

(* The steps that leave the output file.                                   *)
OutputKept ==
  \/ InTables \/ AllocateTables \/ RenumberSymbols \/ SizeName \/ NamesSized
  \/ OpenOutputFails \/ SkipRemoved \/ CopyEmpty \/ CopyReadFails \/ AllCopied
  \/ SkipUnrelocated \/ LoadTarget \/ LoadTargetFails \/ ApplyRelocation
  \/ AllRelocated \/ FindEntry \/ FinishHeader \/ Cleanup

OutputWritten ==
  \/ OpenOutput \/ WriteInitialHeader \/ CopySymbols \/ CopyNames \/ CopyContents
  \/ WriteTarget \/ WriteSectionHeader \/ RewriteHeader

OutputTorn ==
  \/ WriteInitialHeaderFails \/ CopyWriteFails \/ WriteTargetFails
  \/ WriteSectionHeaderFails \/ RewriteHeaderFails

LEMMA OutputKeptFrame ==
  ASSUME OutputKept
  PROVE  out' = out /\ (pc' \in BeforeOutput => pc \in BeforeOutput)
<1>1. CASE InTables
  <2>1. out' = out
    BY <1>1, Zenon DEF InTables, Load, MapSection, AllMapped, ReadSymbols, Exits,
       LoadFails, ReadSymbolsFails, AllocateTablesFails, ExitFailure
  <2> QED
    BY <1>1, <2>1, InTablesFrame DEF BeforeOutput
<1>2. CASE CopyEmpty
  <2>1. Copying /\ AddHeader(obj.shdrs[i], NewHeader(obj.shdrs[i])) /\ out' = out
    BY <1>2, Zenon DEF CopyEmpty
  <2>2. pc = "copy" /\ pc' = pc
    BY <2>1, Zenon DEF Copying, AddHeader
  <2> QED
    BY <2>1, <2>2
<1>3. CASE OutputKept /\ ~ InTables /\ ~ CopyEmpty
  <2>1. out' = out
    BY <1>3, Zenon DEF OutputKept, AllocateTables, RenumberSymbols, SizeName, NamesSized,
       OpenOutputFails, SkipRemoved, CopyReadFails, AllCopied, SkipUnrelocated, LoadTarget,
       LoadTargetFails, ApplyRelocation, AllRelocated, FindEntry, FinishHeader, Cleanup
  <2>2. pc' \in BeforeOutput => pc \in BeforeOutput
    BY <1>3 DEF OutputKept, AllocateTables, RenumberSymbols, SizeName, NamesSized,
       OpenOutputFails, SkipRemoved, CopyReadFails, AllCopied, SkipUnrelocated, LoadTarget,
       LoadTargetFails, ApplyRelocation, AllRelocated, FindEntry, FinishHeader, Cleanup,
       GotoCleanup, Goto, BeforeOutput, BeforeTables
  <2> QED
    BY <2>1, <2>2
<1> QED
  BY <1>1, <1>2, <1>3, Zenon

LEMMA OutputWrittenPlace == ASSUME OutputWritten PROVE pc' \notin BeforeOutput
<1>1. CASE CopySymbols \/ CopyNames \/ CopyContents
  <2>1. PICK h : Copying /\ AddHeader(obj.shdrs[i], h)
    BY <1>1, Zenon DEF CopySymbols, CopyNames, CopyContents
  <2>2. pc = "copy" /\ pc' = pc
    BY <2>1, Zenon DEF Copying, AddHeader
  <2> QED
    BY <2>2 DEF BeforeOutput, BeforeTables
<1>2. CASE OpenOutput \/ WriteInitialHeader \/ WriteTarget \/ WriteSectionHeader \/ RewriteHeader
  BY <1>2 DEF OpenOutput, WriteInitialHeader, WriteTarget, WriteSectionHeader,
     RewriteHeader, Goto, BeforeOutput, BeforeTables
<1> QED
  BY <1>1, <1>2, Zenon DEF OutputWritten

LEMMA OutputTornPlace == ASSUME OutputTorn PROVE pc' \notin BeforeOutput
  BY DEF OutputTorn, WriteInitialHeaderFails, CopyWriteFails, WriteTargetFails,
     WriteSectionHeaderFails, RewriteHeaderFails, WriteFails, GotoCleanup, Goto,
     BeforeOutput, BeforeTables

(* Where the section a SHT_REL section patches is, and how long.           *)
LEMMA TargetFacts ==
  ASSUME IInv, TargetDone
  PROVE  /\ TargetOf(i) \in Nat
         /\ TargetOffset(i) \in Nat
         /\ obj.shdrs[TargetOf(i)].size \in Nat
<1>1. /\ obj \in Objects /\ pc = "apply" /\ i \in 0 .. obj.shnum
      /\ i < obj.shnum /\ IsRel(obj, i) /\ HeadersUpTo(obj.shnum) /\ MappedTo(obj.shnum)
  BY DEF TargetDone, IInv, InvTypes, InvHeaders, InvMapping, AfterCopy
<1>2. obj.shnum \in Nat /\ obj.shdrs \in [Sections(obj) -> InputHeaders]
  BY <1>1, ObjectFacts
<1>3. i \in Sections(obj)
  BY <1>1, <1>2 DEF Sections
<1>4. TargetOf(i) \in KeptSections(obj)
  BY <1>1, <1>3, RelFacts DEF TargetOf
<1>5. TargetOf(i) \in Sections(obj) /\ TargetOf(i) \in Nat /\ TargetOf(i) < obj.shnum
      /\ ~ IsRel(obj, TargetOf(i))
  BY <1>2, <1>4 DEF KeptSections, Sections
<1>6. mapping[TargetOf(i)] = Rank(TargetOf(i)) /\ HeaderMade(TargetOf(i))
  BY <1>1, <1>4, <1>5 DEF MappedTo, HeadersUpTo
<1>7. TargetOffset(i) \in Nat
  BY <1>6 DEF TargetOffset, HeaderMade, OutputHeaders
<1>8. obj.shdrs[TargetOf(i)] \in InputHeaders
  BY <1>2, <1>5
<1> QED
  BY <1>5, <1>7, <1>8 DEF InputHeaders

LEMMA OutputStep == ASSUME IInv, [Next]_vars PROVE InvOutput'
<1>1. obj \in Objects /\ InvOutput /\ out \in Files /\ hdr \in ElfHeaders
      /\ target \subseteq Words
  BY DEF IInv, InvTypes, InvOutput
<1>2. Files' = Files
  BY ObjectStays, Zenon DEF Files, Whats
<1>3. out.end \in Nat
  BY <1>1 DEF Files
<1>4. CASE UNCHANGED vars
  <2>1. UNCHANGED <<pc, out>>
    BY <1>4, Zenon DEF vars
  <2> QED
    BY <1>1, <1>2, <2>1, Zenon DEF InvOutput
<1>5. CASE OutputKept
  BY <1>1, <1>2, <1>5, OutputKeptFrame, Zenon DEF InvOutput
<1>6. Copying => i \in Nat /\ obj.shdrs[i].size \in Nat
  BY CopyingFacts DEF InputHeaders
<1>7. CASE OutputWritten
  <2>1. ASSUME OpenOutput PROVE out' \in Files
    BY <2>1 DEF OpenOutput, EmptyFile, Files
  <2>2. ASSUME WriteInitialHeader PROVE out' \in Files
    <3>1. out' = Written(out, 0, EhdrSize, Ehdr(hdr))
      BY <2>2, Zenon DEF WriteInitialHeader
    <3>2. EhdrSize \in Nat /\ 0 \in Nat
      BY DEF EhdrSize
    <3> QED
      BY <1>1, <3>1, <3>2, WhatsFacts, WrittenTyped
  <2>3. ASSUME CopySymbols PROVE out' \in Files
    <3>1. /\ Copying /\ AddHeader(obj.shdrs[i], NewHeader(obj.shdrs[i]))
          /\ out' = Written(out, out.end, obj.shdrs[i].size, SymbolTable(i, syms'))
      BY <2>3, Zenon DEF CopySymbols
    <3>2. pc' = "copy" /\ obj' = obj
      BY <3>1, Zenon DEF Copying, AddHeader
    <3>3. syms' \in [DOMAIN obj.syms -> Symbols]
      BY <3>2, SymbolsStep DEF InvSymbols, BeforeTables
    <3> QED
      BY <1>1, <1>3, <1>6, <3>1, <3>3, WhatsFacts, WrittenTyped
  <2>4. ASSUME CopyNames PROVE out' \in Files
    <3>1. /\ Copying
          /\ out' = Written(out, out.end, namesSize', NameTable(i, names'))
      BY <2>4, Zenon DEF CopyNames
    <3>2. names' \in SUBSET NameEntries /\ namesSize' \in Nat
      BY TypesStep DEF InvTypes
    <3> QED
      BY <1>1, <1>3, <1>6, <3>1, <3>2, WhatsFacts, WrittenTyped
  <2>5. ASSUME CopyContents PROVE out' \in Files
    <3>1. /\ Copying
          /\ out' = Written(out, out.end, obj.shdrs[i].size, Contents(i, {}))
      BY <2>5, Zenon DEF CopyContents
    <3>2. {} \in SUBSET Words
      OBVIOUS
    <3> QED
      BY <1>1, <1>3, <1>6, <3>1, <3>2, WhatsFacts, WrittenTyped
  <2>6. ASSUME WriteTarget PROVE out' \in Files
    <3>1. /\ TargetDone
          /\ out' = Written(out, TargetOffset(i), obj.shdrs[TargetOf(i)].size,
                            Contents(TargetOf(i), target))
      BY <2>6, Zenon DEF WriteTarget
    <3> QED
      BY <1>1, <3>1, TargetFacts, WhatsFacts, WrittenTyped
  <2>7. ASSUME WriteSectionHeader PROVE out' \in Files
    <3>1. /\ pc = "table" /\ k < newShnum
          /\ out' = Written(out, out.end, ShdrSize, Shdr(newShdrs[k]))
      BY <2>7, Zenon DEF WriteSectionHeader
    <3>2. HeadersUpTo(obj.shnum) /\ newShnum = Rank(obj.shnum)
          /\ k \in 0 .. newShnum /\ newShnum \in 0 .. obj.shnum /\ obj.shnum \in Nat
      BY <1>1, <3>1, ObjectFacts DEF IInv, InvHeaders, InvMapping, AfterCopy
    <3>3. k \in 0 .. (Rank(obj.shnum) - 1)
      BY <3>1, <3>2
    <3>4. newShdrs[k] \in OutputHeaders
      BY <3>2, <3>3 DEF HeadersUpTo
    <3>5. ShdrSize \in Nat
      BY DEF ShdrSize
    <3> QED
      BY <1>1, <1>3, <3>1, <3>4, <3>5, WhatsFacts, WrittenTyped
  <2>8. ASSUME RewriteHeader PROVE out' \in Files
    <3>1. out' = Written(out, 0, EhdrSize, Ehdr(hdr))
      BY <2>8, Zenon DEF RewriteHeader
    <3>2. EhdrSize \in Nat /\ 0 \in Nat
      BY DEF EhdrSize
    <3> QED
      BY <1>1, <3>1, <3>2, WhatsFacts, WrittenTyped
  <2>9. out' \in Files
    BY <1>7, <2>1, <2>2, <2>3, <2>4, <2>5, <2>6, <2>7, <2>8, Zenon DEF OutputWritten
  <2> QED
    BY <1>2, <1>7, <2>9, OutputWrittenPlace, Zenon DEF InvOutput
<1>8. CASE OutputTorn
  <2>1. EhdrSize \in Nat /\ ShdrSize \in Nat /\ 0 \in Nat
    BY DEF EhdrSize, ShdrSize
  <2>2. ASSUME WriteInitialHeaderFails \/ RewriteHeaderFails PROVE out' \in Files
    BY <1>1, <2>1, <2>2, WriteFailsTyped DEF WriteInitialHeaderFails, RewriteHeaderFails
  <2>3. ASSUME CopyWriteFails PROVE out' \in Files
    BY <1>1, <1>3, <1>6, <2>3, WriteFailsTyped DEF CopyWriteFails
  <2>4. ASSUME WriteTargetFails PROVE out' \in Files
    BY <1>1, <2>4, TargetFacts, WriteFailsTyped DEF WriteTargetFails
  <2>5. ASSUME WriteSectionHeaderFails PROVE out' \in Files
    BY <1>1, <1>3, <2>1, <2>5, WriteFailsTyped DEF WriteSectionHeaderFails
  <2>6. out' \in Files
    BY <1>8, <2>2, <2>3, <2>4, <2>5, Zenon DEF OutputTorn
  <2> QED
    BY <1>2, <1>8, <2>6, OutputTornPlace, Zenon DEF InvOutput
<1> QED
  BY <1>4, <1>5, <1>7, <1>8, NextPhases, Zenon
  DEF InBeforeCopy, InAfterCopy, ToEnding, InCopy, OutputKept, OutputWritten, OutputTorn

-----------------------------------------------------------------------------
(***************************************************************************)
(* The theorems.                                                           *)
(***************************************************************************)

(* The invariant holds of every behaviour: the headers and the symbols of  *)
(* the tables under construction are those of the sections the copy loop   *)
(* of create_new_elf_file_without_rel has reached.                         *)
THEOREM Invariance == Spec => []IInv
<1>1. Init => IInv
  BY InvInit
<1>2. IInv /\ [Next]_vars => IInv'
  BY TypesStep, MappingStep, SymbolsStep, HeadersStep, OutputStep DEF IInv
<1> QED
  BY <1>1, <1>2, PTL DEF Spec

(* Every kept section the copy loop has passed has its header made; the    *)
(* others have none.                                                       *)
LEMMA CopiedFacts ==
  ASSUME IInv, NEW s \in Copied
  PROVE  HeaderMade(s) /\ \A t \in Copied : s < t => Below(s, newShdrs[Rank(t)].addr)
<1>1. obj \in Objects /\ pc \in Places /\ InvHeaders
  BY DEF IInv, InvTypes
<1>2. obj.shnum \in Nat
  BY <1>1, ObjectFacts
<1>3. /\ s \in KeptSections(obj) /\ Rank(s) \in DOMAIN newShdrs
      /\ newShdrs[Rank(s)] # Uninitialised
  BY DEF Copied
<1>4. PICK n \in 0 .. obj.shnum : HeadersUpTo(n)
  <2>1. CASE pc \in BeforeTables \cup {"failure"}
    BY <1>1, <1>3, <2>1 DEF InvHeaders
  <2>2. CASE pc \in BeforeCopy
    BY <1>1, <1>2, <2>2 DEF InvHeaders
  <2>3. CASE pc = "copy"
    BY <1>1, <2>3 DEF InvHeaders, IInv, InvTypes
  <2>4. CASE pc \in AfterCopy
    BY <1>1, <1>2, <2>4 DEF InvHeaders
  <2>5. CASE pc \in Ending
    BY <1>1, <2>5 DEF InvHeaders
  <2> QED
    BY <1>1, <2>1, <2>2, <2>3, <2>4, <2>5
    DEF Places, BeforeTables, BeforeCopy, AfterCopy, Ending
<1>5. \A t \in Copied : t < n /\ HeaderMade(t)
  BY <1>4 DEF HeadersUpTo, Copied
<1> QED
  BY <1>4, <1>5 DEF HeadersUpTo, Copied

(* Type correctness: no index leaves its table, no uninitialised header    *)
(* reaches the file (process_rel.c:243-513).                               *)
THEOREM TypeCorrect == Spec => []TypeOK
<1>1. IInv => TypeOK
  <2> SUFFICES ASSUME IInv PROVE TypeOK
    OBVIOUS
  <2>1. InvTypes /\ InvMapping /\ InvSymbols /\ InvHeaders /\ InvOutput
    BY DEF IInv
  <2>2. obj \in Objects /\ WellFormed(obj) /\ obj.shnum \in Nat /\ pc \in Places
    BY <2>1, ObjectsAssumption, ObjectFacts DEF InvTypes
  <2>3. newShnum \in 0 .. obj.shnum /\ k \in 0 .. obj.shnum
    BY <2>1, <2>2 DEF InvMapping, InvHeaders
  <2>4. syms \in {<< >>} \cup [DOMAIN obj.syms -> Symbols]
    <3>1. obj.syms \in [DOMAIN obj.syms -> Symbols]
      BY <2>2, ObjectFacts
    <3> QED
      BY <2>1, <2>2, <3>1 DEF InvSymbols, BeforeTables, Places
  <2>5. newShdrs = << >>
          \/ newShdrs \in [0 .. (newShnum - 1) -> OutputHeaders \cup {Uninitialised}]
    <3>1. CASE pc \in BeforeTables \cup {"failure"}
      BY <2>1, <3>1 DEF InvHeaders
    <3>2. CASE pc \notin BeforeTables \cup {"failure"}
      <4>1. \E n : HeadersUpTo(n)
        BY <2>1, <2>2, <3>2 DEF InvHeaders, BeforeTables, BeforeCopy, AfterCopy, Ending, Places
      <4> QED
        BY <4>1 DEF HeadersUpTo
    <3> QED
      BY <3>1, <3>2
  <2> QED
    BY <2>1, <2>2, <2>3, <2>4, <2>5, Zenon DEF TypeOK, InvTypes, InvOutput
<1> QED
  BY <1>1, Invariance, PTL

(* Renumbering: for any object, any number of removed sections and at      *)
(* every step, what names a section by its index names the same section    *)
(* (process_rel.c:250-257, 312-323, 386-390).                              *)
THEOREM RenumberingCorrect == Spec => []RenumberingSound
<1>1. IInv => RenumberingSound
  <2> SUFFICES ASSUME IInv PROVE RenumberingSound
    OBVIOUS
  <2>1. pc \in Places /\ InvSymbols
    BY DEF IInv, InvTypes
  <2>2. ASSUME NEW s \in Copied
        PROVE  LET old == obj.shdrs[s]
                   new == newShdrs[Rank(s)]
               IN /\ new.type = old.type /\ new.info = old.info /\ new.alloc = old.alloc
                  /\ new.link = IF old.link \in KeptSections(obj) THEN Rank(old.link)
                                ELSE IF old.link < obj.shnum THEN 0 ELSE old.link
    BY CopiedFacts DEF HeaderMade, LinkOf
  <2>3. ASSUME pc \notin {"load", "map", "symbols", "allocate", "renumber", "failure"},
               NEW x \in DOMAIN syms
        PROVE  syms[x].shndx = ShndxOf(x)
    BY <2>1, <2>3 DEF InvSymbols, BeforeTables
  <2> QED
    BY <2>2, <2>3, Zenon DEF RenumberingSound, ShndxOf
<1> QED
  BY <1>1, Invariance, PTL

(* Layout: whatever the sizes and the alignments, no two sections share an *)
(* address and each is aligned (process_rel.c:359-373).                    *)
THEOREM LayoutCorrect == Spec => []LayoutSound
<1>1. IInv => LayoutSound
  BY CopiedFacts DEF LayoutSound, HeaderMade, Below
<1> QED
  BY <1>1, Invariance, PTL

(* No exit(EXIT_FAILURE) leaves an output file behind: every failure after *)
(* the fopen of process_rel.c:325 goes to cleanup.                         *)
THEOREM FailureCorrect == Spec => []FailureLeavesNoOutput
<1>1. IInv => FailureLeavesNoOutput
  BY DEF IInv, InvOutput, BeforeOutput, FailureLeavesNoOutput, NoFile
<1> QED
  BY <1>1, Invariance, PTL

=============================================================================
