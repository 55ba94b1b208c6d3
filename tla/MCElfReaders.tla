---------------------------- MODULE MCElfReaders ----------------------------
(***************************************************************************)
(* ElfReaders for TLC: every option on files whose parts can each be       *)
(* missing, with up to two sections, and string tables of sizes on both    *)
(* sides of the boundaries of the bytes.                                   *)
(***************************************************************************)
EXTENDS ElfReaders

AllOptions == {"h", "S", "s", "r", "x"}

\* Sections of the three kinds; an entry size of 0 makes the readers divide by it.
SomeSections ==
  [type : {"symtab", "rel", "other"}, entsize : {0, 8}, size : BOOLEAN, strings : BOOLEAN]

SectionLists == UNION {[1 .. n -> SomeSections] : n \in 0 .. 2}
OneSection == [1 .. 1 -> SomeSections]

\* 5, 255, 256 and 65535 bytes of names.
SmallNames == {<<0, 0, 0, 5>>, <<0, 0, 0, 255>>, <<0, 0, 1, 0>>, <<0, 0, 255, 255>>}

Whole(sections, sizes) ==
  [header : {TRUE}, magic : {TRUE}, table : {TRUE},
   names : {"whole"}, namesSize : sizes, sections : sections]

\* Files that stop short after their header, or are no ELF files at all.
Broken ==
  [header : {TRUE}, magic : BOOLEAN, table : BOOLEAN,
   names : {"absent", "short"}, namesSize : {<<0, 0, 0, 5>>}, sections : OneSection]

ShortHeader ==
  [header : {FALSE}, magic : {FALSE}, table : {FALSE},
   names : {"absent"}, namesSize : {<<0, 0, 0, 5>>}, sections : {<< >>}]

\* A string table of exactly 64 KiB: the first size -x allocates too little for.
LongNames == Whole(OneSection, {<<0, 1, 0, 0>>})

SomeFiles ==
  Whole(SectionLists, {<<0, 0, 0, 5>>}) \cup Whole(OneSection, SmallNames)
    \cup LongNames \cup Broken \cup ShortHeader
=============================================================================
