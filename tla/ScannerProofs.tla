--------------------------- MODULE ScannerProofs ---------------------------
(***************************************************************************)
(* The scanner never gives up with an internal error, its positions stay   *)
(* in its buffer, it blocks in read only for bytes it needs, and its       *)
(* tokens are those of the rules of scanner.l: for every stream, every way *)
(* it is cut into pieces, and every size of the buffer and of a read.      *)
(*                                                                         *)
(* First what the compressed tables say of a transition (Transition), then *)
(* the inductive invariant over the positions (IInv), with one lemma per   *)
(* action.  The second part is about the bytes: what the automaton has     *)
(* read in each state (Shape), what the rules say of such words, the       *)
(* invariant that ties them to the buffer (Matching), again one lemma per  *)
(* action, and the steps as steps of ScannerRules or none.                 *)
(***************************************************************************)
EXTENDS Scanner, SequenceTheorems, TLAPS

Classes == 0 .. 7
States == {1} \cup 3 .. 13

\* The values of the tables, entry by entry.
LEMMA BaseValues ==
  /\ yy_base[1] = 0 /\ yy_base[3] = 13 /\ yy_base[6] = 9
  /\ yy_base[9] = 8 /\ yy_base[10] = 3 /\ yy_base[11] = 2 /\ yy_base[14] = 7
  /\ \A s \in {4, 5, 7, 8, 12, 13} : yy_base[s] = 14
BY DEF yy_base, Table

LEMMA DefValues ==
  /\ yy_def[6] = 14 /\ yy_def[9] = 14 /\ yy_def[1] = 13
  /\ \A s \in {3, 4, 5, 7, 8, 10, 11, 12, 14} : yy_def[s] = 13
BY DEF yy_def, Table

LEMMA ChkValues ==
  /\ yy_chk[0] = 0 /\ \A i \in 1 .. 7 : yy_chk[i] = 1
  /\ yy_chk[8] = 14 /\ yy_chk[9] = 11 /\ yy_chk[10] = 10 /\ yy_chk[11] = 9
  /\ yy_chk[12] = 6 /\ yy_chk[13] = 3
  /\ \A i \in 14 .. 21 : yy_chk[i] = 13
BY DEF yy_chk, Table

LEMMA NxtValues ==
  /\ \A i \in 1 .. 7 : yy_nxt[i] \in 4 .. 8
  /\ yy_nxt[8] = 9 /\ yy_nxt[9] = 12 /\ yy_nxt[10] = 11 /\ yy_nxt[11] = 10
  /\ yy_nxt[12] = 10 /\ yy_nxt[13] = 13 /\ yy_nxt[14] = 3
  /\ \A i \in 15 .. 21 : yy_nxt[i] = 13
BY DEF yy_nxt, Table

LEMMA MetaValues == yy_meta[0] = 0 /\ \A c \in 1 .. 7 : yy_meta[c] \in 1 .. 2
BY DEF yy_meta, Table

\* One step of the loop over the default states.
LEMMA DefaultStays ==
  ASSUME NEW s, NEW c, yy_chk[yy_base[s] + c] = s
  PROVE  Default(<<s, c>>) = <<s, c>>
BY DEF Default

LEMMA DefaultMoves ==
  ASSUME NEW s, NEW c, yy_chk[yy_base[s] + c] # s
  PROVE  Default(<<s, c>>) = <<yy_def[s], IF yy_def[s] >= 14 THEN yy_meta[c] ELSE c>>
BY DEF Default

\* Where the state without entries of its own leads to.
JamNext(c) == IF c = 0 THEN 3 ELSE 13

\* Every other state ends there, by its default or by that of the template 14.
LEMMA FromJam == ASSUME NEW c \in Classes
 PROVE Default(<<13, c>>) = <<13, c>> /\ yy_nxt[yy_base[13] + c] = JamNext(c)
<1>1. yy_base[13] + c \in 14 .. 21 /\ yy_base[13] + c = 14 + c
  BY BaseValues DEF Classes
<1>2. yy_chk[yy_base[13] + c] = 13
  BY <1>1, ChkValues
<1>3. yy_nxt[yy_base[13] + c] = JamNext(c)
  BY <1>1, NxtValues DEF Classes, JamNext
<1> QED
  BY <1>2, <1>3, DefaultStays

LEMMA ToJam == ASSUME NEW s, NEW c \in Classes, Default(Default(<<s, c>>)) = <<13, c>>
  PROVE Delta(s, c) = JamNext(c)
BY FromJam DEF Delta

\* What the invariant needs of a transition from s on class c to t.
Allowed(s, c, t) ==
  /\ t \in 3 .. 13
  /\ c # 0 => t # 3
  /\ c = 0 /\ s # 3 => t = 3
  /\ s = 1 => t \in 3 .. 8

LEMMA JamNextAllowed == ASSUME NEW s \in States \ {1}, NEW c \in Classes
  PROVE s # 3 => Allowed(s, c, JamNext(c))
BY DEF Allowed, JamNext, Classes, States

LEMMA ViaJam ==
  ASSUME NEW s \in States, NEW c \in Classes, yy_def[s] = 13, yy_chk[yy_base[s] + c] # s
  PROVE  Delta(s, c) = JamNext(c)
<1>1. Default(<<s, c>>) = <<13, c>>
  BY DefaultMoves
<1> QED
  BY <1>1, FromJam, ToJam

LEMMA ViaTemplate ==
  ASSUME NEW s \in States, NEW c \in Classes, yy_def[s] = 14, yy_chk[yy_base[s] + c] # s
  PROVE  Delta(s, c) = IF c = 0 THEN 3 ELSE IF yy_meta[c] = 1 THEN 9 ELSE 13
<1>1. Default(<<s, c>>) = <<14, yy_meta[c]>>
  BY DefaultMoves
<1>2. CASE c = 0
  <2>1. Default(<<14, 0>>) = <<13, 0>>
    BY BaseValues, DefValues, ChkValues, DefaultMoves
  <2>2. Default(Default(<<s, c>>)) = <<13, c>>
    BY <1>1, <1>2, <2>1, MetaValues
  <2> QED
    BY <1>2, <2>2, ToJam DEF JamNext
<1>3. CASE c # 0 /\ yy_meta[c] = 1
  <2>1. Default(<<14, 1>>) = <<14, 1>>
    BY BaseValues, ChkValues, DefaultStays
  <2> QED
    BY <1>1, <1>3, <2>1, BaseValues, NxtValues DEF Delta
<1>4. CASE c # 0 /\ yy_meta[c] # 1
  <2>1. yy_meta[c] = 2
    BY <1>4, MetaValues DEF Classes
  <2>2. Default(<<14, 2>>) = <<13, 2>>
    BY BaseValues, DefValues, ChkValues, DefaultMoves
  <2>3. yy_nxt[yy_base[13] + 2] = 13
    BY FromJam DEF Classes, JamNext
  <2> QED
    BY <1>1, <1>4, <2>1, <2>2, <2>3 DEF Delta
<1> QED
  BY <1>2, <1>3, <1>4

LEMMA OwnEntry ==
  ASSUME NEW s, NEW c, yy_chk[yy_base[s] + c] = s
  PROVE  Delta(s, c) = yy_nxt[yy_base[s] + c]
BY DefaultStays DEF Delta

\* No transition leads back to the start state, only a byte 0 leads to the state
\* of the end of the buffer, and the first byte of a token is always accepted.
LEMMA Transition ==
  ASSUME NEW s \in States, NEW c \in Classes
  PROVE  Allowed(s, c, Delta(s, c))
<1>1. CASE s = 1
  <2>1. CASE c = 0
    <3>1. Delta(1, 0) = 3
      BY BaseValues, DefValues, ChkValues, ViaJam, <2>1 DEF JamNext, States
    <3> QED
      BY <1>1, <2>1, <3>1 DEF Allowed
  <2>2. CASE c # 0
    <3>1. c \in 1 .. 7
      BY <2>2 DEF Classes
    <3>2. yy_chk[yy_base[1] + c] = 1
      BY <3>1, BaseValues, ChkValues
    <3>3. yy_nxt[yy_base[1] + c] \in 4 .. 8
      BY <3>1, BaseValues, NxtValues
    <3> QED
      BY <1>1, <2>2, <3>2, <3>3, OwnEntry DEF Allowed
  <2> QED
    BY <2>1, <2>2
<1>2. CASE s = 3
  <2>1. CASE c = 0
    BY <1>2, <2>1, BaseValues, ChkValues, NxtValues, OwnEntry DEF Allowed
  <2>2. CASE c # 0
    <3>1. yy_chk[yy_base[3] + c] = 13
      BY <2>2, BaseValues, ChkValues DEF Classes
    <3> QED
      BY <1>2, <2>2, <3>1, DefValues, ViaJam DEF Allowed, JamNext
  <2> QED
    BY <2>1, <2>2
<1>3. CASE s \in {4, 5, 7, 8, 12}
  <2>1. yy_chk[yy_base[s] + c] = 13
    BY <1>3, BaseValues, ChkValues DEF Classes
  <2> QED
    BY <1>3, <2>1, DefValues, ViaJam, JamNextAllowed DEF States
<1>4. CASE s = 13
  BY <1>4, FromJam, OwnEntry, JamNextAllowed, BaseValues, ChkValues DEF States, Classes
<1>5. CASE s \in {6, 9}
  <2>1. CASE yy_chk[yy_base[s] + c] = s
    <3>1. c = 3
      BY <1>5, <2>1, BaseValues, ChkValues DEF Classes
    <3>2. Delta(s, c) = 10
      BY <1>5, <2>1, <3>1, OwnEntry, BaseValues, NxtValues
    <3> QED
      BY <1>5, <3>1, <3>2 DEF Allowed
  <2>2. CASE yy_chk[yy_base[s] + c] # s
    BY <1>5, <2>2, DefValues, ViaTemplate DEF Allowed
  <2> QED
    BY <2>1, <2>2
<1>6. CASE s \in {10, 11}
  <2>1. CASE yy_chk[yy_base[s] + c] = s
    <3>1. c = 7
      BY <1>6, <2>1, BaseValues, ChkValues DEF Classes
    <3>2. Delta(s, c) \in {11, 12}
      BY <1>6, <2>1, <3>1, OwnEntry, BaseValues, NxtValues
    <3> QED
      BY <1>6, <3>1, <3>2 DEF Allowed
  <2>2. CASE yy_chk[yy_base[s] + c] # s
    BY <1>6, <2>2, DefValues, ViaJam, JamNextAllowed DEF States
  <2> QED
    BY <2>1, <2>2
<1> QED
  BY <1>1, <1>2, <1>3, <1>4, <1>5, <1>6 DEF States

\* The second byte 0 after the buffer jams the scanner, whatever it reads.
LEMMA FromEndState == ASSUME NEW c \in Classes PROVE Delta(3, c) = 13
<1>1. CASE c = 0
  BY <1>1, BaseValues, ChkValues, NxtValues, OwnEntry
<1>2. CASE c # 0
  <2>1. yy_chk[yy_base[3] + c] = 13
    BY <1>2, BaseValues, ChkValues DEF Classes
  <2> QED
    BY <1>2, <2>1, DefValues, ViaJam DEF JamNext, States
<1> QED
  BY <1>1, <1>2

-----------------------------------------------------------------------------
(***************************************************************************)
(* Accepting states and classes of bytes                                   *)
(***************************************************************************)
Rejecting == {1, 9, 10, 11, 13}

LEMMA AcceptValues ==
  /\ \A s \in Rejecting : yy_accept[s] = 0
  /\ yy_accept[3] = 6
  /\ \A s \in {4, 5, 6, 7, 8, 12} : yy_accept[s] \in 1 .. 5
BY DEF yy_accept, Table, Rejecting

LEMMA EcValues ==
  /\ yy_ec["nul"] = 0
  /\ \A b \in Bytes : yy_ec[b] \in Classes /\ (b # "nul" => yy_ec[b] # 0)
BY DEF yy_ec, Bytes, Classes

LEMMA ReplayClassValues == \A b \in Bytes : ReplayClass(b) \in 1 .. 7
BY EcValues DEF ReplayClass, Classes

LEMMA ByteType ==
  ASSUME buf \in Seq(Bytes), NEW p \in Nat
  PROVE  Byte(p) \in Bytes /\ (p >= Len(buf) => Byte(p) = "nul")
<1>1. CASE p < Len(buf)
  <2>1. p + 1 \in 1 .. Len(buf)
    BY <1>1
  <2> QED
    BY <1>1, <2>1, ElementOfSeq DEF Byte
<1>2. CASE ~(p < Len(buf))
  BY <1>2 DEF Byte, Bytes
<1> QED
  BY <1>1, <1>2

-----------------------------------------------------------------------------
(***************************************************************************)
(* The inductive invariant                                                 *)
(***************************************************************************)
\* A position reached in state s: only the state that a byte 0 leads to may
\* lie behind the bytes, by the one byte 0 after them.
Within(s, p) == p <= Len(buf) \/ (s = 3 /\ p <= Len(buf) + 1)

\* The state yylex would back up to belongs to the token at hand.
LastFresh ==
  /\ last.state \in States /\ yy_accept[last.state] # 0
  /\ text < last.cp /\ Within(last.state, last.cp)

\* Somewhere in a token: from a state that accepts nothing there is a way
\* back, unless nothing has been read yet.
InToken ==
  /\ state \in States
  /\ text <= cp
  /\ state = 1 <=> cp = text
  /\ state \in {9, 10, 11, 13} => LastFresh

\* Before the first call there is no buffer.
Fresh == pc \in {"new", "idle", "unusable"} => size = 0 /\ cBufP = 0
Sized == pc \notin {"new", "idle", "unusable"} \cup Stopped => size > 0

Phases ==
  /\ pc \in {"start", "returned"} => cBufP <= Len(buf)
  /\ pc = "match" => InToken /\ Within(state, cp)
  /\ pc = "find" =>
       /\ InToken /\ state # 1
       /\ Within(state, cp) \/ (state = 13 /\ cp <= Len(buf) + 2)
  /\ pc = "action" =>
       /\ state \in States /\ yy_accept[state] # 0
       /\ text < cp /\ cBufP = cp /\ Within(state, cp)
  /\ pc \in {"replay", "nul"} =>
       InToken /\ state # 3 /\ cp <= cBufP /\ cBufP <= Len(buf)
  /\ pc = "nul" => cp = cBufP /\ after = "nul"
  /\ pc = "replay" => after # "none" /\ (after = "find" => text < cBufP)
  /\ pc \in {"replay", "nul"} /\ after = "nul" => cBufP < Len(buf)
  /\ pc \in {"fill", "eof"} => text = 0

IInv == TypeOK /\ Fresh /\ Sized /\ Phases

-----------------------------------------------------------------------------
(***************************************************************************)
(* One lemma per action                                                    *)
(***************************************************************************)
LEMMA InitHolds == Init => IInv
<1> SUFFICES ASSUME Init PROVE IInv
  OBVIOUS
<1>1. unread \in Seq(Bytes) /\ Len(buf) = 0 /\ buf \in Seq(Bytes)
  BY StreamsAssumption, EmptySeq DEF Init
<1>2. last.state = 0 /\ last.cp = 0
  BY DEF Init
<1>3. {text, cp, cBufP, last.cp} \subseteq 0 .. size + 2
  BY <1>2 DEF Init
<1>4. state \in 0 .. 13 /\ last.state \in 0 .. 13
  BY <1>2 DEF Init, yy_start
<1>5. pc = "new" /\ after = "none" /\ status = "NEW" /\ size = 0 /\ cBufP = 0 /\ buf = << >>
  BY DEF Init
<1>6. closed \in BOOLEAN /\ ended \in BOOLEAN
  BY DEF Init
<1>7. TypeOK
  BY <1>1, <1>3, <1>4, <1>5, <1>6 DEF TypeOK
<1> QED
  BY <1>5, <1>7 DEF IInv, Fresh, Sized, Phases

\* The lengths and positions that every leaf below counts with.
LEMMA Bounds ==
  ASSUME TypeOK
  PROVE  /\ Len(buf) \in Nat /\ size \in Nat /\ (size > 0 => Len(buf) < size)
         /\ (size = 0 => buf = << >>)
         /\ {text, cp, cBufP, last.cp} \subseteq Nat
         /\ {text, cp, cBufP, last.cp} \subseteq 0 .. size + 2
BY LenProperties DEF TypeOK

LEMMA CallsHold ==
  ASSUME IInv, InitScanner \/ InitFails \/ Call \/ Destroy \/ Fatal \/ ReadEOF
  PROVE  IInv'
<1>1. UNCHANGED <<stream, buffer, text, cBufP, automaton, after, output>>
  BY DEF InitScanner, InitFails, Call, Destroy, Fatal, ReadEOF
<1>2. \/ pc = "new" /\ pc' \in {"idle", "killed", "unusable"}
      \/ pc = "unusable" /\ pc' = "killed"
      \/ pc = "returned" /\ pc' = "start"
      \/ pc \in {"idle", "returned", "fill"} /\ pc' \in {"destroyed", "fatal"}
      \/ pc = "fill" /\ pc' = "eof"
  BY DEF InitScanner, InitFails, Call, Destroy, Fatal, ReadEOF, Goes
<1>3. TypeOK'
  BY <1>1, <1>2 DEF IInv, TypeOK, Stopped, stream, buffer, automaton, output
<1> QED
  BY <1>1, <1>2, <1>3
  DEF IInv, Fresh, Sized, Phases, Stopped, stream, buffer, automaton, output

LEMMA FirstCallHolds ==
  ASSUME IInv, FirstCall
  PROVE  IInv'
<1>1. /\ pc = "idle" /\ pc' = "start" /\ size' = BufSize
      /\ UNCHANGED <<stream, buf, status, text, cBufP, automaton, after, output>>
  BY DEF FirstCall, Goes
<1>2. size = 0 /\ cBufP = 0 /\ buf = << >>
  BY <1>1, Bounds DEF IInv, Fresh
<1>3. Len(buf) = 0 /\ BufSize > 0 /\ BufSize \in Nat
  BY <1>2, SizesAssumption
<1>4. {text, cp, cBufP, last.cp} \subseteq 0 .. BufSize + 2
  BY <1>2, <1>3, Bounds DEF IInv
<1>5. TypeOK'
  BY <1>1, <1>3, <1>4 DEF IInv, TypeOK, Stopped, stream, automaton, output
<1> QED
  BY <1>1, <1>2, <1>3, <1>5 DEF IInv, Fresh, Sized, Phases, Stopped

LEMMA StartTokenHolds ==
  ASSUME IInv, StartToken
  PROVE  IInv'
<1>1. /\ pc = "start" /\ pc' = "match"
      /\ text' = cBufP /\ cp' = cBufP /\ state' = 1
      /\ UNCHANGED <<stream, buffer, cBufP, last, after, output>>
  BY DEF StartToken, Goes, yy_start
<1>2. cBufP <= Len(buf) /\ size > 0
  BY <1>1 DEF IInv, Phases, Sized, Stopped
<1>3. TypeOK'
  BY <1>1, <1>2 DEF IInv, TypeOK, Stopped, stream, buffer, output
<1>4. (InToken /\ Within(state, cp))'
  BY <1>1, <1>2, Bounds DEF InToken, Within, States, IInv, buffer
<1> QED
  BY <1>1, <1>2, <1>3, <1>4 DEF IInv, Fresh, Sized, Phases, Stopped, buffer

\* A transition from inside a token leads on inside it, with the last
\* accepting state brought up to date.
LEMMA Advances ==
  ASSUME TypeOK, InToken, state = 3 \/ cp <= Len(buf), Within(state, cp),
         NEW c \in Classes,
         last' = LastAccepting(cp), state' = Delta(state, c), cp' = cp + 1,
         UNCHANGED <<text, buf>>
  PROVE  InToken' /\ state' \in 3 .. 13
<1>1. Allowed(state, c, state')
  BY Transition DEF InToken
<1>2. state' \in 3 .. 13 /\ (state = 1 => state' \in 3 .. 8)
  BY <1>1 DEF Allowed
<1>3. text < cp'
  BY Bounds DEF InToken
<1>4. ASSUME state' \in {9, 10, 11, 13} PROVE LastFresh'
  <2>1. state # 1
    BY <1>2, <1>4
  <2>2. CASE yy_accept[state] # 0
    <3>1. last'.state = state /\ last'.cp = cp
      BY <2>2 DEF LastAccepting
    <3>2. text < cp
      BY <2>1, Bounds DEF InToken
    <3> QED
      BY <2>2, <3>1, <3>2 DEF LastFresh, InToken, Within
  <2>3. CASE yy_accept[state] = 0
    <3>1. last' = last
      BY <2>3 DEF LastAccepting
    <3>2. state \in {9, 10, 11, 13}
      BY <2>1, <2>3, AcceptValues DEF InToken, States
    <3> QED
      BY <3>1, <3>2 DEF LastFresh, InToken, Within
  <2> QED
    BY <2>2, <2>3
<1>5. state' \in States /\ (state' = 1 <=> cp' = text')
  <2>1. text' = text /\ text \in Nat /\ cp' \in Nat /\ state' # 1
    <3>1. text \in Nat /\ cp \in Nat
      BY Bounds
    <3> QED
      BY <1>2, <3>1
  <2> QED
    BY <1>2, <1>3, <2>1 DEF States
<1> QED
  BY <1>2, <1>3, <1>4, <1>5, Bounds DEF InToken

LEMMA LastType ==
  ASSUME TypeOK
  PROVE  /\ LastAccepting(cp).state \in 0 .. 13
         /\ LastAccepting(cp).cp \in {cp, last.cp}
BY DEF LastAccepting, TypeOK

LEMMA MatchHolds ==
  ASSUME IInv, Match
  PROVE  IInv'
<1>1. /\ pc = "match" /\ pc' = IF Stops(state') THEN "find" ELSE "match"
      /\ last' = LastAccepting(cp)
      /\ state' = Delta(state, yy_ec[Byte(cp)])
      /\ cp' = cp + 1
      /\ UNCHANGED <<stream, buffer, text, cBufP, after, output>>
  BY DEF Match
<1>2. TypeOK /\ InToken /\ Within(state, cp) /\ size > 0
  BY <1>1 DEF IInv, Phases, Sized, Stopped
<1>3. Byte(cp) \in Bytes /\ (cp >= Len(buf) => Byte(cp) = "nul")
  BY <1>2, Bounds, ByteType DEF TypeOK
<1>4. yy_ec[Byte(cp)] \in Classes /\ (cp >= Len(buf) => yy_ec[Byte(cp)] = 0)
  BY <1>3, EcValues
<1>5. state = 3 \/ cp <= Len(buf)
  BY <1>2 DEF Within
<1>6. InToken' /\ state' \in 3 .. 13
  BY <1>1, <1>2, <1>4, <1>5, Advances DEF buffer
<1>7. Within(state, cp)' \/ (state' = 13 /\ cp' <= Len(buf') + 2)
  <2>1. Allowed(state, yy_ec[Byte(cp)], state')
    BY <1>1, <1>2, <1>4, Transition DEF InToken
  <2>2. CASE state = 3
    <3>1. state' = 13
      BY <1>1, <1>4, <2>2, FromEndState
    <3> QED
      BY <1>1, <1>2, <2>2, <3>1, Bounds DEF Within, buffer
  <2>3. CASE state # 3 /\ cp >= Len(buf)
    BY <1>1, <1>2, <1>4, <2>1, <2>3, Bounds DEF Allowed, Within, buffer
  <2>4. CASE cp < Len(buf)
    BY <1>1, <2>4, Bounds, <1>2 DEF Within, buffer
  <2> QED
    BY <1>2, <2>2, <2>3, <2>4, Bounds
<1>8. pc' = "match" => Within(state, cp)'
  <2>1. ASSUME pc' = "match" PROVE state' # 13
    BY <1>1, <2>1, BaseValues DEF Stops
  <2> QED
    BY <1>7, <2>1
<1>9. TypeOK'
  <2>1. cp' \in 0 .. size' + 2
    BY <1>1, <1>2, <1>5, Bounds DEF Within, buffer
  <2>2. last'.state \in 0 .. 13 /\ last'.cp \in 0 .. size' + 2
    BY <1>1, <1>2, LastType, Bounds DEF buffer
  <2> QED
    BY <1>1, <1>2, <1>6, <2>1, <2>2 DEF TypeOK, Stopped, stream, buffer, output
<1> QED
  BY <1>1, <1>2, <1>6, <1>7, <1>8, <1>9 DEF IInv, Fresh, Sized, Phases, Stopped, buffer

LEMMA FindActionHolds ==
  ASSUME IInv, FindAction
  PROVE  IInv'
<1>1. /\ pc = "find" /\ pc' = "action" /\ cBufP' = cp'
      /\ IF yy_accept[state] = 0 THEN state' = last.state /\ cp' = last.cp
         ELSE UNCHANGED <<state, cp>>
      /\ UNCHANGED <<stream, buffer, text, last, after, output>>
  BY DEF FindAction, Goes
<1>2. /\ TypeOK /\ InToken /\ state # 1 /\ size > 0
      /\ Within(state, cp) \/ (state = 13 /\ cp <= Len(buf) + 2)
  BY <1>1 DEF IInv, Phases, Sized, Stopped
<1>3. /\ state' \in States /\ yy_accept[state'] # 0
      /\ text' < cp' /\ Within(state, cp)'
  <2>1. CASE yy_accept[state] = 0
    <3>1. LastFresh
      BY <1>2, <2>1, AcceptValues DEF InToken, States
    <3> QED
      BY <1>1, <2>1, <3>1 DEF LastFresh, Within, buffer
  <2>2. CASE yy_accept[state] # 0
    <3>1. state # 13
      BY <2>2, AcceptValues DEF Rejecting
    <3> QED
      BY <1>1, <1>2, <2>2, <3>1, Bounds DEF InToken, Within, buffer
  <2> QED
    BY <2>1, <2>2
<1>4. cp' \in 0 .. size' + 2 /\ state' \in 0 .. 13
  BY <1>1, <1>2, <1>3, Bounds DEF States, buffer
<1>5. TypeOK'
  BY <1>1, <1>2, <1>4 DEF TypeOK, Stopped, stream, buffer, output
<1> QED
  BY <1>1, <1>2, <1>3, <1>5 DEF IInv, Fresh, Sized, Phases, Stopped, buffer

LEMMA RuleHolds ==
  ASSUME IInv, Rule
  PROVE  IInv'
<1>1. /\ pc = "action" /\ pc' \in {"start", "returned"} /\ yy_accept[state] # 6
      /\ UNCHANGED <<stream, buffer, text, cBufP, automaton, after, ended>>
  BY DEF Rule, yy_act
<1>2. cBufP <= Len(buf) /\ size > 0
  BY <1>1, AcceptValues DEF IInv, Phases, Sized, Stopped, Within
<1>3. TypeOK'
  BY <1>1 DEF IInv, TypeOK, Stopped, stream, buffer, automaton
<1> QED
  BY <1>1, <1>2, <1>3 DEF IInv, Fresh, Sized, Phases, Stopped, buffer

\* A replay starts at the front of the token, in the start state.
LEMMA ReplayStarts ==
  ASSUME NEW upto \in Nat, NEW then \in {"nul", "match", "find"},
         ReplayTo(upto, then), TypeOK', text' <= upto, upto <= Len(buf'), size' > 0,
         then = "nul" => upto < Len(buf'), then = "find" => text' < upto
  PROVE  IInv'
<1>1. /\ pc' = "replay" /\ after' = then /\ cBufP' = upto
      /\ cp' = text' /\ state' = 1
  BY DEF ReplayTo, yy_start
<1>2. InToken'
  BY <1>1, Bounds DEF InToken, States, TypeOK
<1> QED
  BY <1>1, <1>2 DEF IInv, Fresh, Sized, Phases, Stopped

LEMMA MeetNulHolds ==
  ASSUME IInv, MeetNul
  PROVE  IInv'
<1>1. /\ pc = "action" /\ cBufP <= Len(buf) /\ ReplayTo(cp - 1, "nul")
      /\ status' \in {status, "NORMAL"}
      /\ UNCHANGED <<stream, buf, size, text, last, output>>
  BY DEF MeetNul, EndOfBuffer, NulInBuffer, Used
<1>2. TypeOK /\ text < cp /\ cBufP = cp /\ size > 0
  BY <1>1 DEF IInv, Phases, Sized, Stopped
<1>3. cp - 1 \in Nat /\ text <= cp - 1 /\ cp - 1 < Len(buf)
  BY <1>1, <1>2, Bounds
<1>4. TypeOK'
  BY <1>1, <1>2, <1>3, Bounds DEF TypeOK, ReplayTo, yy_start, Stopped, stream, output
<1> QED
  BY <1>1, <1>2, <1>3, <1>4, Bounds, ReplayStarts

LEMMA ReplayHolds ==
  ASSUME IInv, Replay
  PROVE  IInv'
<1>1. pc = "replay" /\ UNCHANGED <<stream, buffer, text, cBufP, after, output>>
  BY DEF Replay
<1>2. /\ TypeOK /\ InToken /\ state # 3 /\ cp <= cBufP /\ cBufP <= Len(buf)
      /\ after # "none" /\ size > 0
  BY <1>1 DEF IInv, Phases, Sized, Stopped
<1>3. CASE cp < cBufP
  <2>1. /\ pc' = "replay" /\ last' = LastAccepting(cp) /\ cp' = cp + 1
        /\ state' = Delta(state, ReplayClass(Byte(cp)))
    BY <1>1, <1>3 DEF Replay
  <2>2. Byte(cp) \in Bytes
    BY <1>2, Bounds, ByteType DEF TypeOK
  <2>3. ReplayClass(Byte(cp)) \in Classes /\ ReplayClass(Byte(cp)) # 0
    BY <2>2, ReplayClassValues DEF Classes
  <2>4. cp <= Len(buf)
    BY <1>2, <1>3, Bounds
  <2>5. InToken' /\ state' \in 3 .. 13
    BY <1>1, <1>2, <2>1, <2>3, <2>4, Advances DEF Within, buffer
  <2>6. state' # 3
    BY <1>2, <2>1, <2>3, Transition DEF InToken, Allowed
  <2>7. cp' <= cBufP' /\ cBufP' <= Len(buf')
    BY <1>1, <1>2, <1>3, <2>1, Bounds DEF buffer
  <2>8. TypeOK'
    <3>1. cp' \in 0 .. size' + 2
      BY <1>1, <1>2, <1>3, <2>1, Bounds DEF buffer
    <3>2. last'.state \in 0 .. 13 /\ last'.cp \in 0 .. size' + 2
      BY <1>1, <1>2, <2>1, LastType, Bounds DEF buffer
    <3> QED
      BY <1>1, <1>2, <2>1, <2>5, <3>1, <3>2 DEF TypeOK, Stopped, stream, buffer, output
  <2> QED
    BY <1>1, <1>2, <2>1, <2>5, <2>6, <2>7, <2>8
    DEF IInv, Fresh, Sized, Phases, Stopped, buffer
<1>4. CASE ~(cp < cBufP)
  <2>1. pc' = after /\ UNCHANGED automaton
    BY <1>1, <1>4 DEF Replay
  <2>2. cp = cBufP
    BY <1>2, <1>4, Bounds
  <2>3. pc' \in {"nul", "match", "find"}
    BY <1>2, <2>1 DEF TypeOK
  <2>4. TypeOK'
    BY <1>1, <1>2, <2>1, <2>3 DEF TypeOK, Stopped, stream, buffer, automaton, output
  <2>5. InToken' /\ Within(state, cp)'
    BY <1>1, <1>2, <2>1, <2>2 DEF InToken, LastFresh, Within, buffer, automaton
  <2>6. pc' = "find" => state' # 1
    BY <1>1, <1>2, <2>1, <2>2, Bounds DEF IInv, Phases, InToken, automaton
  <2> QED
    BY <1>1, <1>2, <2>1, <2>2, <2>3, <2>4, <2>5, <2>6
    DEF IInv, Fresh, Sized, Phases, Stopped, buffer, automaton
<1> QED
  BY <1>3, <1>4

LEMMA TryNulHolds ==
  ASSUME IInv, TryNul
  PROVE  IInv'
<1>1. /\ pc = "nul" /\ last' = LastAccepting(cp)
      /\ UNCHANGED <<stream, buffer, text, after, output>>
  BY DEF TryNul
<1>2. /\ TypeOK /\ InToken /\ state # 3 /\ cp = cBufP /\ cBufP < Len(buf) /\ size > 0
      /\ 1 \in Classes
  BY <1>1 DEF IInv, Phases, Sized, Stopped, Classes
<1>3. last'.state \in 0 .. 13 /\ last'.cp \in 0 .. size' + 2
  BY <1>1, <1>2, LastType, Bounds DEF buffer
<1>4. Allowed(state, 1, Delta(state, 1))
  BY <1>2, Transition DEF InToken
<1>5. CASE Delta(state, 1) = 13
  <2>1. pc' = "find" /\ UNCHANGED <<state, cp, cBufP>>
    BY <1>5 DEF TryNul, Jam
  <2>2. state # 1
    BY <1>4, <1>5 DEF Allowed
  <2>3. state \in {9, 10, 11, 13} => last' = last
    BY <1>1, AcceptValues DEF LastAccepting, Rejecting
  <2>4. InToken' /\ Within(state, cp)'
    BY <1>1, <1>2, <2>1, <2>3, Bounds DEF InToken, LastFresh, Within, buffer
  <2>5. TypeOK'
    BY <1>1, <1>2, <1>3, <2>1 DEF TypeOK, Stopped, stream, buffer, output
  <2> QED
    BY <1>1, <1>2, <2>1, <2>2, <2>4, <2>5 DEF IInv, Fresh, Sized, Phases, Stopped, buffer
<1>6. CASE Delta(state, 1) # 13
  <2>1. /\ pc' = "match" /\ state' = Delta(state, 1) /\ cp' = cp + 1
        /\ cBufP' = cp + 1
    BY <1>6 DEF TryNul, Jam
  <2>2. cp <= Len(buf) /\ cp + 1 \in 0 .. Len(buf)
    BY <1>2, Bounds
  <2>3. InToken' /\ state' \in 3 .. 13
    BY <1>1, <1>2, <2>1, <2>2, Advances DEF Within, buffer
  <2>4. {cp', cBufP'} \subseteq 0 .. size' + 2
    BY <1>1, <1>2, <2>1, <2>2, Bounds DEF buffer
  <2>5. TypeOK'
    BY <1>1, <1>2, <1>3, <2>1, <2>3, <2>4 DEF TypeOK, Stopped, stream, buffer, output
  <2> QED
    BY <1>1, <1>2, <2>1, <2>2, <2>3, <2>5
    DEF IInv, Fresh, Sized, Phases, Stopped, Within, buffer
<1> QED
  BY <1>5, <1>6

LEMMA MoveHolds ==
  ASSUME IInv, Move
  PROVE  IInv'
<1>1. /\ pc = "action" /\ pc' \in {"eof", "fill"} /\ ~(cBufP <= Len(buf))
      /\ buf' = SubSeq(buf, text + 1, text + (cBufP - text - 1)) /\ text' = 0
      /\ status' \in {status, "NORMAL"}
      /\ UNCHANGED <<stream, size, cBufP, automaton, after, output>>
  BY DEF Move, EndOfBuffer, NulInBuffer, Used, Kept
<1>2. TypeOK /\ text < cp /\ cBufP = cp /\ Within(state, cp) /\ size > 0
  BY <1>1 DEF IInv, Phases, Sized, Stopped
<1>3. text + (cBufP - text - 1) = Len(buf) /\ text \in 0 .. Len(buf)
  BY <1>1, <1>2, Bounds DEF Within
<1>4. buf' \in Seq(Bytes) /\ Len(buf') = Len(buf) - text
  <2>1. \A i \in text + 1 .. Len(buf) : buf[i] \in Bytes
    BY <1>2, <1>3, ElementOfSeq DEF TypeOK
  <2> QED
    <3>1. /\ text \in Nat /\ Len(buf) \in Nat /\ text + 1 \in Int
          /\ buf' = SubSeq(buf, text + 1, Len(buf))
      BY <1>1, <1>2, <1>3, Bounds
    <3>2. /\ SubSeq(buf, text + 1, Len(buf)) \in Seq(Bytes)
          /\ Len(SubSeq(buf, text + 1, Len(buf)))
               = IF text + 1 <= Len(buf) THEN Len(buf) - (text + 1) + 1 ELSE 0
      BY <2>1, <3>1, SubSeqProperties
    <3> QED
      BY <1>3, <3>1, <3>2
<1>5. Len(buf') < size
  BY <1>2, <1>3, <1>4, Bounds
<1>6. {text', cp', cBufP', last'.cp} \subseteq 0 .. size' + 2
  BY <1>1, <1>2, Bounds DEF automaton
<1>7. /\ size' \in Nat /\ size' # 0
      /\ unread' \in Seq(Bytes) /\ closed' \in BOOLEAN /\ ended' \in BOOLEAN
      /\ status' \in {"NEW", "NORMAL", "EOF_PENDING"}
      /\ state' \in 0 .. 13 /\ last'.state \in 0 .. 13
      /\ after' \in {"none", "nul", "match", "find"}
  BY <1>1, <1>2 DEF TypeOK, stream, automaton, output
<1>8. TypeOK'
  BY <1>1, <1>4, <1>5, <1>6, <1>7 DEF TypeOK
<1> QED
  BY <1>1, <1>2, <1>8 DEF IInv, Fresh, Sized, Phases, Stopped

LEMMA GrowHolds ==
  ASSUME IInv, Grow
  PROVE  IInv'
<1>1. /\ pc = "fill" /\ pc' = "fill" /\ size' = 2 * size
      /\ UNCHANGED <<stream, buf, status, text, cBufP, automaton, after, output>>
  BY DEF Grow, Goes
<1>2. TypeOK /\ size > 0 /\ text = 0
  BY <1>1 DEF IInv, Phases, Sized, Stopped
<1>3. /\ size' \in Nat /\ size' > 0 /\ Len(buf) < size'
      /\ {text, cp, cBufP, last.cp} \subseteq 0 .. size' + 2
  BY <1>1, <1>2, Bounds
<1>4. TypeOK'
  BY <1>1, <1>2, <1>3 DEF TypeOK, Stopped, stream, automaton, output
<1> QED
  BY <1>1, <1>2, <1>3, <1>4 DEF IInv, Fresh, Sized, Phases, Stopped

LEMMA ReadHolds ==
  ASSUME IInv, Read
  PROVE  IInv'
<1>1. /\ pc = "fill" /\ ReplayTo(Len(buf), "match")
      /\ UNCHANGED <<text, closed, size, status, last, output>>
  BY DEF Read
<1>2. TypeOK /\ size > 0 /\ text = 0
  BY <1>1 DEF IInv, Phases, Sized, Stopped
<1>3. PICK n \in 1 .. Len(unread) :
        /\ n <= size - Len(buf) - 1
        /\ buf' = buf \o SubSeq(unread, 1, n)
        /\ unread' = SubSeq(unread, n + 1, Len(unread))
  BY DEF Read, Room
<1>4. unread \in Seq(Bytes) /\ Len(unread) \in Nat /\ n \in Nat
  BY <1>2, LenProperties DEF TypeOK
<1>5. \A i \in 1 .. Len(unread) : unread[i] \in Bytes
  BY <1>4, ElementOfSeq
<1>6. SubSeq(unread, 1, n) \in Seq(Bytes) /\ Len(SubSeq(unread, 1, n)) = n
  BY <1>3, <1>4, <1>5, SubSeqProperties
<1>7. unread' \in Seq(Bytes)
  BY <1>3, <1>4, <1>5, SubSeqProperties
<1>8. buf' \in Seq(Bytes) /\ Len(buf') = Len(buf) + n
  BY <1>2, <1>3, <1>6, ConcatProperties DEF TypeOK
<1>9. Len(buf') < size' /\ Len(buf) <= Len(buf')
  BY <1>1, <1>2, <1>3, <1>4, <1>8, Bounds
<1>10. /\ pc' = "replay" /\ after' = "match" /\ cBufP' = Len(buf)
       /\ cp' = 0 /\ state' = 1
  BY <1>1, <1>2 DEF ReplayTo, yy_start
<1>11. {text', cp', cBufP', last'.cp} \subseteq 0 .. size' + 2
  BY <1>1, <1>2, <1>10, Bounds
<1>12. TypeOK'
  BY <1>1, <1>2, <1>7, <1>8, <1>9, <1>10, <1>11 DEF TypeOK, Stopped, output
<1> QED
  BY <1>1, <1>2, <1>9, <1>12, Bounds, ReplayStarts

LEMMA LastMatchHolds ==
  ASSUME IInv, LastMatch
  PROVE  IInv'
<1>1. /\ pc = "eof" /\ buf # << >> /\ status' = "EOF_PENDING"
      /\ ReplayTo(Len(buf), "find")
      /\ UNCHANGED <<stream, buf, size, text, last, output>>
  BY DEF LastMatch
<1>2. TypeOK /\ size > 0 /\ text = 0
  BY <1>1 DEF IInv, Phases, Sized, Stopped
<1>3. Len(buf) > 0
  BY <1>1, <1>2, EmptySeq, Bounds DEF TypeOK
<1>4. /\ pc' = "replay" /\ after' = "find" /\ cBufP' = Len(buf)
      /\ cp' = 0 /\ state' = 1
  BY <1>1, <1>2 DEF ReplayTo, yy_start
<1>5. {text', cp', cBufP', last'.cp} \subseteq 0 .. size' + 2
  BY <1>1, <1>2, <1>4, Bounds
<1>6. TypeOK'
  BY <1>1, <1>2, <1>4, <1>5 DEF TypeOK, Stopped, stream, output
<1> QED
  BY <1>1, <1>2, <1>3, <1>6, Bounds, ReplayStarts

LEMMA EndOfFileHolds ==
  ASSUME IInv, EndOfFile
  PROVE  IInv'
<1>1. /\ pc = "eof" /\ pc' = "returned" /\ buf = << >>
      /\ status' = "NEW" /\ cBufP' = 0 /\ ended' = TRUE
      /\ UNCHANGED <<stream, buf, size, text, automaton, after, tokens>>
  BY DEF EndOfFile, Goes
<1>2. TypeOK /\ size > 0 /\ Len(buf) = 0
  BY <1>1 DEF IInv, Sized, Stopped
<1>3. TypeOK'
  BY <1>1, <1>2 DEF TypeOK, Stopped, stream, automaton
<1> QED
  BY <1>1, <1>2, <1>3 DEF IInv, Fresh, Sized, Phases, Stopped

-----------------------------------------------------------------------------
(***************************************************************************)
(* The theorems                                                            *)
(***************************************************************************)
LEMMA StepHolds == IInv /\ [Next]_vars => IInv'
<1> SUFFICES ASSUME IInv, [Next]_vars PROVE IInv'
  OBVIOUS
<1>1. CASE InitScanner \/ InitFails \/ Call \/ Destroy \/ Fatal \/ ReadEOF
  BY <1>1, CallsHold
<1>2. CASE FirstCall \/ StartToken \/ Match \/ FindAction \/ Rule
  BY <1>2, FirstCallHolds, StartTokenHolds, MatchHolds, FindActionHolds, RuleHolds
<1>3. CASE MeetNul \/ Replay \/ TryNul
  BY <1>3, MeetNulHolds, ReplayHolds, TryNulHolds
<1>4. CASE Move \/ Grow \/ Read \/ LastMatch \/ EndOfFile
  BY <1>4, MoveHolds, GrowHolds, ReadHolds, LastMatchHolds, EndOfFileHolds
<1>5. CASE UNCHANGED vars
  <2>1. UNCHANGED <<pc, unread, closed, buf, size, status, text, cBufP, cp, state, last,
                    after, tokens, ended>>
    BY <1>5 DEF vars, stream, buffer, automaton, output
  <2>2. TypeOK' /\ Fresh' /\ Sized'
    BY <2>1 DEF IInv, TypeOK, Fresh, Sized
  <2>3. Phases'
    BY <2>1 DEF IInv, Phases, InToken, LastFresh, Within
  <2> QED
    BY <2>2, <2>3 DEF IInv
<1> QED
  BY <1>1, <1>2, <1>3, <1>4, <1>5 DEF Next

\* Every reachable state has its positions where the invariant says.
LEMMA AlwaysIInv == Spec => []IInv
BY InitHolds, StepHolds, PTL DEF Spec

\* TypeOK: whatever bytes come, in whatever pieces, and however small the
\* buffer of scanner.c is to begin with, every pointer into it stays within the
\* buffer and its two end bytes.
THEOREM PositionsInBuffer == Spec => []TypeOK
<1>1. IInv => TypeOK
  BY DEF IInv
<1> QED
  BY <1>1, AlwaysIInv, PTL

\* yylex has an accepting state to back up to whenever its automaton jams, and
\* never runs past the end of its buffer: neither "fatal flex scanner internal
\* error" of scanner.c can be reached.
THEOREM NeverInternalError == Spec => []NoInternalError
<1>1. ASSUME IInv, pc = "action" PROVE yy_act # 0 /\ ~(cBufP > Len(buf) + 1)
  <2>1. yy_accept[state] # 0 /\ cBufP = cp /\ Within(state, cp)
    BY <1>1 DEF IInv, Phases
  <2>2. cp <= Len(buf) + 1
    BY <1>1, <2>1, Bounds DEF IInv, Within
  <2> QED
    BY <1>1, <2>1, <2>2, Bounds DEF IInv, yy_act
<1>2. IInv => NoInternalError
  BY <1>1 DEF NoInternalError, InternalError
<1> QED
  BY <1>2, AlwaysIInv, PTL

-----------------------------------------------------------------------------
(***************************************************************************)
(* The automaton, byte by byte                                             *)
(***************************************************************************)
\* The state after the first byte of a token.
FirstState(b) ==
  CASE b = "$" -> 6 [] b = "+" -> 7 [] b = "-" -> 8 [] b = "nl" -> 5 [] OTHER -> 4

\* The state after a byte, a NUL of the stream included.
Follow(s, b) ==
  IF s = 1 THEN FirstState(b)
  ELSE IF s \in {6, 9} THEN IF b = "#" THEN 10 ELSE IF b = "$" THEN 13 ELSE 9
  ELSE IF s = 10 /\ b = "hex" THEN 11
  ELSE IF s = 11 /\ b = "hex" THEN 12
  ELSE 13

Reading == {1} \cup 4 .. 12

LEMMA ByteClasses ==
  /\ ReplayClass("nul") = 1 /\ ReplayClass("other") = 1 /\ ReplayClass("nl") = 2
  /\ ReplayClass("#") = 3 /\ ReplayClass("$") = 4 /\ ReplayClass("+") = 5
  /\ ReplayClass("-") = 6 /\ ReplayClass("hex") = 7
  /\ \A b \in Bytes \ {"nul"} : ReplayClass(b) = yy_ec[b]
BY DEF ReplayClass, yy_ec, Bytes

LEMMA FirstEntries ==
  /\ yy_nxt[1] = 4 /\ yy_nxt[2] = 5 /\ yy_nxt[3] = 4 /\ yy_nxt[4] = 6
  /\ yy_nxt[5] = 7 /\ yy_nxt[6] = 8 /\ yy_nxt[7] = 4
  /\ yy_meta[1] = 1 /\ yy_meta[2] = 1 /\ yy_meta[3] = 1 /\ yy_meta[4] = 2
  /\ yy_meta[5] = 1 /\ yy_meta[6] = 1 /\ yy_meta[7] = 1
BY DEF yy_nxt, yy_meta, Table

LEMMA FollowsFirst ==
  ASSUME NEW b \in Bytes
  PROVE  Delta(1, ReplayClass(b)) = FirstState(b)
<1> DEFINE c == ReplayClass(b)
<1>1. c \in 1 .. 7
  BY ReplayClassValues
<1>2. yy_chk[yy_base[1] + c] = 1 /\ yy_base[1] + c = c
  BY <1>1, BaseValues, ChkValues
<1>3. Delta(1, c) = yy_nxt[c]
  BY <1>2, OwnEntry
<1>4. yy_nxt[c] = FirstState(b)
  BY ByteClasses, FirstEntries DEF Bytes, FirstState
<1> QED
  BY <1>3, <1>4

LEMMA FollowsBody ==
  ASSUME NEW s \in {6, 9}, NEW b \in Bytes
  PROVE  Delta(s, ReplayClass(b)) = IF b = "#" THEN 10 ELSE IF b = "$" THEN 13 ELSE 9
<1>1. ReplayClass(b) \in Classes /\ ReplayClass(b) \in 1 .. 7
  BY ReplayClassValues DEF Classes
<1>2. CASE b = "#"
  <2>1. yy_chk[yy_base[s] + 3] = s /\ yy_nxt[yy_base[s] + 3] = 10
    BY BaseValues, ChkValues, NxtValues
  <2> QED
    BY <1>2, <2>1, OwnEntry, ByteClasses
<1>3. CASE b # "#"
  <2>1. ReplayClass(b) # 3
    BY <1>3, ByteClasses DEF Bytes
  <2>2. yy_chk[yy_base[s] + ReplayClass(b)] # s
    BY <1>1, <2>1, BaseValues, ChkValues
  <2>3. yy_meta[ReplayClass(b)] = IF b = "$" THEN 2 ELSE 1
    BY ByteClasses, FirstEntries DEF Bytes
  <2>4. yy_def[s] = 14 /\ s \in States
    BY DefValues DEF States
  <2> QED
    BY <1>1, <1>3, <2>2, <2>3, <2>4, ViaTemplate
<1> QED
  BY <1>2, <1>3

LEMMA FollowsHex ==
  ASSUME NEW s \in {10, 11}, NEW b \in Bytes
  PROVE  Delta(s, ReplayClass(b)) = IF b = "hex" THEN s + 1 ELSE 13
<1>1. ReplayClass(b) \in Classes /\ ReplayClass(b) \in 1 .. 7
  BY ReplayClassValues DEF Classes
<1>2. CASE b = "hex"
  <2>1. yy_chk[yy_base[s] + 7] = s /\ yy_nxt[yy_base[s] + 7] = s + 1
    BY BaseValues, ChkValues, NxtValues
  <2> QED
    BY <1>2, <2>1, OwnEntry, ByteClasses
<1>3. CASE b # "hex"
  <2>1. ReplayClass(b) # 7
    BY <1>3, ByteClasses DEF Bytes
  <2>2. yy_chk[yy_base[s] + ReplayClass(b)] # s
    BY <1>1, <2>1, BaseValues, ChkValues
  <2>3. yy_def[s] = 13 /\ s \in States
    BY DefValues DEF States
  <2> QED
    BY <1>1, <1>3, <2>2, <2>3, ViaJam DEF JamNext
<1> QED
  BY <1>2, <1>3

LEMMA FollowsToken ==
  ASSUME NEW s \in {4, 5, 7, 8, 12}, NEW b \in Bytes
  PROVE  Delta(s, ReplayClass(b)) = 13
<1>1. ReplayClass(b) \in Classes /\ ReplayClass(b) \in 1 .. 7
  BY ReplayClassValues DEF Classes
<1>2. yy_chk[yy_base[s] + ReplayClass(b)] = 13 /\ yy_def[s] = 13 /\ s \in States
  BY <1>1, BaseValues, ChkValues, DefValues DEF States
<1> QED
  BY <1>1, <1>2, ViaJam DEF JamNext

\* The compressed tables are this automaton.
LEMMA Follows ==
  ASSUME NEW s \in Reading, NEW b \in Bytes
  PROVE  Delta(s, ReplayClass(b)) = Follow(s, b)
<1>1. CASE s = 1
  BY <1>1, FollowsFirst DEF Follow
<1>2. CASE s \in {6, 9}
  BY <1>2, FollowsBody DEF Follow
<1>3. CASE s \in {10, 11}
  BY <1>3, FollowsHex DEF Follow
<1>4. CASE s \in {4, 5, 7, 8, 12}
  BY <1>4, FollowsToken DEF Follow
<1> QED
  BY <1>1, <1>2, <1>3, <1>4 DEF Reading

-----------------------------------------------------------------------------
(***************************************************************************)
(* Words: what the automaton has read of a token                           *)
(***************************************************************************)
\* The n first bytes of w are "$" and bytes of a body.
Opens(w, n) == w[1] = "$" /\ \A i \in 2 .. n : Rules!Body(w, i)

\* The automaton is in state s when it has read w.
Shape(s, w) ==
  \/ s = 1 /\ w = << >>
  \/ s \in 4 .. 8 /\ Len(w) = 1 /\ s = FirstState(w[1])
  \/ s = 9 /\ Len(w) >= 2 /\ Opens(w, Len(w))
  \/ s = 10 /\ Len(w) >= 2 /\ Opens(w, Len(w) - 1) /\ w[Len(w)] = "#"
  \/ s = 11 /\ Len(w) >= 3 /\ Opens(w, Len(w) - 2) /\ w[Len(w) - 1] = "#" /\ w[Len(w)] = "hex"
  \/ s = 12 /\ Len(w) >= 4 /\ Opens(w, Len(w) - 3)
     /\ w[Len(w) - 2] = "#" /\ w[Len(w) - 1] = "hex" /\ w[Len(w)] = "hex"

LEMMA Appended ==
  ASSUME NEW w \in Seq(Bytes), NEW b \in Bytes
  PROVE  /\ Append(w, b) \in Seq(Bytes)
         /\ Len(w) \in Nat
         /\ Len(Append(w, b)) = Len(w) + 1
         /\ Append(w, b)[Len(w) + 1] = b
         /\ \A i \in 1 .. Len(w) : Append(w, b)[i] = w[i]
BY AppendProperties, LenProperties

\* A byte more, unless the automaton jams.
LEMMA ShapeStep ==
  ASSUME NEW s \in Reading, NEW w \in Seq(Bytes), NEW b \in Bytes,
         Shape(s, w), Follow(s, b) # 13
  PROVE  Shape(Follow(s, b), Append(w, b))
<1> DEFINE v == Append(w, b)
           n == Len(w)
<1>1. /\ n \in Nat /\ Len(v) = n + 1 /\ v[n + 1] = b
      /\ \A i \in 1 .. n : v[i] = w[i]
  BY Appended
<1>2. s = 1 => n = 0
  BY EmptySeq DEF Shape
<1>3. s \in 4 .. 8 => n = 1 /\ s = FirstState(w[1])
  BY DEF Shape
<1>4. s = 6 => n = 1 /\ Opens(w, n)
  <2>1. s = 6 => n = 1 /\ w[1] = "$"
    BY <1>3 DEF FirstState
  <2> HIDE DEF n
  <2> QED
    BY <2>1 DEF Opens
<1>5. s = 9 => n >= 2 /\ Opens(w, n)
  BY DEF Shape
<1>6. s = 10 => n >= 2 /\ Opens(w, n - 1) /\ w[n] = "#"
  BY DEF Shape
<1>7. s = 11 => n >= 3 /\ Opens(w, n - 2) /\ w[n - 1] = "#" /\ w[n] = "hex"
  BY DEF Shape
<1>8. \A m \in 1 .. n : Opens(w, m) => Opens(v, m)
  BY <1>1 DEF Opens, Rules!Body
<1>9. Rules!Body(v, n + 1) <=> b \notin {"$", "#"}
  BY <1>1 DEF Rules!Body
<1> HIDE DEF v, n
<1>10. CASE s = 1
  <2>1. Follow(s, b) = FirstState(v[1]) /\ Len(v) = 1
    BY <1>1, <1>2, <1>10 DEF Follow
  <2>2. FirstState(v[1]) \in 4 .. 8
    BY DEF FirstState
  <2> QED
    BY <2>1, <2>2 DEF Shape, v
<1>11. CASE s \in {6, 9}
  <2>1. n >= 1 /\ Opens(v, n)
    BY <1>1, <1>4, <1>5, <1>8, <1>11
  <2>2. CASE b = "#"
    <3>1. Follow(s, b) = 10
      BY <1>11, <2>2 DEF Follow
    <3>2. Len(v) >= 2 /\ Opens(v, Len(v) - 1) /\ v[Len(v)] = "#"
      BY <1>1, <2>1, <2>2
    <3> QED
      BY <3>1, <3>2 DEF Shape, v
  <2>3. CASE b # "#"
    <3>1. Follow(s, b) = 9 /\ b # "$"
      BY <1>11, <2>3 DEF Follow
    <3>2. Opens(v, n + 1)
      BY <1>1, <1>9, <2>1, <2>3, <3>1 DEF Opens
    <3>3. Len(v) >= 2 /\ Opens(v, Len(v))
      BY <1>1, <2>1, <3>2
    <3> QED
      BY <3>1, <3>3 DEF Shape, v
  <2> QED
    BY <2>2, <2>3
<1>12. CASE s = 10
  <2>1. Follow(s, b) = 11 /\ b = "hex"
    BY <1>12 DEF Follow
  <2>2. Len(v) >= 3 /\ Opens(v, Len(v) - 2) /\ v[Len(v) - 1] = "#" /\ v[Len(v)] = "hex"
    BY <1>1, <1>6, <1>8, <1>12, <2>1
  <2> QED
    BY <2>1, <2>2 DEF Shape, v
<1>13. CASE s = 11
  <2>1. Follow(s, b) = 12 /\ b = "hex"
    BY <1>13 DEF Follow
  <2>2. /\ Len(v) >= 4 /\ Opens(v, Len(v) - 3) /\ v[Len(v) - 2] = "#"
        /\ v[Len(v) - 1] = "hex" /\ v[Len(v)] = "hex"
    BY <1>1, <1>7, <1>8, <1>13, <2>1
  <2> QED
    BY <2>1, <2>2 DEF Shape, v
<1> QED
  BY <1>10, <1>11, <1>12, <1>13 DEF Reading, Follow

-----------------------------------------------------------------------------
(***************************************************************************)
(* Words and the rules                                                     *)
(***************************************************************************)
\* IsOpen without its quantifier over where the body ends.
LEMMA OpenForms ==
  ASSUME NEW w \in Seq(Bytes)
  PROVE  Rules!IsOpen(w) <=> \/ Len(w) >= 1 /\ Opens(w, Len(w))
                             \/ Len(w) >= 2 /\ Opens(w, Len(w) - 1) /\ w[Len(w)] = "#"
                             \/ Len(w) >= 3 /\ Opens(w, Len(w) - 2)
                                /\ w[Len(w) - 1] = "#" /\ w[Len(w)] = "hex"
<1> DEFINE n == Len(w)
<1>1. n \in Nat /\ (w # << >> <=> n >= 1)
  BY LenProperties, EmptySeq
<1>2. ASSUME Rules!IsOpen(w)
      PROVE  \/ n >= 1 /\ Opens(w, n)
             \/ n >= 2 /\ Opens(w, n - 1) /\ w[n] = "#"
             \/ n >= 3 /\ Opens(w, n - 2) /\ w[n - 1] = "#" /\ w[n] = "hex"
  <2>1. PICK m \in 1 .. n :
          /\ \A i \in 2 .. m : Rules!Body(w, i)
          /\ \/ m = n
             \/ m = n - 1 /\ w[n] = "#"
             \/ m = n - 2 /\ w[n - 1] = "#" /\ w[n] = "hex"
    BY <1>2 DEF Rules!IsOpen
  <2>2. w[1] = "$"
    BY <1>2 DEF Rules!IsOpen
  <2>3. Opens(w, m)
    BY <2>1, <2>2 DEF Opens
  <2> HIDE DEF n
  <2> QED
    BY <1>1, <2>1, <2>3
<1>3. ASSUME NEW m \in 1 .. n, Opens(w, m),
             \/ m = n
             \/ m = n - 1 /\ w[n] = "#"
             \/ m = n - 2 /\ w[n - 1] = "#" /\ w[n] = "hex"
      PROVE  Rules!IsOpen(w)
  BY <1>1, <1>3 DEF Opens, Rules!IsOpen
<1>4. ASSUME \/ n >= 1 /\ Opens(w, n)
             \/ n >= 2 /\ Opens(w, n - 1) /\ w[n] = "#"
             \/ n >= 3 /\ Opens(w, n - 2) /\ w[n - 1] = "#" /\ w[n] = "hex"
      PROVE  Rules!IsOpen(w)
  <2>1. CASE n >= 1 /\ Opens(w, n)
    BY <1>1, <1>3, <2>1
  <2>2. CASE n >= 2 /\ Opens(w, n - 1) /\ w[n] = "#"
    <3>1. n - 1 \in 1 .. n
      BY <1>1, <2>2
    <3> QED
      BY <1>3, <2>2, <3>1
  <2>3. CASE n >= 3 /\ Opens(w, n - 2) /\ w[n - 1] = "#" /\ w[n] = "hex"
    <3>1. n - 2 \in 1 .. n
      BY <1>1, <2>3
    <3> QED
      BY <1>3, <2>3, <3>1
  <2> QED
    BY <1>4, <2>1, <2>2, <2>3
<1> QED
  BY <1>2, <1>4

LEMMA ShapeLengths ==
  ASSUME NEW s \in Reading, NEW w \in Seq(Bytes), Shape(s, w)
  PROVE  /\ s = 1 <=> w = << >>
         /\ s \in 4 .. 8 => Len(w) = 1 /\ s = FirstState(w[1])
         /\ s \in 9 .. 12 => Len(w) >= 2
         /\ s \in {6, 9, 10, 11, 12} => w[1] = "$"
         /\ Len(w) \in Nat
<1>1. Len(w) \in Nat /\ (w = << >> <=> Len(w) = 0)
  BY LenProperties, EmptySeq
<1>2. s = 1 <=> w = << >>
  BY <1>1 DEF Shape, Reading
<1>3. s \in 4 .. 8 => Len(w) = 1 /\ s = FirstState(w[1])
  BY DEF Shape
<1>4. s \in 9 .. 12 => Len(w) >= 2 /\ w[1] = "$"
  BY <1>1 DEF Shape, Opens
<1>5. s = 6 => w[1] = "$"
  BY <1>3 DEF FirstState
<1> QED
  BY <1>1, <1>2, <1>3, <1>4, <1>5

\* In these states the bytes read may still become a packet.
LEMMA ShapeOpen ==
  ASSUME NEW s \in {6, 9, 10, 11}, NEW w \in Seq(Bytes), Shape(s, w)
  PROVE  Rules!IsOpen(w)
<1>1. Len(w) \in Nat
  BY LenProperties
<1>2. CASE s = 6
  <2>1. Len(w) = 1 /\ w[1] = "$"
    BY <1>2, ShapeLengths DEF Reading
  <2>2. Opens(w, Len(w))
    BY <2>1 DEF Opens
  <2>3. Len(w) >= 1
    BY <2>1
  <2> QED
    BY <2>2, <2>3, OpenForms
<1>3. CASE s # 6
  <2>1. \/ Len(w) >= 1 /\ Opens(w, Len(w))
        \/ Len(w) >= 2 /\ Opens(w, Len(w) - 1) /\ w[Len(w)] = "#"
        \/ Len(w) >= 3 /\ Opens(w, Len(w) - 2) /\ w[Len(w) - 1] = "#" /\ w[Len(w)] = "hex"
    BY <1>1, <1>3 DEF Shape
  <2> QED
    BY <2>1, OpenForms
<1> QED
  BY <1>2, <1>3

LEMMA PacketClosed ==
  ASSUME NEW w \in Seq(Bytes), Shape(12, w)
  PROVE  ~Rules!IsOpen(w)
<1> DEFINE n == Len(w)
<1>1. /\ n \in Nat /\ n >= 4 /\ Opens(w, n - 3)
      /\ w[n - 2] = "#" /\ w[n - 1] = "hex" /\ w[n] = "hex"
  BY LenProperties DEF Shape
<1>2. ~Opens(w, n) /\ ~Opens(w, n - 1) /\ ~Opens(w, n - 2)
  <2> HIDE DEF n
  <2>1. n - 2 \in 2 .. n - 2 /\ n - 2 \in 2 .. n - 1 /\ n - 2 \in 2 .. n
    BY <1>1
  <2>2. ~Rules!Body(w, n - 2)
    BY <1>1 DEF Rules!Body
  <2> QED
    BY <2>1, <2>2 DEF Opens
<1>3. w[n] # "#" /\ w[n - 1] # "#"
  BY <1>1
<1> QED
  BY <1>2, <1>3, OpenForms

\* What yylex may have read when it waits for more.
LEMMA ShapeUndecided ==
  ASSUME NEW s \in Reading, NEW w \in Seq(Bytes), Shape(s, w)
  PROVE  Rules!Undecided(w) <=> s \in {1, 6, 9, 10, 11} \/ (s = 4 /\ w = <<"nul">>)
<1>1. s = 1 => w = << >>
  BY DEF Shape
<1>2. s \in {6, 9, 10, 11} => Rules!IsOpen(w)
  BY ShapeOpen
<1>3. s = 12 => ~Rules!IsOpen(w) /\ Len(w) >= 2
  BY PacketClosed, ShapeLengths DEF Reading
<1>4. s \in {4, 5, 7, 8} => w[1] # "$" /\ Len(w) = 1
  BY ShapeLengths DEF FirstState
<1>5. s \in {5, 7, 8} => w[1] # "nul"
  BY ShapeLengths DEF FirstState
<1>6. s \in {4, 5, 7, 8, 12} => ~Rules!IsOpen(w) /\ w # << >>
  BY <1>3, <1>4, EmptySeq DEF Rules!IsOpen
<1> DEFINE nul == <<"nul">>
<1>7. Len(nul) = 1 /\ nul[1] = "nul"
  OBVIOUS
<1> HIDE DEF nul
<1>8. s \in {5, 7, 8, 12} => w # nul
  <2>1. w = nul => Len(w) = 1 /\ w[1] = "nul"
    BY <1>7
  <2> DEFINE n == Len(w)
  <2>2. s = 12 => n >= 2
    BY <1>3
  <2> HIDE DEF n
  <2>3. s = 12 => n # 1
    BY <2>2
  <2> USE DEF n
  <2> QED
    BY <1>5, <2>1, <2>3
<1> USE DEF nul
<1> QED
  BY <1>1, <1>2, <1>6, <1>8 DEF Rules!Undecided, Reading

\* Every prefix of an undecided word is undecided.
LEMMA UndecidedPrefix ==
  ASSUME NEW w \in Seq(Bytes), Rules!Undecided(w), NEW v \in Seq(Bytes),
         Len(v) <= Len(w), \A i \in 1 .. Len(v) : v[i] = w[i]
  PROVE  Rules!Undecided(v)
<1> DEFINE n == Len(w)
           k == Len(v)
<1>1. n \in Nat /\ k \in Nat /\ k <= n /\ (k = 0 => v = << >>)
  BY LenProperties, EmptySeq
<1>2. CASE k = 0
  BY <1>1, <1>2 DEF Rules!Undecided
<1>3. CASE k = n
  <2>1. v = w
    BY <1>3, SeqEqual
  <2> QED
    BY <2>1
<1>4. CASE 0 < k /\ k < n
  <2>1. n >= 2
    BY <1>1, <1>4
  <2>2. Rules!IsOpen(w)
    <3> DEFINE nul == <<"nul">>
    <3>1. w # << >>
      BY <2>1, EmptySeq
    <3>2. Len(nul) = 1
      OBVIOUS
    <3> HIDE DEF nul
    <3>3. w = nul => n = 1
      BY <3>2
    <3> HIDE DEF n
    <3>4. n # 1
      BY <1>1, <2>1
    <3>5. w # nul
      BY <3>3, <3>4
    <3> QED
      BY <3>1, <3>5 DEF Rules!Undecided, nul
  <2>3. \A m \in 1 .. k : Opens(w, m) => Opens(v, m)
    <3>1. \A i \in 1 .. k : v[i] = w[i]
      OBVIOUS
    <3> HIDE DEF k
    <3> QED
      BY <1>1, <3>1 DEF Opens, Rules!Body
  <2>4. \A m \in 1 .. n : \A l \in 1 .. m : Opens(w, m) => Opens(w, l)
    <3> HIDE DEF n
    <3> QED
      BY <1>1 DEF Opens
  <2>5. \/ Opens(w, n)
        \/ Opens(w, n - 1)
        \/ n >= 3 /\ Opens(w, n - 2) /\ w[n - 1] = "#"
    BY <2>2, OpenForms
  <2>6. \A i \in 1 .. k : v[i] = w[i]
    OBVIOUS
  <2> HIDE DEF n, k
  <2>7. CASE Opens(w, n) \/ Opens(w, n - 1)
    <3>1. Opens(w, k)
      BY <1>1, <1>4, <2>4, <2>7
    <3>2. Opens(v, k)
      BY <1>1, <1>4, <2>3, <3>1
    <3> QED
      BY <1>1, <1>4, <3>2, OpenForms DEF k, Rules!Undecided
  <2>8. CASE n >= 3 /\ Opens(w, n - 2) /\ w[n - 1] = "#"
    <3>1. CASE k = n - 1
      <4>1. Opens(v, k - 1) /\ v[k] = "#" /\ k >= 2
        BY <1>1, <2>3, <2>6, <2>8, <3>1
      <4> QED
        BY <4>1, OpenForms DEF k, Rules!Undecided
    <3>2. CASE k # n - 1
      <4>1. Opens(w, k)
        BY <1>1, <1>4, <2>4, <2>8, <3>2
      <4>2. Opens(v, k)
        BY <1>1, <1>4, <2>3, <4>1
      <4> QED
        BY <1>1, <1>4, <4>2, OpenForms DEF k, Rules!Undecided
    <3> QED
      BY <3>1, <3>2
  <2> QED
    BY <2>5, <2>7, <2>8
<1> QED
  BY <1>1, <1>2, <1>3, <1>4

\* r begins with a packet of k bytes.
Packet(r, k) ==
  Opens(r, k - 3) /\ r[k - 2] = "#" /\ r[k - 1] = "hex" /\ r[k] = "hex"

LEMMA PacketAt ==
  ASSUME NEW r \in Seq(Bytes), NEW k \in 4 .. Len(r)
  PROVE  Rules!IsPacket(SubSeq(r, 1, k)) <=> Packet(r, k)
<1> DEFINE w == SubSeq(r, 1, k)
<1>1. Len(r) \in Nat /\ \A i \in 1 .. Len(r) : r[i] \in Bytes
  BY LenProperties, ElementOfSeq
<1>2. \A i \in 1 .. k : r[i] \in Bytes
  BY <1>1
<1>3. Len(w) = k /\ \A i \in 1 .. k : w[i] = r[i]
  BY <1>2, SubSeqProperties
<1> HIDE DEF w
<1>4. Opens(w, k - 3) <=> Opens(r, k - 3)
  BY <1>3 DEF Opens, Rules!Body
<1>5. Rules!IsPacket(w) <=> Packet(w, k)
  BY <1>3 DEF Rules!IsPacket, Packet, Opens
<1>6. Packet(w, k) <=> Packet(r, k)
  BY <1>3, <1>4 DEF Packet
<1> QED
  BY <1>5, <1>6 DEF w

LEMMA NoPacketFirst ==
  ASSUME NEW r \in Seq(Bytes), \A k \in 4 .. Len(r) : ~Packet(r, k)
  PROVE  Rules!First(r) = [rule |-> Rules!RuleOfByte(r[1]), text |-> <<r[1]>>]
<1>1. \A k \in 4 .. Len(r) : ~Rules!IsPacket(SubSeq(r, 1, k))
  BY PacketAt
<1>2. Rules!Matches(r) = {}
  BY <1>1 DEF Rules!Matches
<1> QED
  BY <1>2 DEF Rules!First

\* Where the body ends is determined.
LEMMA BodyEnd ==
  ASSUME NEW r \in Seq(Bytes), NEW a \in Nat, NEW b \in Nat,
         1 <= a, 1 <= b, Opens(r, a), Opens(r, b), r[b + 1] \in {"$", "#"}
  PROVE  a <= b
<1>1. ~Rules!Body(r, b + 1)
  BY DEF Rules!Body
<1> QED
  BY <1>1 DEF Opens

LEMMA PacketFirst ==
  ASSUME NEW r \in Seq(Bytes), NEW n \in 4 .. Len(r), Packet(r, n)
  PROVE  Rules!First(r) = [rule |-> 3, text |-> SubSeq(r, 1, n)] /\ ~Rules!Undecided(r)
<1>1. Len(r) \in Nat
  BY LenProperties
<1>2. ASSUME NEW k \in 4 .. Len(r), Packet(r, k) PROVE k = n
  <2>1. k - 3 \in Nat /\ n - 3 \in Nat /\ 1 <= k - 3 /\ 1 <= n - 3
    OBVIOUS
  <2>2. Opens(r, k - 3) /\ Opens(r, n - 3) /\ r[(k - 3) + 1] = "#" /\ r[(n - 3) + 1] = "#"
    <3>1. (k - 3) + 1 = k - 2 /\ (n - 3) + 1 = n - 2
      OBVIOUS
    <3> QED
      BY <1>2, <3>1 DEF Packet
  <2>3. k - 3 <= n - 3 /\ n - 3 <= k - 3
    BY <2>1, <2>2, BodyEnd
  <2> QED
    BY <2>3
<1>3. Rules!Matches(r) = {[rule |-> 3, text |-> SubSeq(r, 1, n)]}
  <2>1. {k \in 4 .. Len(r) : Rules!IsPacket(SubSeq(r, 1, k))} = {n}
    BY <1>2, PacketAt
  <2> QED
    BY <2>1, Zenon DEF Rules!Matches
<1>4. Rules!First(r) = [rule |-> 3, text |-> SubSeq(r, 1, n)]
  BY <1>3 DEF Rules!First
<1>5. ~Rules!IsOpen(r)
  <2> DEFINE l == Len(r)
  <2>1. \A m \in 1 .. l : Opens(r, m) => m <= n - 3
    <3>1. n - 3 \in Nat /\ 1 <= n - 3 /\ (n - 3) + 1 = n - 2
      OBVIOUS
    <3>2. Opens(r, n - 3) /\ r[(n - 3) + 1] = "#"
      BY <3>1 DEF Packet
    <3> QED
      BY <1>1, <3>1, <3>2, BodyEnd
  <2>2. l \in Nat /\ n \in 4 .. l
    BY <1>1
  <2>3. r[n - 2] = "#" /\ r[n - 1] = "hex" /\ r[n] = "hex"
    BY DEF Packet
  <2> HIDE DEF l
  <2>4. ~Opens(r, l) /\ ~Opens(r, l - 1) /\ ~Opens(r, l - 2)
    BY <2>1, <2>2
  <2> QED
    BY <2>4, OpenForms DEF l
<1>6. r # << >>
  BY <1>1, EmptySeq
<1>7. r # <<"nul">>
  <2>1. r[1] = "$"
    BY DEF Packet, Opens
  <2> QED
    BY <2>1
<1> QED
  BY <1>4, <1>5, <1>6, <1>7 DEF Rules!Undecided

\* What is still open at its end holds no packet.
LEMMA OpenNoPacket ==
  ASSUME NEW r \in Seq(Bytes), Rules!IsOpen(r), NEW k \in 4 .. Len(r)
  PROVE  ~Packet(r, k)
<1> DEFINE n == Len(r)
<1>1. n \in Nat /\ k \in 4 .. n
  BY LenProperties
<1>2. \E m \in n - 2 .. n : Opens(r, m)
  <2>1. Opens(r, n) \/ Opens(r, n - 1) \/ Opens(r, n - 2)
    BY OpenForms
  <2> HIDE DEF n
  <2> QED
    BY <1>1, <2>1
<1> HIDE DEF n
<1>3. SUFFICES ASSUME Packet(r, k) PROVE FALSE
  OBVIOUS
<1>4. PICK m \in n - 2 .. n : Opens(r, m)
  BY <1>2
<1>5. Opens(r, k - 3) /\ r[(k - 3) + 1] = "#"
  <2>1. (k - 3) + 1 = k - 2
    OBVIOUS
  <2> QED
    BY <1>3, <2>1 DEF Packet
<1>6. m \in Nat /\ 1 <= m /\ k - 3 \in Nat /\ 1 <= k - 3
  BY <1>1
<1>7. m <= k - 3
  BY <1>4, <1>5, <1>6, BodyEnd
<1> QED
  BY <1>1, <1>7

\* w is the beginning of r.
Begins(w, r) == Len(w) <= Len(r) /\ \A i \in 1 .. Len(w) : r[i] = w[i]

LEMMA OpensBegins ==
  ASSUME NEW w \in Seq(Bytes), NEW r \in Seq(Bytes), Begins(w, r), NEW m \in 1 .. Len(w)
  PROVE  Opens(w, m) <=> Opens(r, m)
<1> DEFINE n == Len(w)
<1>1. n \in Nat /\ m \in 1 .. n /\ \A i \in 1 .. n : r[i] = w[i]
  BY LenProperties DEF Begins
<1> HIDE DEF n
<1> QED
  BY <1>1 DEF Opens, Rules!Body

\* The byte after w cannot be part of a packet: there is none, and none comes.
LEMMA BrokenFirst ==
  ASSUME NEW s \in {6, 9, 10, 11}, NEW w \in Seq(Bytes), NEW r \in Seq(Bytes),
         Shape(s, w), Begins(w, r), Len(w) < Len(r), Follow(s, r[Len(w) + 1]) = 13
  PROVE  /\ ~Rules!Undecided(r)
         /\ Rules!First(r) = [rule |-> 4, text |-> <<"$">>]
<1> DEFINE n == Len(w)
           l == Len(r)
<1>1. n \in Nat /\ l \in Nat /\ n < l /\ \A i \in 1 .. n : r[i] = w[i]
  BY LenProperties DEF Begins
<1>2. n >= 1 /\ r[1] = "$"
  <2>1. n >= 1 /\ w[1] = "$"
    BY ShapeLengths DEF Reading
  <2> HIDE DEF n
  <2> QED
    BY <1>1, <2>1
<1>3. \A m \in 1 .. n : Opens(w, m) <=> Opens(r, m)
  BY OpensBegins
\* e bytes of the body, and the byte after them; what follows is no checksum.
<1> DEFINE Ends(e) ==
             /\ e \in 1 .. n /\ Opens(r, e)
             /\ \/ e = n /\ r[e + 1] = "$"
                \/ e = n - 1 /\ r[e + 1] = "#" /\ r[e + 2] # "hex"
                \/ e = n - 2 /\ r[e + 1] = "#" /\ r[e + 2] = "hex" /\ r[e + 3] # "hex"
<1>4. \E e \in 1 .. n : Ends(e)
  <2>1. CASE s \in {6, 9}
    <3>1. r[n + 1] = "$"
      BY <2>1 DEF Follow
    <3>2. Opens(w, n)
      <4>1. s = 6 => n = 1 /\ w[1] = "$"
        BY ShapeLengths DEF Reading
      <4>2. s = 9 => Opens(w, n)
        BY DEF Shape
      <4> HIDE DEF n
      <4> QED
        BY <2>1, <4>1, <4>2 DEF Opens
    <3> HIDE DEF n, l
    <3>3. Ends(n)
      BY <1>1, <1>2, <1>3, <3>1, <3>2
    <3> QED
      BY <1>1, <1>2, <3>3
  <2>2. CASE s = 10
    <3>1. n >= 2 /\ Opens(w, n - 1) /\ w[n] = "#" /\ r[n + 1] # "hex"
      BY <2>2 DEF Shape, Follow
    <3> HIDE DEF n, l
    <3>2. Ends(n - 1)
      BY <1>1, <1>3, <3>1
    <3> QED
      BY <1>1, <3>1, <3>2
  <2>3. CASE s = 11
    <3>1. /\ n >= 3 /\ Opens(w, n - 2) /\ w[n - 1] = "#" /\ w[n] = "hex"
          /\ r[n + 1] # "hex"
      BY <2>3 DEF Shape, Follow
    <3> HIDE DEF n, l
    <3>2. Ends(n - 2)
      BY <1>1, <1>3, <3>1
    <3> QED
      BY <1>1, <3>1, <3>2
  <2> QED
    BY <2>1, <2>2, <2>3
<1>5. PICK e \in 1 .. n : Ends(e)
  BY <1>4
<1> HIDE DEF n, l
<1>6. e \in Nat /\ 1 <= e /\ Opens(r, e) /\ r[e + 1] \in {"$", "#"}
  BY <1>1, <1>5
<1>7. \A m \in 1 .. l : Opens(r, m) => m <= e
  BY <1>1, <1>6, BodyEnd
<1>8. ASSUME NEW k \in 4 .. l, Packet(r, k) PROVE FALSE
  <2>1. /\ Opens(r, k - 3) /\ r[(k - 3) + 1] = "#" /\ r[(k - 3) + 2] = "hex"
        /\ r[(k - 3) + 3] = "hex"
    <3>1. (k - 3) + 1 = k - 2 /\ (k - 3) + 2 = k - 1 /\ (k - 3) + 3 = k
      OBVIOUS
    <3> QED
      BY <1>8, <3>1 DEF Packet
  <2>2. k - 3 \in Nat /\ 1 <= k - 3
    BY <1>1
  <2>3. e <= k - 3 /\ k - 3 <= e
    BY <1>6, <2>1, <2>2, BodyEnd
  <2>4. k - 3 = e
    BY <1>6, <2>2, <2>3
  <2> QED
    BY <1>5, <2>1, <2>4
<1>9. ~Rules!IsOpen(r)
  <2>1. ~Opens(r, l)
    BY <1>1, <1>5, <1>7
  <2>2. ~(l >= 2 /\ Opens(r, l - 1) /\ r[l] = "#")
    <3>1. SUFFICES ASSUME l >= 2, Opens(r, l - 1), r[l] = "#" PROVE FALSE
      OBVIOUS
    <3>2. l - 1 <= e
      BY <1>1, <1>7, <3>1
    <3>3. e = n /\ l = e + 1
      BY <1>1, <1>5, <3>2
    <3> QED
      BY <1>1, <1>5, <3>1, <3>3
  <2>3. ~(l >= 3 /\ Opens(r, l - 2) /\ r[l - 1] = "#" /\ r[l] = "hex")
    <3>1. SUFFICES ASSUME l >= 3, Opens(r, l - 2), r[l - 1] = "#", r[l] = "hex" PROVE FALSE
      OBVIOUS
    <3>2. l - 2 <= e
      BY <1>1, <1>7, <3>1
    <3>3. l = e + 1 \/ l = e + 2
      BY <1>1, <1>5, <3>2
    <3> QED
      BY <1>1, <1>5, <3>1, <3>3
  <2> QED
    BY <2>1, <2>2, <2>3, OpenForms DEF l
<1>10. Rules!First(r) = [rule |-> 4, text |-> <<"$">>]
  <2>1. Rules!First(r) = [rule |-> Rules!RuleOfByte(r[1]), text |-> <<r[1]>>]
    BY <1>8, NoPacketFirst DEF l
  <2>2. Rules!RuleOfByte("$") = 4
    BY DEF Rules!RuleOfByte
  <2> QED
    BY <1>2, <2>1, <2>2, Zenon
<1>11. r # << >> /\ r # <<"nul">>
  <2> DEFINE nul == <<"nul">>
  <2>1. nul[1] = "nul"
    OBVIOUS
  <2> HIDE DEF nul
  <2>2. r # nul
    BY <1>2, <2>1
  <2>3. r # << >>
    <3>1. l # 0
      BY <1>1
    <3> QED
      BY <3>1, EmptySeq DEF l
  <2> QED
    BY <2>2, <2>3 DEF nul
<1> QED
  BY <1>9, <1>10, <1>11 DEF Rules!Undecided

\* A token of one byte that begins no packet.
LEMMA ByteFirst ==
  ASSUME NEW r \in Seq(Bytes), Len(r) >= 1, r[1] # "$"
  PROVE  /\ Rules!First(r) = [rule |-> Rules!RuleOfByte(r[1]), text |-> <<r[1]>>]
         /\ r[1] # "nul" \/ Len(r) >= 2 => ~Rules!Undecided(r)
<1>1. \A k \in 4 .. Len(r) : ~Packet(r, k)
  BY DEF Packet, Opens
<1>2. ~Rules!IsOpen(r)
  BY DEF Rules!IsOpen
<1>3. r # << >>
  BY EmptySeq
<1>4. r[1] # "nul" \/ Len(r) >= 2 => r # <<"nul">>
  <2> DEFINE nul == <<"nul">>
             l == Len(r)
  <2>1. nul[1] = "nul" /\ Len(nul) = 1
    OBVIOUS
  <2> HIDE DEF nul
  <2>2. r = nul => r[1] = "nul" /\ l = 1
    BY <2>1
  <2> HIDE DEF l
  <2>3. l >= 2 => l # 1
    OBVIOUS
  <2> QED
    BY <2>2, <2>3 DEF l, nul
<1> QED
  BY <1>1, <1>2, <1>3, <1>4, NoPacketFirst DEF Rules!Undecided

\* The stream ends inside a packet.
LEMMA OpenFirst ==
  ASSUME NEW r \in Seq(Bytes), Rules!IsOpen(r)
  PROVE  Rules!First(r) = [rule |-> 4, text |-> <<"$">>]
<1>1. Rules!First(r) = [rule |-> Rules!RuleOfByte(r[1]), text |-> <<r[1]>>]
  BY OpenNoPacket, NoPacketFirst
<1>2. r[1] = "$"
  BY DEF Rules!IsOpen
<1>3. Rules!RuleOfByte("$") = 4
  BY DEF Rules!RuleOfByte
<1> QED
  BY <1>1, <1>2, <1>3, Zenon

\* The rule of a state that accepts one byte.
LEMMA RuleOfState ==
  ASSUME NEW b \in Bytes
  PROVE  yy_accept[FirstState(b)] = Rules!RuleOfByte(b)
<1>1. /\ yy_accept[4] = 4 /\ yy_accept[5] = 5 /\ yy_accept[6] = 4
      /\ yy_accept[7] = 1 /\ yy_accept[8] = 2
  BY DEF yy_accept, Table
<1> QED
  BY <1>1 DEF FirstState, Rules!RuleOfByte

-----------------------------------------------------------------------------
(***************************************************************************)
(* Words of the buffer                                                     *)
(***************************************************************************)
LEMMA WordFacts ==
  ASSUME NEW b \in Seq(Bytes), NEW t \in Nat, NEW n \in t .. Len(b)
  PROVE  /\ SubSeq(b, t + 1, n) \in Seq(Bytes)
         /\ Len(SubSeq(b, t + 1, n)) = n - t
         /\ \A i \in 1 .. n - t : SubSeq(b, t + 1, n)[i] = b[t + i]
<1>1. Len(b) \in Nat /\ \A i \in 1 .. Len(b) : b[i] \in Bytes
  BY LenProperties, ElementOfSeq
<1>2. n \in Nat /\ t <= n /\ n <= Len(b) /\ t + 1 \in Int /\ n \in Int
  BY <1>1
<1>3. \A i \in t + 1 .. n : b[i] \in Bytes
  BY <1>1, <1>2
<1>4. /\ SubSeq(b, t + 1, n) \in Seq(Bytes)
      /\ Len(SubSeq(b, t + 1, n)) = IF t + 1 <= n THEN n - (t + 1) + 1 ELSE 0
      /\ \A i \in 1 .. n - (t + 1) + 1 : SubSeq(b, t + 1, n)[i] = b[(t + 1) + i - 1]
  BY <1>2, <1>3, SubSeqProperties
<1>5. n - (t + 1) + 1 = n - t /\ (~(t + 1 <= n) => n - t = 0)
  BY <1>2
<1>6. \A i \in 1 .. n - t : (t + 1) + i - 1 = t + i
  BY <1>2
<1> QED
  BY <1>4, <1>5, <1>6

LEMMA WordNext ==
  ASSUME NEW b \in Seq(Bytes), NEW t \in Nat, NEW n \in t .. Len(b) - 1
  PROVE  /\ b[n + 1] \in Bytes
         /\ SubSeq(b, t + 1, n + 1) = Append(SubSeq(b, t + 1, n), b[n + 1])
<1> DEFINE v == SubSeq(b, t + 1, n + 1)
           w == SubSeq(b, t + 1, n)
           c == b[n + 1]
<1>1. /\ Len(b) \in Nat /\ n \in Nat /\ n \in t .. Len(b) /\ n + 1 \in t .. Len(b)
      /\ n + 1 \in 1 .. Len(b)
  BY LenProperties
<1>2. c \in Bytes
  BY <1>1, ElementOfSeq
<1>3. v \in Seq(Bytes) /\ Len(v) = (n + 1) - t /\ \A i \in 1 .. (n + 1) - t : v[i] = b[t + i]
  BY <1>1, WordFacts
<1>4. w \in Seq(Bytes) /\ Len(w) = n - t /\ \A i \in 1 .. n - t : w[i] = b[t + i]
  BY <1>1, WordFacts
<1> DEFINE a == Append(w, c)
<1> HIDE DEF v, w, c
<1>5. /\ a \in Seq(Bytes) /\ Len(a) = (n - t) + 1 /\ a[(n - t) + 1] = c
      /\ \A i \in 1 .. n - t : a[i] = w[i]
  BY <1>2, <1>4, Appended
<1> HIDE DEF a
<1>6. \A i \in 1 .. (n - t) + 1 : v[i] = a[i]
  <2>1. SUFFICES ASSUME NEW i \in 1 .. (n - t) + 1 PROVE v[i] = a[i]
    OBVIOUS
  <2>2. CASE i = (n - t) + 1
    <3>1. t + i = n + 1
      BY <1>1, <2>2
    <3>2. v[i] = b[t + i]
      BY <1>1, <1>3
    <3> QED
      BY <1>5, <2>2, <3>1, <3>2 DEF c
  <2>3. CASE i # (n - t) + 1
    <3>1. i \in 1 .. n - t /\ i \in 1 .. (n + 1) - t
      BY <1>1, <2>3
    <3> QED
      BY <1>3, <1>4, <1>5, <3>1
  <2> QED
    BY <2>2, <2>3
<1>7. Len(v) = Len(a) /\ Len(v) = (n - t) + 1
  BY <1>1, <1>3, <1>5
<1>8. v = a
  BY <1>3, <1>5, <1>6, <1>7, SeqEqual
<1> QED
  BY <1>2, <1>8 DEF v, a, w, c

\* The bytes that are not yet part of a token, from position t on.
After(b, t, u) == SubSeq(b, t + 1, Len(b)) \o u

LEMMA AfterFacts ==
  ASSUME NEW b \in Seq(Bytes), NEW t \in Nat, t <= Len(b), NEW u \in Seq(Bytes)
  PROVE  /\ After(b, t, u) \in Seq(Bytes)
         /\ Len(After(b, t, u)) = (Len(b) - t) + Len(u)
         /\ \A i \in 1 .. Len(b) - t : After(b, t, u)[i] = b[t + i]
         /\ \A i \in 1 .. Len(u) : After(b, t, u)[(Len(b) - t) + i] = u[i]
<1> DEFINE w == SubSeq(b, t + 1, Len(b))
<1>1. Len(b) \in Nat /\ Len(u) \in Nat /\ Len(b) \in t .. Len(b)
  BY LenProperties
<1>2. w \in Seq(Bytes) /\ Len(w) = Len(b) - t /\ \A i \in 1 .. Len(b) - t : w[i] = b[t + i]
  BY <1>1, WordFacts
<1> HIDE DEF w
<1>3. /\ w \o u \in Seq(Bytes) /\ Len(w \o u) = (Len(b) - t) + Len(u)
      /\ \A i \in 1 .. (Len(b) - t) + Len(u) :
           (w \o u)[i] = IF i <= Len(b) - t THEN w[i] ELSE u[i - (Len(b) - t)]
  <2>1. /\ w \o u \in Seq(Bytes) /\ Len(w \o u) = Len(w) + Len(u)
        /\ \A i \in 1 .. Len(w) + Len(u) :
             (w \o u)[i] = IF i <= Len(w) THEN w[i] ELSE u[i - Len(w)]
    BY <1>2, ConcatProperties
  <2> QED
    BY <1>2, <2>1, Zenon
<1>4. \A i \in 1 .. Len(b) - t : (w \o u)[i] = b[t + i]
  BY <1>1, <1>2, <1>3
<1>5. \A i \in 1 .. Len(u) : (w \o u)[(Len(b) - t) + i] = u[i]
  <2>1. \A i \in 1 .. Len(u) :
          /\ (Len(b) - t) + i \in 1 .. (Len(b) - t) + Len(u)
          /\ ~((Len(b) - t) + i <= Len(b) - t)
          /\ ((Len(b) - t) + i) - (Len(b) - t) = i
    BY <1>1
  <2> QED
    BY <1>3, <2>1
<1> QED
  BY <1>3, <1>4, <1>5 DEF After, w

\* A word of the buffer is the beginning of what is not yet part of a token.
LEMMA WordBegins ==
  ASSUME NEW b \in Seq(Bytes), NEW t \in Nat, NEW n \in t .. Len(b), NEW u \in Seq(Bytes)
  PROVE  /\ Begins(SubSeq(b, t + 1, n), After(b, t, u))
         /\ SubSeq(After(b, t, u), 1, n - t) = SubSeq(b, t + 1, n)
         /\ n < Len(b) => /\ Len(SubSeq(b, t + 1, n)) < Len(After(b, t, u))
                          /\ After(b, t, u)[Len(SubSeq(b, t + 1, n)) + 1] = b[n + 1]
<1> DEFINE w == SubSeq(b, t + 1, n)
           r == After(b, t, u)
           l == Len(b)
           m == Len(u)
           v == SubSeq(r, 1, n - t)
<1>1. l \in Nat /\ m \in Nat /\ n \in Nat /\ t <= n /\ n <= l /\ t <= l
  BY LenProperties
<1>2. w \in Seq(Bytes) /\ Len(w) = n - t /\ \A i \in 1 .. n - t : w[i] = b[t + i]
  BY WordFacts
<1>3. /\ r \in Seq(Bytes) /\ Len(r) = (l - t) + m
      /\ \A i \in 1 .. l - t : r[i] = b[t + i]
  BY <1>1, AfterFacts
<1> HIDE DEF w, r, l, m
<1>4. \A i \in 1 .. n - t : r[i] = w[i] /\ r[i] \in Bytes
  <2>1. \A i \in 1 .. n - t : i \in 1 .. l - t /\ i \in 1 .. (l - t) + m
    BY <1>1
  <2> QED
    BY <1>2, <1>3, <2>1, ElementOfSeq
<1>5. n - t <= (l - t) + m
  BY <1>1
<1>6. Begins(w, r)
  BY <1>2, <1>3, <1>4, <1>5 DEF Begins
<1>7. v = w
  <2>1. n - t \in Int /\ 1 \in Int /\ n - t \in Nat
    BY <1>1
  <2>2. /\ v \in Seq(Bytes) /\ Len(v) = (IF 1 <= n - t THEN n - t - 1 + 1 ELSE 0)
        /\ \A i \in 1 .. n - t - 1 + 1 : v[i] = r[1 + i - 1]
    BY <1>4, <2>1, SubSeqProperties
  <2>3. n - t - 1 + 1 = n - t /\ \A i \in 1 .. n - t : 1 + i - 1 = i
    BY <2>1
  <2>4. (~(1 <= n - t) => n - t = 0)
    BY <2>1
  <2>5. Len(v) = n - t /\ \A i \in 1 .. n - t : v[i] = w[i]
    BY <1>4, <2>2, <2>3, <2>4
  <2> HIDE DEF v
  <2> QED
    BY <1>2, <2>2, <2>5, SeqEqual
<1>8. ASSUME n < l PROVE Len(w) < Len(r) /\ r[Len(w) + 1] = b[n + 1]
  <2>1. n - t < (l - t) + m /\ (n - t) + 1 \in 1 .. l - t /\ t + ((n - t) + 1) = n + 1
    BY <1>1, <1>8
  <2> QED
    BY <1>2, <1>3, <2>1
<1> QED
  BY <1>6, <1>7, <1>8 DEF v, w, r, l

\* What is left when the n - t first of these bytes are taken.
LEMMA AfterToken ==
  ASSUME NEW b \in Seq(Bytes), NEW t \in Nat, NEW n \in t .. Len(b), NEW u \in Seq(Bytes)
  PROVE  SubSeq(After(b, t, u), (n - t) + 1, Len(After(b, t, u))) = After(b, n, u)
<1> DEFINE r == After(b, t, u)
           q == After(b, n, u)
           l == Len(b)
           m == Len(u)
           k == n - t
           z == (l - t) + m
           v == SubSeq(r, k + 1, z)
<1>1. l \in Nat /\ m \in Nat /\ n \in Nat /\ t <= n /\ n <= l /\ t <= l
  BY LenProperties
<1>2. /\ r \in Seq(Bytes) /\ Len(r) = (l - t) + m
      /\ \A i \in 1 .. l - t : r[i] = b[t + i]
      /\ \A i \in 1 .. m : r[(l - t) + i] = u[i]
  BY <1>1, AfterFacts
<1>3. /\ q \in Seq(Bytes) /\ Len(q) = (l - n) + m
      /\ \A i \in 1 .. l - n : q[i] = b[n + i]
      /\ \A i \in 1 .. m : q[(l - n) + i] = u[i]
  BY <1>1, AfterFacts
<1> HIDE DEF r, q, l, m
<1>4. k \in Nat /\ z \in Nat /\ k <= z /\ k \in 0 .. z /\ z \in k .. z
  BY <1>1
<1>5. v \in Seq(Bytes) /\ Len(v) = z - k /\ \A i \in 1 .. z - k : v[i] = r[k + i]
  <2> HIDE DEF k, z
  <2>1. Len(r) = z
    BY <1>2 DEF z
  <2> QED
    BY <1>2, <1>4, <2>1, WordFacts
<1>6. z - k = (l - n) + m
  BY <1>1
<1>7. \A i \in 1 .. (l - n) + m : v[i] = q[i]
  <2>1. SUFFICES ASSUME NEW i \in 1 .. (l - n) + m PROVE v[i] = q[i]
    OBVIOUS
  <2>2. v[i] = r[k + i]
    BY <1>5, <1>6
  <2>3. CASE i <= l - n
    <3>1. i \in 1 .. l - n /\ k + i \in 1 .. l - t /\ t + (k + i) = n + i
      BY <1>1, <2>3
    <3>2. r[k + i] = b[n + i]
      BY <1>2, <3>1
    <3> QED
      BY <1>3, <2>2, <3>1, <3>2
  <2>4. CASE ~(i <= l - n)
    <3> DEFINE j == i - (l - n)
    <3>1. j \in 1 .. m /\ (l - t) + j = k + i /\ (l - n) + j = i
      BY <1>1, <2>4
    <3>2. r[(l - t) + j] = u[j] /\ q[(l - n) + j] = u[j]
      BY <1>2, <1>3, <3>1
    <3> HIDE DEF j, k
    <3> QED
      BY <2>2, <3>1, <3>2
  <2> QED
    BY <2>3, <2>4
<1>8. v = q
  <2>1. Len(v) = Len(q)
    BY <1>3, <1>5, <1>6
  <2> HIDE DEF v
  <2> QED
    BY <1>3, <1>5, <1>6, <1>7, <2>1, SeqEqual
<1> QED
  BY <1>2, <1>8 DEF v, r, q, k, z, l, m

-----------------------------------------------------------------------------
(***************************************************************************)
(* The invariant over the bytes read                                       *)
(***************************************************************************)
\* The bytes of the token at hand, up to position n.
Word(n) == SubSeq(buf, text + 1, n)
Rest == After(buf, text, unread)
AtEnd == closed /\ unread = << >>

\* The token ending at n, of the rule that state s accepts, is the next one,
\* and no byte still to come can change that.
Decided(s, n) ==
  /\ text < n /\ n <= Len(buf)
  /\ closed \/ ~Rules!Undecided(Rest)
  /\ Rules!First(Rest) = [rule |-> yy_accept[s], text |-> Word(n)]

\* A byte 0 was met before position n, and nothing is decided up to it.
MetZero(s, n) ==
  /\ s = 3 /\ text < n /\ n - 1 <= Len(buf)
  /\ Byte(n - 1) = "nul" /\ Rules!Undecided(Word(n - 1))

Chosen(s, n) == Decided(s, n) \/ MetZero(s, n)

\* The automaton stands where the bytes of the word lead it, and inside a packet
\* it remembers the "$" to back up to.
Reached ==
  /\ Shape(state, Word(cp))
  /\ state \in {9, 10, 11} => last = [state |-> 6, cp |-> text + 1]

AtMatch ==
  IF state = 3 THEN MetZero(state, cp)
  ELSE cp <= Len(buf) /\ Reached /\ Rules!Undecided(Word(cp))

AtFind ==
  IF yy_accept[state] = 0 THEN Chosen(last.state, last.cp) ELSE Chosen(state, cp)

AtReplay ==
  /\ Reached /\ Rules!Undecided(Word(cBufP))
  /\ after = "nul" => Byte(cBufP) = "nul"
  /\ after = "find" => AtEnd /\ cBufP = Len(buf)

EndKnown ==
  /\ status = "EOF_PENDING" => AtEnd
  /\ ended => AtEnd /\ buf = << >>

Matching ==
  /\ pc = "match" => AtMatch
  /\ pc = "find" => AtFind
  /\ pc = "action" => Chosen(state, cp)
  /\ pc \in {"replay", "nul"} => AtReplay
  /\ pc = "fill" => Rules!Undecided(buf)
  /\ pc = "eof" => AtEnd /\ Rules!Undecided(buf)
  /\ EndKnown

-----------------------------------------------------------------------------
(***************************************************************************)
(* Decisions                                                               *)
(***************************************************************************)
LEMMA OneByteWord ==
  ASSUME TypeOK, text < Len(buf)
  PROVE  Word(text + 1) = <<buf[text + 1]>>
<1> DEFINE b == buf[text + 1]
           l == Len(buf)
           w == Word(text + 1)
           v == <<b>>
<1>1. l \in Nat /\ text \in Nat /\ text < l
  BY Bounds
<1>2. b \in Bytes
  BY <1>1, ElementOfSeq DEF TypeOK
<1>3. v \in Seq(Bytes) /\ Len(v) = 1 /\ v[1] = b
  BY <1>2
<1> HIDE DEF l
<1>4. text + 1 \in text .. l /\ (text + 1) - text = 1
  BY <1>1
<1>5. /\ w \in Seq(Bytes) /\ Len(w) = (text + 1) - text
      /\ \A i \in 1 .. (text + 1) - text : w[i] = buf[text + i]
  BY <1>1, <1>4, WordFacts DEF TypeOK, Word, l
<1> HIDE DEF w, v, b
<1>6. Len(w) = 1 /\ \A i \in 1 .. 1 : w[i] = buf[text + i]
  BY <1>4, <1>5
<1>7. \A i \in 1 .. 1 : w[i] = v[i]
  BY <1>3, <1>6 DEF b
<1>8. w = v
  BY <1>3, <1>5, <1>6, <1>7, SeqEqual
<1> QED
  BY <1>8 DEF w, v, b

LEMMA DecidedByte ==
  ASSUME TypeOK, text < Len(buf), buf[text + 1] # "$",
         buf[text + 1] # "nul" \/ text + 1 < Len(buf) \/ closed
  PROVE  Decided(FirstState(buf[text + 1]), text + 1)
<1> DEFINE b == buf[text + 1]
           l == Len(buf)
           m == Len(unread)
<1>1. l \in Nat /\ m \in Nat /\ text \in Nat /\ text < l /\ text <= l
  BY Bounds, LenProperties DEF TypeOK
<1>2. b \in Bytes
  BY <1>1, ElementOfSeq DEF TypeOK
<1>3. /\ Rest \in Seq(Bytes) /\ Len(Rest) = (l - text) + m
      /\ \A i \in 1 .. l - text : Rest[i] = buf[text + i]
  BY <1>1, AfterFacts DEF TypeOK, Rest
<1> HIDE DEF l, m
<1>4. 1 \in 1 .. l - text /\ (l - text) + m >= 1 /\ (text + 1 < l => (l - text) + m >= 2)
  BY <1>1
<1>5. Rest[1] = b
  BY <1>3, <1>4
<1> HIDE DEF b
<1>6. Len(Rest) >= 1 /\ Rest[1] # "$"
  BY <1>3, <1>4, <1>5 DEF b
<1>7. /\ Rules!First(Rest) = [rule |-> Rules!RuleOfByte(b), text |-> <<b>>]
      /\ b # "nul" \/ Len(Rest) >= 2 => ~Rules!Undecided(Rest)
  BY <1>3, <1>5, <1>6, ByteFirst
<1>8. b # "nul" \/ Len(Rest) >= 2 \/ closed
  BY <1>3, <1>4 DEF b, l
<1>9. Word(text + 1) = <<b>>
  BY OneByteWord DEF b
<1>10. yy_accept[FirstState(b)] = Rules!RuleOfByte(b)
  BY <1>2, RuleOfState
<1>11. text < text + 1 /\ text + 1 <= Len(buf)
  BY <1>1 DEF l
<1>12. Rules!First(Rest) = [rule |-> yy_accept[FirstState(b)], text |-> Word(text + 1)]
  BY <1>7, <1>9, <1>10, Zenon
<1>13. Decided(FirstState(b), text + 1)
  BY <1>7, <1>8, <1>11, <1>12, Zenon DEF Decided
<1> QED
  BY <1>13 DEF b

LEMMA DecidedPacket ==
  ASSUME TypeOK, NEW n \in Nat, text <= n, n <= Len(buf), Shape(12, Word(n))
  PROVE  Decided(12, n)
<1> DEFINE l == Len(buf)
           m == Len(unread)
           w == Word(n)
           k == n - text
<1>1. l \in Nat /\ m \in Nat /\ text \in Nat /\ text <= l /\ n \in text .. l
  BY Bounds, LenProperties DEF TypeOK
<1>2. /\ Rest \in Seq(Bytes) /\ Len(Rest) = (l - text) + m
  BY <1>1, AfterFacts DEF TypeOK, Rest
<1>3. w \in Seq(Bytes) /\ Len(w) = k
  BY <1>1, WordFacts DEF TypeOK, Word
<1>4. Begins(w, Rest) /\ SubSeq(Rest, 1, k) = w
  BY <1>1, WordBegins DEF TypeOK, Word, Rest
<1>5. /\ k >= 4 /\ Opens(w, k - 3) /\ w[k - 2] = "#" /\ w[k - 1] = "hex" /\ w[k] = "hex"
  BY <1>3 DEF Shape
<1> HIDE DEF l, m, w
<1>6. k \in 4 .. (l - text) + m /\ k \in Nat
  BY <1>1, <1>5
<1> HIDE DEF k
<1>7. Packet(Rest, k)
  <2>1. k - 3 \in 1 .. k /\ k - 2 \in 1 .. k /\ k - 1 \in 1 .. k /\ k \in 1 .. k
    BY <1>5, <1>6
  <2>2. Opens(Rest, k - 3)
    BY <1>2, <1>3, <1>4, <1>5, <2>1, OpensBegins
  <2>3. Rest[k - 2] = "#" /\ Rest[k - 1] = "hex" /\ Rest[k] = "hex"
    BY <1>3, <1>4, <1>5, <2>1 DEF Begins
  <2> QED
    BY <2>2, <2>3 DEF Packet
<1>8. Rules!First(Rest) = [rule |-> 3, text |-> SubSeq(Rest, 1, k)] /\ ~Rules!Undecided(Rest)
  BY <1>2, <1>6, <1>7, PacketFirst
<1>9. yy_accept[12] = 3
  BY DEF yy_accept, Table
<1>10. text < n
  BY <1>1, <1>5 DEF k
<1>11. Rules!First(Rest) = [rule |-> yy_accept[12], text |-> Word(n)]
  BY <1>4, <1>8, <1>9, Zenon DEF w
<1> QED
  BY <1>8, <1>10, <1>11, Zenon DEF Decided

\* Only the "$" of what began like a packet is a token.
LEMMA DecidedDollar ==
  ASSUME TypeOK, text < Len(buf), buf[text + 1] = "$",
         Rules!First(Rest) = [rule |-> 4, text |-> <<"$">>],
         closed \/ ~Rules!Undecided(Rest)
  PROVE  Decided(6, text + 1)
<1> DEFINE l == Len(buf)
<1>1. l \in Nat /\ text \in Nat /\ text < l
  BY Bounds
<1> HIDE DEF l
<1>2. Word(text + 1) = <<"$">>
  BY OneByteWord
<1>3. yy_accept[6] = 4
  BY DEF yy_accept, Table
<1>4. text < text + 1 /\ text + 1 <= Len(buf)
  BY <1>1 DEF l
<1>5. Rules!First(Rest) = [rule |-> yy_accept[6], text |-> Word(text + 1)]
  BY <1>2, <1>3, Zenon
<1> QED
  BY <1>4, <1>5, Zenon DEF Decided

LEMMA DecidedBroken ==
  ASSUME TypeOK, NEW n \in Nat, text <= n, n < Len(buf),
         NEW s \in {6, 9, 10, 11}, Shape(s, Word(n)), Follow(s, buf[n + 1]) = 13
  PROVE  Decided(6, text + 1)
<1> DEFINE w == Word(n)
<1>1. Len(buf) \in Nat /\ text \in Nat /\ n \in text .. Len(buf) /\ text < Len(buf)
      /\ text <= Len(buf)
  BY Bounds
<1>2. w \in Seq(Bytes) /\ Len(w) = n - text /\ \A i \in 1 .. n - text : w[i] = buf[text + i]
  BY <1>1, WordFacts DEF TypeOK, Word
<1>3. Rest \in Seq(Bytes)
  BY <1>1, AfterFacts DEF TypeOK, Rest
<1>4. Begins(w, Rest) /\ Len(w) < Len(Rest) /\ Rest[Len(w) + 1] = buf[n + 1]
  BY <1>1, WordBegins DEF TypeOK, Word, Rest
<1>5. w[1] = "$" /\ Len(w) >= 1
  BY <1>2, ShapeLengths DEF Reading
<1> HIDE DEF w
<1>6. Follow(s, Rest[Len(w) + 1]) = 13
  BY <1>4
<1>7. ~Rules!Undecided(Rest) /\ Rules!First(Rest) = [rule |-> 4, text |-> <<"$">>]
  BY <1>2, <1>3, <1>4, <1>6, BrokenFirst DEF w
<1>8. buf[text + 1] = "$"
  <2>1. 1 \in 1 .. n - text
    BY <1>1, <1>2, <1>5
  <2> QED
    BY <1>2, <1>5, <2>1
<1> QED
  BY <1>1, <1>7, <1>8, DecidedDollar

LEMMA DecidedAtEnd ==
  ASSUME TypeOK, text < Len(buf), AtEnd,
         NEW s \in {6, 9, 10, 11}, Shape(s, Word(Len(buf)))
  PROVE  Decided(6, text + 1)
<1> DEFINE w == Word(Len(buf))
<1>1. Len(buf) \in Nat /\ text \in Nat /\ Len(buf) \in text .. Len(buf) /\ text < Len(buf)
  BY Bounds
<1>2. /\ w \in Seq(Bytes) /\ Len(w) = Len(buf) - text
      /\ \A i \in 1 .. Len(buf) - text : w[i] = buf[text + i]
  BY <1>1, WordFacts DEF TypeOK, Word
<1>3. Rest = w
  BY <1>2, ConcatEmptySeq DEF Rest, After, Word, AtEnd
<1>4. Rules!IsOpen(w) /\ w[1] = "$"
  BY <1>2, ShapeOpen, ShapeLengths DEF Reading
<1> HIDE DEF w
<1>5. Rules!First(Rest) = [rule |-> 4, text |-> <<"$">>]
  BY <1>2, <1>3, <1>4, OpenFirst
<1>6. buf[text + 1] = "$"
  <2>1. 1 \in 1 .. Len(buf) - text
    BY <1>1
  <2> QED
    BY <1>2, <1>4, <2>1
<1> QED
  BY <1>1, <1>5, <1>6, DecidedDollar DEF AtEnd

-----------------------------------------------------------------------------
(***************************************************************************)
(* The steps of the automaton                                              *)
(***************************************************************************)
\* Where the automaton may stand while nothing is decided.
LEMMA StandsUndecided ==
  ASSUME TypeOK, InToken, state # 3, cp <= Len(buf), Reached, Rules!Undecided(Word(cp))
  PROVE  /\ state \in {1, 4, 6, 9, 10, 11} /\ state \in Reading
         /\ Word(cp) \in Seq(Bytes) /\ Len(Word(cp)) = cp - text
         /\ state = 1 => cp = text
         /\ state \in {4, 6} => cp = text + 1
         /\ state = 4 => buf[text + 1] = "nul"
         /\ state \in {4, 6, 9, 10, 11} => text < cp
<1>1. /\ Len(buf) \in Nat /\ text \in Nat /\ cp \in Nat /\ cp \in text .. Len(buf)
  BY Bounds DEF InToken
<1>2. /\ Word(cp) \in Seq(Bytes) /\ Len(Word(cp)) = cp - text
      /\ \A i \in 1 .. cp - text : Word(cp)[i] = buf[text + i]
  BY <1>1, WordFacts DEF TypeOK, Word
<1>3. state \in Reading
  <2>1. state \in States
    BY DEF InToken
  <2>2. state # 13
    BY DEF Reached, Shape
  <2> QED
    BY <2>1, <2>2 DEF States, Reading
<1>4. Shape(state, Word(cp))
  BY DEF Reached
<1> DEFINE w == Word(cp)
           nul == <<"nul">>
<1> HIDE DEF w, nul
<1>5. state \in {1, 6, 9, 10, 11} \/ (state = 4 /\ w = nul)
  BY <1>2, <1>3, <1>4, ShapeUndecided DEF w, nul
<1>6. state \in 4 .. 8 => Len(w) = 1
  BY <1>2, <1>3, <1>4, ShapeLengths DEF w
<1>7. state \in {4, 6} => cp = text + 1
  <2>1. state \in {4, 6} => cp - text = 1
    BY <1>2, <1>6 DEF w
  <2> QED
    BY <1>1, <2>1
<1>8. state = 4 => buf[text + 1] = "nul"
  <2>1. nul[1] = "nul"
    BY DEF nul
  <2>2. state = 4 => 1 \in 1 .. cp - text
    BY <1>1, <1>7
  <2>3. state = 4 => w[1] = buf[text + 1]
    BY <1>2, <2>2 DEF w
  <2> QED
    BY <1>5, <2>1, <2>3
<1>9. (state = 1 <=> cp = text) /\ text <= cp
  BY DEF InToken
<1> QED
  BY <1>1, <1>2, <1>3, <1>5, <1>7, <1>8, <1>9 DEF w

\* A byte that the word cannot go on with: the token is what was accepted last.
LEMMA JamDecides ==
  ASSUME TypeOK, InToken, state # 3, cp < Len(buf), Reached, Rules!Undecided(Word(cp)),
         Follow(state, buf[cp + 1]) = 13
  PROVE  /\ state \in {4, 6} => Decided(state, cp) /\ yy_accept[state] # 0
         /\ state \in {9, 10, 11} =>
              Decided(last.state, last.cp) /\ yy_accept[last.state] # 0
         /\ state \in {4, 6, 9, 10, 11}
<1>1. /\ Len(buf) \in Nat /\ text \in Nat /\ cp \in Nat /\ text <= cp /\ cp <= Len(buf)
      /\ text < Len(buf)
  BY Bounds DEF InToken
<1>2. /\ state \in {1, 4, 6, 9, 10, 11} /\ (state \in {4, 6} => cp = text + 1)
      /\ (state = 4 => buf[text + 1] = "nul")
  BY <1>1, StandsUndecided
<1>3. state # 1
  BY DEF Follow, FirstState
<1>4. state \in {6, 9, 10, 11} => Decided(6, text + 1)
  BY <1>1, DecidedBroken DEF Reached
<1>5. state = 4 => Decided(4, text + 1)
  <2>1. ASSUME state = 4 PROVE Decided(FirstState("nul"), text + 1)
    <3>1. buf[text + 1] = "nul" /\ text + 1 < Len(buf)
      BY <1>2, <2>1
    <3> QED
      BY <1>1, <3>1, DecidedByte
  <2>2. FirstState("nul") = 4
    BY DEF FirstState
  <2> QED
    BY <2>1, <2>2
<1>6. state \in {9, 10, 11} => last.state = 6 /\ last.cp = text + 1
  BY DEF Reached
<1> QED
  <2>1. yy_accept[4] # 0 /\ yy_accept[6] # 0
    BY AcceptValues
  <2>2. state = 4 \/ state = 6 \/ state \in {9, 10, 11}
    BY <1>2, <1>3
  <2>3. CASE state = 4
    <3>1. cp = text + 1 /\ Decided(4, text + 1)
      BY <1>2, <1>5, <2>3
    <3>2. Decided(state, cp) /\ yy_accept[state] # 0
      BY <2>1, <2>3, <3>1, Zenon
    <3> QED
      BY <2>3, <3>2
  <2>4. CASE state = 6
    <3>1. cp = text + 1 /\ Decided(6, text + 1)
      BY <1>2, <1>4, <2>4
    <3>2. Decided(state, cp) /\ yy_accept[state] # 0
      BY <2>1, <2>4, <3>1, Zenon
    <3> QED
      BY <2>4, <3>2
  <2>5. CASE state \in {9, 10, 11}
    <3>1. last.state = 6 /\ last.cp = text + 1 /\ Decided(6, text + 1)
      BY <1>4, <1>6, <2>5
    <3>2. Decided(last.state, last.cp) /\ yy_accept[last.state] # 0
      BY <2>1, <3>1, Zenon
    <3> QED
      BY <2>5, <3>2
  <2> QED
    BY <2>2, <2>3, <2>4, <2>5

LEMMA MatchWords ==
  ASSUME IInv, Matching, Match
  PROVE  Matching'
<1>1. /\ pc = "match" /\ pc' = IF Stops(state') THEN "find" ELSE "match"
      /\ last' = LastAccepting(cp)
      /\ state' = Delta(state, yy_ec[Byte(cp)])
      /\ cp' = cp + 1
      /\ UNCHANGED <<stream, buffer, text, cBufP, after, output>>
  BY DEF Match
<1>2. /\ UNCHANGED <<unread, closed, buf, status, text, tokens, ended>>
  BY <1>1 DEF stream, buffer, output
<1>3. TypeOK /\ InToken /\ Within(state, cp) /\ AtMatch /\ EndKnown
  BY <1>1 DEF IInv, Phases, Matching
<1>4. EndKnown'
  BY <1>2, <1>3 DEF EndKnown, AtEnd
<1>5. Len(buf) \in Nat /\ text \in Nat /\ cp \in Nat /\ text <= cp
  BY <1>3, Bounds DEF InToken
<1>6. Byte(cp) \in Bytes /\ (cp >= Len(buf) => Byte(cp) = "nul")
  BY <1>3, <1>5, ByteType DEF TypeOK
<1>7. CASE state = 3
  <2>1. state' = 13
    BY <1>1, <1>6, <1>7, EcValues, FromEndState
  <2>2. pc' = "find" /\ yy_accept[state'] = 0
    BY <1>1, <2>1, BaseValues, AcceptValues DEF Stops, Rejecting
  <2>3. last'.state = 3 /\ last'.cp = cp
    BY <1>1, <1>7, AcceptValues DEF LastAccepting
  <2>4. MetZero(3, cp)
    BY <1>3, <1>7 DEF AtMatch
  <2>5. MetZero(last.state, last.cp)'
    BY <1>2, <2>3, <2>4, Zenon DEF MetZero, Byte, Word
  <2> QED
    BY <1>4, <2>2, <2>5 DEF Matching, AtFind, Chosen
<1>8. CASE state # 3
  <2>1. cp <= Len(buf) /\ Reached /\ Rules!Undecided(Word(cp))
    BY <1>3, <1>8 DEF AtMatch
  <2>2. /\ state \in {1, 4, 6, 9, 10, 11} /\ state \in Reading
        /\ Word(cp) \in Seq(Bytes)
        /\ (state = 1 => cp = text) /\ (state \in {4, 6} => cp = text + 1)
    BY <1>3, <1>8, <2>1, StandsUndecided
  <2>3. CASE Byte(cp) = "nul"
    <3>1. state' = 3
      <4>1. yy_ec[Byte(cp)] = 0 /\ 0 \in Classes
        BY <2>3, EcValues DEF Classes
      <4> QED
        BY <1>1, <1>3, <1>8, <4>1, Transition DEF InToken, Allowed
    <3>2. pc' = "match"
      BY <1>1, <3>1, BaseValues DEF Stops
    <3>3. (cp + 1) - 1 = cp /\ text < cp + 1
      BY <1>5
    <3>4. MetZero(3, cp + 1)
      BY <2>1, <2>3, <3>3, Zenon DEF MetZero
    <3>5. MetZero(state, cp)'
      BY <1>1, <1>2, <3>1, <3>4, Zenon DEF MetZero, Byte, Word
    <3> QED
      BY <1>4, <3>1, <3>2, <3>5 DEF Matching, AtMatch
  <2>4. CASE Byte(cp) # "nul"
    <3> DEFINE b == buf[cp + 1]
    <3>1. cp < Len(buf) /\ Byte(cp) = b /\ b \in Bytes /\ b # "nul"
      BY <1>5, <1>6, <2>4 DEF Byte
    <3>2. state' = Follow(state, b)
      <4>1. yy_ec[b] = ReplayClass(b)
        BY <3>1, ByteClasses
      <4> QED
        BY <1>1, <2>2, <3>1, <4>1, Follows
    <3>3. CASE state' = 13
      <4>1. pc' = "find" /\ yy_accept[state'] = 0
        BY <1>1, <3>3, BaseValues, AcceptValues DEF Stops, Rejecting
      <4>2. /\ state \in {4, 6} => Decided(state, cp) /\ yy_accept[state] # 0
            /\ state \in {9, 10, 11} => Decided(last.state, last.cp)
            /\ state \in {4, 6, 9, 10, 11}
        BY <1>3, <1>8, <2>1, <3>1, <3>2, <3>3, JamDecides
      <4>3. CASE state \in {4, 6}
        <5>1. last'.state = state /\ last'.cp = cp
          BY <1>1, <4>2, <4>3 DEF LastAccepting
        <5>2. Decided(last.state, last.cp)'
          BY <1>2, <4>2, <4>3, <5>1, Zenon DEF Decided, Word, Rest
        <5> QED
          BY <1>4, <4>1, <5>2 DEF Matching, AtFind, Chosen
      <4>4. CASE state \in {9, 10, 11}
        <5>1. last' = last
          BY <1>1, <4>4, AcceptValues DEF LastAccepting, Rejecting
        <5>2. Decided(last.state, last.cp)'
          BY <1>2, <4>2, <4>4, <5>1, Zenon DEF Decided, Word, Rest
        <5> QED
          BY <1>4, <4>1, <5>2 DEF Matching, AtFind, Chosen
      <4> QED
        BY <4>2, <4>3, <4>4
    <3>4. CASE state' # 13
      <4>1. Shape(state', Word(cp + 1)) /\ Word(cp + 1) \in Seq(Bytes)
        <5>1. Word(cp + 1) = Append(Word(cp), b)
          BY <1>3, <1>5, <3>1, WordNext DEF TypeOK, Word
        <5>2. Shape(state, Word(cp)) /\ Append(Word(cp), b) \in Seq(Bytes)
          BY <2>1, <2>2, <3>1, Appended DEF Reached
        <5> QED
          BY <2>2, <3>1, <3>2, <3>4, <5>1, <5>2, ShapeStep
      <4>2. state' \in 4 .. 12
        BY <2>2, <3>2, <3>4 DEF Follow, FirstState
      <4>3. CASE state' \in {4, 5, 7, 8}
        <5>1. state = 1 /\ b # "$" /\ FirstState(b) = state'
          BY <2>2, <3>2, <4>3 DEF Follow, FirstState
        <5>2. Decided(state', cp + 1)
          <6>1. cp = text
            BY <2>2, <5>1
          <6>2. text < Len(buf) /\ buf[text + 1] # "$" /\ buf[text + 1] # "nul"
            BY <3>1, <5>1, <6>1
          <6>3. Decided(FirstState(buf[text + 1]), text + 1)
            BY <1>3, <6>2, DecidedByte
          <6> QED
            BY <5>1, <6>1, <6>3
        <5>3. pc' = "find" /\ yy_accept[state'] # 0
          BY <1>1, <4>3, BaseValues, AcceptValues DEF Stops
        <5>4. Decided(state, cp)'
          BY <1>1, <1>2, <5>2, Zenon DEF Decided, Word, Rest
        <5> QED
          BY <1>4, <5>3, <5>4 DEF Matching, AtFind, Chosen
      <4>4. CASE state' = 12
        <5>1. cp + 1 \in Nat /\ text <= cp + 1 /\ cp + 1 <= Len(buf)
          BY <1>5, <3>1
        <5>2. Decided(12, cp + 1)
          BY <1>3, <4>1, <4>4, <5>1, DecidedPacket
        <5>3. pc' = "find" /\ yy_accept[state'] # 0
          BY <1>1, <4>4, BaseValues, AcceptValues DEF Stops
        <5>4. Decided(state, cp)'
          BY <1>1, <1>2, <4>4, <5>2, Zenon DEF Decided, Word, Rest
        <5> QED
          BY <1>4, <5>3, <5>4 DEF Matching, AtFind, Chosen
      <4>5. CASE state' \in {6, 9, 10, 11}
        <5>1. pc' = "match"
          BY <1>1, <4>5, BaseValues DEF Stops
        <5>2. Rules!Undecided(Word(cp + 1))
          <6>1. state' \in Reading
            BY <4>5 DEF Reading
          <6> QED
            BY <4>1, <4>5, <6>1, ShapeUndecided
        <5>3. cp + 1 <= Len(buf)
          BY <1>5, <3>1
        <5>4. state' \in {9, 10, 11} => last' = [state |-> 6, cp |-> text + 1]
          <6>1. state' \in {9, 10, 11} => state \in {6, 9, 10, 11}
            BY <2>2, <3>2 DEF Follow, FirstState
          <6>2. state = 6 => last' = [state |-> 6, cp |-> text + 1]
            BY <1>1, <2>2, AcceptValues DEF LastAccepting
          <6>3. state \in {9, 10, 11} => last' = last
            BY <1>1, AcceptValues DEF LastAccepting, Rejecting
          <6>4. state \in {9, 10, 11} => last = [state |-> 6, cp |-> text + 1]
            BY <2>1 DEF Reached
          <6> QED
            BY <6>1, <6>2, <6>3, <6>4
        <5>5. Reached'
          BY <1>1, <1>2, <4>1, <5>4, Zenon DEF Reached, Word
        <5>6. (cp <= Len(buf) /\ Rules!Undecided(Word(cp)))'
          BY <1>1, <1>2, <5>2, <5>3, Zenon DEF Word
        <5> QED
          BY <1>4, <4>5, <5>1, <5>5, <5>6 DEF Matching, AtMatch
      <4> QED
        BY <4>2, <4>3, <4>4, <4>5
    <3> QED
      BY <3>3, <3>4
  <2> QED
    BY <2>3, <2>4
<1> QED
  BY <1>7, <1>8

\* An undecided word holds no byte that jams the automaton.
LEMMA UndecidedGoesOn ==
  ASSUME NEW s \in {1, 4, 6, 9, 10, 11}, NEW w \in Seq(Bytes), NEW b \in Bytes, Shape(s, w),
         Rules!Undecided(Append(w, b))
  PROVE  Follow(s, b) # 13
<1> DEFINE r == Append(w, b)
           n == Len(w)
<1>1. /\ r \in Seq(Bytes) /\ n \in Nat /\ Len(r) = n + 1 /\ r[n + 1] = b
      /\ \A i \in 1 .. n : r[i] = w[i]
  BY Appended
<1>2. s = 1 => Follow(s, b) # 13
  BY DEF Follow, FirstState
<1>3. ASSUME s = 4 PROVE FALSE
  <2>1. n = 1 /\ w[1] # "$"
    BY <1>3, ShapeLengths DEF Reading, FirstState
  <2> HIDE DEF n, r
  <2>2. r[1] # "$" /\ Len(r) = 2
    BY <1>1, <2>1
  <2>3. Len(r) >= 1 /\ Len(r) >= 2
    BY <2>2
  <2>4. ~Rules!Undecided(r)
    BY <1>1, <2>2, <2>3, ByteFirst
  <2> QED
    BY <2>4 DEF r
<1>4. ASSUME s \in {6, 9, 10, 11}, Follow(s, b) = 13 PROVE FALSE
  <2> HIDE DEF r
  <2>1. Len(w) <= Len(r) /\ Len(w) < Len(r) /\ \A i \in 1 .. Len(w) : r[i] = w[i]
    BY <1>1
  <2>2. Begins(w, r)
    BY <2>1 DEF Begins
  <2>3. Follow(s, r[Len(w) + 1]) = 13
    BY <1>1, <1>4
  <2>4. ~Rules!Undecided(r)
    BY <1>1, <1>4, <2>1, <2>2, <2>3, BrokenFirst
  <2> QED
    BY <2>4 DEF r
<1> QED
  BY <1>2, <1>3, <1>4

\* Inside a packet the accepting state remembered is that of the "$".
LEMMA DollarRemembered ==
  ASSUME state \in {1, 4, 6, 9, 10, 11}, state = 6 => cp = text + 1, Reached,
         NEW b \in Bytes, last' = LastAccepting(cp), state' = Follow(state, b), text' = text
  PROVE  state' \in {9, 10, 11} => last' = [state |-> 6, cp |-> text' + 1]
<1>1. state' \in {9, 10, 11} => state \in {6, 9, 10, 11}
  BY DEF Follow, FirstState
<1>2. state = 6 => last' = [state |-> 6, cp |-> text + 1]
  BY AcceptValues DEF LastAccepting
<1>3. state \in {9, 10, 11} => last' = last
  BY AcceptValues DEF LastAccepting, Rejecting
<1>4. state \in {9, 10, 11} => last = [state |-> 6, cp |-> text + 1]
  BY DEF Reached
<1> QED
  BY <1>1, <1>2, <1>3, <1>4

\* One byte more of a word that stays undecided.
LEMMA WordGrows ==
  ASSUME TypeOK, InToken, state # 3, cp < Len(buf), Reached, Rules!Undecided(Word(cp + 1))
  PROVE  /\ buf[cp + 1] \in Bytes /\ Follow(state, buf[cp + 1]) # 13
         /\ Rules!Undecided(Word(cp))
         /\ Shape(Follow(state, buf[cp + 1]), Word(cp + 1))
<1> DEFINE b == buf[cp + 1]
           l == Len(buf)
           v == Word(cp + 1)
           w == Word(cp)
<1>1. l \in Nat /\ text \in Nat /\ cp \in Nat /\ text <= cp /\ cp < l
  BY Bounds DEF InToken
<1> HIDE DEF l
<1>2. cp \in text .. l - 1 /\ cp \in text .. l /\ cp + 1 \in text .. l /\ cp <= l
  BY <1>1
<1>3. b \in Bytes /\ v = Append(w, b)
  BY <1>1, <1>2, WordNext DEF TypeOK, Word, l
<1>4. w \in Seq(Bytes) /\ v \in Seq(Bytes)
  BY <1>1, <1>2, WordFacts DEF TypeOK, Word, l
<1>5. Rules!Undecided(w)
  <2> HIDE DEF w, v, b
  <2>1. Len(w) \in Nat /\ Len(v) = Len(w) + 1 /\ \A i \in 1 .. Len(w) : w[i] = v[i]
    BY <1>3, <1>4, Appended
  <2>2. Len(w) <= Len(v)
    BY <2>1
  <2> QED
    BY <1>4, <2>1, <2>2, UndecidedPrefix DEF v
<1>6. state \in {1, 4, 6, 9, 10, 11} /\ state \in Reading
  BY <1>2, <1>5, StandsUndecided DEF l
<1>7. Shape(state, w)
  BY DEF Reached
<1> HIDE DEF w, v, b
<1>8. Follow(state, b) # 13
  BY <1>3, <1>4, <1>6, <1>7, UndecidedGoesOn DEF v
<1>9. Shape(Follow(state, b), v)
  BY <1>3, <1>4, <1>6, <1>7, <1>8, ShapeStep
<1> QED
  BY <1>3, <1>5, <1>8, <1>9 DEF b, v, w

LEMMA ReplayWords ==
  ASSUME IInv, Matching, Replay
  PROVE  Matching'
<1>1. pc = "replay" /\ UNCHANGED <<stream, buffer, text, cBufP, after, output>>
  BY DEF Replay
<1>2. UNCHANGED <<unread, closed, buf, status, text, cBufP, after, tokens, ended>>
  BY <1>1 DEF stream, buffer, output
<1>3. /\ TypeOK /\ InToken /\ state # 3 /\ cp <= cBufP /\ cBufP <= Len(buf)
      /\ after # "none" /\ AtReplay /\ EndKnown
      /\ (after = "find" => text < cBufP)
  BY <1>1 DEF IInv, Phases, Matching
<1>4. EndKnown'
  BY <1>2, <1>3 DEF EndKnown, AtEnd
<1>5. /\ Len(buf) \in Nat /\ text \in Nat /\ cp \in Nat /\ cBufP \in Nat /\ text <= cp
  BY <1>3, Bounds DEF InToken
<1>6. Reached /\ Rules!Undecided(Word(cBufP))
  BY <1>3 DEF AtReplay
<1>7. ASSUME NEW n \in Nat, text <= n, n <= cBufP PROVE Rules!Undecided(Word(n))
  <2> DEFINE w == Word(cBufP)
             v == Word(n)
             l == Len(buf)
  <2>1. n \in text .. l /\ cBufP \in text .. l
    BY <1>3, <1>5, <1>7
  <2>2. w \in Seq(Bytes) /\ Len(w) = cBufP - text /\ \A i \in 1 .. cBufP - text : w[i] = buf[text + i]
    BY <1>3, <1>5, <2>1, WordFacts DEF TypeOK, Word
  <2>3. v \in Seq(Bytes) /\ Len(v) = n - text /\ \A i \in 1 .. n - text : v[i] = buf[text + i]
    BY <1>3, <1>5, <2>1, WordFacts DEF TypeOK, Word
  <2> HIDE DEF w, v, l
  <2>4. n - text <= cBufP - text /\ \A i \in 1 .. n - text : i \in 1 .. cBufP - text
    BY <1>5, <1>7
  <2>5. Len(v) <= Len(w) /\ \A i \in 1 .. Len(v) : v[i] = w[i]
    BY <2>2, <2>3, <2>4
  <2> QED
    BY <1>6, <2>2, <2>3, <2>5, UndecidedPrefix DEF v, w
<1>8. CASE cp < cBufP
  <2> DEFINE b == buf[cp + 1]
  <2>1. /\ pc' = "replay" /\ last' = LastAccepting(cp) /\ cp' = cp + 1
        /\ state' = Delta(state, ReplayClass(Byte(cp)))
    BY <1>1, <1>8 DEF Replay
  <2>2. /\ cp < Len(buf) /\ cp <= Len(buf) /\ cp + 1 \in Nat
        /\ text <= cp + 1 /\ cp + 1 <= cBufP
    BY <1>3, <1>5, <1>8
  <2>3. Rules!Undecided(Word(cp + 1)) /\ Rules!Undecided(Word(cp))
    BY <1>3, <1>5, <1>7, <2>2
  <2>4. /\ b \in Bytes
        /\ Shape(Follow(state, b), Word(cp + 1))
    BY <1>3, <1>6, <2>2, <2>3, WordGrows
  <2>5. /\ state \in {1, 4, 6, 9, 10, 11} /\ state \in Reading
        /\ (state = 6 => cp = text + 1)
    BY <1>3, <1>6, <2>2, <2>3, StandsUndecided
  <2>6. state' = Follow(state, b)
    <3>1. Byte(cp) = b
      BY <2>2 DEF Byte
    <3> QED
      BY <2>1, <2>4, <2>5, <3>1, Follows
  <2>7. state' \in {9, 10, 11} => last' = [state |-> 6, cp |-> text' + 1]
    BY <1>2, <1>6, <2>1, <2>4, <2>5, <2>6, DollarRemembered
  <2>8. Reached'
    BY <1>2, <2>1, <2>4, <2>6, <2>7, Zenon DEF Reached, Word
  <2>9. AtReplay'
    BY <1>2, <1>3, <2>8, Zenon DEF AtReplay, AtEnd, Word, Byte
  <2> QED
    BY <1>4, <2>1, <2>9 DEF Matching
<1>9. CASE ~(cp < cBufP)
  <2>1. pc' = after /\ UNCHANGED automaton /\ UNCHANGED <<cp, state, last>>
    BY <1>1, <1>9 DEF Replay, automaton
  <2>2. cp = cBufP /\ cp <= Len(buf)
    BY <1>3, <1>5, <1>9
  <2>3. Rules!Undecided(Word(cp))
    BY <1>6, <2>2
  <2>4. after \in {"nul", "match", "find"}
    BY <1>3 DEF TypeOK
  <2>5. CASE after = "nul"
    <3>1. AtReplay'
      BY <1>2, <1>3, <2>1, Zenon DEF AtReplay, Reached, AtEnd, Word, Byte
    <3> QED
      BY <1>4, <2>1, <2>5, <3>1 DEF Matching
  <2>6. CASE after = "match"
    <3>1. AtMatch'
      BY <1>2, <1>3, <1>6, <2>1, <2>2, <2>3, Zenon DEF AtMatch, Reached, Word
    <3> QED
      BY <1>4, <2>1, <2>6, <3>1 DEF Matching
  <2>7. CASE after = "find"
    <3>1. /\ AtEnd /\ cp = Len(buf) /\ text < cp
      BY <1>3, <2>2, <2>7 DEF AtReplay
    <3>2. text < Len(buf)
      BY <3>1
    <3>3. /\ state \in {1, 4, 6, 9, 10, 11}
          /\ state = 1 => cp = text
          /\ state \in {4, 6} => cp = text + 1
          /\ state = 4 => buf[text + 1] = "nul"
      BY <1>3, <1>6, <2>2, <2>3, StandsUndecided
    <3>4. state # 1
      BY <1>5, <3>1, <3>3
    <3>5. state \in {6, 9, 10, 11} => Decided(6, text + 1)
      BY <1>3, <1>6, <3>1, <3>2, DecidedAtEnd DEF Reached
    <3>6. yy_accept[4] # 0 /\ yy_accept[6] # 0
      BY AcceptValues
    <3>7. AtFind
      <4>1. CASE state = 4
        <5>1. buf[text + 1] = "nul" /\ cp = text + 1 /\ FirstState("nul") = 4 /\ closed
          BY <3>1, <3>3, <4>1 DEF FirstState, AtEnd
        <5>2. Decided(FirstState(buf[text + 1]), text + 1)
          BY <1>3, <3>2, <5>1, DecidedByte
        <5>3. Decided(state, cp)
          BY <4>1, <5>1, <5>2, Zenon
        <5> QED
          BY <3>6, <4>1, <5>3 DEF AtFind, Chosen
      <4>2. CASE state = 6
        <5>1. cp = text + 1 /\ Decided(6, text + 1)
          BY <3>3, <3>5, <4>2
        <5>2. Decided(state, cp)
          BY <4>2, <5>1, Zenon
        <5> QED
          BY <3>6, <4>2, <5>2 DEF AtFind, Chosen
      <4>3. CASE state \in {9, 10, 11}
        <5>1. last.state = 6 /\ last.cp = text + 1 /\ Decided(6, text + 1)
          BY <1>6, <3>5, <4>3 DEF Reached
        <5>2. Decided(last.state, last.cp)
          BY <5>1, Zenon
        <5>3. yy_accept[state] = 0
          BY <4>3, AcceptValues DEF Rejecting
        <5> QED
          BY <5>2, <5>3 DEF AtFind, Chosen
      <4> QED
        BY <3>3, <3>4, <4>1, <4>2, <4>3
    <3>8. AtFind'
      BY <1>2, <2>1, <3>7, Zenon DEF AtFind, Chosen, Decided, MetZero, Byte, Word, Rest
    <3> QED
      BY <1>4, <2>1, <2>7, <3>8 DEF Matching
  <2> QED
    BY <2>4, <2>5, <2>6, <2>7
<1> QED
  BY <1>8, <1>9

LEMMA TryNulWords ==
  ASSUME IInv, Matching, TryNul
  PROVE  Matching'
<1>1. /\ pc = "nul" /\ last' = LastAccepting(cp)
      /\ UNCHANGED <<stream, buffer, text, after, output>>
  BY DEF TryNul
<1>2. UNCHANGED <<unread, closed, buf, status, text, tokens, ended>>
  BY <1>1 DEF stream, buffer, output
<1>3. /\ TypeOK /\ InToken /\ state # 3 /\ cp = cBufP /\ cBufP < Len(buf)
      /\ AtReplay /\ EndKnown /\ after = "nul"
  BY <1>1 DEF IInv, Phases, Matching
<1>4. EndKnown'
  BY <1>2, <1>3 DEF EndKnown, AtEnd
<1>5. /\ Len(buf) \in Nat /\ text \in Nat /\ cp \in Nat /\ text <= cp /\ cp <= Len(buf)
      /\ cp < Len(buf)
  BY <1>3, Bounds DEF InToken
<1>6. Reached /\ Rules!Undecided(Word(cp)) /\ Byte(cp) = "nul" /\ buf[cp + 1] = "nul"
  BY <1>3, <1>5 DEF AtReplay, Byte
<1>7. /\ state \in {1, 4, 6, 9, 10, 11} /\ state \in Reading
      /\ Word(cp) \in Seq(Bytes)
      /\ (state = 1 => cp = text) /\ (state = 6 => cp = text + 1)
  BY <1>3, <1>5, <1>6, StandsUndecided
<1>8. Delta(state, 1) = Follow(state, "nul") /\ "nul" \in Bytes
  <2>1. ReplayClass("nul") = 1 /\ "nul" \in Bytes
    BY DEF ReplayClass, Bytes
  <2> QED
    BY <1>7, <2>1, Follows
<1>9. CASE Follow(state, "nul") = 13
  <2>1. pc' = "find" /\ UNCHANGED <<state, cp, cBufP>>
    BY <1>8, <1>9 DEF TryNul, Jam
  <2>2. /\ state \in {4, 6} => Decided(state, cp) /\ yy_accept[state] # 0
        /\ state \in {9, 10, 11} => Decided(last.state, last.cp)
        /\ state \in {4, 6, 9, 10, 11}
    BY <1>3, <1>5, <1>6, <1>9, JamDecides
  <2>3. CASE state \in {4, 6}
    <3>1. Decided(state, cp)'
      BY <1>2, <2>1, <2>2, <2>3, Zenon DEF Decided, Word, Rest
    <3>2. yy_accept[state'] # 0
      BY <2>1, <2>2, <2>3
    <3> QED
      BY <1>4, <2>1, <3>1, <3>2 DEF Matching, AtFind, Chosen
  <2>4. CASE state \in {9, 10, 11}
    <3>1. last' = last /\ yy_accept[state'] = 0
      BY <1>1, <2>1, <2>4, AcceptValues DEF LastAccepting, Rejecting
    <3>2. Decided(last.state, last.cp)'
      BY <1>2, <2>2, <2>4, <3>1, Zenon DEF Decided, Word, Rest
    <3> QED
      BY <1>4, <2>1, <3>1, <3>2 DEF Matching, AtFind, Chosen
  <2> QED
    BY <2>2, <2>3, <2>4
<1>10. CASE Follow(state, "nul") # 13
  <2>1. pc' = "match" /\ state' = Follow(state, "nul") /\ cp' = cp + 1
    BY <1>8, <1>10 DEF TryNul, Jam
  <2>2. cp \in text .. Len(buf) - 1 /\ cp + 1 <= Len(buf)
    BY <1>5
  <2>3. Word(cp + 1) = Append(Word(cp), "nul")
    BY <1>3, <1>5, <1>6, <2>2, WordNext DEF TypeOK, Word
  <2>4. Shape(state', Word(cp + 1)) /\ Word(cp + 1) \in Seq(Bytes)
    <3>1. Shape(state, Word(cp)) /\ Append(Word(cp), "nul") \in Seq(Bytes)
      BY <1>6, <1>7, <1>8, Appended DEF Reached
    <3> QED
      BY <1>7, <1>8, <1>10, <2>1, <2>3, <3>1, ShapeStep
  <2>5. (state' = 4 /\ state = 1) \/ state' = 9
    BY <1>7, <1>10, <2>1 DEF Follow, FirstState
  <2>6. Rules!Undecided(Word(cp + 1))
    <3>1. CASE state' = 9
      BY <2>4, <3>1, ShapeUndecided DEF Reading
    <3>2. CASE state' = 4 /\ state = 1
      <4>1. cp = text /\ text < Len(buf)
        BY <1>5, <1>7, <3>2
      <4>2. Word(text + 1) = <<buf[text + 1]>>
        BY <1>3, <4>1, OneByteWord
      <4>3. Word(cp + 1) = <<"nul">>
        BY <1>6, <4>1, <4>2, Zenon
      <4> QED
        BY <4>3 DEF Rules!Undecided
    <3> QED
      BY <2>5, <3>1, <3>2
  <2>7. state' \in {9, 10, 11} => last' = [state |-> 6, cp |-> text' + 1]
    BY <1>1, <1>2, <1>6, <1>7, <1>8, <2>1, DollarRemembered
  <2>8. Reached'
    BY <1>2, <2>1, <2>4, <2>7, Zenon DEF Reached, Word
  <2>9. (cp <= Len(buf) /\ Rules!Undecided(Word(cp)))'
    BY <1>2, <2>1, <2>2, <2>6, Zenon DEF Word
  <2>10. state' # 3
    BY <2>5
  <2> QED
    BY <1>4, <2>1, <2>8, <2>9, <2>10 DEF Matching, AtMatch
<1> QED
  BY <1>9, <1>10

-----------------------------------------------------------------------------
(***************************************************************************)
(* The other steps                                                         *)
(***************************************************************************)
\* Nothing has been read at the front of a token.
LEMMA EmptyWord ==
  ASSUME NEW b, NEW t \in Nat
  PROVE  /\ SubSeq(b, t + 1, t) = << >>
         /\ Shape(1, << >>) /\ Rules!Undecided(<< >>)
<1>1. t + 1 \in Int /\ t \in Int /\ t < t + 1
  OBVIOUS
<1>2. SubSeq(b, t + 1, t) = << >>
  BY <1>1, SubSeqEmpty
<1> QED
  BY <1>2 DEF Shape, Rules!Undecided

LEMMA CallsWords ==
  ASSUME IInv, Matching,
         InitScanner \/ InitFails \/ FirstCall \/ Call \/ Destroy \/ Fatal \/ ReadEOF
  PROVE  Matching'
<1>1. UNCHANGED <<unread, closed, buf, status, text, tokens, ended>>
  BY DEF InitScanner, InitFails, FirstCall, Call, Destroy, Fatal, ReadEOF, stream, buffer, output
<1>2. \/ pc' \in {"idle", "killed", "unusable", "start", "destroyed", "fatal"}
      \/ pc = "fill" /\ pc' = "eof" /\ unread = << >> /\ closed
  BY DEF InitScanner, InitFails, FirstCall, Call, Destroy, Fatal, ReadEOF, Goes
<1>3. EndKnown'
  BY <1>1 DEF Matching, EndKnown, AtEnd
<1>4. CASE pc' \in {"idle", "killed", "unusable", "start", "destroyed", "fatal"}
  BY <1>3, <1>4 DEF Matching
<1>5. CASE pc = "fill" /\ pc' = "eof" /\ unread = << >> /\ closed
  <2>1. Rules!Undecided(buf)
    BY <1>5 DEF Matching
  <2>2. (AtEnd /\ Rules!Undecided(buf))'
    BY <1>1, <1>5, <2>1, Zenon DEF AtEnd
  <2> QED
    BY <1>3, <1>5, <2>2 DEF Matching
<1> QED
  BY <1>2, <1>4, <1>5

LEMMA StartTokenWords ==
  ASSUME IInv, Matching, StartToken
  PROVE  Matching'
<1>1. /\ pc = "start" /\ pc' = "match" /\ text' = cBufP /\ cp' = cBufP /\ state' = 1
      /\ UNCHANGED <<unread, closed, buf, status, tokens, ended>>
  BY DEF StartToken, Goes, yy_start, stream, buffer, output
<1>2. cBufP <= Len(buf) /\ cBufP \in Nat /\ EndKnown
  BY <1>1, Bounds DEF IInv, Phases, Matching
<1>3. EndKnown'
  BY <1>1, <1>2 DEF EndKnown, AtEnd
<1>4. SubSeq(buf, cBufP + 1, cBufP) = << >>
  BY <1>2, EmptyWord
<1>5. Word(cp)' = << >>
  BY <1>1, <1>4, Zenon DEF Word
<1>6. Shape(1, << >>) /\ Rules!Undecided(<< >>)
  BY EmptyWord
<1>7. (Reached /\ Rules!Undecided(Word(cp)))'
  <2>1. Shape(state', Word(cp)') /\ Rules!Undecided(Word(cp)')
    BY <1>1, <1>5, <1>6, Zenon
  <2>2. state' \notin {9, 10, 11}
    BY <1>1
  <2> QED
    BY <2>1, <2>2 DEF Reached
<1>8. (cp <= Len(buf))' /\ state' # 3
  BY <1>1, <1>2
<1>9. AtMatch'
  BY <1>7, <1>8 DEF AtMatch
<1> QED
  BY <1>1, <1>3, <1>9 DEF Matching

LEMMA FindActionWords ==
  ASSUME IInv, Matching, FindAction
  PROVE  Matching'
<1>1. /\ pc = "find" /\ pc' = "action"
      /\ IF yy_accept[state] = 0 THEN state' = last.state /\ cp' = last.cp
         ELSE UNCHANGED <<state, cp>>
      /\ UNCHANGED <<unread, closed, buf, status, text, tokens, ended>>
  BY DEF FindAction, Goes, stream, buffer, output
<1>2. AtFind /\ EndKnown
  BY <1>1 DEF Matching
<1>3. EndKnown'
  BY <1>1, <1>2 DEF EndKnown, AtEnd
<1>4. Chosen(state, cp)'
  <2>1. CASE yy_accept[state] = 0
    <3>1. state' = last.state /\ cp' = last.cp /\ Chosen(last.state, last.cp)
      BY <1>1, <1>2, <2>1 DEF AtFind
    <3> QED
      BY <1>1, <3>1, Zenon DEF Chosen, Decided, MetZero, Byte, Word, Rest
  <2>2. CASE yy_accept[state] # 0
    <3>1. state' = state /\ cp' = cp /\ Chosen(state, cp)
      BY <1>1, <1>2, <2>2 DEF AtFind
    <3> QED
      BY <1>1, <3>1, Zenon DEF Chosen, Decided, MetZero, Byte, Word, Rest
  <2> QED
    BY <2>1, <2>2
<1> QED
  BY <1>1, <1>3, <1>4 DEF Matching

LEMMA RuleWords ==
  ASSUME IInv, Matching, Rule
  PROVE  Matching'
<1>1. /\ pc' \in {"start", "returned"}
      /\ UNCHANGED <<unread, closed, buf, status, ended>>
  BY DEF Rule, stream, buffer
<1>2. EndKnown'
  BY <1>1 DEF Matching, EndKnown, AtEnd
<1> QED
  BY <1>1, <1>2 DEF Matching

\* No rule is that of the end of the buffer.
LEMMA RulesOfTokens ==
  ASSUME NEW r \in Seq(Bytes)
  PROVE  Rules!First(r).rule \in 1 .. 5
<1>1. CASE Rules!Matches(r) = {}
  BY <1>1 DEF Rules!First, Rules!RuleOfByte
<1>2. CASE Rules!Matches(r) # {}
  <2>1. \A t \in Rules!Matches(r) : t.rule = 3
    BY DEF Rules!Matches
  <2>2. Rules!First(r) \in Rules!Matches(r)
    BY <1>2 DEF Rules!First
  <2> QED
    BY <2>1, <2>2
<1> QED
  BY <1>1, <1>2

\* The action of the end of the buffer follows a byte 0.
LEMMA EndMeetsZero ==
  ASSUME IInv, Matching, EndOfBuffer
  PROVE  MetZero(state, cp) /\ cp = cBufP /\ text < cp
<1>1. pc = "action" /\ yy_accept[state] = 6
  BY DEF EndOfBuffer, yy_act, YY_END_OF_BUFFER
<1>2. TypeOK /\ text < cp /\ cBufP = cp /\ Chosen(state, cp)
  BY <1>1 DEF IInv, Phases, Matching
<1>3. ~Decided(state, cp)
  <2>1. SUFFICES ASSUME Decided(state, cp) PROVE FALSE
    OBVIOUS
  <2>2. Rules!First(Rest) = [rule |-> yy_accept[state], text |-> Word(cp)]
        /\ text < cp /\ cp <= Len(buf)
    BY <2>1 DEF Decided
  <2>3. Rules!First(Rest).rule = 6
    BY <1>1, <2>2
  <2>4. Rest \in Seq(Bytes)
    <3>1. text \in Nat /\ text <= Len(buf)
      BY <1>2, <2>2, Bounds
    <3> QED
      BY <1>2, <3>1, AfterFacts DEF TypeOK, Rest
  <2>5. Rules!First(Rest).rule \in 1 .. 5
    BY <2>4, RulesOfTokens
  <2> QED
    BY <2>3, <2>5
<1> QED
  BY <1>2, <1>3 DEF Chosen

LEMMA MeetNulWords ==
  ASSUME IInv, Matching, MeetNul
  PROVE  Matching'
<1>1. /\ EndOfBuffer /\ ReplayTo(cp - 1, "nul")
      /\ status' = Used
      /\ UNCHANGED <<unread, closed, buf, text, tokens, ended>>
  BY DEF MeetNul, stream, output
<1>2. EndKnown'
  BY <1>1 DEF Matching, EndKnown, AtEnd, Used
<1>3. MetZero(state, cp) /\ text \in Nat
  BY <1>1, EndMeetsZero, Bounds DEF IInv
<1>4. Rules!Undecided(SubSeq(buf', text' + 1, cp - 1)) /\ Byte(cp - 1) = "nul"
  BY <1>1, <1>3, Zenon DEF MetZero, Word
<1>5. pc' = "replay" /\ after' = "nul" /\ cBufP' = cp - 1 /\ cp' = text' /\ state' = 1
  BY <1>1 DEF ReplayTo, yy_start
<1>6. SubSeq(buf', text' + 1, text') = << >> /\ Shape(1, << >>)
  BY <1>1, <1>3, EmptyWord
<1>7. Shape(state', Word(cp)')
  BY <1>5, <1>6, Zenon DEF Word
<1>8. state' \notin {9, 10, 11} /\ after' # "find"
  BY <1>5
<1>9. Reached'
  BY <1>7, <1>8 DEF Reached
<1>10. Rules!Undecided(Word(cBufP)')
  BY <1>4, <1>5, Zenon DEF Word
<1>11. Byte(cBufP)' = "nul"
  BY <1>1, <1>4, <1>5, Zenon DEF Byte
<1>12. AtReplay'
  BY <1>8, <1>9, <1>10, <1>11 DEF AtReplay
<1> QED
  BY <1>2, <1>5, <1>12 DEF Matching

LEMMA MoveWords ==
  ASSUME IInv, Matching, Move
  PROVE  Matching'
<1>1. /\ EndOfBuffer /\ ~(cBufP <= Len(buf))
      /\ buf' = SubSeq(buf, text + 1, text + Kept) /\ text' = 0
      /\ status' = Used
      /\ pc' = IF status = "EOF_PENDING" THEN "eof" ELSE "fill"
      /\ UNCHANGED <<unread, closed, tokens, ended>>
  BY DEF Move, NulInBuffer, stream, output
<1>2. MetZero(state, cp) /\ cp = cBufP /\ text < cp /\ TypeOK /\ EndKnown
  BY <1>1, EndMeetsZero DEF IInv, Matching
<1>3. Len(buf) \in Nat /\ cp \in Nat /\ text \in Nat
  BY <1>2, Bounds
<1>4. cp - 1 = Len(buf) /\ text + Kept = cp - 1 /\ text <= Len(buf)
  <2>1. cp - 1 <= Len(buf)
    BY <1>2 DEF MetZero
  <2> QED
    BY <1>1, <1>2, <1>3, <2>1 DEF Kept
<1>5. buf' = Word(cp - 1)
  BY <1>1, <1>4, Zenon DEF Word
<1>6. Rules!Undecided(buf')
  BY <1>2, <1>5, Zenon DEF MetZero
<1>7. ended => buf' = << >>
  <2>1. SUFFICES ASSUME ended PROVE buf' = << >>
    OBVIOUS
  <2>2. buf = << >>
    BY <1>2, <2>1 DEF EndKnown
  <2>3. Len(buf) = 0
    BY <2>2
  <2>4. text = 0 /\ cp - 1 = 0
    BY <1>3, <1>4, <2>3
  <2>5. SubSeq(buf, 0 + 1, 0) = << >>
    BY EmptyWord
  <2> QED
    BY <1>5, <2>4, <2>5, Zenon DEF Word
<1>8. EndKnown'
  BY <1>1, <1>2, <1>7 DEF EndKnown, AtEnd, Used
<1>9. pc' = "eof" => AtEnd'
  BY <1>1, <1>2 DEF EndKnown, AtEnd
<1>10. pc' \in {"fill", "eof"}
  BY <1>1
<1> QED
  BY <1>6, <1>8, <1>9, <1>10 DEF Matching

LEMMA GrowWords ==
  ASSUME IInv, Matching, Grow
  PROVE  Matching'
<1>1. pc = "fill" /\ pc' = "fill" /\ UNCHANGED <<unread, closed, buf, status, tokens, ended>>
  BY DEF Grow, Goes, stream, output
<1>2. Rules!Undecided(buf')
  BY <1>1, Zenon DEF Matching
<1>3. EndKnown'
  BY <1>1 DEF Matching, EndKnown, AtEnd
<1> QED
  BY <1>1, <1>2, <1>3 DEF Matching

LEMMA ReadWords ==
  ASSUME IInv, Matching, Read
  PROVE  Matching'
<1>1. /\ pc = "fill" /\ ReplayTo(Len(buf), "match")
      /\ UNCHANGED <<text, closed, status, tokens, ended>>
  BY DEF Read, output
<1>2. TypeOK /\ text = 0 /\ Rules!Undecided(buf) /\ EndKnown
  BY <1>1 DEF IInv, Phases, Matching
<1>3. PICK n \in 1 .. Len(unread) : buf' = buf \o SubSeq(unread, 1, n)
  BY DEF Read
<1>4. unread \in Seq(Bytes) /\ Len(unread) \in Nat /\ buf \in Seq(Bytes) /\ Len(buf) \in Nat
  BY <1>2, LenProperties DEF TypeOK
<1>5. unread # << >>
  <2>1. Len(unread) # 0
    BY <1>3, <1>4
  <2> QED
    BY <2>1, EmptySeq
<1>6. EndKnown'
  BY <1>1, <1>2, <1>5 DEF EndKnown, AtEnd
<1>7. SubSeq(buf', 1, Len(buf)) = buf
  <2> DEFINE u == SubSeq(unread, 1, n)
             l == Len(buf)
             v == SubSeq(buf', 0 + 1, l)
  <2>1. u \in Seq(Bytes)
    <3>1. \A i \in 1 .. n : unread[i] \in Bytes
      BY <1>4, ElementOfSeq
    <3>2. n \in Int /\ 1 \in Int
      OBVIOUS
    <3> QED
      BY <3>1, <3>2, SubSeqProperties
  <2> HIDE DEF u
  <2>2. /\ buf' \in Seq(Bytes) /\ Len(buf') = l + Len(u) /\ Len(u) \in Nat
        /\ \A i \in 1 .. l + Len(u) : buf'[i] = IF i <= l THEN buf[i] ELSE u[i - l]
    BY <1>3, <1>4, <2>1, ConcatProperties, LenProperties DEF u
  <2>3. l \in 0 .. Len(buf')
    BY <1>4, <2>2
  <2>4. v \in Seq(Bytes) /\ Len(v) = l - 0 /\ \A i \in 1 .. l - 0 : v[i] = buf'[0 + i]
    BY <2>2, <2>3, WordFacts
  <2> HIDE DEF v
  <2>5. \A i \in 1 .. l : v[i] = buf[i]
    <3>1. \A i \in 1 .. l : i \in 1 .. l - 0 /\ i \in 1 .. l + Len(u) /\ 0 + i = i /\ i <= l
      BY <1>4, <2>2
    <3> QED
      BY <2>2, <2>4, <3>1
  <2>6. Len(v) = l
    BY <1>4, <2>4
  <2>7. v = buf
    BY <1>4, <2>4, <2>5, <2>6, SeqEqual
  <2> QED
    BY <2>7 DEF v
<1>8. /\ pc' = "replay" /\ after' = "match" /\ cBufP' = Len(buf) /\ cp' = 0 /\ state' = 1
      /\ text' = 0
  BY <1>1, <1>2 DEF ReplayTo, yy_start
<1>9. 0 + 1 = 1 /\ SubSeq(buf', 0 + 1, 0) = << >> /\ Shape(1, << >>)
  BY EmptyWord
<1>10. Shape(state', Word(cp)')
  BY <1>8, <1>9, Zenon DEF Word
<1>11. state' \notin {9, 10, 11} /\ after' # "find" /\ after' # "nul"
  BY <1>8
<1>12. Reached'
  BY <1>10, <1>11 DEF Reached
<1>13. Rules!Undecided(Word(cBufP)')
  BY <1>2, <1>7, <1>8, <1>9, Zenon DEF Word
<1>14. AtReplay'
  BY <1>11, <1>12, <1>13 DEF AtReplay
<1> QED
  BY <1>6, <1>8, <1>14 DEF Matching

LEMMA LastMatchWords ==
  ASSUME IInv, Matching, LastMatch
  PROVE  Matching'
<1>1. /\ pc = "eof" /\ ReplayTo(Len(buf), "find")
      /\ UNCHANGED <<unread, closed, buf, text, tokens, ended>>
  BY DEF LastMatch, stream, output
<1>2. TypeOK /\ text = 0 /\ AtEnd /\ Rules!Undecided(buf) /\ EndKnown
  BY <1>1 DEF IInv, Phases, Matching
<1>3. EndKnown'
  BY <1>1, <1>2 DEF EndKnown, AtEnd
<1>4. /\ pc' = "replay" /\ after' = "find" /\ cBufP' = Len(buf') /\ cp' = 0 /\ state' = 1
      /\ text' = 0 /\ buf' = buf
  BY <1>1, <1>2 DEF ReplayTo, yy_start
<1>5. 0 + 1 = 1 /\ SubSeq(buf, 0 + 1, 0) = << >> /\ Shape(1, << >>)
  BY EmptyWord
<1>6. SubSeq(buf, 1, Len(buf)) = buf
  BY <1>2, SubSeqFull DEF TypeOK
<1>7. Shape(state', Word(cp)')
  BY <1>4, <1>5, Zenon DEF Word
<1>8. state' \notin {9, 10, 11} /\ after' # "nul"
  BY <1>4
<1>9. Reached'
  BY <1>7, <1>8 DEF Reached
<1>10. Rules!Undecided(Word(cBufP)')
  BY <1>2, <1>4, <1>5, <1>6, Zenon DEF Word
<1>11. AtEnd'
  BY <1>1, <1>2 DEF AtEnd
<1>12. AtReplay'
  BY <1>4, <1>8, <1>9, <1>10, <1>11 DEF AtReplay
<1> QED
  BY <1>3, <1>4, <1>12 DEF Matching

LEMMA EndOfFileWords ==
  ASSUME IInv, Matching, EndOfFile
  PROVE  Matching'
<1>1. /\ pc = "eof" /\ pc' = "returned" /\ buf = << >> /\ status' = "NEW"
      /\ UNCHANGED <<unread, closed, buf>>
  BY DEF EndOfFile, Goes, stream
<1>2. AtEnd
  BY <1>1 DEF Matching
<1>3. EndKnown'
  BY <1>1, <1>2 DEF EndKnown, AtEnd
<1> QED
  BY <1>1, <1>3 DEF Matching

LEMMA MatchingInit == Init => Matching
BY DEF Init, Matching, EndKnown

LEMMA MatchingStep == IInv /\ Matching /\ [Next]_vars => Matching'
<1> SUFFICES ASSUME IInv, Matching, [Next]_vars PROVE Matching'
  OBVIOUS
<1>1. CASE InitScanner \/ InitFails \/ FirstCall \/ Call \/ Destroy \/ Fatal \/ ReadEOF
  BY <1>1, CallsWords
<1>2. CASE StartToken \/ Match \/ FindAction \/ Rule
  BY <1>2, StartTokenWords, MatchWords, FindActionWords, RuleWords
<1>3. CASE MeetNul \/ Replay \/ TryNul
  BY <1>3, MeetNulWords, ReplayWords, TryNulWords
<1>4. CASE Move \/ Grow \/ Read \/ LastMatch \/ EndOfFile
  BY <1>4, MoveWords, GrowWords, ReadWords, LastMatchWords, EndOfFileWords
<1>5. CASE UNCHANGED vars
  <2>1. UNCHANGED <<pc, unread, closed, buf, size, status, text, cBufP, cp, state, last,
                    after, tokens, ended>>
    BY <1>5 DEF vars, stream, buffer, automaton, output
  <2> QED
    BY <2>1, Zenon DEF Matching, AtMatch, AtFind, AtReplay, EndKnown, AtEnd, Reached, Chosen,
                Decided, MetZero, Byte, Word, Rest
<1> QED
  BY <1>1, <1>2, <1>3, <1>4, <1>5 DEF Next

LEMMA AlwaysMatching == Spec => [](IInv /\ Matching)
BY InitHolds, StepHolds, MatchingInit, MatchingStep, PTL DEF Spec

\* ReadsOnlyWhenUndecided: whatever came in whatever pieces, yylex blocks in read
\* only when the bytes it has may still become a longer token.
THEOREM BlocksOnlyWhenUndecided == Spec => []ReadsOnlyWhenUndecided
<1>1. IInv /\ Matching => ReadsOnlyWhenUndecided
  BY Zenon DEF Matching, ReadsOnlyWhenUndecided
<1> QED
  BY <1>1, AlwaysMatching, PTL

-----------------------------------------------------------------------------
(***************************************************************************)
(* The scanner implements the rules                                        *)
(***************************************************************************)
Phase == IF pc \in Stopped THEN "stopped" ELSE IF ended THEN "ended" ELSE "scanning"

InsideToken == {"match", "find", "action", "replay", "nul", "fill", "eof", "fatal"}

LEMMA PendingParts ==
  /\ pc \in InsideToken => Pending = After(buf, text, unread)
  /\ pc \notin InsideToken => Pending = After(buf, cBufP, unread)
BY DEF Pending, After, InsideToken

\* A step that changes nothing the rules speak of.
LEMMA Hidden ==
  ASSUME Pending' = Pending, Phase' = Phase, UNCHANGED <<tokens, closed>>
  PROVE  UNCHANGED Rules!vars
BY DEF Rules!vars, Phase

LEMMA StopRefines ==
  ASSUME Pending' = Pending, pc' \in Stopped, UNCHANGED <<tokens, closed>>
  PROVE  Rules!Next
BY DEF Rules!Next, Rules!Stop

\* Without bytes in the buffer, nothing but the stream is pending.
LEMMA NothingBuffered ==
  ASSUME NEW t \in Nat, NEW u \in Seq(Bytes)
  PROVE  After(<< >>, t, u) = u
<1>1. SubSeq(<< >>, t + 1, Len(<< >>)) = << >>
  <2>1. Len(<< >>) = 0
    OBVIOUS
  <2>2. t + 1 \in Int /\ 0 \in Int /\ 0 < t + 1
    OBVIOUS
  <2>3. SubSeq(<< >>, t + 1, 0) = << >>
    BY <2>2, SubSeqEmpty
  <2> QED
    BY <2>1, <2>3, Zenon
<1>2. << >> \o u = u
  BY ConcatEmptySeq
<1> QED
  BY <1>1, <1>2, Zenon DEF After

LEMMA CallsRefine ==
  ASSUME IInv, Matching, InitScanner \/ InitFails \/ FirstCall \/ Call \/ Destroy \/ Fatal
  PROVE  Rules!Next \/ UNCHANGED Rules!vars
<1>1. UNCHANGED <<unread, closed, buf, text, cBufP, tokens, ended>>
  BY DEF InitScanner, InitFails, FirstCall, Call, Destroy, Fatal, stream, buffer, automaton, output
<1>2. \/ pc = "new" /\ pc' = "idle"
      \/ pc \in {"idle", "returned"} /\ pc' = "start"
      \/ pc \in {"new", "unusable", "idle", "returned"} /\ pc' \in {"killed", "unusable", "destroyed"}
      \/ pc \in {"idle", "fill"} /\ pc' = "fatal"
  BY DEF InitScanner, InitFails, FirstCall, Call, Destroy, Fatal, Goes
<1>3. CASE \/ pc = "new" /\ pc' = "idle"
           \/ pc \in {"idle", "returned"} /\ pc' = "start"
  <2>1. Pending' = Pending
    BY <1>1, <1>3 DEF Pending
  <2>2. Phase' = Phase
    BY <1>1, <1>3 DEF Phase, Stopped
  <2> QED
    BY <1>1, <2>1, <2>2, Hidden
<1>4. CASE pc \in {"new", "unusable", "idle", "returned"} /\ pc' \in {"killed", "unusable", "destroyed"}
  <2>1. Pending' = Pending
    BY <1>1, <1>4 DEF Pending
  <2> QED
    BY <1>1, <1>4, <2>1, StopRefines DEF Stopped
<1>5. CASE pc = "fill" /\ pc' = "fatal"
  <2>1. Pending' = Pending
    BY <1>1, <1>5 DEF Pending
  <2> QED
    BY <1>1, <1>5, <2>1, StopRefines DEF Stopped
<1>6. CASE pc = "idle" /\ pc' = "fatal"
  <2>1. buf = << >> /\ text \in Nat /\ cBufP \in Nat /\ unread \in Seq(Bytes)
    BY <1>6, Bounds DEF IInv, Fresh, TypeOK
  <2>2. After(buf, text, unread) = unread /\ After(buf, cBufP, unread) = unread
    BY <2>1, NothingBuffered
  <2>3. Pending = After(buf, cBufP, unread)
    BY <1>6, PendingParts DEF InsideToken
  <2>4. Pending' = After(buf, text, unread)
    BY <1>1, <1>6 DEF Pending, After
  <2>5. Pending' = Pending
    BY <2>2, <2>3, <2>4
  <2> QED
    BY <1>1, <1>6, <2>5, StopRefines DEF Stopped
<1> QED
  BY <1>2, <1>3, <1>4, <1>5, <1>6

LEMMA RuleRefines ==
  ASSUME IInv, Matching, Rule
  PROVE  Rules!Next
<1>1. /\ pc = "action" /\ yy_accept[state] \in 1 .. 5 /\ pc' \in {"start", "returned"}
      /\ tokens' = Append(tokens, [rule |-> yy_accept[state], text |-> SubSeq(buf, text + 1, cBufP)])
      /\ UNCHANGED <<unread, closed, buf, text, cBufP, ended>>
  BY DEF Rule, yy_act, stream, buffer
<1>2. TypeOK /\ cBufP = cp /\ Chosen(state, cp) /\ EndKnown
  BY <1>1 DEF IInv, Phases, Matching
<1>3. state # 3
  BY <1>1, AcceptValues
<1>4. Decided(state, cp)
  BY <1>2, <1>3 DEF Chosen, MetZero
<1>5. /\ text < cp /\ cp <= Len(buf) /\ (closed \/ ~Rules!Undecided(Rest))
      /\ Rules!First(Rest) = [rule |-> yy_accept[state], text |-> Word(cp)]
  BY <1>4, Zenon DEF Decided
<1>6. /\ Len(buf) \in Nat /\ text \in Nat /\ cp \in text .. Len(buf) /\ text <= Len(buf)
      /\ 0 < Len(buf)
      /\ buf \in Seq(Bytes) /\ unread \in Seq(Bytes)
  BY <1>2, <1>5, Bounds DEF TypeOK
<1>7. buf # << >>
  <2>1. Len(<< >>) = 0
    OBVIOUS
  <2>2. Len(buf) # 0
    BY <1>6
  <2> QED
    BY <2>1, <2>2
<1>8. ~ended
  BY <1>2, <1>7 DEF EndKnown
<1>9. Pending = Rest
  BY <1>1, PendingParts DEF Rest, InsideToken
<1>10. Pending' = After(buf, cp, unread)
  BY <1>1, <1>2 DEF Pending, After
<1>11. Len(Word(cp)) = cp - text
  BY <1>6, WordFacts DEF Word
<1>12. SubSeq(Rest, (cp - text) + 1, Len(Rest)) = After(buf, cp, unread)
  BY <1>6, AfterToken DEF Rest
<1>13. Pending' = SubSeq(Pending, Len(Rules!First(Pending).text) + 1, Len(Pending))
  <2>1. Rules!First(Pending).text = Word(cp)
    BY <1>5, <1>9
  <2> QED
    BY <1>9, <1>10, <1>11, <1>12, <2>1, Zenon
<1>14. tokens' = Append(tokens, Rules!First(Pending))
  BY <1>1, <1>2, <1>5, <1>9, Zenon DEF Word
<1>15. Pending # << >>
  <2>1. Rest \in Seq(Bytes) /\ Len(Rest) = (Len(buf) - text) + Len(unread) /\ Len(unread) \in Nat
    BY <1>6, AfterFacts, LenProperties DEF Rest
  <2> DEFINE l == Len(buf)
             m == Len(unread)
             k == Len(Rest)
  <2>2. l \in Nat /\ m \in Nat /\ k = (l - text) + m /\ text < l
    BY <1>5, <1>6, <2>1
  <2> HIDE DEF l, m, k
  <2>3. k # 0
    BY <1>6, <2>2
  <2>4. Len(<< >>) = 0
    OBVIOUS
  <2>5. Rest # << >>
    BY <2>3, <2>4 DEF k
  <2> QED
    BY <1>9, <2>5
<1>16. closed \/ ~Rules!Undecided(Pending)
  BY <1>5, <1>9, Zenon
<1>17. Phase = "scanning" /\ Phase' = "scanning"
  BY <1>1, <1>8 DEF Phase, Stopped
<1>18. Rules!Token
  BY <1>1, <1>13, <1>14, <1>15, <1>16, <1>17, Zenon DEF Rules!Token, Phase
<1> QED
  BY <1>18 DEF Rules!Next

LEMMA MoveHidden ==
  ASSUME IInv, Matching, Move
  PROVE  Pending' = Pending
<1>1. /\ EndOfBuffer /\ ~(cBufP <= Len(buf)) /\ pc = "action"
      /\ buf' = SubSeq(buf, text + 1, text + Kept) /\ text' = 0
      /\ pc' \in {"eof", "fill"}
      /\ UNCHANGED <<unread, closed>>
  BY DEF Move, NulInBuffer, stream, EndOfBuffer
<1>2. MetZero(state, cp) /\ cp = cBufP /\ text < cp /\ TypeOK
  BY <1>1, EndMeetsZero DEF IInv
<1>3. Len(buf) \in Nat /\ cp \in Nat /\ text \in Nat
  BY <1>2, Bounds
<1>4. text + Kept = Len(buf) /\ text <= Len(buf)
  <2>1. cp - 1 <= Len(buf)
    BY <1>2 DEF MetZero
  <2> QED
    BY <1>1, <1>2, <1>3, <2>1 DEF Kept
<1>5. buf' = SubSeq(buf, text + 1, Len(buf))
  BY <1>1, <1>4
<1>6. SubSeq(buf, text + 1, Len(buf)) \in Seq(Bytes)
  BY <1>2, <1>3, <1>4, WordFacts DEF TypeOK
<1>7. SubSeq(buf', 1, Len(buf')) = buf'
  BY <1>5, <1>6, SubSeqFull
<1>8. Pending = SubSeq(buf, text + 1, Len(buf)) \o unread
  BY <1>1 DEF Pending
<1>9. Pending' = SubSeq(buf', 0 + 1, Len(buf')) \o unread
  BY <1>1 DEF Pending
<1>10. 0 + 1 = 1
  OBVIOUS
<1> QED
  BY <1>5, <1>7, <1>8, <1>9, <1>10, Zenon

LEMMA ThreePieces ==
  ASSUME NEW s \in Seq(Bytes), NEW t \in Seq(Bytes), NEW u \in Seq(Bytes)
  PROVE  (s \o t) \o u = s \o (t \o u)
BY ConcatAssociative

LEMMA ReadHidden ==
  ASSUME IInv, Matching, Read
  PROVE  Pending' = Pending
<1>1. /\ pc = "fill" /\ pc' = "replay" /\ UNCHANGED text
  BY DEF Read, ReplayTo
<1>2. TypeOK /\ text = 0
  BY <1>1 DEF IInv, Phases
<1>3. PICK n \in 1 .. Len(unread) : /\ buf' = buf \o SubSeq(unread, 1, n)
                                    /\ unread' = SubSeq(unread, n + 1, Len(unread))
  BY DEF Read
<1>4. buf \in Seq(Bytes) /\ unread \in Seq(Bytes) /\ Len(unread) \in Nat
  BY <1>2, LenProperties DEF TypeOK
<1> DEFINE x == SubSeq(unread, 1, n)
           y == SubSeq(unread, n + 1, Len(unread))
<1>5. x \in Seq(Bytes) /\ y \in Seq(Bytes) /\ x \o y = unread
  <2>1. n \in 0 .. Len(unread) /\ Len(unread) \in n .. Len(unread) /\ n \in Nat
    BY <1>4
  <2>2. SubSeq(unread, 0 + 1, n) \in Seq(Bytes) /\ y \in Seq(Bytes)
    BY <1>4, <2>1, WordFacts
  <2>3. 0 + 1 = 1
    OBVIOUS
  <2>4. 1 \in 1 .. Len(unread) + 1 /\ n \in 1 - 1 .. Len(unread)
    BY <1>4
  <2>5. x \o y = SubSeq(unread, 1, Len(unread))
    BY <1>4, <2>1, <2>4, ConcatAdjacentSubSeq
  <2>6. SubSeq(unread, 1, Len(unread)) = unread
    BY <1>4, SubSeqFull
  <2> QED
    BY <2>2, <2>3, <2>5, <2>6, Zenon
<1>6. buf' = buf \o x /\ unread' = y
  BY <1>3
<1> HIDE DEF x, y
<1>7. buf' \in Seq(Bytes)
  BY <1>4, <1>5, <1>6, ConcatProperties
<1>8. SubSeq(buf', 1, Len(buf')) = buf' /\ SubSeq(buf, 1, Len(buf)) = buf
  BY <1>4, <1>7, SubSeqFull
<1>9. (buf \o x) \o y = buf \o (x \o y)
  <2>1. buf \in Seq(Bytes) /\ x \in Seq(Bytes) /\ y \in Seq(Bytes)
    BY <1>4, <1>5
  <2> QED
    BY <2>1, ThreePieces
<1>10. Pending = SubSeq(buf, 0 + 1, Len(buf)) \o unread
  BY <1>1, <1>2 DEF Pending
<1>11. Pending' = SubSeq(buf', 0 + 1, Len(buf')) \o unread'
  BY <1>1, <1>2 DEF Pending
<1>12. 0 + 1 = 1
  OBVIOUS
<1> QED
  BY <1>5, <1>6, <1>8, <1>9, <1>10, <1>11, <1>12, Zenon

LEMMA EndOfFileRefines ==
  ASSUME IInv, Matching, EndOfFile
  PROVE  Rules!Next \/ UNCHANGED Rules!vars
<1>1. /\ pc = "eof" /\ pc' = "returned" /\ buf = << >> /\ cBufP' = 0 /\ ended'
      /\ UNCHANGED <<unread, closed, buf, text, tokens>>
  BY DEF EndOfFile, Goes, stream
<1>2. unread = << >> /\ closed /\ TypeOK
  BY <1>1 DEF Matching, AtEnd, IInv
<1>3. text \in Nat /\ unread \in Seq(Bytes)
  BY <1>2, Bounds DEF TypeOK
<1>4. Pending = << >>
  <2>1. Pending = After(<< >>, text, unread)
    BY <1>1, PendingParts DEF InsideToken
  <2> QED
    BY <1>2, <1>3, <2>1, NothingBuffered
<1>5. Pending' = << >>
  <2>1. Pending' = After(<< >>, 0, unread)
    BY <1>1 DEF Pending, After
  <2> QED
    BY <1>2, <1>3, <2>1, NothingBuffered
<1>6. Phase' = "ended"
  BY <1>1 DEF Phase, Stopped
<1>7. CASE ended
  <2>1. Phase = "ended"
    BY <1>1, <1>7 DEF Phase, Stopped
  <2> QED
    BY <1>1, <1>4, <1>5, <1>6, <2>1, Hidden
<1>8. CASE ~ended
  <2>1. Phase = "scanning"
    BY <1>1, <1>8 DEF Phase, Stopped
  <2>2. Rules!End
    BY <1>1, <1>2, <1>4, <1>5, <1>6, <2>1, Zenon DEF Rules!End, Phase
  <2> QED
    BY <2>2 DEF Rules!Next
<1> QED
  BY <1>7, <1>8

LEMMA AutomatonHidden ==
  ASSUME IInv, Matching,
         \/ StartToken \/ Match \/ FindAction \/ MeetNul \/ Replay \/ TryNul
         \/ Move \/ Grow \/ Read \/ ReadEOF \/ LastMatch
  PROVE  UNCHANGED Rules!vars
<1>1. UNCHANGED <<closed, tokens, ended>>
  BY DEF StartToken, Match, FindAction, MeetNul, Replay, TryNul, Move, Grow, Read, ReadEOF,
         LastMatch, stream, output
<1>2. pc \notin Stopped /\ pc' \notin Stopped
  <2>1. CASE StartToken \/ FindAction \/ Grow \/ ReadEOF
    BY <2>1 DEF StartToken, FindAction, Grow, ReadEOF, Goes, Stopped
  <2>2. CASE Match
    BY <2>2 DEF Match, Stopped
  <2>3. CASE MeetNul \/ Read \/ LastMatch
    BY <2>3 DEF MeetNul, Read, LastMatch, ReplayTo, EndOfBuffer, Stopped
  <2>4. CASE Replay
    <3>1. pc = "replay" /\ pc' \in {"replay", after}
      BY <2>4 DEF Replay
    <3>2. after \in {"none", "nul", "match", "find"}
      BY DEF IInv, TypeOK
    <3> QED
      BY <3>1, <3>2 DEF Stopped
  <2>5. CASE TryNul
    <3>1. pc = "nul" /\ pc' \in {"find", "match"}
      BY <2>5 DEF TryNul
    <3> QED
      BY <3>1 DEF Stopped
  <2>6. CASE Move
    BY <2>6 DEF Move, EndOfBuffer, Stopped
  <2> QED
    BY <2>1, <2>2, <2>3, <2>4, <2>5, <2>6
<1>3. Phase' = Phase
  BY <1>1, <1>2 DEF Phase
<1>4. Pending' = Pending
  <2>1. CASE Move
    BY <2>1, MoveHidden
  <2>2. CASE Read
    BY <2>2, ReadHidden
  <2>3. CASE StartToken
    BY <2>3 DEF StartToken, Goes, stream, buffer, Pending
  <2>4. CASE \/ Match \/ FindAction \/ MeetNul \/ Replay \/ TryNul
             \/ Grow \/ ReadEOF \/ LastMatch
    <3>1. UNCHANGED <<buf, text, unread>>
      BY <2>4 DEF Match, FindAction, MeetNul, Replay, TryNul, Grow, ReadEOF, LastMatch, stream, buffer
    <3>2. pc \in InsideToken /\ pc' \in InsideToken
      <4>1. CASE FindAction \/ Grow \/ ReadEOF
        BY <4>1 DEF FindAction, Grow, ReadEOF, Goes, InsideToken
      <4>2. CASE Match
        BY <4>2 DEF Match, InsideToken
      <4>3. CASE MeetNul \/ LastMatch
        BY <4>3 DEF MeetNul, LastMatch, ReplayTo, EndOfBuffer, InsideToken
      <4>4. CASE Replay
        <5>1. pc = "replay" /\ pc' \in {"replay", after}
          BY <4>4 DEF Replay
        <5>2. after \in {"nul", "match", "find"}
          BY <5>1 DEF IInv, TypeOK, Phases
        <5> QED
          BY <5>1, <5>2 DEF InsideToken
      <4>5. CASE TryNul
        <5>1. pc = "nul" /\ pc' \in {"find", "match"}
          BY <4>5 DEF TryNul
        <5> QED
          BY <5>1 DEF InsideToken
      <4> QED
        BY <2>4, <4>1, <4>2, <4>3, <4>4, <4>5
    <3> QED
      BY <3>1, <3>2 DEF Pending, InsideToken
  <2> QED
    BY <2>1, <2>2, <2>3, <2>4
<1> QED
  BY <1>1, <1>3, <1>4, Hidden

LEMMA StepRefines == IInv /\ Matching /\ [Next]_vars => [Rules!Next]_(Rules!vars)
<1> SUFFICES ASSUME IInv, Matching, [Next]_vars PROVE Rules!Next \/ UNCHANGED Rules!vars
  OBVIOUS
<1>1. CASE InitScanner \/ InitFails \/ FirstCall \/ Call \/ Destroy \/ Fatal
  BY <1>1, CallsRefine
<1>2. CASE Rule
  BY <1>2, RuleRefines
<1>3. CASE EndOfFile
  BY <1>3, EndOfFileRefines
<1>4. CASE \/ StartToken \/ Match \/ FindAction \/ MeetNul \/ Replay \/ TryNul
           \/ Move \/ Grow \/ Read \/ ReadEOF \/ LastMatch
  BY <1>4, AutomatonHidden
<1>5. CASE UNCHANGED vars
  <2>1. UNCHANGED <<pc, unread, closed, buf, text, cBufP, tokens, ended>>
    BY <1>5 DEF vars, stream, buffer, output
  <2>2. Pending' = Pending /\ Phase' = Phase
    BY <2>1 DEF Pending, Phase
  <2> QED
    BY <2>1, <2>2, Hidden
<1> QED
  BY <1>1, <1>2, <1>3, <1>4, <1>5 DEF Next

LEMMA InitRefines == Init => Rules!Init
BY DEF Init, Rules!Init, Stopped

\* The scanner implements the rules of scanner.l: each token handed out is the
\* longest match at the front of the bytes not yet taken, and is handed out only
\* when no byte still to come could change it.  (The fairness of RefinesRules, that
\* the token does come, is left to TLC.)
THEOREM ImplementsRules == Spec => Rules!Init /\ [][Rules!Next]_(Rules!vars)
BY InitRefines, StepRefines, AlwaysMatching, PTL DEF Spec
=============================================================================
