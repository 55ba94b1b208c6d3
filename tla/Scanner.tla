------------------------------ MODULE Scanner ------------------------------
(***************************************************************************)
(* The scanner that flex made of scanner.l: the automaton in its           *)
(* compressed tables, the buffer that the stream of the simulator is read  *)
(* into, and the end of that buffer, which a byte 0 stands for.            *)
(*                                                                         *)
(* Positions are offsets into yy_ch_buf.  yytext_ptr and yy_bp are one     *)
(* variable, since the first is only used after it was set to the second;  *)
(* yy_hold_char, which the code swaps with a NUL behind yytext, is left    *)
(* out.  What the rules do with a token is in GdbLink.                     *)
(***************************************************************************)
EXTENDS Integers, Sequences

CONSTANTS
  Streams,   \* what the other end may write
  BufSize,   \* YY_BUF_SIZE
  ReadSize   \* YY_READ_BUF_SIZE

\* The bytes, as far as yy_ec tells them apart.
Bytes == {"nul", "other", "nl", "#", "$", "+", "-", "hex"}

ASSUME StreamsAssumption == Streams \subseteq Seq(Bytes)
ASSUME SizesAssumption == BufSize \in Nat \ {0} /\ ReadSize \in Nat \ {0}

VARIABLES
  pc,      \* where the scanner is; "returned" between two calls of yylex
  unread,  \* what the other end wrote and the scanner has not read
  closed,  \* whether the other end closes the connection after that
  buf,     \* the yy_n_chars bytes of yy_ch_buf; two bytes 0 follow
  size,    \* yy_buf_size
  status,  \* yy_buffer_status
  text,    \* yytext_ptr
  cp,      \* yy_cp
  cBufP,   \* yy_c_buf_p
  state,   \* yy_current_state
  last,    \* yy_last_accepting_state and yy_last_accepting_cpos
  after,   \* where yy_get_previous_state returns to
  tokens,  \* the tokens handed to the rules
  ended    \* yylex returned EOF

stream == <<unread, closed>>
buffer == <<buf, size, status>>
automaton == <<cp, state, last>>
output == <<tokens, ended>>
vars == <<pc, stream, buffer, text, cBufP, automaton, after, output>>

(***************************************************************************)
(* The tables                                                              *)
(***************************************************************************)
Table(first, values) == [i \in first .. first + Len(values) - 1 |-> values[i - first + 1]]

yy_ec ==
  [b \in Bytes |-> CASE b = "nul" -> 0 [] b = "nl" -> 2 [] b = "#" -> 3 [] b = "$" -> 4
                     [] b = "+" -> 5 [] b = "-" -> 6 [] b = "hex" -> 7 [] OTHER -> 1]
yy_accept == Table(0, <<0, 0, 0, 6, 4, 5, 4, 1, 2, 0, 0, 0, 3, 0>>)
yy_meta == Table(0, <<0, 1, 1, 1, 2, 1, 1, 1>>)
yy_base == Table(0, <<0, 0, 0, 13, 14, 14, 9, 14, 14, 8, 3, 2, 14, 14, 7>>)
yy_def == Table(0, <<0, 13, 1, 13, 13, 13, 14, 13, 13, 14, 13, 13, 13, 0, 13>>)
yy_nxt == Table(0, <<0, 4, 5, 4, 6, 7, 8, 4, 9, 12, 11, 10, 10, 13, 3, 13, 13, 13, 13, 13, 13, 13>>)
yy_chk == Table(0, <<0, 1, 1, 1, 1, 1, 1, 1, 14, 11, 10, 9, 6, 3, 13, 13, 13, 13, 13, 13, 13, 13>>)

yy_start == 1
Jam == 13

\* A state whose entry for class c is not its own: on to its default state,
\* with the class mapped by yy_meta when that is a template.
Default(p) ==
  IF yy_chk[yy_base[p[1]] + p[2]] = p[1] THEN p
  ELSE <<yy_def[p[1]], IF yy_def[p[1]] >= 14 THEN yy_meta[p[2]] ELSE p[2]>>

\* The transition; two defaults reach the jam state from any state.
Delta(s, c) == LET p == Default(Default(<<s, c>>)) IN yy_nxt[yy_base[p[1]] + p[2]]

(* Mutant of LastAccepting: the accepting state is not remembered.         *)
LastAcceptingForgets(pos) == last

LastAccepting(pos) ==
  IF yy_accept[state] # 0 THEN [state |-> state, cp |-> pos] ELSE last

Init ==
  /\ pc = "new"
  /\ unread \in Streams /\ closed \in BOOLEAN
  /\ buf = << >> /\ size = 0 /\ status = "NEW"
  /\ text = 0 /\ cp = 0 /\ cBufP = 0
  /\ state = yy_start /\ last = [state |-> 0, cp |-> 0]
  /\ after = "none"
  /\ tokens = << >> /\ ended = FALSE

Goes(from, to) == pc = from /\ pc' = to

-----------------------------------------------------------------------------
(***************************************************************************)
(* The calls                                                               *)
(***************************************************************************)
\* init_gdb_scanner; a scanner that could not be made is used all the same.
InitScanner ==
  /\ Goes("new", "idle")
  /\ UNCHANGED <<stream, buffer, text, cBufP, automaton, after, output>>

InitFails ==
  /\ \/ Goes("new", "killed")    \* no memory for yyguts_t: yyset_in
     \/ Goes("new", "unusable")  \* fdopen fails, init_gdb_scanner returns
     \/ Goes("unusable", "killed")
  /\ UNCHANGED <<stream, buffer, text, cBufP, automaton, after, output>>

\* The first call of yylex makes the buffer.
FirstCall ==
  /\ Goes("idle", "start")
  /\ size' = BufSize
  /\ UNCHANGED <<stream, buf, status, text, cBufP, automaton, after, output>>

Call ==
  /\ Goes("returned", "start")
  /\ UNCHANGED <<stream, buffer, text, cBufP, automaton, after, output>>

Destroy ==
  /\ \/ Goes("idle", "destroyed")
     \/ Goes("returned", "destroyed")
  /\ UNCHANGED <<stream, buffer, text, cBufP, automaton, after, output>>

(***************************************************************************)
(* yylex                                                                   *)
(***************************************************************************)
StartToken ==
  /\ Goes("start", "match")
  /\ text' = cBufP /\ cp' = cBufP
  /\ state' = yy_start
  /\ UNCHANGED <<stream, buffer, cBufP, last, after, output>>

Byte(i) == IF i < Len(buf) THEN buf[i + 1] ELSE "nul"

(* Mutant of Stops: only the jam state ends the match.                     *)
StopsAtJam(s) == s = Jam

\* Nothing can follow: the jam state, or a state no byte leads out of.
Stops(s) == yy_base[s] = 14

\* The body of the loop at yy_match.
Match ==
  /\ pc = "match"
  /\ last' = LastAccepting(cp)
  /\ state' = Delta(state, yy_ec[Byte(cp)])
  /\ cp' = cp + 1
  /\ pc' = IF Stops(state') THEN "find" ELSE "match"
  /\ UNCHANGED <<stream, buffer, text, cBufP, after, output>>

\* yy_find_action, with its backing up, and YY_DO_BEFORE_ACTION.
FindAction ==
  /\ Goes("find", "action")
  /\ IF yy_accept[state] = 0
     THEN state' = last.state /\ cp' = last.cp
     ELSE UNCHANGED <<state, cp>>
  /\ cBufP' = cp'
  /\ UNCHANGED <<stream, buffer, text, last, after, output>>

yy_act == yy_accept[state]
YY_END_OF_BUFFER == 6

\* A rule has its token.  Only a packet makes yylex return, when its checksum
\* is right.
Rule ==
  /\ pc = "action"
  /\ yy_act \in 1 .. 5
  /\ tokens' = Append(tokens, [rule |-> yy_act, text |-> SubSeq(buf, text + 1, cBufP)])
  /\ pc' \in {"start"} \cup (IF yy_act = 3 THEN {"returned"} ELSE {})
  /\ UNCHANGED <<stream, buffer, text, cBufP, automaton, after, ended>>

\* "fatal flex scanner internal error", of yylex and of yy_get_next_buffer.
InternalError ==
  /\ pc = "action"
  /\ \/ yy_act = 0
     \/ yy_act = YY_END_OF_BUFFER /\ cBufP > Len(buf) + 1

(***************************************************************************)
(* The action of YY_END_OF_BUFFER: a byte 0 was met                        *)
(***************************************************************************)
EndOfBuffer ==
  /\ pc = "action"
  /\ yy_act = YY_END_OF_BUFFER

\* yy_get_previous_state runs from the start of the token up to upto.
ReplayTo(upto, then) ==
  /\ pc' = "replay" /\ after' = then
  /\ cBufP' = upto
  /\ cp' = text' /\ state' = yy_start

Used == IF status = "NEW" THEN "NORMAL" ELSE status

(* Mutant of NulInBuffer: the byte at yy_n_chars - 1 counts as the end.    *)
NulBeforeLast == cBufP < Len(buf)

NulInBuffer == cBufP <= Len(buf)

\* "This was really a NUL."
MeetNul ==
  /\ EndOfBuffer /\ NulInBuffer
  /\ status' = Used
  /\ UNCHANGED text
  /\ ReplayTo(cp - 1, "nul")
  /\ UNCHANGED <<stream, buf, size, last, output>>

ReplayClass(b) == IF b = "nul" THEN 1 ELSE yy_ec[b]

Replay ==
  /\ pc = "replay"
  /\ IF cp < cBufP
     THEN /\ last' = LastAccepting(cp)
          /\ state' = Delta(state, ReplayClass(Byte(cp)))
          /\ cp' = cp + 1
          /\ UNCHANGED pc
     ELSE pc' = after /\ UNCHANGED automaton
  /\ UNCHANGED <<stream, buffer, text, cBufP, after, output>>

\* yy_try_NUL_trans: the NUL is part of the token, or ends it.
TryNul ==
  /\ pc = "nul"
  /\ last' = LastAccepting(cp)
  /\ IF Delta(state, 1) = Jam
     THEN pc' = "find" /\ UNCHANGED <<state, cp, cBufP>>
     ELSE pc' = "match" /\ state' = Delta(state, 1) /\ cp' = cp + 1 /\ cBufP' = cp + 1
  /\ UNCHANGED <<stream, buffer, text, after, output>>

(***************************************************************************)
(* yy_get_next_buffer                                                      *)
(***************************************************************************)
Kept == cBufP - text - 1  \* number_to_move

\* The matched part of a token moves to the front of the buffer; buf is then
\* that part.  After the end of the stream there is nothing left to read.
Move ==
  /\ EndOfBuffer /\ ~NulInBuffer
  /\ buf' = SubSeq(buf, text + 1, text + Kept) /\ text' = 0
  /\ status' = Used
  /\ pc' = IF status = "EOF_PENDING" THEN "eof" ELSE "fill"
  /\ UNCHANGED <<stream, size, cBufP, automaton, after, output>>

(* Mutant of Room: no byte is kept free.                                   *)
RoomWithoutEnd == size - Len(buf)

Room == size - Len(buf) - 1

Grow ==
  /\ Goes("fill", "fill")
  /\ Room <= 0
  /\ size' = 2 * size
  /\ UNCHANGED <<stream, buf, status, text, cBufP, automaton, after, output>>

\* read gives what is there, at most what it was asked for.
Read ==
  /\ pc = "fill"
  /\ Room > 0
  /\ \E n \in 1 .. Len(unread) :
       /\ n <= Room /\ n <= ReadSize
       /\ buf' = buf \o SubSeq(unread, 1, n)
       /\ unread' = SubSeq(unread, n + 1, Len(unread))
  /\ UNCHANGED text
  /\ ReplayTo(Len(buf), "match")
  /\ UNCHANGED <<closed, size, status, last, output>>

ReadEOF ==
  /\ Goes("fill", "eof")
  /\ Room > 0
  /\ unread = << >> /\ closed
  /\ UNCHANGED <<stream, buffer, text, cBufP, automaton, after, output>>

\* yy_fatal_error: no memory for the buffer, or read fails but for EINTR,
\* after which it is called again.
Fatal ==
  /\ \/ Goes("idle", "fatal")
     \/ Goes("fill", "fatal")
  /\ UNCHANGED <<stream, buffer, text, cBufP, automaton, after, output>>

\* EOB_ACT_LAST_MATCH: the beginning of a token is all there will be.
LastMatch ==
  /\ pc = "eof" /\ buf # << >>
  /\ status' = "EOF_PENDING"
  /\ UNCHANGED text
  /\ ReplayTo(Len(buf), "find")
  /\ UNCHANGED <<stream, buf, size, last, output>>

\* EOB_ACT_END_OF_FILE: yyrestart, and the rule <<EOF>> returns.
EndOfFile ==
  /\ Goes("eof", "returned")
  /\ buf = << >>
  /\ status' = "NEW" /\ cBufP' = 0
  /\ ended' = TRUE
  /\ UNCHANGED <<stream, buf, size, text, automaton, after, tokens>>

-----------------------------------------------------------------------------
Next ==
  \/ InitScanner \/ InitFails \/ FirstCall \/ Call \/ Destroy
  \/ StartToken \/ Match \/ FindAction \/ Rule
  \/ MeetNul \/ Replay \/ TryNul
  \/ Move \/ Grow \/ Read \/ ReadEOF \/ Fatal \/ LastMatch \/ EndOfFile

\* yylex blocks in read only, and the client calls it until it gives up.
Spec == Init /\ [][Next]_vars /\ WF_vars(Next)

(***************************************************************************)
(* Properties                                                              *)
(***************************************************************************)
Stopped == {"destroyed", "killed", "unusable", "fatal"}

\* The type of every variable.  The positions stay within the buffer and its
\* two end bytes, yyrealloc included, and the bytes leave one place free.
TypeOK ==
  /\ pc \in Stopped \cup {"new", "idle", "returned", "start", "match", "find", "action",
                         "replay", "nul", "fill", "eof"}
  /\ unread \in Seq(Bytes) /\ closed \in BOOLEAN
  /\ buf \in Seq(Bytes)
  /\ size \in Nat /\ IF size = 0 THEN buf = << >> ELSE Len(buf) < size
  /\ status \in {"NEW", "NORMAL", "EOF_PENDING"}
  /\ {text, cp, cBufP, last.cp} \subseteq 0 .. size + 2
  /\ state \in 0 .. 13 /\ last.state \in 0 .. 13
  /\ after \in {"none", "nul", "match", "find"}
  /\ ended \in BOOLEAN

\* scanner.c:776, 947 and 970: the scanner never has to give up with "fatal
\* flex scanner internal error": it never backs up without a state to back up
\* to, and never misses the end of its buffer.
NoInternalError == ~InternalError

\* The bytes that are part of no token yet.
Pending ==
  (IF pc \in {"match", "find", "action", "replay", "nul", "fill", "eof", "fatal"}
   THEN SubSeq(buf, text + 1, Len(buf)) ELSE SubSeq(buf, cBufP + 1, Len(buf))) \o unread

Rules == INSTANCE ScannerRules WITH
  rest <- Pending,
  phase <- IF pc \in Stopped THEN "stopped" ELSE IF ended THEN "ended" ELSE "scanning"

\* The tokens are those of the rules of scanner.l, and come as soon as the
\* bytes sent decide them: no matter in how many pieces the bytes are read,
\* where a piece ends, how often the buffer is moved or grown, where a NUL
\* stands for its end, and how often yylex is called again at the end.
RefinesRules == Rules!Spec

\* yylex blocks in read only while the bytes it has could still become a
\* longer token.  The other end waits for an answer to the token before: to
\* wait for the byte after it would stop them both.
ReadsOnlyWhenUndecided == pc = "fill" => Rules!Undecided(buf)
=============================================================================
