--------------------------- MODULE ScannerRules ---------------------------
(***************************************************************************)
(* What the rules of scanner.l promise of a stream of bytes, whatever the  *)
(* buffer of the scanner and the pieces the stream arrives in: the longest *)
(* match at the front of the stream is the next token, and it is handed    *)
(* out as soon as the bytes sent so far decide it.                         *)
(***************************************************************************)
EXTENDS Naturals, Sequences

VARIABLES
  rest,    \* the bytes that no token has taken yet, those still to be read included
  tokens,  \* the tokens handed out
  phase,   \* "scanning", "ended" at the end of the stream, "stopped" by the caller or an error
  closed   \* whether the stream ends after rest

vars == <<rest, tokens, phase, closed>>

Body(s, i) == s[i] \notin {"$", "#"}

\* "$"[^$#]*"#"{HEX}{HEX}
IsPacket(s) ==
  /\ Len(s) >= 4 /\ s[1] = "$"
  /\ \A i \in 2 .. Len(s) - 3 : Body(s, i)
  /\ s[Len(s) - 2] = "#" /\ s[Len(s) - 1] = "hex" /\ s[Len(s)] = "hex"

\* The beginning of a packet, of which more bytes are still to come.
IsOpen(s) ==
  /\ s # << >> /\ s[1] = "$"
  /\ \E n \in 1 .. Len(s) :
       /\ \A i \in 2 .. n : Body(s, i)
       /\ \/ n = Len(s)
          \/ n = Len(s) - 1 /\ s[Len(s)] = "#"
          \/ n = Len(s) - 2 /\ s[Len(s) - 1] = "#" /\ s[Len(s)] = "hex"

RuleOfByte(b) ==
  CASE b = "+" -> 1
    [] b = "-" -> 2
    [] b = "nl" -> 5
    [] OTHER -> 4

\* The tokens that match at the front of s; a packet is longer than the byte.
Matches(s) ==
  {[rule |-> 3, text |-> SubSeq(s, 1, n)] : n \in {k \in 4 .. Len(s) : IsPacket(SubSeq(s, 1, k))}}

First(s) ==
  IF Matches(s) # {} THEN CHOOSE t \in Matches(s) : TRUE
  ELSE [rule |-> RuleOfByte(s[1]), text |-> <<s[1]>>]

\* The scanner looks one byte beyond a NUL, and beyond nothing else.
Undecided(s) == s = << >> \/ s = <<"nul">> \/ IsOpen(s)

Init == tokens = << >> /\ phase = "scanning"

Token ==
  /\ phase = "scanning"
  /\ rest # << >>
  /\ closed \/ ~Undecided(rest)
  /\ tokens' = Append(tokens, First(rest))
  /\ rest' = SubSeq(rest, Len(First(rest).text) + 1, Len(rest))
  /\ UNCHANGED <<phase, closed>>

End ==
  /\ phase = "scanning" /\ rest = << >> /\ closed
  /\ phase' = "ended"
  /\ UNCHANGED <<rest, tokens, closed>>

Stop == phase' = "stopped" /\ UNCHANGED <<rest, tokens, closed>>

Next == Token \/ End \/ Stop

Spec == Init /\ [][Next]_vars /\ WF_vars(Token \/ End)
=============================================================================
