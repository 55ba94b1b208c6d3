--------------------------- MODULE GdbLinkProofs ---------------------------
(***************************************************************************)
(* For every program, every number of faults and wherever the simulator    *)
(* exits:                                                                  *)
(*                                                                         *)
(* As long as only checksums fail (ByteFaults = 0), the link keeps what    *)
(* RemoteRun promises.  The inductive invariant IInv says that there is    *)
(* one thing at a time to act on: the command, the request to send it      *)
(* again, its execution, the answer, or the request for that.              *)
(*                                                                         *)
(* When tokens are lost as bytes that match no rule there may be many      *)
(* things under way.  The inductive invariant Noise counts them: each      *)
(* garbled token adds one at most, and each one under way puts the client  *)
(* ahead by at most one answer or repeats at most one command.             *)
(***************************************************************************)
EXTENDS GdbLink, Integers, SequenceTheorems, FiniteSetTheorems, FunctionTheorems, TLAPS

LEMMA OneToken ==
  ASSUME NEW a
  PROVE  /\ << >> \o <<a>> = <<a>> /\ << >> \o << >> = << >> /\ <<a>> \o << >> = <<a>>
         /\ Append(<< >>, a) = <<a>>
         /\ <<a>> # << >> /\ Head(<<a>>) = a /\ Tail(<<a>>) = << >>
         /\ DOMAIN <<a>> = {1} /\ <<a>>[1] = a
OBVIOUS

LEMMA TwoTokens ==
  ASSUME NEW a, NEW b
  PROVE  /\ <<a>> \o <<b>> = <<a, b>> /\ Append(<<a>>, b) = <<a, b>>
         /\ <<a, b>> # << >> /\ Head(<<a, b>>) = a /\ Tail(<<a, b>>) = <<b>>
         /\ DOMAIN <<a, b>> = {1, 2} /\ <<a, b>>[1] = a /\ <<a, b>>[2] = b
<1> DEFINE S == {a, b}
<1>0. <<a>> \in Seq(S) /\ <<b>> \in Seq(S) /\ <<a, b>> \in Seq(S)
      /\ Len(<<a>>) = 1 /\ Len(<<b>>) = 1 /\ Len(<<a, b>>) = 2
      /\ <<a>>[1] = a /\ <<b>>[1] = b /\ <<a, b>>[1] = a /\ <<a, b>>[2] = b
  OBVIOUS
<1> HIDE DEF S
<1>1. Append(<<a>>, b) = <<a, b>>
  <2>1. b \in S
    BY DEF S
  <2>2. Append(<<a>>, b) \in Seq(S) /\ Len(Append(<<a>>, b)) = 2
        /\ Append(<<a>>, b)[1] = a /\ Append(<<a>>, b)[2] = b
    BY <1>0, <2>1, AppendProperties
  <2>3. \A i \in 1 .. Len(Append(<<a>>, b)) : Append(<<a>>, b)[i] = <<a, b>>[i]
    BY <1>0, <2>2
  <2> QED
    BY <1>0, <2>2, <2>3, SeqEqual
<1>2. <<a>> \o <<b>> = <<a, b>>
  <2>1. <<a>> \o <<b>> \in Seq(S) /\ Len(<<a>> \o <<b>>) = 2
        /\ (<<a>> \o <<b>>)[1] = a /\ (<<a>> \o <<b>>)[2] = b
    BY <1>0, ConcatProperties
  <2>2. \A i \in 1 .. Len(<<a>> \o <<b>>) : (<<a>> \o <<b>>)[i] = <<a, b>>[i]
    BY <1>0, <2>1
  <2> QED
    BY <1>0, <2>1, <2>2, SeqEqual
<1>3. <<a, b>> # << >> /\ Head(<<a, b>>) = a
  OBVIOUS
<1>4. Tail(<<a, b>>) = <<b>>
  OBVIOUS
<1>5. DOMAIN <<a, b>> = {1, 2} /\ <<a, b>>[1] = a /\ <<a, b>>[2] = b
  OBVIOUS
<1> QED
  BY <1>1, <1>2, <1>3, <1>4, <1>5

LEMMA Replaced ==
  ASSUME NEW a, NEW b, NEW c
  PROVE  /\ [<<a>> EXCEPT ![1] = c] = <<c>>
         /\ [<<a, b>> EXCEPT ![2] = c] = <<a, c>>
OBVIOUS

-----------------------------------------------------------------------------
(***************************************************************************)
(* The inductive invariant                                                 *)
(***************************************************************************)
Arrays ==
  /\ pc = [e \in Ends |-> pc[e]] /\ packet = [e \in Ends |-> packet[e]]
  /\ chan = [e \in Ends |-> chan[e]] /\ errlen = [e \in Ends |-> 0]
  /\ faults \in [frame : Nat, byte : {0}, death : Nat]

Histories ==
  /\ executed \in Seq(Nat) /\ answered \in Seq(Nat)
  /\ ExecutedOnceInOrder
  /\ AnswersMatch

\* The frame of the current command, or of its answer, damaged or not, and
\* perhaps the acknowledgement of what came before.
TheFrame(ok) == [kind |-> "frame", of |-> Current, ok |-> ok]
OnTheWay(c) == \E ok \in BOOLEAN : c = <<TheFrame(ok)>> \/ c = <<Ack, TheFrame(ok)>>

Done == Len(executed) = Len(answered) + 1  \* the current command was carried out
Open == Len(executed) = Len(answered)      \* it was not

Waiting == pc[Client] = "scanning" /\ Current \in Commands /\ packet[Client] = Current

Idle ==
  /\ pc[Client] \in {"ready", "closed"} /\ pc[Sim] = "scanning" /\ Open
  /\ chan[Client] = << >> /\ chan[Sim] \in {<< >>, <<Ack>>}
Asked ==
  /\ Waiting /\ pc[Sim] = "scanning" /\ Open
  /\ chan[Client] = << >> /\ OnTheWay(chan[Sim])
Refused ==
  /\ Waiting /\ pc[Sim] = "scanning" /\ Open
  /\ chan[Client] = <<Nak>> /\ chan[Sim] = << >>
Handling ==
  /\ Waiting /\ pc[Sim] = "handling" /\ Open /\ request = Current
  /\ chan[Client] \in {<< >>, <<Ack>>} /\ chan[Sim] = << >>
Answering ==
  /\ Waiting /\ pc[Sim] = "scanning" /\ Done /\ packet[Sim] = Current
  /\ OnTheWay(chan[Client]) /\ chan[Sim] = << >>
AnswerRefused ==
  /\ Waiting /\ pc[Sim] = "scanning" /\ Done /\ packet[Sim] = Current
  /\ chan[Client] = << >> /\ chan[Sim] = <<Nak>>

\* The simulator exited; what it wrote before is still read.
Gone ==
  /\ pc[Sim] = "exited"
  /\ pc[Client] \in {"ready", "scanning", "closed", "killed"}
  /\ pc[Client] = "scanning" => Waiting
  /\ \/ chan[Client] \in {<< >>, <<Ack>>}
     \/ chan[Client] = <<Nak>> /\ chan[Sim] = << >> /\ pc[Client] = "scanning" /\ Open
     \/ OnTheWay(chan[Client]) /\ Done /\ pc[Client] \in {"scanning", "killed"}

Turn == Idle \/ Asked \/ Refused \/ Handling \/ Answering \/ AnswerRefused \/ Gone

IInv == Arrays /\ Histories /\ Turn

-----------------------------------------------------------------------------
(***************************************************************************)
(* Facts about the histories and the tokens                                *)
(***************************************************************************)
LEMMA TokenKinds ==
  /\ Ack.kind = "ack" /\ Nak.kind = "nak"
  /\ \A ok : TheFrame(ok).kind = "frame" /\ TheFrame(ok).of = Current /\ TheFrame(ok).ok = ok
  /\ Frame(Current) = TheFrame(TRUE)
BY DEF Ack, Nak, TheFrame, Frame

LEMMA Ends2 == Client \in Ends /\ Sim \in Ends /\ Client # Sim
               /\ Other(Client) = Sim /\ Other(Sim) = Client
BY DEF Client, Sim, Ends, Other

LEMMA Lengths ==
  ASSUME Histories
  PROVE  Len(executed) \in Nat /\ Len(answered) \in Nat /\ Current \in Nat
BY LenProperties DEF Histories, Current

\* A command was carried out.
LEMMA Executed ==
  ASSUME Histories, Open, executed' = Append(executed, Current), UNCHANGED answered
  PROVE  Histories' /\ Done'
<1> DEFINE m == Len(executed)
<1>1. m \in Nat /\ Current = m + 1
  BY Lengths DEF Open, Current
<1>2. /\ executed' \in Seq(Nat) /\ Len(executed') = m + 1
      /\ \A i \in 1 .. m : executed'[i] = executed[i]
      /\ executed'[m + 1] = m + 1
  BY <1>1, AppendProperties DEF Histories
<1>3. \A i \in 1 .. m : executed[i] = i
  BY <1>1 DEF Histories, ExecutedOnceInOrder
<1> HIDE DEF m
<1>4. \A i \in 1 .. m + 1 : executed'[i] = i
  BY <1>1, <1>2, <1>3
<1>5. executed' = [i \in 1 .. Len(executed') |-> i]
  BY <1>1, <1>2, <1>4
<1>6. Done'
  BY <1>1, <1>2 DEF Done, Open, m
<1> QED
  BY <1>2, <1>5, <1>6 DEF Histories, ExecutedOnceInOrder, AnswersMatch

\* An answer was taken.
LEMMA Answered ==
  ASSUME Histories, NEW a \in {Current, EOF}, answered' = Append(answered, a), UNCHANGED executed
  PROVE  Histories' /\ (Done => Open')
<1> DEFINE n == Len(answered)
<1>1. n \in Nat /\ Current = n + 1 /\ a \in Nat
  BY Lengths DEF Current, EOF
<1>2. /\ answered' \in Seq(Nat) /\ Len(answered') = n + 1
      /\ \A i \in 1 .. n : answered'[i] = answered[i]
      /\ answered'[n + 1] = a
  BY <1>1, AppendProperties DEF Histories
<1>3. \A i \in 1 .. n : answered[i] \in {i, EOF}
  BY <1>1 DEF Histories, AnswersMatch
<1>4. DOMAIN answered' = 1 .. n + 1
  BY <1>1, <1>2
<1> HIDE DEF n
<1>5. \A i \in 1 .. n + 1 : answered'[i] \in {i, EOF}
  BY <1>1, <1>2, <1>3
<1>6. Done => Open'
  BY <1>1, <1>2 DEF Done, Open, n
<1> QED
  BY <1>2, <1>4, <1>5, <1>6 DEF Histories, ExecutedOnceInOrder, AnswersMatch

\* Nothing was carried out or answered.
LEMMA Unanswered ==
  ASSUME Histories, UNCHANGED <<executed, answered>>
  PROVE  /\ Histories' /\ Current' = Current /\ Open' = Open /\ Done' = Done
         /\ \A ok : TheFrame(ok)' = TheFrame(ok)
BY DEF Histories, ExecutedOnceInOrder, AnswersMatch, Current, Open, Done, TheFrame

\* gdb->packet holds the current packet.
LEMMA TransmitsCurrent ==
  ASSUME NEW e, packet[e] = Current, Current \in Commands
  PROVE  Transmitted(e) = <<TheFrame(TRUE)>> /\ << >> \o Transmitted(e) = Transmitted(e)
<1>1. Current # 0
  BY ProgramAssumption DEF Commands
<1>2. Transmitted(e) = <<Frame(Current)>>
  BY <1>1 DEF Transmitted, NoPacket
<1> QED
  BY <1>2, TokenKinds, OneToken

\* A rule takes its token and writes to the other end.
LEMMA RuleEffect ==
  ASSUME Arrays, NEW e \in Ends, NEW w, Rule(e, w), << >> \o w = w
  PROVE  /\ chan' = [x \in Ends |-> IF x = e THEN Tail(chan[e]) ELSE chan[x] \o w]
         /\ errlen' = [x \in Ends |-> 0]
<1>1. HandleError(e) = << >>
  BY DEF Arrays, HandleError
<1>2. chan' = [chan EXCEPT ![e] = Tail(@), ![Other(e)] = @ \o w]
  BY <1>1 DEF Rule, Consume
<1>3. chan' = [x \in Ends |-> IF x = e THEN Tail(chan[e]) ELSE chan[x] \o w]
  BY <1>2, Ends2 DEF Arrays, Ends
<1>4. errlen' = [x \in Ends |-> 0]
  BY DEF Rule, Arrays
<1> QED
  BY <1>3, <1>4

\* What is first in a channel that holds the current frame.
LEMMA FirstToken ==
  ASSUME NEW c, OnTheWay(c)
  PROVE  \E ok \in BOOLEAN :
           \/ c = <<TheFrame(ok)>> /\ Head(c) = TheFrame(ok) /\ Tail(c) = << >>
           \/ c = <<Ack, TheFrame(ok)>> /\ Head(c) = Ack /\ Tail(c) = <<TheFrame(ok)>>
<1>1. PICK ok \in BOOLEAN : c = <<TheFrame(ok)>> \/ c = <<Ack, TheFrame(ok)>>
  BY DEF OnTheWay
<1>2. CASE c = <<TheFrame(ok)>>
  BY <1>2, OneToken
<1>3. CASE c = <<Ack, TheFrame(ok)>>
  BY <1>3, TwoTokens
<1> QED
  BY <1>1, <1>2, <1>3

LEMMA Apart ==
  ASSUME NEW c, OnTheWay(c)
  PROVE  c \notin {<< >>, <<Ack>>, <<Nak>>}
<1>1. PICK ok \in BOOLEAN : c = <<TheFrame(ok)>> \/ c = <<Ack, TheFrame(ok)>>
  BY DEF OnTheWay
<1>2. TheFrame(ok) # Ack /\ TheFrame(ok) # Nak
  BY TokenKinds
<1>3. CASE c = <<TheFrame(ok)>>
  BY <1>2, <1>3
<1>4. CASE c = <<Ack, TheFrame(ok)>>
  BY <1>4
<1> QED
  BY <1>1, <1>3, <1>4

\* A channel that is read holds nothing else.
Shape(c) == c \in {<< >>, <<Ack>>, <<Nak>>} \/ OnTheWay(c)

LEMMA Shapes ==
  ASSUME IInv
  PROVE  Shape(chan[Client]) /\ (pc[Sim] # "exited" => Shape(chan[Sim]))
BY DEF IInv, Turn, Idle, Asked, Refused, Handling, Answering, AnswerRefused, Gone, Shape

\* What its first token tells of the channel.
LEMMA FirstIsAck ==
  ASSUME NEW c, Shape(c), c # << >>, Head(c).kind = "ack"
  PROVE  \/ c = <<Ack>> /\ Tail(c) = << >>
         \/ OnTheWay(c) /\ OnTheWay(Tail(c))
<1>1. CASE c = <<Ack>>
  BY <1>1, OneToken
<1>2. CASE c = <<Nak>>
  BY <1>2, OneToken, TokenKinds
<1>3. CASE OnTheWay(c)
  BY <1>3, FirstToken, TokenKinds DEF OnTheWay
<1> QED
  BY <1>1, <1>2, <1>3 DEF Shape

LEMMA FirstIsNak ==
  ASSUME NEW c, Shape(c), c # << >>, Head(c).kind = "nak"
  PROVE  c = <<Nak>> /\ Tail(c) = << >>
<1>1. CASE c = <<Ack>>
  BY <1>1, OneToken, TokenKinds
<1>2. CASE c = <<Nak>>
  BY <1>2, OneToken
<1>3. CASE OnTheWay(c)
  BY <1>3, FirstToken, TokenKinds
<1> QED
  BY <1>1, <1>2, <1>3 DEF Shape

LEMMA FirstIsFrame ==
  ASSUME NEW c, Shape(c), c # << >>, Head(c).kind = "frame"
  PROVE  OnTheWay(c) /\ Tail(c) = << >> /\ Head(c).of = Current
<1>1. CASE c = <<Ack>>
  BY <1>1, OneToken, TokenKinds
<1>2. CASE c = <<Nak>>
  BY <1>2, OneToken, TokenKinds
<1>3. CASE OnTheWay(c)
  BY <1>3, FirstToken, TokenKinds
<1> QED
  BY <1>1, <1>2, <1>3 DEF Shape

LEMMA FirstIsNoJunk ==
  ASSUME NEW c, Shape(c), c # << >>
  PROVE  Head(c).kind # "junk"
<1>1. CASE c = <<Ack>> \/ c = <<Nak>>
  BY <1>1, OneToken, TokenKinds
<1>2. CASE OnTheWay(c)
  BY <1>2, FirstToken, TokenKinds
<1> QED
  BY <1>1, <1>2 DEF Shape

-----------------------------------------------------------------------------
(***************************************************************************)
(* One lemma per action                                                    *)
(***************************************************************************)
LEMMA InitHolds == ASSUME ByteFaults = 0 PROVE Init => IInv
<1> SUFFICES ASSUME Init PROVE IInv
  OBVIOUS
<1>1. Arrays
  BY SizesAssumption DEF Init, Arrays
<1>2. Histories /\ Open
  BY EmptySeq DEF Init, Histories, ExecutedOnceInOrder, AnswersMatch, Open
<1>3. Idle
  BY <1>2, Ends2 DEF Init, Idle
<1> QED
  BY <1>1, <1>2, <1>3 DEF IInv, Turn

LEMMA ReceiveAckClient ==
  ASSUME IInv, ReceiveAck(Client)
  PROVE  IInv'
<1>1. /\ pc[Client] = "scanning" /\ chan[Client] # << >> /\ Head(chan[Client]).kind = "ack"
      /\ chan' = [x \in Ends |-> IF x = Client THEN Tail(chan[Client]) ELSE chan[x] \o << >>]
      /\ errlen' = [x \in Ends |-> 0]
      /\ UNCHANGED <<pc, packet, request, executed, answered, faults>>
  BY RuleEffect, OneToken, Ends2 DEF IInv, ReceiveAck, Scanning
<1>2. chan'[Client] = Tail(chan[Client]) /\ chan'[Sim] = chan[Sim] \o << >>
  BY <1>1, Ends2
<1>3. Arrays' /\ Histories' /\ Current' = Current /\ Open' = Open /\ Done' = Done
      /\ (\A ok : TheFrame(ok)' = TheFrame(ok))
  BY <1>1, Unanswered DEF IInv, Arrays
<1>4. CASE OnTheWay(chan[Client])
  <2>1. OnTheWay(chan'[Client])
    BY <1>1, <1>2, <1>4, Shapes, FirstIsAck, Apart
  <2>2. Answering \/ (Gone /\ Done)
    BY <1>4, Apart DEF IInv, Turn, Idle, Asked, Refused, Handling, AnswerRefused, Gone
  <2>3. Answering => chan'[Sim] = << >>
    BY <1>2, OneToken DEF Answering
  <2>4. Answering' \/ Gone'
    BY <1>1, <1>3, <2>1, <2>2, <2>3 DEF Answering, Gone, Waiting, OnTheWay
  <2> QED
    BY <1>3, <2>4 DEF IInv, Turn
<1>5. CASE ~OnTheWay(chan[Client])
  <2>1. chan[Client] = <<Ack>> /\ chan'[Client] = << >>
    BY <1>1, <1>2, <1>5, Shapes, FirstIsAck
  <2>2. Handling \/ Gone
    BY <1>1, <1>5, <2>1, OneToken, TokenKinds
    DEF IInv, Turn, Idle, Asked, Refused, Answering, AnswerRefused
  <2>3. Handling => chan'[Sim] = << >>
    BY <1>2, OneToken DEF Handling
  <2>4. Handling' \/ Gone'
    BY <1>1, <1>3, <2>1, <2>2, <2>3 DEF Handling, Gone, Waiting
  <2> QED
    BY <1>3, <2>4 DEF IInv, Turn
<1> QED
  BY <1>4, <1>5

LEMMA ReceiveAckSim ==
  ASSUME IInv, ReceiveAck(Sim)
  PROVE  IInv'
<1>1. /\ pc[Sim] = "scanning" /\ chan[Sim] # << >> /\ Head(chan[Sim]).kind = "ack"
      /\ chan' = [x \in Ends |-> IF x = Sim THEN Tail(chan[Sim]) ELSE chan[x] \o << >>]
      /\ errlen' = [x \in Ends |-> 0]
      /\ UNCHANGED <<pc, packet, request, executed, answered, faults>>
  BY RuleEffect, OneToken, Ends2 DEF IInv, ReceiveAck, Scanning
<1>2. chan'[Sim] = Tail(chan[Sim]) /\ chan'[Client] = chan[Client] \o << >>
  BY <1>1, Ends2
<1>3. Arrays' /\ Histories' /\ Current' = Current /\ Open' = Open /\ Done' = Done
      /\ (\A ok : TheFrame(ok)' = TheFrame(ok))
  BY <1>1, Unanswered DEF IInv, Arrays
<1>4. CASE OnTheWay(chan[Sim])
  <2>1. OnTheWay(chan'[Sim])
    BY <1>1, <1>2, <1>4, Shapes, FirstIsAck, Apart
  <2>2. Asked
    BY <1>1, <1>4, Apart DEF IInv, Turn, Idle, Refused, Handling, Answering, AnswerRefused, Gone
  <2>3. chan'[Client] = << >>
    BY <1>2, <2>2, OneToken DEF Asked
  <2>4. Asked'
    BY <1>1, <1>3, <2>1, <2>2, <2>3 DEF Asked, Waiting, OnTheWay
  <2> QED
    BY <1>3, <2>4 DEF IInv, Turn
<1>5. CASE ~OnTheWay(chan[Sim])
  <2>1. chan[Sim] = <<Ack>> /\ chan'[Sim] = << >>
    BY <1>1, <1>2, <1>5, Shapes, FirstIsAck
  <2>2. Idle
    BY <1>1, <1>5, <2>1, OneToken, TokenKinds
    DEF IInv, Turn, Asked, Refused, Handling, Answering, AnswerRefused, Gone
  <2>3. chan'[Client] = << >>
    BY <1>2, <2>2, OneToken DEF Idle
  <2>4. Idle'
    BY <1>1, <1>3, <2>1, <2>2, <2>3 DEF Idle
  <2> QED
    BY <1>3, <2>4 DEF IInv, Turn
<1> QED
  BY <1>4, <1>5

LEMMA ReceiveNakClient ==
  ASSUME IInv, ReceiveNak(Client)
  PROVE  IInv'
<1>1. chan[Client] = <<Nak>> /\ pc[Client] = "scanning" /\ Tail(chan[Client]) = << >>
  BY Shapes, FirstIsNak DEF ReceiveNak, Scanning
<1>2. Refused \/ Gone
  BY <1>1, Apart, OneToken, TokenKinds
  DEF IInv, Turn, Idle, Asked, Handling, Answering, AnswerRefused
<1>3. Waiting /\ Open /\ chan[Sim] = << >>
  BY <1>1, <1>2, Apart, OneToken, TokenKinds DEF Refused, Gone
<1>4. Transmitted(Client) = <<TheFrame(TRUE)>>
  BY <1>3, TransmitsCurrent DEF Waiting
<1>5. /\ chan' = [x \in Ends |-> IF x = Client THEN Tail(chan[Client]) ELSE chan[x] \o <<TheFrame(TRUE)>>]
      /\ errlen' = [x \in Ends |-> 0]
      /\ UNCHANGED <<pc, packet, request, executed, answered, faults>>
  <2>1. Rule(Client, <<TheFrame(TRUE)>>) /\ << >> \o <<TheFrame(TRUE)>> = <<TheFrame(TRUE)>>
    BY <1>4, OneToken DEF ReceiveNak
  <2>2. Arrays
    BY DEF IInv
  <2> QED
    BY <1>1, <2>1, <2>2, RuleEffect, Ends2 DEF ReceiveNak
<1>6. chan'[Client] = << >> /\ chan'[Sim] = <<TheFrame(TRUE)>>
  BY <1>1, <1>3, <1>5, Ends2, OneToken
<1>7. Arrays' /\ Histories' /\ Current' = Current /\ Open' = Open /\ Done' = Done
      /\ (\A ok : TheFrame(ok)' = TheFrame(ok))
  BY <1>5, Unanswered DEF IInv, Arrays
<1>8. Asked' \/ Gone'
  BY <1>2, <1>3, <1>5, <1>6, <1>7 DEF Refused, Asked, Gone, Waiting, OnTheWay
<1> QED
  BY <1>7, <1>8 DEF IInv, Turn

LEMMA ReceiveNakSim ==
  ASSUME IInv, ReceiveNak(Sim)
  PROVE  IInv'
<1>1. chan[Sim] = <<Nak>> /\ pc[Sim] = "scanning" /\ Tail(chan[Sim]) = << >>
  BY Shapes, FirstIsNak DEF ReceiveNak, Scanning
<1>2. AnswerRefused
  BY <1>1, Apart, OneToken, TokenKinds
  DEF IInv, Turn, Idle, Asked, Refused, Handling, Answering, Gone
<1>3. Transmitted(Sim) = <<TheFrame(TRUE)>>
  BY <1>2, TransmitsCurrent DEF AnswerRefused, Waiting
<1>4. /\ chan' = [x \in Ends |-> IF x = Sim THEN Tail(chan[Sim]) ELSE chan[x] \o <<TheFrame(TRUE)>>]
      /\ errlen' = [x \in Ends |-> 0]
      /\ UNCHANGED <<pc, packet, request, executed, answered, faults>>
  <2>1. Rule(Sim, <<TheFrame(TRUE)>>) /\ << >> \o <<TheFrame(TRUE)>> = <<TheFrame(TRUE)>>
    BY <1>3, OneToken DEF ReceiveNak
  <2>2. Arrays
    BY DEF IInv
  <2> QED
    BY <1>1, <2>1, <2>2, RuleEffect, Ends2 DEF ReceiveNak
<1>5. chan'[Sim] = << >> /\ chan'[Client] = <<TheFrame(TRUE)>>
  BY <1>1, <1>2, <1>4, Ends2, OneToken DEF AnswerRefused
<1>6. Arrays' /\ Histories' /\ Current' = Current /\ Open' = Open /\ Done' = Done
      /\ (\A ok : TheFrame(ok)' = TheFrame(ok))
  BY <1>4, Unanswered DEF IInv, Arrays
<1>7. Answering'
  BY <1>2, <1>4, <1>5, <1>6 DEF AnswerRefused, Answering, Waiting, OnTheWay
<1> QED
  BY <1>6, <1>7 DEF IInv, Turn

LEMMA ReceiveBadPacketClient ==
  ASSUME IInv, ReceiveBadPacket(Client)
  PROVE  IInv'
<1>1. /\ pc[Client] = "scanning" /\ chan[Client] # << >> /\ Head(chan[Client]).kind = "frame"
      /\ chan' = [x \in Ends |-> IF x = Client THEN Tail(chan[Client]) ELSE chan[x] \o <<Nak>>]
      /\ errlen' = [x \in Ends |-> 0]
      /\ UNCHANGED <<pc, packet, request, executed, answered, faults>>
  <2>1. /\ pc[Client] = "scanning" /\ chan[Client] # << >> /\ Head(chan[Client]).kind = "frame"
        /\ Rule(Client, <<Nak>>)
        /\ UNCHANGED <<pc, packet, request, executed, answered, faults>>
    BY DEF ReceiveBadPacket, Scanning
  <2>2. Arrays /\ Client \in Ends /\ << >> \o <<Nak>> = <<Nak>>
    BY OneToken, Ends2 DEF IInv
  <2> QED
    BY <2>1, <2>2, RuleEffect
<1>2. OnTheWay(chan[Client]) /\ Tail(chan[Client]) = << >>
  BY <1>1, Shapes, FirstIsFrame
<1>3. Answering \/ (Gone /\ Done)
  BY <1>2, Apart DEF IInv, Turn, Idle, Asked, Refused, Handling, AnswerRefused, Gone
<1>4. chan'[Client] = << >> /\ (Answering => chan'[Sim] = <<Nak>>)
  BY <1>1, <1>2, Ends2, OneToken DEF Answering
<1>5. Arrays' /\ Histories' /\ Current' = Current /\ Open' = Open /\ Done' = Done
      /\ (\A ok : TheFrame(ok)' = TheFrame(ok))
  BY <1>1, Unanswered DEF IInv, Arrays
<1>6. AnswerRefused' \/ Gone'
  BY <1>1, <1>3, <1>4, <1>5 DEF Answering, AnswerRefused, Gone, Waiting
<1> QED
  BY <1>5, <1>6 DEF IInv, Turn

LEMMA ReceiveBadPacketSim ==
  ASSUME IInv, ReceiveBadPacket(Sim)
  PROVE  IInv'
<1>1. /\ pc[Sim] = "scanning" /\ chan[Sim] # << >> /\ Head(chan[Sim]).kind = "frame"
      /\ chan' = [x \in Ends |-> IF x = Sim THEN Tail(chan[Sim]) ELSE chan[x] \o <<Nak>>]
      /\ errlen' = [x \in Ends |-> 0]
      /\ UNCHANGED <<pc, packet, request, executed, answered, faults>>
  <2>1. /\ pc[Sim] = "scanning" /\ chan[Sim] # << >> /\ Head(chan[Sim]).kind = "frame"
        /\ Rule(Sim, <<Nak>>)
        /\ UNCHANGED <<pc, packet, request, executed, answered, faults>>
    BY DEF ReceiveBadPacket, Scanning
  <2>2. Arrays /\ Sim \in Ends /\ << >> \o <<Nak>> = <<Nak>>
    BY OneToken, Ends2 DEF IInv
  <2> QED
    BY <2>1, <2>2, RuleEffect
<1>2. OnTheWay(chan[Sim]) /\ Tail(chan[Sim]) = << >>
  BY <1>1, Shapes, FirstIsFrame
<1>3. Asked
  BY <1>1, <1>2, Apart DEF IInv, Turn, Idle, Refused, Handling, Answering, AnswerRefused, Gone
<1>4. chan'[Sim] = << >> /\ chan'[Client] = <<Nak>>
  BY <1>1, <1>2, <1>3, Ends2, OneToken DEF Asked
<1>5. Arrays' /\ Histories' /\ Current' = Current /\ Open' = Open /\ Done' = Done
      /\ (\A ok : TheFrame(ok)' = TheFrame(ok))
  BY <1>1, Unanswered DEF IInv, Arrays
<1>6. Refused'
  BY <1>1, <1>3, <1>4, <1>5 DEF Asked, Refused, Waiting
<1> QED
  BY <1>5, <1>6 DEF IInv, Turn

\* No byte is invalid.
LEMMA NoInvalidByte ==
  ASSUME IInv, NEW e \in Ends
  PROVE  ~AddCharacterToError(e) /\ (\A x \in Ends : ~GarbleToken(x))
<1>1. ASSUME AddCharacterToError(e) PROVE FALSE
  <2>1. pc[e] = "scanning" /\ chan[e] # << >> /\ Head(chan[e]).kind = "junk"
    BY <1>1 DEF AddCharacterToError, Scanning
  <2>2. e = Client \/ e = Sim
    BY DEF Ends
  <2> QED
    BY <2>1, <2>2, Shapes, FirstIsNoJunk
<1>2. ~(faults.byte > 0)
  BY DEF IInv, Arrays
<1> QED
  BY <1>1, <1>2 DEF GarbleToken

LEMMA SendCommandHolds ==
  ASSUME IInv, SendCommand
  PROVE  IInv'
<1>1. /\ pc[Client] = "ready" /\ Current \in Commands
      /\ packet' = [packet EXCEPT ![Client] = Current]
      /\ chan' = [chan EXCEPT ![Sim] = Append(@, TheFrame(TRUE))]
      /\ pc' = [pc EXCEPT ![Client] = "scanning"]
      /\ UNCHANGED <<errlen, request, executed, answered, faults>>
  BY TokenKinds DEF SendCommand
<1>2. /\ packet'[Client] = Current /\ pc'[Client] = "scanning" /\ pc'[Sim] = pc[Sim]
      /\ chan'[Client] = chan[Client] /\ chan'[Sim] = Append(chan[Sim], TheFrame(TRUE))
      /\ pc' = [x \in Ends |-> pc'[x]] /\ packet' = [x \in Ends |-> packet'[x]]
      /\ chan' = [x \in Ends |-> chan'[x]]
  BY <1>1, Ends2 DEF IInv, Arrays
<1>3. Arrays' /\ Histories' /\ Current' = Current /\ Open' = Open /\ Done' = Done
      /\ (\A ok : TheFrame(ok)' = TheFrame(ok))
  BY <1>1, <1>2, Unanswered DEF IInv, Arrays
<1>4. Waiting'
  BY <1>1, <1>2, <1>3 DEF Waiting, Commands
<1>5. CASE Idle
  <2>1. chan'[Sim] = <<TheFrame(TRUE)>> \/ chan'[Sim] = <<Ack, TheFrame(TRUE)>>
    <3>1. Append(<< >>, TheFrame(TRUE)) = <<TheFrame(TRUE)>>
      BY OneToken
    <3>2. Append(<<Ack>>, TheFrame(TRUE)) = <<Ack, TheFrame(TRUE)>>
      BY TwoTokens
    <3> QED
      BY <1>2, <1>5, <3>1, <3>2 DEF Idle
  <2>2. Asked'
    BY <1>2, <1>3, <1>4, <1>5, <2>1 DEF Idle, Asked, OnTheWay
  <2> QED
    BY <1>3, <2>2 DEF IInv, Turn
<1>6. CASE Gone
  <2>1. Gone'
    BY <1>1, <1>2, <1>3, <1>4, <1>6 DEF Gone
  <2> QED
    BY <1>3, <2>1 DEF IInv, Turn
<1> QED
  BY <1>1, <1>5, <1>6
  DEF IInv, Turn, Waiting, Asked, Refused, Handling, Answering, AnswerRefused

LEMMA ReceiveAnswerHolds ==
  ASSUME IInv, ReceiveAnswer
  PROVE  IInv' /\ Done /\ answered' = Append(answered, Current)
<1>1. /\ pc[Client] = "scanning" /\ chan[Client] # << >> /\ Head(chan[Client]).kind = "frame"
      /\ chan' = [x \in Ends |-> IF x = Client THEN Tail(chan[Client]) ELSE chan[x] \o <<Ack>>]
      /\ errlen' = [x \in Ends |-> 0]
      /\ answered' = Append(answered, Head(chan[Client]).of)
      /\ pc' = [pc EXCEPT ![Client] = After(Program[Current], Head(chan[Client]).of)]
      /\ UNCHANGED <<packet, request, executed, faults>>
  BY RuleEffect, OneToken, Ends2 DEF IInv, ReceiveAnswer, Scanning, TakeAnswer
<1>2. OnTheWay(chan[Client]) /\ Tail(chan[Client]) = << >> /\ Head(chan[Client]).of = Current
  BY <1>1, Shapes, FirstIsFrame
<1>3. Answering \/ (Gone /\ Done)
  BY <1>2, Apart DEF IInv, Turn, Idle, Asked, Refused, Handling, AnswerRefused, Gone
<1>4. chan'[Client] = << >> /\ (Answering => chan'[Sim] = <<Ack>>)
  BY <1>1, <1>2, Ends2, OneToken DEF Answering
<1>5. /\ pc'[Client] \in {"ready", "closed"} /\ pc'[Sim] = pc[Sim]
      /\ pc' = [x \in Ends |-> pc'[x]]
  BY <1>1, Ends2 DEF IInv, Arrays, After
<1>6. Done /\ Histories' /\ Open'
  BY <1>1, <1>2, <1>3, Answered DEF IInv, Answering
<1>7. Arrays'
  BY <1>1, <1>5 DEF IInv, Arrays
<1>8. Idle' \/ Gone'
  BY <1>3, <1>4, <1>5, <1>6 DEF Answering, Idle, Gone
<1> QED
  BY <1>1, <1>2, <1>6, <1>7, <1>8 DEF IInv, Turn

LEMMA ReceiveEOFHolds ==
  ASSUME IInv, ReceiveEOF
  PROVE  /\ IInv' /\ answered' = Append(answered, EOF) /\ pc[Sim] = "exited"
         /\ Current \in Commands /\ UNCHANGED <<executed, pc[Sim]>>
<1>1. /\ pc[Client] = "scanning" /\ pc[Sim] = "exited" /\ chan[Client] = << >>
      /\ chan' = [chan EXCEPT ![Sim] = @ \o HandleError(Client)]
      /\ errlen' = [errlen EXCEPT ![Client] = 0]
      /\ answered' = Append(answered, EOF)
      /\ pc' = [pc EXCEPT ![Client] = After(Program[Current], EOF)]
      /\ UNCHANGED <<packet, request, executed, faults>>
  BY DEF ReceiveEOF, TakeAnswer
<1>2. /\ pc'[Client] \in {"ready", "closed"} /\ pc'[Sim] = pc[Sim] /\ chan'[Client] = << >>
      /\ pc' = [x \in Ends |-> pc'[x]] /\ chan' = [x \in Ends |-> chan'[x]]
      /\ errlen' = [x \in Ends |-> 0]
  BY <1>1, Ends2 DEF IInv, Arrays, After
<1>3. Histories'
  BY <1>1, Answered DEF IInv
<1>4. Arrays'
  BY <1>1, <1>2 DEF IInv, Arrays
<1>5. Gone'
  BY <1>1, <1>2 DEF Gone
<1>6. Waiting
  BY <1>1 DEF IInv, Turn, Idle, Asked, Refused, Handling, Answering, AnswerRefused, Gone
<1> QED
  BY <1>1, <1>2, <1>3, <1>4, <1>5, <1>6 DEF IInv, Turn, Waiting

LEMMA ConnectionResetHolds ==
  ASSUME IInv, ConnectionReset
  PROVE  IInv'
<1>1. /\ pc[Sim] = "exited" /\ chan[Sim] # << >>
      /\ pc' = [pc EXCEPT ![Client] = "killed"]
      /\ UNCHANGED <<packet, errlen, chan, request, executed, answered, faults>>
  BY DEF ConnectionReset
<1>2. pc'[Client] = "killed" /\ pc'[Sim] = "exited" /\ pc' = [x \in Ends |-> pc'[x]]
  BY <1>1, Ends2 DEF IInv, Arrays
<1>3. Arrays' /\ Histories' /\ Current' = Current /\ Open' = Open /\ Done' = Done
      /\ (\A ok : TheFrame(ok)' = TheFrame(ok))
  BY <1>1, <1>2, Unanswered DEF IInv, Arrays
<1>4. Gone
  BY <1>1 DEF IInv, Turn, Idle, Asked, Refused, Handling, Answering, AnswerRefused
<1>5. Gone'
  BY <1>1, <1>2, <1>3, <1>4 DEF Gone, OnTheWay
<1> QED
  BY <1>3, <1>5 DEF IInv, Turn

LEMMA ReceiveCommandHolds ==
  ASSUME IInv, ReceiveCommand
  PROVE  IInv'
<1>1. /\ pc[Sim] = "scanning" /\ chan[Sim] # << >> /\ Head(chan[Sim]).kind = "frame"
      /\ chan' = [x \in Ends |-> IF x = Sim THEN Tail(chan[Sim]) ELSE chan[x] \o <<Ack>>]
      /\ errlen' = [x \in Ends |-> 0]
      /\ request' = Head(chan[Sim]).of
      /\ pc' = [pc EXCEPT ![Sim] = "handling"]
      /\ UNCHANGED <<packet, executed, answered, faults>>
  BY RuleEffect, OneToken, Ends2 DEF IInv, ReceiveCommand, Scanning
<1>2. OnTheWay(chan[Sim]) /\ Tail(chan[Sim]) = << >> /\ Head(chan[Sim]).of = Current
  BY <1>1, Shapes, FirstIsFrame
<1>3. Asked
  BY <1>1, <1>2, Apart DEF IInv, Turn, Idle, Refused, Handling, Answering, AnswerRefused, Gone
<1>4. chan'[Sim] = << >> /\ chan'[Client] = <<Ack>>
  BY <1>1, <1>2, <1>3, Ends2, OneToken DEF Asked
<1>5. pc'[Sim] = "handling" /\ pc'[Client] = pc[Client] /\ pc' = [x \in Ends |-> pc'[x]]
  BY <1>1, Ends2 DEF IInv, Arrays
<1>6. Arrays' /\ Histories' /\ Current' = Current /\ Open' = Open /\ Done' = Done
      /\ (\A ok : TheFrame(ok)' = TheFrame(ok))
  BY <1>1, <1>5, Unanswered DEF IInv, Arrays
<1>7. Handling'
  BY <1>1, <1>2, <1>3, <1>4, <1>5, <1>6 DEF Asked, Handling, Waiting
<1> QED
  BY <1>6, <1>7 DEF IInv, Turn

LEMMA ExecuteHolds ==
  ASSUME IInv, Execute
  PROVE  /\ IInv' /\ Open /\ executed' = Append(executed, Current) /\ pc[Sim] # "exited"
         /\ Current \in Commands /\ UNCHANGED answered
         /\ Program[Current] = "set" => pc'[Sim] # "exited"
<1>1. Handling
  BY DEF Execute, IInv, Turn, Idle, Asked, Refused, Answering, AnswerRefused, Gone
<1>2. /\ executed' = Append(executed, Current)
      /\ UNCHANGED <<errlen, request, answered, faults>>
      /\ \/ /\ packet' = [packet EXCEPT ![Sim] = Current]
            /\ chan' = [chan EXCEPT ![Client] = Append(@, TheFrame(TRUE))]
            /\ pc' = [pc EXCEPT ![Sim] = "scanning"]
         \/ /\ Program[Current] # "set"
            /\ pc' = [pc EXCEPT ![Sim] = "exited"]
            /\ UNCHANGED <<packet, chan>>
  BY <1>1, TokenKinds DEF Execute, Handling
<1>3. Open /\ Waiting /\ pc[Sim] = "handling" /\ Histories' /\ Done'
  BY <1>1, <1>2, Executed DEF IInv, Handling
<1>4. Current' = Current /\ (\A ok : TheFrame(ok)' = TheFrame(ok))
  BY <1>2 DEF Current, TheFrame
<1>5. CASE pc' = [pc EXCEPT ![Sim] = "exited"] /\ Program[Current] # "set" /\ UNCHANGED <<packet, chan>>
  <2>1. pc'[Sim] = "exited" /\ pc'[Client] = "scanning" /\ pc' = [x \in Ends |-> pc'[x]]
    BY <1>3, <1>5, Ends2 DEF IInv, Arrays, Waiting
  <2>2. Arrays'
    BY <1>2, <1>5, <2>1 DEF IInv, Arrays
  <2>3. Gone'
    BY <1>1, <1>2, <1>3, <1>4, <1>5, <2>1 DEF Gone, Handling, Waiting, Commands
  <2> QED
    BY <1>2, <1>3, <1>5, <2>2, <2>3 DEF IInv, Turn, Waiting
<1>6. CASE /\ packet' = [packet EXCEPT ![Sim] = Current]
           /\ chan' = [chan EXCEPT ![Client] = Append(@, TheFrame(TRUE))]
           /\ pc' = [pc EXCEPT ![Sim] = "scanning"]
  <2>1. /\ packet'[Sim] = Current /\ packet'[Client] = packet[Client]
        /\ pc'[Sim] = "scanning" /\ pc'[Client] = "scanning"
        /\ chan'[Client] = Append(chan[Client], TheFrame(TRUE)) /\ chan'[Sim] = << >>
        /\ pc' = [x \in Ends |-> pc'[x]] /\ packet' = [x \in Ends |-> packet'[x]]
        /\ chan' = [x \in Ends |-> chan'[x]]
    BY <1>1, <1>3, <1>6, Ends2 DEF IInv, Arrays, Waiting, Handling
  <2>2. chan'[Client] = <<TheFrame(TRUE)>> \/ chan'[Client] = <<Ack, TheFrame(TRUE)>>
    <3>1. Append(<< >>, TheFrame(TRUE)) = <<TheFrame(TRUE)>>
      BY OneToken
    <3>2. Append(<<Ack>>, TheFrame(TRUE)) = <<Ack, TheFrame(TRUE)>>
      BY TwoTokens
    <3> QED
      BY <1>1, <2>1, <3>1, <3>2 DEF Handling
  <2>3. Arrays'
    BY <1>2, <2>1 DEF IInv, Arrays
  <2>4. Answering'
    BY <1>1, <1>2, <1>3, <1>4, <2>1, <2>2 DEF Answering, Waiting, OnTheWay, Commands
  <2> QED
    BY <1>2, <1>3, <2>1, <2>3, <2>4 DEF IInv, Turn, Waiting
<1> QED
  BY <1>2, <1>5, <1>6

LEMMA SimDiesHolds ==
  ASSUME IInv, SimDies
  PROVE  IInv' /\ UNCHANGED <<executed, answered>> /\ pc'[Sim] = "exited" /\ pc[Sim] # "exited"
<1>1. /\ faults.death > 0 /\ pc[Sim] # "exited"
      /\ pc' = [pc EXCEPT ![Sim] = "exited"]
      /\ faults' = [faults EXCEPT !.death = faults.death - 1]
      /\ UNCHANGED <<packet, errlen, chan, request, executed, answered>>
  BY DEF SimDies
<1>2. pc'[Sim] = "exited" /\ pc'[Client] = pc[Client] /\ pc' = [x \in Ends |-> pc'[x]]
  BY <1>1, Ends2 DEF IInv, Arrays
<1>3. faults' \in [frame : Nat, byte : {0}, death : Nat]
  BY <1>1 DEF IInv, Arrays
<1>4. Arrays' /\ Histories' /\ Current' = Current /\ Open' = Open /\ Done' = Done
      /\ (\A ok : TheFrame(ok)' = TheFrame(ok))
  BY <1>1, <1>2, <1>3, Unanswered DEF IInv, Arrays
<1>5. Gone'
  BY <1>1, <1>2, <1>4
  DEF IInv, Turn, Idle, Asked, Refused, Handling, Answering, AnswerRefused, Gone, Waiting, OnTheWay
<1> QED
  BY <1>1, <1>2, <1>4, <1>5 DEF IInv, Turn

\* A damaged frame is still the frame.
LEMMA DamagedFrame ==
  ASSUME NEW r, NEW ok \in BOOLEAN, r = TheFrame(ok)
  PROVE  \E b \in BOOLEAN : [r EXCEPT !.ok = FALSE] = TheFrame(b)
<1> DEFINE Frames == [kind : {"frame"}, of : {Current}, ok : BOOLEAN]
<1>1. r \in Frames
  BY DEF TheFrame
<1>2. [r EXCEPT !.ok = FALSE] \in Frames
  BY <1>1
<1>3. ASSUME NEW f \in Frames PROVE \E b \in BOOLEAN : f = TheFrame(b)
  <2>1. f.ok \in BOOLEAN /\ f = TheFrame(f.ok)
    BY <1>3 DEF TheFrame
  <2> QED
    BY <2>1
<1> HIDE DEF Frames
<1> QED
  BY <1>2, <1>3

LEMMA Damaged ==
  ASSUME NEW c, OnTheWay(c), NEW i \in DOMAIN c, c[i].kind = "frame"
  PROVE  OnTheWay([c EXCEPT ![i] = [c[i] EXCEPT !.ok = FALSE]])
<1> DEFINE damaged == [c[i] EXCEPT !.ok = FALSE]
<1>1. PICK ok \in BOOLEAN : c = <<TheFrame(ok)>> \/ c = <<Ack, TheFrame(ok)>>
  BY DEF OnTheWay
<1>2. \/ c = <<TheFrame(ok)>> /\ i = 1
      \/ c = <<Ack, TheFrame(ok)>> /\ i = 2
  BY <1>1, OneToken, TwoTokens, TokenKinds
<1>3. c[i] = TheFrame(ok)
  BY <1>2, OneToken, TwoTokens
<1>4. PICK b \in BOOLEAN : damaged = TheFrame(b)
  BY <1>3, DamagedFrame
<1> HIDE DEF damaged
<1>5. \/ [c EXCEPT ![i] = damaged] = <<TheFrame(b)>>
      \/ [c EXCEPT ![i] = damaged] = <<Ack, TheFrame(b)>>
  BY <1>2, <1>4, Replaced
<1>6. OnTheWay([c EXCEPT ![i] = damaged])
  BY <1>5 DEF OnTheWay
<1> QED
  BY <1>6 DEF damaged

LEMMA HasFrame ==
  ASSUME NEW c, Shape(c), NEW i \in DOMAIN c, c[i].kind = "frame"
  PROVE  OnTheWay(c)
<1>1. c # << >>
  OBVIOUS
<1>2. c # <<Ack>> /\ c # <<Nak>>
  BY OneToken, TokenKinds
<1> QED
  BY <1>1, <1>2 DEF Shape

LEMMA GarbleFrameHolds ==
  ASSUME IInv, NEW e \in Ends, GarbleFrame(e)
  PROVE  IInv'
<1>1. PICK i \in DOMAIN chan[e] :
        /\ chan[e][i].kind = "frame"
        /\ chan' = [chan EXCEPT ![e] = [chan[e] EXCEPT ![i] = [chan[e][i] EXCEPT !.ok = FALSE]]]
  BY DEF GarbleFrame
<1>2. /\ faults.frame > 0 /\ faults' = [faults EXCEPT !.frame = faults.frame - 1]
      /\ UNCHANGED <<pc, packet, errlen, request, executed, answered>>
  BY DEF GarbleFrame
<1> DEFINE damaged == [chan[e] EXCEPT ![i] = [chan[e][i] EXCEPT !.ok = FALSE]]
<1>3. chan'[e] = damaged /\ chan'[Other(e)] = chan[Other(e)] /\ chan' = [x \in Ends |-> chan'[x]]
  <2>1. Other(e) \in Ends /\ Other(e) # e
    BY Ends2 DEF Ends
  <2> QED
    BY <1>1, <2>1 DEF IInv, Arrays
<1>4. faults' \in [frame : Nat, byte : {0}, death : Nat]
  BY <1>2 DEF IInv, Arrays
<1>5. Arrays' /\ Histories' /\ Current' = Current /\ Open' = Open /\ Done' = Done
      /\ (\A ok : TheFrame(ok)' = TheFrame(ok))
  BY <1>2, <1>3, <1>4, Unanswered DEF IInv, Arrays
<1>6. chan[e] # << >>
  OBVIOUS
<1> HIDE DEF damaged
<1>7. CASE e = Client
  <2>1. OnTheWay(chan[Client]) /\ OnTheWay(chan'[Client]) /\ chan'[Sim] = chan[Sim]
    BY <1>1, <1>3, <1>7, Shapes, HasFrame, Damaged, Ends2 DEF damaged
  <2>2. Answering \/ (Gone /\ Done)
    BY <2>1, Apart DEF IInv, Turn, Idle, Asked, Refused, Handling, AnswerRefused, Gone
  <2>3. pc[Client] \in {"scanning", "killed"}
    BY <2>1, <2>2, Apart DEF Answering, Waiting, Gone
  <2>4. Answering' \/ Gone'
    BY <1>2, <1>5, <2>1, <2>2, <2>3 DEF Answering, Gone, Waiting, OnTheWay
  <2> QED
    BY <1>5, <2>4 DEF IInv, Turn
<1>8. CASE e = Sim /\ pc[Sim] # "exited"
  <2>1. OnTheWay(chan[Sim]) /\ OnTheWay(chan'[Sim]) /\ chan'[Client] = chan[Client]
    BY <1>1, <1>3, <1>8, Shapes, HasFrame, Damaged, Ends2 DEF damaged
  <2>2. Asked
    BY <1>8, <2>1, Apart DEF IInv, Turn, Idle, Refused, Handling, Answering, AnswerRefused, Gone
  <2>3. Asked'
    BY <1>2, <1>5, <2>1, <2>2 DEF Asked, Waiting, OnTheWay
  <2> QED
    BY <1>5, <2>3 DEF IInv, Turn
<1>9. CASE e = Sim /\ pc[Sim] = "exited"
  <2>1. Gone /\ chan[Sim] # << >> /\ chan'[Client] = chan[Client]
    BY <1>3, <1>6, <1>9, Ends2
    DEF IInv, Turn, Idle, Asked, Refused, Handling, Answering, AnswerRefused
  <2>2. Gone'
    BY <1>2, <1>5, <2>1 DEF Gone, Waiting, OnTheWay
  <2> QED
    BY <1>5, <2>2 DEF IInv, Turn
<1> QED
  BY <1>7, <1>8, <1>9 DEF Ends

LEMMA Stutters ==
  ASSUME IInv, UNCHANGED vars
  PROVE  IInv'
<1>1. UNCHANGED <<pc, packet, errlen, chan, request, executed, answered, faults>>
  BY DEF vars
<1>2. Arrays' /\ Histories' /\ Current' = Current /\ Open' = Open /\ Done' = Done
      /\ (\A ok : TheFrame(ok)' = TheFrame(ok))
  BY <1>1, Unanswered DEF IInv, Arrays
<1>3. Turn'
  BY <1>1, <1>2
  DEF IInv, Turn, Idle, Asked, Refused, Handling, Answering, AnswerRefused, Gone, Waiting, OnTheWay
<1> QED
  BY <1>2, <1>3 DEF IInv

LEMMA StepHolds == IInv /\ [Next]_vars => IInv'
<1> SUFFICES ASSUME IInv, [Next]_vars PROVE IInv'
  OBVIOUS
<1>1. CASE ReceiveAck(Client) \/ ReceiveNak(Client) \/ ReceiveBadPacket(Client)
  BY <1>1, ReceiveAckClient, ReceiveNakClient, ReceiveBadPacketClient
<1>2. CASE ReceiveAck(Sim) \/ ReceiveNak(Sim) \/ ReceiveBadPacket(Sim)
  BY <1>2, ReceiveAckSim, ReceiveNakSim, ReceiveBadPacketSim
<1>3. CASE SendCommand \/ ReceiveAnswer \/ ReceiveEOF \/ ConnectionReset
  BY <1>3, SendCommandHolds, ReceiveAnswerHolds, ReceiveEOFHolds, ConnectionResetHolds
<1>4. CASE ReceiveCommand \/ Execute \/ SimDies
  BY <1>4, ReceiveCommandHolds, ExecuteHolds, SimDiesHolds
<1>5. CASE \E e \in Ends : GarbleFrame(e)
  BY <1>5, GarbleFrameHolds
<1>6. CASE UNCHANGED vars
  BY <1>6, Stutters
<1>7. ~AddCharacterToError(Client) /\ ~AddCharacterToError(Sim) /\ (\A e \in Ends : ~GarbleToken(e))
  BY NoInvalidByte, Ends2
<1> QED
  BY <1>1, <1>2, <1>3, <1>4, <1>5, <1>6, <1>7 DEF Next, ClientStep, SimStep, Faults, Scan

-----------------------------------------------------------------------------
(***************************************************************************)
(* The theorems                                                            *)
(***************************************************************************)
LEMMA AlwaysIInv == ASSUME ByteFaults = 0 PROVE Spec => []IInv
BY InitHolds, StepHolds, PTL DEF Spec

\* ExecutedOnceInOrder: a damaged frame never makes the simulator carry out a
\* command twice, skip one or see two out of order.
THEOREM CommandsOnceInOrder == ASSUME ByteFaults = 0 PROVE Spec => []ExecutedOnceInOrder
<1>1. IInv => ExecutedOnceInOrder
  BY DEF IInv, Histories
<1> QED
  BY <1>1, AlwaysIInv, PTL

\* AnswersMatch: gdb_get_answer returns the answer to the command just sent.
THEOREM AnswersAreTheirs == ASSUME ByteFaults = 0 PROVE Spec => []AnswersMatch
<1>1. IInv => AnswersMatch
  BY DEF IInv, Histories
<1> QED
  BY <1>1, AlwaysIInv, PTL

\* RetransmitsWhatWasLost: gdb->packet still holds what is asked for again.
THEOREM RetransmissionFindsItsPacket ==
  ASSUME ByteFaults = 0 PROVE Spec => []RetransmitsWhatWasLost
<1>1. ASSUME IInv, NEW i \in DOMAIN chan[Client], chan[Client][i].kind = "nak"
      PROVE  pc[Client] = "scanning" /\ Open
  <2>1. Shape(chan[Client])
    BY <1>1, Shapes
  <2>2. chan[Client] = <<Nak>>
    <3>1. chan[Client] # << >> /\ chan[Client] # <<Ack>>
      BY <1>1, OneToken, TokenKinds
    <3>2. ~OnTheWay(chan[Client])
      <4>1. SUFFICES ASSUME OnTheWay(chan[Client]) PROVE FALSE
        OBVIOUS
      <4>2. PICK ok \in BOOLEAN : chan[Client] = <<TheFrame(ok)>> \/ chan[Client] = <<Ack, TheFrame(ok)>>
        BY <4>1 DEF OnTheWay
      <4> QED
        BY <1>1, <4>2, OneToken, TwoTokens, TokenKinds
    <3> QED
      BY <2>1, <3>1, <3>2 DEF Shape
  <2>3. <<Nak>> # << >> /\ <<Nak>> # <<Ack>>
    BY OneToken, TokenKinds
  <2> QED
    BY <1>1, <2>2, <2>3, Apart
    DEF IInv, Turn, Idle, Asked, Refused, Handling, Answering, AnswerRefused, Gone, Waiting
<1>2. ASSUME IInv, Open PROVE Current \notin Range(executed)
  <2>1. Len(executed) \in Nat /\ Current = Len(executed) + 1
    BY <1>2, Lengths DEF IInv, Open, Current
  <2>2. Range(executed) = 1 .. Len(executed)
    <3>1. executed = [i \in 1 .. Len(executed) |-> i]
      BY <1>2 DEF IInv, Histories, ExecutedOnceInOrder
    <3>2. DOMAIN executed = 1 .. Len(executed) /\ \A i \in 1 .. Len(executed) : executed[i] = i
      BY <3>1
    <3> QED
      BY <3>2 DEF Range
  <2> QED
    BY <2>1, <2>2
<1>3. IInv => RetransmitsWhatWasLost
  BY <1>1, <1>2 DEF RetransmitsWhatWasLost
<1> QED
  BY <1>3, AlwaysIInv, PTL

\* Each step of the link is a step of RemoteRun or changes nothing there.
LEMMA AbstractStep == IInv /\ [Next]_vars => [Abstract!Next]_(Abstract!vars)
<1> SUFFICES ASSUME IInv, [Next]_vars PROVE [Abstract!Next]_(Abstract!vars)
  OBVIOUS
<1>1. CASE Execute
  <2>1. /\ Open /\ executed' = Append(executed, Current) /\ pc[Sim] # "exited"
        /\ Current \in Commands /\ UNCHANGED answered
        /\ Program[Current] = "set" => pc'[Sim] # "exited"
    BY <1>1, ExecuteHolds
  <2>2. Len(executed) \in Nat /\ Len(executed) + 1 = Current /\ Len(executed) = Len(answered)
    BY <2>1, Lengths DEF IInv, Open, Current
  <2>3. Len(executed) < Len(Program)
    BY <2>1, <2>2, ProgramAssumption DEF Commands
  <2>4. Abstract!Execute
    BY <2>1, <2>2, <2>3 DEF Abstract!Execute
  <2> QED
    BY <2>4 DEF Abstract!Next
<1>2. CASE ReceiveAnswer
  <2>1. Done /\ answered' = Append(answered, Current) /\ UNCHANGED <<executed, pc[Sim]>>
    <3>1. pc' = [pc EXCEPT ![Client] = After(Program[Current], Head(chan[Client]).of)]
          /\ executed' = executed
      BY <1>2 DEF ReceiveAnswer, TakeAnswer
    <3> QED
      BY <1>2, <3>1, ReceiveAnswerHolds, Ends2 DEF IInv, Arrays
  <2>2. Len(answered) \in Nat /\ Len(executed) = Current /\ Len(answered) < Len(executed)
    BY <2>1, Lengths DEF IInv, Done, Current
  <2>3. Abstract!Answer
    BY <2>1, <2>2 DEF Abstract!Answer
  <2> QED
    BY <2>3 DEF Abstract!Next
<1>3. CASE ReceiveEOF
  <2>1. /\ answered' = Append(answered, EOF) /\ pc[Sim] = "exited"
        /\ Current \in Commands /\ UNCHANGED <<executed, pc[Sim]>>
    BY <1>3, ReceiveEOFHolds
  <2>2. Len(answered) < Len(Program)
    BY <2>1, Lengths, ProgramAssumption DEF IInv, Current, Commands
  <2>3. Abstract!AnswerEOF
    BY <2>1, <2>2 DEF Abstract!AnswerEOF
  <2> QED
    BY <2>3 DEF Abstract!Next
<1>4. CASE SimDies
  <2>1. UNCHANGED <<executed, answered>> /\ pc'[Sim] = "exited" /\ pc[Sim] # "exited"
    BY <1>4, SimDiesHolds
  <2>2. Abstract!Exit
    BY <2>1 DEF Abstract!Exit
  <2> QED
    BY <2>2 DEF Abstract!Next
<1>5. CASE \/ \E e \in Ends : ReceiveAck(e) \/ ReceiveNak(e) \/ ReceiveBadPacket(e)
           \/ SendCommand \/ ConnectionReset \/ ReceiveCommand
           \/ \E e \in Ends : GarbleFrame(e)
           \/ UNCHANGED vars
  <2>1. UNCHANGED <<executed, answered>>
    BY <1>5 DEF ReceiveAck, ReceiveNak, ReceiveBadPacket, SendCommand, ConnectionReset,
                ReceiveCommand, GarbleFrame, vars
  <2>2. pc'[Sim] = "exited" <=> pc[Sim] = "exited"
    BY <1>5, Ends2
    DEF ReceiveAck, ReceiveNak, ReceiveBadPacket, SendCommand, ConnectionReset,
        ReceiveCommand, Scanning, GarbleFrame, vars, IInv, Arrays
  <2> QED
    BY <2>1, <2>2 DEF Abstract!vars
<1>6. ~AddCharacterToError(Client) /\ ~AddCharacterToError(Sim) /\ (\A e \in Ends : ~GarbleToken(e))
  BY NoInvalidByte, Ends2
<1> QED
  BY <1>1, <1>2, <1>3, <1>4, <1>5, <1>6, Ends2
  DEF Next, ClientStep, SimStep, Faults, Scan

\* The safety part of RefinesRemoteRun: the link starts as RemoteRun does and
\* does nothing that RemoteRun forbids.
THEOREM ImplementsRemoteRun ==
  ASSUME ByteFaults = 0 PROVE Spec => Abstract!Init /\ [][Abstract!Next]_(Abstract!vars)
<1>1. Init => Abstract!Init
  BY Ends2 DEF Init, Abstract!Init
<1> QED
  BY <1>1, AlwaysIInv, AbstractStep, PTL DEF Spec

-----------------------------------------------------------------------------
(***************************************************************************)
(* Counting tokens                                                         *)
(***************************************************************************)
\* How many of the first n tokens are of a kind, and how many of all.
Upto(c, kind, n) == Cardinality({m \in 1 .. n : c[m].kind = kind})
Number(c, kind) == Upto(c, kind, Len(c))
One(b) == IF b THEN 1 ELSE 0

Good(t) == t.kind = "frame" /\ t.ok

LEMMA TokenFacts ==
  ASSUME NEW t \in Tokens
  PROVE  /\ t.kind \in {"ack", "nak", "junk", "frame"}
         /\ t.kind = "ack" => t = Ack
         /\ t.kind = "nak" => t = Nak
         /\ t.kind = "junk" => t = Junk
         /\ t.kind = "frame" => t.of \in Commands /\ t.ok \in BOOLEAN
<1>1. CASE t \in {Ack, Nak, Junk}
  BY <1>1 DEF Ack, Nak, Junk
<1>2. CASE t \in [kind : {"frame"}, of : Commands, ok : BOOLEAN]
  BY <1>2
<1> QED
  BY <1>1, <1>2 DEF Tokens

LEMMA TokensOnTheLine ==
  /\ Ack \in Tokens /\ Nak \in Tokens /\ Junk \in Tokens
  /\ Ack.kind = "ack" /\ Nak.kind = "nak" /\ Junk.kind = "junk"
  /\ \A i \in Commands :
       Frame(i) \in Tokens /\ Frame(i).kind = "frame" /\ Frame(i).of = i /\ Good(Frame(i))
<1>1. ASSUME NEW i \in Commands PROVE Frame(i) \in [kind : {"frame"}, of : Commands, ok : BOOLEAN]
  BY DEF Frame
<1> QED
  BY <1>1 DEF Tokens, Ack, Nak, Junk, Frame, Good

LEMMA CommandsAreNumbers == Commands \subseteq Nat \ {0} /\ Len(Program) \in Nat
  BY ProgramAssumption DEF Commands

LEMMA UptoType ==
  ASSUME NEW c, NEW kind, NEW n \in Nat
  PROVE  IsFiniteSet({m \in 1 .. n : c[m].kind = kind}) /\ Upto(c, kind, n) \in Nat
<1>1. IsFiniteSet(1 .. n)
  BY FS_Interval
<1>2. IsFiniteSet({m \in 1 .. n : c[m].kind = kind})
  BY <1>1, FS_Subset
<1> QED
  BY <1>2, FS_CardinalityType DEF Upto

LEMMA UptoSame ==
  ASSUME NEW c, NEW d, NEW kind, NEW n \in Nat, \A m \in 1 .. n : c[m].kind = d[m].kind
  PROVE  Upto(c, kind, n) = Upto(d, kind, n)
<1>1. {m \in 1 .. n : c[m].kind = kind} = {m \in 1 .. n : d[m].kind = kind}
  OBVIOUS
<1> QED
  BY <1>1 DEF Upto

LEMMA UptoNone ==
  ASSUME NEW c, NEW kind
  PROVE  Upto(c, kind, 0) = 0
<1>1. {m \in 1 .. 0 : c[m].kind = kind} = {}
  OBVIOUS
<1> QED
  BY <1>1, FS_EmptySet DEF Upto

LEMMA UptoNext ==
  ASSUME NEW c, NEW kind, NEW n \in Nat
  PROVE  Upto(c, kind, n + 1) = Upto(c, kind, n) + One(c[n + 1].kind = kind)
<1> DEFINE S == {m \in 1 .. n : c[m].kind = kind}
           T == {m \in 1 .. n + 1 : c[m].kind = kind}
<1>1. IsFiniteSet(S)
  BY UptoType
<1>2. CASE c[n + 1].kind = kind
  <2>1. T = S \cup {n + 1} /\ n + 1 \notin S
    BY <1>2
  <2> HIDE DEF S, T
  <2>2. Cardinality(T) = Cardinality(S) + 1
    BY <1>1, <2>1, FS_AddElement
  <2> QED
    BY <1>2, <2>2 DEF S, T, Upto, One
<1>3. CASE c[n + 1].kind # kind
  <2>1. T = S
    BY <1>3
  <2>2. Cardinality(S) \in Nat
    BY <1>1, FS_CardinalityType
  <2> HIDE DEF S, T
  <2>3. Cardinality(T) = Cardinality(S) + 0
    BY <2>1, <2>2
  <2> QED
    BY <1>3, <2>3 DEF S, T, Upto, One
<1> QED
  BY <1>2, <1>3

LEMMA UptoShifted ==
  ASSUME NEW c, NEW d, NEW kind, NEW j \in Nat, NEW n \in Nat,
         \A m \in 1 .. n : d[m].kind = c[m + j].kind
  PROVE  Upto(c, kind, n + j) = Upto(c, kind, j) + Upto(d, kind, n)
<1> DEFINE A == {m \in 1 .. j : c[m].kind = kind}
           B == {m \in 1 .. n : d[m].kind = kind}
           C == {m \in (j + 1) .. (n + j) : c[m].kind = kind}
           T == {m \in 1 .. (n + j) : c[m].kind = kind}
           f == [m \in B |-> m + j]
<1>1. IsFiniteSet(A) /\ IsFiniteSet(B) /\ Cardinality(A) \in Nat /\ Cardinality(B) \in Nat
  <2>1. IsFiniteSet(A)
    BY UptoType
  <2>2. IsFiniteSet(B)
    BY UptoType
  <2> QED
    BY <2>1, <2>2, FS_CardinalityType
<1>2. f \in Bijection(B, C)
  <2>1. \A m \in B : f[m] \in C
    OBVIOUS
  <2>2. \A x, y \in B : f[x] = f[y] => x = y
    OBVIOUS
  <2>3. \A y \in C : y - j \in B /\ f[y - j] = y
    OBVIOUS
  <2>4. \A y \in C : \E x \in B : f[x] = y
    BY <2>3
  <2> QED
    BY <2>1, <2>2, <2>4, Fun_IsBij
<1>3. ExistsBijection(B, C)
  BY <1>2, Zenon DEF ExistsBijection
<1> HIDE DEF B, C
<1>4. IsFiniteSet(C) /\ Cardinality(C) = Cardinality(B)
  BY <1>1, <1>3, FS_Bijection
<1>5. T = A \cup C /\ A \cap C = {}
  BY DEF C
<1> HIDE DEF A, T
<1>6. Cardinality(T) = Cardinality(A) + Cardinality(C) - Cardinality(A \cap C)
  BY <1>1, <1>4, <1>5, FS_Union
<1>7. Cardinality(T) = Cardinality(A) + Cardinality(B)
  BY <1>1, <1>4, <1>5, <1>6, FS_EmptySet
<1> QED
  BY <1>7 DEF A, B, T, Upto

-----------------------------------------------------------------------------
(***************************************************************************)
(* What is said of a channel                                               *)
(***************************************************************************)
\* Each good frame is ahead of base plus its place among the frames.
Late(c, base) == \A n \in DOMAIN c : Good(c[n]) => base + Upto(c, "frame", n) <= c[n].of

\* The good frames are in order, between two bounds.
Ordered(c, low, high) ==
  \A n \in DOMAIN c : Good(c[n]) =>
    /\ low <= c[n].of /\ c[n].of <= high
    /\ \A m \in DOMAIN c : m < n /\ Good(c[m]) => c[m].of <= c[n].of

Values(c) == {c[n].of : n \in {m \in DOMAIN c : Good(c[m])}}

\* A scanner that has kept len invalid bytes, with c still to read, will report
\* them at most u times: the bytes it keeps and those that follow them up to
\* the size of its buffer once, the others in pieces that begin at K.
Junks(c, m, n) == \A x \in m .. n : c[x].kind = "junk"
Pieces(c, len, K) ==
  \A n \in DOMAIN c : c[n].kind = "junk" =>
    \/ len > 0 /\ n + len < MaxErrorSize /\ Junks(c, 1, n)
    \/ \E s \in K : s <= n /\ n < s + (MaxErrorSize - 1) /\ Junks(c, s, n)
Owed(c, len, u) ==
  \E K \in SUBSET DOMAIN c : Pieces(c, len, K) /\ Cardinality(K) + One(len > 0) <= u

LEMMA LateLess ==
  ASSUME NEW c \in Seq(Tokens), NEW a \in Int, NEW b \in Int, b <= a, Late(c, a)
  PROVE  Late(c, b)
<1> SUFFICES ASSUME NEW n \in DOMAIN c, Good(c[n]) PROVE b + Upto(c, "frame", n) <= c[n].of
  BY DEF Late
<1>1. a + Upto(c, "frame", n) <= c[n].of
  BY DEF Late
<1>2. n \in 1 .. Len(c) /\ n \in Nat
  BY LenProperties
<1>3. Upto(c, "frame", n) \in Nat
  BY <1>2, UptoType
<1>4. c[n].of \in Nat
  BY <1>2, ElementOfSeq, TokenFacts, CommandsAreNumbers DEF Good
<1> QED
  BY <1>1, <1>3, <1>4

-----------------------------------------------------------------------------
(***************************************************************************)
(* A token is written                                                      *)
(***************************************************************************)
LEMMA WrittenUpto ==
  ASSUME NEW c \in Seq(Tokens), NEW t \in Tokens, NEW kind, NEW n \in 0 .. Len(c)
  PROVE  Upto(Append(c, t), kind, n) = Upto(c, kind, n)
<1>1. Len(c) \in Nat /\ \A m \in 1 .. Len(c) : Append(c, t)[m] = c[m]
  BY AppendProperties, LenProperties
<1>2. n \in Nat /\ \A m \in 1 .. n : Append(c, t)[m].kind = c[m].kind
  BY <1>1
<1> QED
  BY <1>2, UptoSame

LEMMA WrittenNumbers ==
  ASSUME NEW c \in Seq(Tokens), NEW t \in Tokens, NEW kind
  PROVE  /\ Append(c, t) \in Seq(Tokens)
         /\ Number(Append(c, t), kind) = Number(c, kind) + One(t.kind = kind)
         /\ Number(c, kind) \in Nat
<1> DEFINE d == Append(c, t)
<1>1. /\ Len(c) \in Nat /\ d \in Seq(Tokens) /\ Len(d) = Len(c) + 1
      /\ \A n \in 1 .. Len(c) : d[n] = c[n]
      /\ d[Len(c) + 1] = t
  BY AppendProperties, LenProperties
<1>2. Upto(d, kind, Len(c)) = Upto(c, kind, Len(c))
  BY <1>1, WrittenUpto
<1> HIDE DEF d
<1>3. Upto(d, kind, Len(c) + 1) = Upto(d, kind, Len(c)) + One(t.kind = kind)
  BY <1>1, UptoNext
<1>4. Number(d, kind) = Number(c, kind) + One(t.kind = kind)
  BY <1>1, <1>2, <1>3 DEF Number
<1>5. Number(c, kind) \in Nat
  BY <1>1, UptoType DEF Number
<1> QED
  BY <1>1, <1>4, <1>5 DEF d

LEMMA WrittenLate ==
  ASSUME NEW c \in Seq(Tokens), NEW t \in Tokens, NEW base \in Int, Late(c, base),
         Good(t) => base + Number(c, "frame") + 1 <= t.of
  PROVE  Late(Append(c, t), base)
<1> DEFINE d == Append(c, t)
<1>1. /\ Len(c) \in Nat /\ DOMAIN d = 1 .. Len(c) + 1 /\ DOMAIN c = 1 .. Len(c)
      /\ \A n \in 1 .. Len(c) : d[n] = c[n]
      /\ d[Len(c) + 1] = t /\ Len(d) = Len(c) + 1
  BY AppendProperties, LenProperties
<1>2. /\ \A n \in 0 .. Len(c) : Upto(d, "frame", n) = Upto(c, "frame", n)
      /\ Upto(d, "frame", Len(d)) = Number(c, "frame") + One(t.kind = "frame")
  <2>1. Number(d, "frame") = Number(c, "frame") + One(t.kind = "frame")
    BY WrittenNumbers
  <2>2. \A n \in 0 .. Len(c) : Upto(d, "frame", n) = Upto(c, "frame", n)
    BY WrittenUpto
  <2> QED
    BY <2>1, <2>2 DEF Number
<1> HIDE DEF d
<1> SUFFICES ASSUME NEW n \in DOMAIN d, Good(d[n]) PROVE base + Upto(d, "frame", n) <= d[n].of
  BY DEF Late, d
<1>3. CASE n \in 1 .. Len(c)
  BY <1>1, <1>2, <1>3 DEF Late
<1>4. CASE n = Len(c) + 1
  <2>1. Upto(d, "frame", n) = Number(c, "frame") + 1 /\ d[n] = t
    BY <1>1, <1>2, <1>4 DEF Good, One
  <2>2. Number(c, "frame") \in Nat
    BY <1>1, UptoType DEF Number
  <2> QED
    BY <2>1, <2>2
<1> QED
  BY <1>1, <1>3, <1>4

LEMMA WrittenOrdered ==
  ASSUME NEW c \in Seq(Tokens), NEW t \in Tokens,
         NEW low \in Nat, NEW high \in Nat, NEW top \in Nat,
         low <= high, high <= top, Good(t) => t.of = top, Ordered(c, low, high)
  PROVE  Ordered(Append(c, t), low, top)
<1> DEFINE d == Append(c, t)
<1>1. /\ Len(c) \in Nat /\ DOMAIN d = 1 .. Len(c) + 1 /\ DOMAIN c = 1 .. Len(c)
      /\ \A n \in 1 .. Len(c) : d[n] = c[n] /\ c[n] \in Tokens
      /\ d[Len(c) + 1] = t /\ Len(d) = Len(c) + 1
  BY AppendProperties, LenProperties, ElementOfSeq
<1>2. \A n \in 1 .. Len(c) : Good(c[n]) => c[n].of \in Nat /\ low <= c[n].of /\ c[n].of <= high
  BY <1>1, TokenFacts, CommandsAreNumbers DEF Good, Ordered
<1> HIDE DEF d
<1> SUFFICES ASSUME NEW n \in DOMAIN d, Good(d[n])
             PROVE  /\ low <= d[n].of /\ d[n].of <= top
                    /\ \A m \in DOMAIN d : m < n /\ Good(d[m]) => d[m].of <= d[n].of
  BY DEF Ordered, d
<1>3. CASE n \in 1 .. Len(c)
  <2>1. low <= d[n].of /\ d[n].of <= top
    BY <1>1, <1>2, <1>3
  <2>2. ASSUME NEW m \in DOMAIN d, m < n, Good(d[m]) PROVE d[m].of <= d[n].of
    <3>1. m \in 1 .. Len(c)
      BY <1>1, <1>3, <2>2
    <3> QED
      BY <1>1, <1>3, <2>2, <3>1 DEF Ordered
  <2> QED
    BY <2>1, <2>2
<1>4. CASE n = Len(c) + 1
  <2>1. d[n].of = top
    BY <1>1, <1>4
  <2>2. ASSUME NEW m \in DOMAIN d, m < n, Good(d[m]) PROVE d[m].of <= d[n].of
    <3>1. m \in 1 .. Len(c)
      BY <1>1, <1>4, <2>2
    <3> QED
      BY <1>1, <1>2, <2>1, <2>2, <3>1
  <2> QED
    BY <2>1, <2>2
<1> QED
  BY <1>1, <1>3, <1>4

LEMMA WrittenValues ==
  ASSUME NEW c \in Seq(Tokens), NEW t \in Tokens
  PROVE  Values(Append(c, t)) = Values(c) \cup (IF Good(t) THEN {t.of} ELSE {})
<1> DEFINE d == Append(c, t)
<1>1. /\ Len(c) \in Nat /\ DOMAIN d = 1 .. Len(c) + 1 /\ DOMAIN c = 1 .. Len(c)
      /\ \A n \in 1 .. Len(c) : d[n] = c[n]
      /\ d[Len(c) + 1] = t /\ Len(d) = Len(c) + 1
  BY AppendProperties, LenProperties, ElementOfSeq
<1> HIDE DEF d
<1>2. ASSUME NEW x \in Values(d) PROVE x \in Values(c) \cup (IF Good(t) THEN {t.of} ELSE {})
  <2>1. PICK n \in 1 .. Len(c) + 1 : Good(d[n]) /\ x = d[n].of
    BY <1>1, <1>2 DEF Values
  <2>2. CASE n \in 1 .. Len(c)
    BY <1>1, <2>1, <2>2 DEF Values
  <2>3. CASE n = Len(c) + 1
    BY <1>1, <2>1, <2>3
  <2> QED
    BY <1>1, <2>2, <2>3
<1>3. ASSUME NEW x \in Values(c) PROVE x \in Values(d)
  <2>1. PICK n \in 1 .. Len(c) : Good(c[n]) /\ x = c[n].of
    BY <1>1, <1>3 DEF Values
  <2>2. n \in 1 .. Len(c) + 1 /\ d[n] = c[n]
    BY <1>1, <2>1
  <2> QED
    BY <1>1, <2>1, <2>2 DEF Values
<1>4. Good(t) => t.of \in Values(d)
  <2>1. Len(c) + 1 \in DOMAIN d
    BY <1>1
  <2> QED
    BY <1>1, <2>1 DEF Values
<1> QED
  BY <1>2, <1>3, <1>4 DEF d

LEMMA WrittenOwed ==
  ASSUME NEW c \in Seq(Tokens), NEW t \in Tokens, t.kind # "junk",
         NEW len \in Nat, NEW u \in Nat, Owed(c, len, u)
  PROVE  Owed(Append(c, t), len, u)
<1> DEFINE d == Append(c, t)
<1>1. /\ Len(c) \in Nat /\ DOMAIN d = 1 .. Len(c) + 1 /\ DOMAIN c = 1 .. Len(c)
      /\ \A n \in 1 .. Len(c) : d[n] = c[n]
      /\ d[Len(c) + 1] = t /\ Len(d) = Len(c) + 1
  BY AppendProperties, LenProperties, ElementOfSeq
<1>2. PICK K \in SUBSET DOMAIN c : Pieces(c, len, K) /\ Cardinality(K) + One(len > 0) <= u
  BY DEF Owed
<1> HIDE DEF d
<1>3. K \in SUBSET DOMAIN d
  BY <1>1
<1>4. Pieces(d, len, K)
  <2> SUFFICES ASSUME NEW n \in DOMAIN d, d[n].kind = "junk"
               PROVE  \/ len > 0 /\ n + len < MaxErrorSize /\ Junks(d, 1, n)
                      \/ \E s \in K : s <= n /\ n < s + (MaxErrorSize - 1) /\ Junks(d, s, n)
    BY DEF Pieces
  <2>1. n \in 1 .. Len(c) /\ c[n].kind = "junk"
    BY <1>1
  <2>2. \A s \in 1 .. Len(c) : Junks(c, s, n) => Junks(d, s, n)
    BY <1>1, <2>1 DEF Junks
  <2>3. \A s \in K : s \in 1 .. Len(c)
    BY <1>1
  <2> QED
    BY <1>1, <1>2, <2>1, <2>2, <2>3 DEF Pieces
<1> QED
  BY <1>2, <1>3, <1>4 DEF Owed, d

-----------------------------------------------------------------------------
(***************************************************************************)
(* A token is read                                                         *)
(***************************************************************************)
LEMMA Taken ==
  ASSUME NEW c \in Seq(Tokens), c # << >>
  PROVE  /\ Tail(c) \in Seq(Tokens) /\ Head(c) \in Tokens /\ Head(c) = c[1]
         /\ Len(c) \in Nat /\ Len(Tail(c)) \in Nat /\ Len(c) = Len(Tail(c)) + 1
         /\ DOMAIN c = 1 .. Len(c) /\ DOMAIN Tail(c) = 1 .. Len(Tail(c))
         /\ \A n \in 1 .. Len(Tail(c)) : Tail(c)[n] = c[n + 1]
         /\ \A n \in 1 .. Len(c) : c[n] \in Tokens
BY HeadTailProperties, LenProperties, EmptySeq, ElementOfSeq

LEMMA TakenUpto ==
  ASSUME NEW c \in Seq(Tokens), c # << >>, NEW kind, NEW n \in 0 .. Len(Tail(c))
  PROVE  Upto(c, kind, n + 1) = One(Head(c).kind = kind) + Upto(Tail(c), kind, n)
<1>1. n \in Nat /\ \A m \in 1 .. n : Tail(c)[m].kind = c[m + 1].kind
  BY Taken
<1>2. Upto(c, kind, n + 1) = Upto(c, kind, 1) + Upto(Tail(c), kind, n)
  <2> DEFINE d == Tail(c)
  <2>1. \A m \in 1 .. n : d[m].kind = c[m + 1].kind
    BY <1>1
  <2> HIDE DEF d
  <2>2. Upto(c, kind, n + 1) = Upto(c, kind, 1) + Upto(d, kind, n)
    BY <1>1, <2>1, UptoShifted
  <2> QED
    BY <2>2 DEF d
<1>3. Upto(c, kind, 0 + 1) = Upto(c, kind, 0) + One(c[0 + 1].kind = kind)
  BY UptoNext
<1>4. Upto(c, kind, 1) = One(Head(c).kind = kind)
  BY <1>3, UptoNone, Taken DEF One
<1> QED
  BY <1>2, <1>4

LEMMA TakenNumbers ==
  ASSUME NEW c \in Seq(Tokens), c # << >>, NEW kind
  PROVE  /\ Number(c, kind) = One(Head(c).kind = kind) + Number(Tail(c), kind)
         /\ Number(c, kind) \in Nat /\ Number(Tail(c), kind) \in Nat
<1>1. Number(c, kind) \in Nat /\ Number(Tail(c), kind) \in Nat
  BY Taken, UptoType DEF Number
<1>2. Upto(c, kind, Len(Tail(c)) + 1) = One(Head(c).kind = kind) + Upto(Tail(c), kind, Len(Tail(c)))
  BY Taken, TakenUpto
<1> QED
  BY <1>1, <1>2, Taken DEF Number

LEMMA TakenLate ==
  ASSUME NEW c \in Seq(Tokens), c # << >>, NEW base \in Int, Late(c, base)
  PROVE  /\ Late(Tail(c), base + One(Head(c).kind = "frame"))
         /\ Good(Head(c)) => base + 1 <= Head(c).of
<1>1. Good(Head(c)) => base + 1 <= Head(c).of
  <2>1. 1 \in DOMAIN c /\ 0 \in 0 .. Len(Tail(c))
    BY Taken
  <2>2. Upto(c, "frame", 0 + 1) = One(Head(c).kind = "frame") + Upto(Tail(c), "frame", 0)
    BY <2>1, TakenUpto
  <2>3. Good(Head(c)) => Upto(c, "frame", 1) = 1
    BY <2>2, UptoNone DEF Good, One
  <2> QED
    BY <2>1, <2>3, Taken DEF Late
<1>2. ASSUME NEW n \in DOMAIN Tail(c), Good(Tail(c)[n])
      PROVE  base + One(Head(c).kind = "frame") + Upto(Tail(c), "frame", n) <= Tail(c)[n].of
  <2>1. n \in 1 .. Len(Tail(c)) /\ n \in Nat /\ n + 1 \in DOMAIN c /\ Tail(c)[n] = c[n + 1]
    BY <1>2, Taken
  <2>2. Upto(c, "frame", n + 1) = One(Head(c).kind = "frame") + Upto(Tail(c), "frame", n)
    BY <2>1, Taken, TakenUpto
  <2>3. Upto(Tail(c), "frame", n) \in Nat
    BY <2>1, UptoType
  <2>4. base + Upto(c, "frame", n + 1) <= Tail(c)[n].of
    BY <1>2, <2>1 DEF Late
  <2>5. One(Head(c).kind = "frame") \in Nat
    BY DEF One
  <2> QED
    BY <2>2, <2>3, <2>4, <2>5
<1> QED
  BY <1>1, <1>2 DEF Late

LEMMA TakenOrdered ==
  ASSUME NEW c \in Seq(Tokens), c # << >>, NEW low \in Nat, NEW high \in Nat, Ordered(c, low, high)
  PROVE  /\ Ordered(Tail(c), low, high)
         /\ Good(Head(c)) =>
              low <= Head(c).of /\ Head(c).of <= high /\ Ordered(Tail(c), Head(c).of, high)
<1>1. \A n \in 1 .. Len(c) : Good(c[n]) => c[n].of \in Nat
  BY Taken, TokenFacts, CommandsAreNumbers DEF Good
<1>2. Good(Head(c)) => low <= Head(c).of /\ Head(c).of <= high
  BY Taken DEF Ordered
<1>3. ASSUME NEW n \in DOMAIN Tail(c), Good(Tail(c)[n])
      PROVE  /\ low <= Tail(c)[n].of /\ Tail(c)[n].of <= high
             /\ Good(Head(c)) => Head(c).of <= Tail(c)[n].of
             /\ \A m \in DOMAIN Tail(c) : m < n /\ Good(Tail(c)[m]) => Tail(c)[m].of <= Tail(c)[n].of
  <2>1. n \in Nat /\ n + 1 \in DOMAIN c /\ Tail(c)[n] = c[n + 1]
    BY <1>3, Taken
  <2>2. ASSUME NEW m \in DOMAIN Tail(c), m < n, Good(Tail(c)[m]) PROVE Tail(c)[m].of <= Tail(c)[n].of
    <3>1. m + 1 \in DOMAIN c /\ m + 1 < n + 1 /\ Tail(c)[m] = c[m + 1]
      BY <2>1, <2>2, Taken
    <3> QED
      BY <1>3, <2>1, <2>2, <3>1 DEF Ordered
  <2>3. Good(Head(c)) => Head(c).of <= Tail(c)[n].of
    <3>1. 1 \in DOMAIN c /\ 1 < n + 1 /\ Head(c) = c[1]
      BY <1>3, <2>1, Taken
    <3> QED
      BY <1>3, <2>1, <3>1 DEF Ordered
  <2> QED
    BY <1>3, <2>1, <2>2, <2>3 DEF Ordered
<1>4. Ordered(Tail(c), low, high)
  BY <1>3 DEF Ordered
<1>5. Good(Head(c)) => Ordered(Tail(c), Head(c).of, high)
  BY <1>3 DEF Ordered
<1> QED
  BY <1>2, <1>4, <1>5

LEMMA TakenValues ==
  ASSUME NEW c \in Seq(Tokens), c # << >>
  PROVE  Values(c) = Values(Tail(c)) \cup (IF Good(Head(c)) THEN {Head(c).of} ELSE {})
<1>1. ASSUME NEW x \in Values(Tail(c)) PROVE x \in Values(c)
  <2>1. PICK n \in DOMAIN Tail(c) : Good(Tail(c)[n]) /\ x = Tail(c)[n].of
    BY <1>1 DEF Values
  <2>2. n + 1 \in DOMAIN c /\ Tail(c)[n] = c[n + 1]
    BY <2>1, Taken
  <2> QED
    BY <2>1, <2>2 DEF Values
<1>2. Good(Head(c)) => Head(c).of \in Values(c)
  <2>1. 1 \in DOMAIN c
    BY Taken
  <2> QED
    BY <2>1, Taken DEF Values
<1>3. ASSUME NEW x \in Values(c)
      PROVE  x \in Values(Tail(c)) \cup (IF Good(Head(c)) THEN {Head(c).of} ELSE {})
  <2>1. PICK n \in DOMAIN c : Good(c[n]) /\ x = c[n].of
    BY <1>3 DEF Values
  <2>2. CASE n = 1
    BY <2>1, <2>2, Taken
  <2>3. CASE n # 1
    <3>1. n - 1 \in DOMAIN Tail(c) /\ Tail(c)[n - 1] = c[n]
      BY <2>1, <2>3, Taken
    <3> QED
      BY <2>1, <3>1 DEF Values
  <2> QED
    BY <2>2, <2>3
<1> QED
  BY <1>1, <1>2, <1>3

\* The places of K once the first token is gone.
Down(K) == {k \in Nat \ {0} : k + 1 \in K}

LEMMA DownFacts ==
  ASSUME NEW n \in Nat, NEW K \in SUBSET (1 .. n + 1)
  PROVE  /\ Down(K) \in SUBSET (1 .. n) /\ IsFiniteSet(K) /\ IsFiniteSet(Down(K))
         /\ Cardinality(K) \in Nat /\ Cardinality(Down(K)) \in Nat
         /\ Cardinality(K) = Cardinality(Down(K)) + One(1 \in K)
<1> DEFINE L == K \ {1}
           f == [k \in Down(K) |-> k + 1]
<1>1. Down(K) \in SUBSET (1 .. n)
  BY DEF Down
<1>2. IsFiniteSet(1 .. n) /\ IsFiniteSet(1 .. n + 1)
  BY FS_Interval
<1>3. IsFiniteSet(K) /\ IsFiniteSet(Down(K))
  BY <1>1, <1>2, FS_Subset
<1>4. Cardinality(K) \in Nat /\ Cardinality(Down(K)) \in Nat
  BY <1>3, FS_CardinalityType
<1>5. ExistsBijection(Down(K), L)
  <2>1. \A k \in Down(K) : f[k] \in L
    BY DEF Down
  <2>2. \A x, y \in Down(K) : f[x] = f[y] => x = y
    BY <1>1
  <2>3. ASSUME NEW y \in L PROVE \E x \in Down(K) : f[x] = y
    <3>1. y - 1 \in Down(K)
      BY DEF Down
    <3>2. f[y - 1] = y
      BY <3>1
    <3> QED
      BY <3>1, <3>2
  <2>4. f \in Bijection(Down(K), L)
    BY <2>1, <2>2, <2>3, Fun_IsBij
  <2> QED
    BY <2>4, Zenon DEF ExistsBijection
<1>6. Cardinality(L) = IF 1 \in K THEN Cardinality(K) - 1 ELSE Cardinality(K)
  BY <1>3, FS_RemoveElement
<1>7. Cardinality(L) = Cardinality(Down(K))
  BY <1>3, <1>5, FS_Bijection
<1> QED
  BY <1>1, <1>3, <1>4, <1>6, <1>7 DEF One

LEMMA TakenJunks ==
  ASSUME NEW c \in Seq(Tokens), c # << >>, NEW s \in Nat, NEW n \in DOMAIN Tail(c), Junks(c, s, n + 1)
  PROVE  /\ s > 1 => Junks(Tail(c), s - 1, n)
         /\ s = 1 => Junks(Tail(c), 1, n)
<1>1. n \in 1 .. Len(Tail(c))
  BY Taken
<1>2. \A x \in 1 .. n : Tail(c)[x] = c[x + 1]
  BY <1>1, Taken
<1>3. \A x \in s .. n + 1 : c[x].kind = "junk"
  BY DEF Junks
<1>4. s > 1 => \A x \in s - 1 .. n : Tail(c)[x].kind = "junk"
  BY <1>1, <1>2, <1>3
<1>5. s = 1 => \A x \in 1 .. n : Tail(c)[x].kind = "junk"
  BY <1>1, <1>2, <1>3
<1> QED
  BY <1>4, <1>5 DEF Junks

\* A token that is not junk ends what the scanner has kept.
LEMMA TakenOwed ==
  ASSUME NEW c \in Seq(Tokens), c # << >>, Head(c).kind # "junk",
         NEW len \in Nat, NEW u \in Nat, Owed(c, len, u)
  PROVE  /\ u - One(len > 0) \in Nat
         /\ Owed(Tail(c), 0, u - One(len > 0))
<1>1. PICK K \in SUBSET DOMAIN c : Pieces(c, len, K) /\ Cardinality(K) + One(len > 0) <= u
  BY DEF Owed
<1>2. /\ Down(K) \in SUBSET DOMAIN Tail(c)
      /\ Cardinality(K) \in Nat /\ Cardinality(Down(K)) \in Nat
      /\ Cardinality(Down(K)) <= Cardinality(K)
  <2>1. K \in SUBSET (1 .. Len(Tail(c)) + 1)
    BY Taken
  <2> QED
    <3>1. /\ Down(K) \in SUBSET (1 .. Len(Tail(c)))
          /\ Cardinality(K) \in Nat /\ Cardinality(Down(K)) \in Nat
          /\ Cardinality(K) = Cardinality(Down(K)) + One(1 \in K)
      BY <2>1, Taken, DownFacts
    <3>2. Cardinality(Down(K)) <= Cardinality(K)
      BY <3>1 DEF One
    <3> QED
      BY <3>1, <3>2, Taken
<1>3. Pieces(Tail(c), 0, Down(K))
  <2> SUFFICES ASSUME NEW n \in DOMAIN Tail(c), Tail(c)[n].kind = "junk"
               PROVE  \E s \in Down(K) : s <= n /\ n < s + (MaxErrorSize - 1) /\ Junks(Tail(c), s, n)
    BY DEF Pieces
  <2>1. n \in Nat /\ n >= 1 /\ n + 1 \in DOMAIN c /\ c[n + 1].kind = "junk"
    BY Taken
  <2>2. ~ Junks(c, 1, n + 1)
    BY <2>1, Taken DEF Junks
  <2>3. PICK s \in K : s <= n + 1 /\ n + 1 < s + (MaxErrorSize - 1) /\ Junks(c, s, n + 1)
    BY <1>1, <2>1, <2>2 DEF Pieces
  <2>4. s \in Nat /\ s > 1
    BY <2>2, <2>3, Taken
  <2>5. s - 1 \in Down(K) /\ Junks(Tail(c), s - 1, n)
    BY <2>3, <2>4, TakenJunks DEF Down
  <2>6. s - 1 <= n /\ n < (s - 1) + (MaxErrorSize - 1)
    BY <2>1, <2>3, <2>4, SizesAssumption
  <2> QED
    BY <2>5, <2>6
<1>4. u - One(len > 0) \in Nat /\ Cardinality(Down(K)) + One(0 > 0) <= u - One(len > 0)
  BY <1>1, <1>2 DEF One
<1> QED
  BY <1>2, <1>3, <1>4 DEF Owed

\* A byte of junk is kept; when the buffer is full, it is reported first.
LEMMA JunkOwed ==
  ASSUME NEW c \in Seq(Tokens), c # << >>, Head(c).kind = "junk",
         NEW len \in 0 .. MaxErrorSize - 1, NEW u \in Nat, Owed(c, len, u)
  PROVE  /\ ~ErrorFull(len) => Owed(Tail(c), len + 1, u)
         /\ ErrorFull(len) => len > 0 /\ u - 1 \in Nat /\ Owed(Tail(c), 1, u - 1)
<1> USE SizesAssumption
<1>1. PICK K \in SUBSET DOMAIN c : Pieces(c, len, K) /\ Cardinality(K) + One(len > 0) <= u
  BY DEF Owed
<1>2. /\ Down(K) \in SUBSET DOMAIN Tail(c) /\ IsFiniteSet(Down(K))
      /\ Cardinality(K) \in Nat /\ Cardinality(Down(K)) \in Nat
      /\ Cardinality(K) = Cardinality(Down(K)) + One(1 \in K)
  <2>1. K \in SUBSET (1 .. Len(Tail(c)) + 1)
    BY Taken
  <2> QED
    BY <2>1, Taken, DownFacts
<1>3. 1 \in DOMAIN c /\ c[1].kind = "junk" /\ (\A s \in K : s \in Nat /\ s >= 1)
  BY Taken
<1>4. 1 \in K \/ (len > 0 /\ 1 + len < MaxErrorSize)
  BY <1>1, <1>3 DEF Pieces
\* Where a byte that is now the n-th belongs.
<1>5. ASSUME NEW n \in DOMAIN Tail(c), Tail(c)[n].kind = "junk"
      PROVE  \/ len > 0 /\ n + (len + 1) < MaxErrorSize /\ Junks(Tail(c), 1, n)
             \/ 1 \in K /\ n + 1 < MaxErrorSize /\ Junks(Tail(c), 1, n)
             \/ \E s \in Down(K) : s <= n /\ n < s + (MaxErrorSize - 1) /\ Junks(Tail(c), s, n)
  <2>1. n \in Nat /\ n >= 1 /\ n + 1 \in DOMAIN c /\ c[n + 1].kind = "junk"
    BY <1>5, Taken
  <2>2. CASE len > 0 /\ n + 1 + len < MaxErrorSize /\ Junks(c, 1, n + 1)
    BY <2>1, <2>2, TakenJunks
  <2>3. ASSUME NEW s \in K, s <= n + 1, n + 1 < s + (MaxErrorSize - 1), Junks(c, s, n + 1)
        PROVE  \/ 1 \in K /\ n + 1 < MaxErrorSize /\ Junks(Tail(c), 1, n)
               \/ \E x \in Down(K) : x <= n /\ n < x + (MaxErrorSize - 1) /\ Junks(Tail(c), x, n)
    <3>1. CASE s = 1
      BY <2>1, <2>3, <3>1, TakenJunks
    <3>2. CASE s > 1
      <4>1. s - 1 \in Down(K) /\ Junks(Tail(c), s - 1, n)
        BY <1>3, <2>3, <3>2, TakenJunks DEF Down
      <4>2. s - 1 <= n /\ n < (s - 1) + (MaxErrorSize - 1)
        BY <1>3, <2>1, <2>3
      <4> QED
        BY <4>1, <4>2
    <3> QED
      BY <1>3, <3>1, <3>2
  <2> QED
    BY <1>1, <2>1, <2>2, <2>3 DEF Pieces
<1>6. CASE ErrorFull(len)
  <2>1. len > 0 /\ len + 1 >= MaxErrorSize /\ 1 \in K
    BY <1>4, <1>6 DEF ErrorFull
  <2>2. Pieces(Tail(c), 1, Down(K))
    BY <1>5, <2>1, Taken DEF Pieces
  <2>3. u - 1 \in Nat /\ Cardinality(Down(K)) + One(1 > 0) <= u - 1
    BY <1>1, <1>2, <2>1 DEF One
  <2> QED
    BY <1>2, <1>6, <2>1, <2>2, <2>3 DEF Owed
<1>7. CASE ~ErrorFull(len) /\ (len = 0 \/ 1 \notin K)
  <2>1. Pieces(Tail(c), len + 1, Down(K))
    <3>1. SUFFICES ASSUME NEW n \in DOMAIN Tail(c), Tail(c)[n].kind = "junk"
                   PROVE  \/ len + 1 > 0 /\ n + (len + 1) < MaxErrorSize /\ Junks(Tail(c), 1, n)
                          \/ \E s \in Down(K) : s <= n /\ n < s + (MaxErrorSize - 1)
                                               /\ Junks(Tail(c), s, n)
      BY DEF Pieces
    <3>2. CASE len > 0 /\ n + (len + 1) < MaxErrorSize /\ Junks(Tail(c), 1, n)
      BY <3>2
    <3>3. CASE 1 \in K /\ n + 1 < MaxErrorSize /\ Junks(Tail(c), 1, n)
      <4>1. n \in Nat /\ len = 0
        BY <1>7, <3>1, <3>3, Taken
      <4> QED
        BY <3>3, <4>1
    <3>4. CASE \E s \in Down(K) : s <= n /\ n < s + (MaxErrorSize - 1) /\ Junks(Tail(c), s, n)
      BY <3>4
    <3> QED
      BY <1>5, <3>1, <3>2, <3>3, <3>4
  <2>2. Cardinality(Down(K)) + One(len + 1 > 0) <= u
    BY <1>1, <1>2, <1>4, <1>7 DEF One
  <2> QED
    BY <1>2, <1>7, <2>1, <2>2 DEF Owed
<1>8. CASE ~ErrorFull(len) /\ len > 0 /\ 1 \in K
  <2> DEFINE L == (Down(K) \cup {1}) \cap DOMAIN Tail(c)
  <2>1. L \in SUBSET DOMAIN Tail(c)
    OBVIOUS
  <2>2. Pieces(Tail(c), len + 1, L)
    <3> SUFFICES ASSUME NEW n \in DOMAIN Tail(c), Tail(c)[n].kind = "junk"
                 PROVE  \/ len + 1 > 0 /\ n + (len + 1) < MaxErrorSize /\ Junks(Tail(c), 1, n)
                        \/ \E s \in L : s <= n /\ n < s + (MaxErrorSize - 1) /\ Junks(Tail(c), s, n)
      BY DEF Pieces
    <3>1. n \in Nat /\ n >= 1 /\ 1 \in L
      BY Taken
    <3>2. CASE 1 \in K /\ n + 1 < MaxErrorSize /\ Junks(Tail(c), 1, n)
      <4>1. 1 <= n /\ n < 1 + (MaxErrorSize - 1)
        BY <3>1, <3>2
      <4> QED
        BY <3>1, <3>2, <4>1
    <3>3. ASSUME NEW s \in Down(K), s <= n, n < s + (MaxErrorSize - 1), Junks(Tail(c), s, n)
          PROVE  s \in L
      BY <1>2, <3>3
    <3> QED
      BY <1>5, <1>8, <3>2, <3>3
  <2>3. Cardinality(L) \in Nat /\ Cardinality(L) <= Cardinality(K)
    <3>1. IsFiniteSet(Down(K) \cup {1}) /\ Cardinality(Down(K) \cup {1}) <= Cardinality(Down(K)) + 1
          /\ Cardinality(Down(K) \cup {1}) \in Nat
      <4>1. /\ IsFiniteSet(Down(K) \cup {1})
            /\ Cardinality(Down(K) \cup {1}) =
                 IF 1 \in Down(K) THEN Cardinality(Down(K)) ELSE Cardinality(Down(K)) + 1
        BY <1>2, FS_AddElement
      <4> QED
        BY <1>2, <4>1
    <3>2. L \in SUBSET (Down(K) \cup {1})
      OBVIOUS
    <3> HIDE DEF L
    <3>3. IsFiniteSet(L) /\ Cardinality(L) <= Cardinality(Down(K) \cup {1})
      BY <3>1, <3>2, FS_Subset
    <3>4. Cardinality(L) \in Nat
      BY <3>3, FS_CardinalityType
    <3> QED
      BY <1>2, <1>8, <3>1, <3>3, <3>4 DEF One
  <2> HIDE DEF L
  <2>4. Cardinality(L) + One(len + 1 > 0) <= u
    BY <1>1, <1>2, <1>8, <2>3 DEF One
  <2> QED
    BY <1>8, <2>1, <2>2, <2>4 DEF Owed
<1> QED
  BY <1>6, <1>7, <1>8

-----------------------------------------------------------------------------
(***************************************************************************)
(* A token is damaged                                                      *)
(***************************************************************************)
DamagedAt(c, i) == [c EXCEPT ![i] = [c[i] EXCEPT !.ok = FALSE]]

LEMMA DamagedFacts ==
  ASSUME NEW c \in Seq(Tokens), NEW i \in DOMAIN c, c[i].kind = "frame"
  PROVE  /\ DamagedAt(c, i) \in Seq(Tokens) /\ Len(DamagedAt(c, i)) = Len(c)
         /\ DOMAIN DamagedAt(c, i) = DOMAIN c
         /\ \A n \in DOMAIN c : /\ DamagedAt(c, i)[n].kind = c[n].kind
                                /\ Good(DamagedAt(c, i)[n]) => n # i
                                /\ n # i => DamagedAt(c, i)[n] = c[n]
<1> DEFINE t == [c[i] EXCEPT !.ok = FALSE]
<1>1. i \in 1 .. Len(c) /\ DOMAIN c = 1 .. Len(c) /\ Len(c) \in Nat
  BY LenProperties
<1>2. c[i] \in [kind : {"frame"}, of : Commands, ok : BOOLEAN]
  <2>1. c[i] \in Tokens
    BY <1>1, ElementOfSeq
  <2>2. c[i] # Ack /\ c[i] # Nak /\ c[i] # Junk
    BY TokensOnTheLine
  <2> QED
    BY <2>1, <2>2 DEF Tokens
<1>3. t \in Tokens /\ t.kind = "frame" /\ ~t.ok
  BY <1>2 DEF Tokens
<1> HIDE DEF t
<1> DEFINE d == [c EXCEPT ![i] = t]
<1>4. d \in Seq(Tokens) /\ Len(d) = Len(c) /\ \A n \in 1 .. Len(c) : d[n] = IF n = i THEN t ELSE c[n]
  BY <1>1, <1>3, ExceptSeq
<1>5. DOMAIN d = 1 .. Len(c)
  BY <1>4, LenProperties
<1> HIDE DEF d
<1>6. \A n \in DOMAIN c : /\ d[n].kind = c[n].kind
                          /\ Good(d[n]) => n # i
                          /\ n # i => d[n] = c[n]
  BY <1>1, <1>3, <1>4 DEF Good
<1>7. d = DamagedAt(c, i)
  BY DEF d, t, DamagedAt
<1> QED
  BY <1>1, <1>4, <1>5, <1>6, <1>7

LEMMA DamagedChannel ==
  ASSUME NEW c \in Seq(Tokens), NEW i \in DOMAIN c, c[i].kind = "frame"
  PROVE  LET d == DamagedAt(c, i) IN
         /\ \A kind : Number(d, kind) = Number(c, kind)
         /\ \A base : Late(c, base) => Late(d, base)
         /\ \A low, high : Ordered(c, low, high) => Ordered(d, low, high)
         /\ \A len, u : Owed(c, len, u) => Owed(d, len, u)
         /\ Values(d) \subseteq Values(c)
         /\ Values(c) \subseteq Values(d) \cup {c[i].of}
<1> DEFINE d == DamagedAt(c, i)
<1>1. /\ Len(d) = Len(c) /\ DOMAIN d = DOMAIN c /\ Len(c) \in Nat /\ DOMAIN c = 1 .. Len(c)
      /\ \A n \in DOMAIN c : d[n].kind = c[n].kind
      /\ \A n \in DOMAIN c : Good(d[n]) => d[n] = c[n]
      /\ \A n \in DOMAIN c : n # i => d[n] = c[n]
  BY DamagedFacts, LenProperties
<1> HIDE DEF d
<1>2. ASSUME NEW kind, NEW n \in 0 .. Len(c) PROVE Upto(d, kind, n) = Upto(c, kind, n)
  BY <1>1, UptoSame
<1>3. ASSUME NEW kind PROVE Number(d, kind) = Number(c, kind)
  BY <1>1, <1>2 DEF Number
<1>4. ASSUME NEW base, Late(c, base) PROVE Late(d, base)
  BY <1>1, <1>2, <1>4 DEF Late
<1>5. ASSUME NEW low, NEW high, Ordered(c, low, high) PROVE Ordered(d, low, high)
  BY <1>1, <1>5 DEF Ordered
<1>6. ASSUME NEW len, NEW u, Owed(c, len, u) PROVE Owed(d, len, u)
  <2>1. PICK K \in SUBSET DOMAIN c : Pieces(c, len, K) /\ Cardinality(K) + One(len > 0) <= u
    BY <1>6 DEF Owed
  <2>2. \A s \in 1 .. Len(c), n \in 1 .. Len(c) : Junks(c, s, n) => Junks(d, s, n)
    BY <1>1 DEF Junks
  <2>3. Pieces(d, len, K)
    BY <1>1, <2>1, <2>2 DEF Pieces
  <2> QED
    BY <1>1, <2>1, <2>3 DEF Owed
<1>7. Values(d) \subseteq Values(c)
  BY <1>1 DEF Values
<1>8. Values(c) \subseteq Values(d) \cup {c[i].of}
  BY <1>1 DEF Values
<1> QED
  BY <1>3, <1>4, <1>5, <1>6, <1>7, <1>8 DEF d

-----------------------------------------------------------------------------
(***************************************************************************)
(* A token becomes junk                                                    *)
(***************************************************************************)
JunkAt(c, i) == SubSeq(c, 1, i - 1) \o JunkFor(c[i]) \o SubSeq(c, i + 1, Len(c))
Width(t) == IF t.kind = "frame" THEN FrameBytes ELSE 1

LEMMA JunkAtFacts ==
  ASSUME NEW c \in Seq(Tokens), NEW i \in DOMAIN c
  PROVE  /\ JunkAt(c, i) \in Seq(Tokens) /\ i \in 1 .. Len(c) /\ Len(c) \in Nat
         /\ DOMAIN c = 1 .. Len(c)
         /\ Width(c[i]) \in Nat \ {0}
         /\ Len(JunkAt(c, i)) = Len(c) + Width(c[i]) - 1
         /\ DOMAIN JunkAt(c, i) = 1 .. Len(c) + Width(c[i]) - 1
         /\ \A n \in 1 .. i - 1 : JunkAt(c, i)[n] = c[n]
         /\ \A n \in i .. i + Width(c[i]) - 1 : JunkAt(c, i)[n] = Junk
         /\ \A n \in i + 1 .. Len(c) : JunkAt(c, i)[n + Width(c[i]) - 1] = c[n]
<1> DEFINE w == Width(c[i])
           a == SubSeq(c, 1, i - 1)
           b == JunkFor(c[i])
           e == SubSeq(c, i + 1, Len(c))
<1>1. i \in 1 .. Len(c) /\ Len(c) \in Nat /\ DOMAIN c = 1 .. Len(c) /\ \A n \in 1 .. Len(c) : c[n] \in Tokens
  BY LenProperties, ElementOfSeq
<1>2. w \in Nat \ {0}
  BY SizesAssumption DEF Width
<1>3. a \in Seq(Tokens) /\ Len(a) = i - 1 /\ \A n \in 1 .. i - 1 : a[n] = c[n]
  <2>1. 1 \in Int /\ i - 1 \in Int /\ \A n \in 1 .. i - 1 : c[n] \in Tokens
    BY <1>1
  <2>2. /\ a \in Seq(Tokens) /\ Len(a) = IF 1 <= i - 1 THEN i - 1 - 1 + 1 ELSE 0
        /\ \A n \in 1 .. i - 1 - 1 + 1 : a[n] = c[1 + n - 1]
    BY <2>1, SubSeqProperties
  <2> HIDE DEF a
  <2> QED
    BY <1>1, <2>2
<1>4. b \in Seq(Tokens) /\ Len(b) = w /\ \A n \in 1 .. w : b[n] = Junk
  <2>1. b = [k \in 1 .. w |-> Junk]
    BY DEF JunkFor, Width
  <2> HIDE DEF b, w
  <2> QED
    BY <1>2, <2>1, TokensOnTheLine
<1>5. e \in Seq(Tokens) /\ Len(e) = Len(c) - i /\ \A n \in 1 .. Len(c) - i : e[n] = c[i + n]
  <2>1. i + 1 \in Int /\ Len(c) \in Int /\ \A n \in i + 1 .. Len(c) : c[n] \in Tokens
    BY <1>1
  <2>2. /\ e \in Seq(Tokens) /\ Len(e) = IF i + 1 <= Len(c) THEN Len(c) - (i + 1) + 1 ELSE 0
        /\ \A n \in 1 .. Len(c) - (i + 1) + 1 : e[n] = c[(i + 1) + n - 1]
    BY <2>1, SubSeqProperties
  <2> HIDE DEF e
  <2>3. ASSUME NEW n \in 1 .. Len(c) - i PROVE e[n] = c[i + n]
    <3>1. n \in 1 .. Len(c) - (i + 1) + 1 /\ (i + 1) + n - 1 = i + n
      BY <1>1
    <3>2. e[n] = c[(i + 1) + n - 1]
      BY <2>2, <3>1
    <3> QED
      BY <3>1, <3>2
  <2>4. Len(e) = Len(c) - i
    <3>1. i \in Nat /\ Len(c) \in Nat /\ i <= Len(c)
      BY <1>1
    <3>2. Len(e) = IF i + 1 <= Len(c) THEN Len(c) - (i + 1) + 1 ELSE 0
      BY <2>2
    <3> QED
      BY <3>1, <3>2
  <2> QED
    BY <2>2, <2>3, <2>4
<1> HIDE DEF w, a, b, e
<1> DEFINE ab == a \o b
<1>6. /\ ab \in Seq(Tokens) /\ Len(ab) = i - 1 + w
      /\ \A n \in 1 .. i - 1 + w : ab[n] = IF n <= i - 1 THEN a[n] ELSE b[n - (i - 1)]
  <2>1. /\ a \o b \in Seq(Tokens) /\ Len(a \o b) = Len(a) + Len(b)
        /\ \A n \in 1 .. Len(a) + Len(b) : (a \o b)[n] = IF n <= Len(a) THEN a[n] ELSE b[n - Len(a)]
    BY <1>3, <1>4, ConcatProperties
  <2> QED
    BY <1>3, <1>4, <2>1
<1> HIDE DEF ab
<1> DEFINE r == ab \o e
<1>7. /\ r \in Seq(Tokens) /\ Len(r) = (i - 1 + w) + (Len(c) - i)
      /\ \A n \in 1 .. (i - 1 + w) + (Len(c) - i) :
           r[n] = IF n <= i - 1 + w THEN ab[n] ELSE e[n - (i - 1 + w)]
  <2>1. /\ r \in Seq(Tokens) /\ Len(r) = Len(ab) + Len(e)
        /\ \A n \in 1 .. Len(ab) + Len(e) :
             r[n] = IF n <= Len(ab) THEN ab[n] ELSE e[n - Len(ab)]
    BY <1>5, <1>6, ConcatProperties
  <2> QED
    BY <1>5, <1>6, <2>1
<1>8. DOMAIN r = 1 .. Len(r)
  BY <1>7, LenProperties
<1> HIDE DEF r
<1>9. \A n \in 1 .. i - 1 : r[n] = c[n]
  BY <1>1, <1>2, <1>3, <1>6, <1>7
<1>10. \A n \in i .. i + w - 1 : r[n] = Junk
  <2> TAKE n \in i .. i + w - 1
  <2>1. /\ n \in 1 .. (i - 1 + w) + (Len(c) - i) /\ n \in 1 .. i - 1 + w
        /\ n <= i - 1 + w /\ ~(n <= i - 1) /\ n - (i - 1) \in 1 .. w
    <3>1. i \in Nat /\ Len(c) \in Nat /\ i <= Len(c) /\ i >= 1 /\ w \in Nat /\ w >= 1
      BY <1>1, <1>2
    <3>2. n \in Nat /\ i <= n /\ n <= i + w - 1
      BY <3>1
    <3>3. n <= i - 1 + w /\ ~(n <= i - 1) /\ n >= 1
      BY <3>1, <3>2
    <3>4. n <= (i - 1 + w) + (Len(c) - i)
      <4> DEFINE x == i - 1 + w
                 y == Len(c) - i
      <4>1. x \in Int /\ y \in Nat /\ n <= x
        BY <3>1, <3>3
      <4> HIDE DEF x, y
      <4>2. n <= x + y
        BY <3>2, <4>1
      <4> QED
        BY <4>2 DEF x, y
    <3>5. n - (i - 1) \in 1 .. w
      BY <3>1, <3>2
    <3> QED
      BY <3>1, <3>2, <3>3, <3>4, <3>5
  <2>2. r[n] = ab[n]
    BY <1>7, <2>1
  <2>3. ab[n] = b[n - (i - 1)]
    BY <1>6, <2>1
  <2> QED
    BY <1>4, <2>1, <2>2, <2>3
<1>11. \A n \in i + 1 .. Len(c) : r[n + w - 1] = c[n]
  <2> TAKE n \in i + 1 .. Len(c)
  <2>0. /\ n + w - 1 \in 1 .. (i - 1 + w) + (Len(c) - i)
        /\ ~(n + w - 1 <= i - 1 + w)
    <3>1. i \in Nat /\ Len(c) \in Nat /\ i >= 1 /\ w \in Nat /\ w >= 1
      BY <1>1, <1>2
    <3>2. n \in Nat /\ i + 1 <= n /\ n <= Len(c)
      BY <3>1
    <3> QED
      BY <3>1, <3>2
  <2>1. r[n + w - 1] = e[(n + w - 1) - (i - 1 + w)]
    BY <1>7, <2>0
  <2>2. (n + w - 1) - (i - 1 + w) = n - i /\ n - i \in 1 .. Len(c) - i /\ i + (n - i) = n
    BY <1>1, <1>2
  <2> QED
    BY <1>5, <2>1, <2>2
<1>12. Len(r) = Len(c) + w - 1
  BY <1>1, <1>2, <1>7
<1>13. r = JunkAt(c, i)
  BY DEF r, ab, a, b, e, JunkAt
<1> QED
  BY <1>1, <1>2, <1>7, <1>8, <1>9, <1>10, <1>11, <1>12, <1>13 DEF w

\* Where a token of c is once the i-th became w bytes.
Moved(n, i, w) == IF n < i THEN n ELSE n + w - 1

LEMMA JunkAtOrigin ==
  ASSUME NEW c \in Seq(Tokens), NEW i \in DOMAIN c,
         NEW n \in DOMAIN JunkAt(c, i), JunkAt(c, i)[n].kind # "junk"
  PROVE  \E m \in DOMAIN c : m # i /\ n = Moved(m, i, Width(c[i])) /\ JunkAt(c, i)[n] = c[m]
<1> DEFINE w == Width(c[i])
           r == JunkAt(c, i)
<1>1. /\ i \in 1 .. Len(c) /\ Len(c) \in Nat /\ DOMAIN c = 1 .. Len(c) /\ w \in Nat \ {0}
      /\ DOMAIN r = 1 .. Len(c) + w - 1
      /\ \A k \in 1 .. i - 1 : r[k] = c[k]
      /\ \A k \in i .. i + w - 1 : r[k] = Junk
      /\ \A k \in i + 1 .. Len(c) : r[k + w - 1] = c[k]
  BY JunkAtFacts
<1> HIDE DEF w, r
<1>2. n \in 1 .. Len(c) + w - 1 /\ r[n].kind # "junk"
  BY <1>1 DEF r
<1>3. CASE n < i
  <2>1. n \in 1 .. i - 1 /\ n \in 1 .. Len(c) /\ n # i
    BY <1>1, <1>2, <1>3
  <2>2. r[n] = c[n] /\ n = Moved(n, i, w)
    BY <1>1, <1>3, <2>1 DEF Moved
  <2> QED
    BY <1>1, <2>1, <2>2 DEF r, w
<1>4. CASE i <= n /\ n <= i + w - 1
  <2>1. n \in i .. i + w - 1
    BY <1>1, <1>2, <1>4
  <2> QED
    BY <1>1, <1>2, <2>1, TokensOnTheLine
<1>5. CASE n > i + w - 1
  <2> DEFINE m == n - w + 1
  <2>0. /\ i \in Nat /\ Len(c) \in Nat /\ w \in Nat /\ n \in Nat
        /\ 1 <= i /\ 1 <= w /\ n <= Len(c) + w - 1
    BY <1>1, <1>2
  <2>1. m \in i + 1 .. Len(c) /\ m \in 1 .. Len(c) /\ m # i /\ ~(m < i) /\ m + w - 1 = n
    <3>1. m \in Int /\ i < m /\ m <= Len(c) /\ m + w - 1 = n
      BY <1>5, <2>0
    <3> HIDE DEF m
    <3> QED
      BY <2>0, <3>1
  <2> HIDE DEF m
  <2>2. r[n] = c[m] /\ n = Moved(m, i, w)
    BY <1>1, <2>1 DEF Moved
  <2> QED
    BY <1>1, <2>1, <2>2 DEF r, w
<1> QED
  BY <1>1, <1>2, <1>3, <1>4, <1>5

LEMMA JunkAtUpto ==
  ASSUME NEW c \in Seq(Tokens), NEW i \in DOMAIN c, NEW kind, kind # "junk", NEW n \in i .. Len(c)
  PROVE  Upto(JunkAt(c, i), kind, n + Width(c[i]) - 1) = Upto(c, kind, n) - One(c[i].kind = kind)
<1> DEFINE w == Width(c[i])
           r == JunkAt(c, i)
           A == {m \in 1 .. n : c[m].kind = kind}
           B == {m \in 1 .. n + w - 1 : r[m].kind = kind}
           L == A \ {i}
           f == [m \in L |-> Moved(m, i, w)]
<1>1. /\ i \in 1 .. Len(c) /\ Len(c) \in Nat /\ DOMAIN c = 1 .. Len(c) /\ w \in Nat \ {0}
      /\ DOMAIN r = 1 .. Len(c) + w - 1
      /\ \A k \in 1 .. i - 1 : r[k] = c[k]
      /\ \A k \in i + 1 .. Len(c) : r[k + w - 1] = c[k]
  BY JunkAtFacts
<1>2. \A m \in DOMAIN r : r[m].kind # "junk" =>
        \E k \in DOMAIN c : k # i /\ m = Moved(k, i, w) /\ r[m] = c[k]
  BY JunkAtOrigin
<1> HIDE DEF w, r
<1>3. IsFiniteSet(A)
  <2>1. n \in Nat
    BY <1>1
  <2> QED
    BY <2>1, UptoType
<1>4. \A m \in L : f[m] \in B
  <2> SUFFICES ASSUME NEW m \in L PROVE Moved(m, i, w) \in B
    OBVIOUS
  <2>1. m \in 1 .. n /\ m # i /\ c[m].kind = kind
    OBVIOUS
  <2>2. CASE m < i
    <3>1. m \in 1 .. i - 1 /\ m \in 1 .. n + w - 1 /\ Moved(m, i, w) = m
      BY <1>1, <2>1, <2>2 DEF Moved
    <3> QED
      BY <1>1, <2>1, <3>1
  <2>3. CASE m > i
    <3>1. m \in i + 1 .. Len(c) /\ m + w - 1 \in 1 .. n + w - 1 /\ Moved(m, i, w) = m + w - 1
      BY <1>1, <2>1, <2>3 DEF Moved
    <3> QED
      BY <1>1, <2>1, <3>1
  <2> QED
    BY <1>1, <2>1, <2>2, <2>3
<1>5. \A x, y \in L : f[x] = f[y] => x = y
  <2> SUFFICES ASSUME NEW x \in L, NEW y \in L, Moved(x, i, w) = Moved(y, i, w) PROVE x = y
    OBVIOUS
  <2> QED
    BY <1>1 DEF Moved
<1>6. ASSUME NEW m \in B PROVE \E x \in L : f[x] = m
  <2>1. m \in DOMAIN r /\ r[m].kind = kind
    BY <1>1
  <2>2. PICK k \in DOMAIN c : k # i /\ m = Moved(k, i, w) /\ r[m] = c[k]
    BY <1>2, <2>1
  <2>3. k \in 1 .. n
    <3>1. k \in Nat /\ 1 <= k /\ m <= n + w - 1
      BY <1>1, <2>2
    <3> QED
      BY <1>1, <2>2, <3>1 DEF Moved
  <2>4. k \in L
    BY <2>1, <2>2, <2>3
  <2> QED
    BY <2>2, <2>4
<1>7. ExistsBijection(L, B)
  <2>1. f \in Bijection(L, B)
    BY <1>4, <1>5, <1>6, Fun_IsBij
  <2> QED
    BY <2>1, Zenon DEF ExistsBijection
<1> HIDE DEF f
<1>8. i \in A <=> c[i].kind = kind
  BY <1>1
<1> HIDE DEF A, B
<1>9. IsFiniteSet(L) /\ Cardinality(L) = IF i \in A THEN Cardinality(A) - 1 ELSE Cardinality(A)
  BY <1>3, FS_RemoveElement
<1>10. Cardinality(B) = Cardinality(L)
  BY <1>7, <1>9, FS_Bijection
<1>11. Cardinality(A) \in Nat
  BY <1>3, FS_CardinalityType
<1>12. Cardinality(B) = Cardinality(A) - One(c[i].kind = kind)
  BY <1>8, <1>9, <1>10, <1>11 DEF One
<1> QED
  BY <1>12 DEF A, B, Upto, r, w

LEMMA JunkAtNumbers ==
  ASSUME NEW c \in Seq(Tokens), NEW i \in DOMAIN c, NEW kind, kind # "junk"
  PROVE  /\ Number(JunkAt(c, i), kind) = Number(c, kind) - One(c[i].kind = kind)
         /\ Number(c, kind) \in Nat /\ Number(JunkAt(c, i), kind) \in Nat
<1> DEFINE w == Width(c[i])
           r == JunkAt(c, i)
<1>1. i \in 1 .. Len(c) /\ Len(c) \in Nat /\ w \in Nat \ {0} /\ Len(r) = Len(c) + w - 1
  BY JunkAtFacts
<1>2. Len(c) \in i .. Len(c)
  BY <1>1
<1>3. Upto(r, kind, Len(c) + w - 1) = Upto(c, kind, Len(c)) - One(c[i].kind = kind)
  BY <1>2, JunkAtUpto
<1> HIDE DEF w, r
<1>4. Number(r, kind) = Number(c, kind) - One(c[i].kind = kind)
  BY <1>1, <1>3 DEF Number
<1>5. Len(c) \in Nat /\ Len(r) \in Nat
  BY <1>1
<1>6. Number(c, kind) \in Nat /\ Number(r, kind) \in Nat
  BY <1>5, UptoType DEF Number
<1> QED
  BY <1>4, <1>6 DEF r

LEMMA JunkAtLate ==
  ASSUME NEW c \in Seq(Tokens), NEW i \in DOMAIN c, NEW base \in Int, Late(c, base)
  PROVE  Late(JunkAt(c, i), base)
<1> DEFINE w == Width(c[i])
           r == JunkAt(c, i)
<1>1. /\ i \in 1 .. Len(c) /\ Len(c) \in Nat /\ DOMAIN c = 1 .. Len(c) /\ w \in Nat \ {0}
      /\ DOMAIN r = 1 .. Len(c) + w - 1
      /\ \A k \in 1 .. i - 1 : r[k] = c[k]
  BY JunkAtFacts
<1>2. \A m \in DOMAIN r : r[m].kind # "junk" =>
        \E k \in DOMAIN c : k # i /\ m = Moved(k, i, w) /\ r[m] = c[k]
  BY JunkAtOrigin
<1>3. \A m \in i .. Len(c) : Upto(r, "frame", m + w - 1) = Upto(c, "frame", m) - One(c[i].kind = "frame")
  BY JunkAtUpto
<1> HIDE DEF w, r
<1> SUFFICES ASSUME NEW n \in DOMAIN r, Good(r[n]) PROVE base + Upto(r, "frame", n) <= r[n].of
  BY DEF Late, r
<1>4. PICK m \in DOMAIN c : m # i /\ n = Moved(m, i, w) /\ r[n] = c[m]
  BY <1>2 DEF Good
<1>5. base + Upto(c, "frame", m) <= c[m].of
  BY <1>4 DEF Late
<1>6. m \in 1 .. Len(c) /\ m \in Nat /\ Upto(c, "frame", m) \in Nat
  <2>1. m \in 1 .. Len(c) /\ m \in Nat
    BY <1>1
  <2>2. Upto(c, "frame", m) \in Nat
    BY <2>1, UptoType
  <2> QED
    BY <2>1, <2>2
<1>7. c[m].of \in Nat
  BY <1>4, <1>6, ElementOfSeq, TokenFacts, CommandsAreNumbers DEF Good
<1>8. Upto(r, "frame", n) \in Int /\ Upto(r, "frame", n) <= Upto(c, "frame", m)
  <2>1. CASE m < i
    <3>1. n = m /\ \A x \in 1 .. m : x \in 1 .. i - 1
      BY <1>1, <1>4, <1>6, <2>1 DEF Moved
    <3>2. \A x \in 1 .. m : r[x].kind = c[x].kind
      BY <1>1, <3>1
    <3>3. Upto(r, "frame", m) = Upto(c, "frame", m)
      BY <1>6, <3>2, UptoSame
    <3> QED
      BY <1>6, <3>1, <3>3
  <2>2. CASE m > i
    <3>1. n = m + w - 1 /\ m \in i .. Len(c)
      BY <1>1, <1>4, <1>6, <2>2 DEF Moved
    <3>2. Upto(r, "frame", n) = Upto(c, "frame", m) - One(c[i].kind = "frame")
      BY <1>3, <3>1
    <3> QED
      BY <1>6, <3>2 DEF One
  <2> QED
    BY <1>1, <1>4, <1>6, <2>1, <2>2
<1> QED
  BY <1>4, <1>5, <1>6, <1>7, <1>8

LEMMA JunkAtOrdered ==
  ASSUME NEW c \in Seq(Tokens), NEW i \in DOMAIN c, NEW low, NEW high, Ordered(c, low, high)
  PROVE  Ordered(JunkAt(c, i), low, high)
<1> DEFINE w == Width(c[i])
           r == JunkAt(c, i)
<1>1. /\ i \in 1 .. Len(c) /\ Len(c) \in Nat /\ DOMAIN c = 1 .. Len(c) /\ w \in Nat \ {0}
  BY JunkAtFacts
<1>2. \A m \in DOMAIN r : r[m].kind # "junk" =>
        \E k \in DOMAIN c : k # i /\ m = Moved(k, i, w) /\ r[m] = c[k]
  BY JunkAtOrigin
<1> HIDE DEF w, r
<1> SUFFICES ASSUME NEW n \in DOMAIN r, Good(r[n])
             PROVE  /\ low <= r[n].of /\ r[n].of <= high
                    /\ \A m \in DOMAIN r : m < n /\ Good(r[m]) => r[m].of <= r[n].of
  BY DEF Ordered, r
<1>3. PICK x \in DOMAIN c : x # i /\ n = Moved(x, i, w) /\ r[n] = c[x]
  BY <1>2 DEF Good
<1>4. low <= r[n].of /\ r[n].of <= high
  BY <1>3 DEF Ordered
<1>5. ASSUME NEW m \in DOMAIN r, m < n, Good(r[m]) PROVE r[m].of <= r[n].of
  <2>1. PICK y \in DOMAIN c : y # i /\ m = Moved(y, i, w) /\ r[m] = c[y]
    BY <1>2, <1>5 DEF Good
  <2>2. y < x
    <3>1. x \in Nat /\ y \in Nat /\ i \in Nat /\ w \in Nat /\ w >= 1
      BY <1>1
    <3>2. Moved(y, i, w) < Moved(x, i, w)
      BY <1>3, <1>5, <2>1
    <3> QED
      BY <1>3, <2>1, <3>1, <3>2 DEF Moved
  <2> QED
    BY <1>3, <1>5, <2>1, <2>2 DEF Ordered
<1> QED
  BY <1>4, <1>5

LEMMA JunkAtValues ==
  ASSUME NEW c \in Seq(Tokens), NEW i \in DOMAIN c
  PROVE  /\ Values(JunkAt(c, i)) \subseteq Values(c)
         /\ Values(c) \subseteq Values(JunkAt(c, i)) \cup (IF Good(c[i]) THEN {c[i].of} ELSE {})
<1> DEFINE w == Width(c[i])
           r == JunkAt(c, i)
<1>1. /\ i \in 1 .. Len(c) /\ Len(c) \in Nat /\ DOMAIN c = 1 .. Len(c) /\ w \in Nat \ {0}
      /\ DOMAIN r = 1 .. Len(c) + w - 1
      /\ \A k \in 1 .. i - 1 : r[k] = c[k]
      /\ \A k \in i + 1 .. Len(c) : r[k + w - 1] = c[k]
  BY JunkAtFacts
<1>2. \A m \in DOMAIN r : r[m].kind # "junk" =>
        \E k \in DOMAIN c : k # i /\ m = Moved(k, i, w) /\ r[m] = c[k]
  BY JunkAtOrigin
<1> HIDE DEF w, r
<1>3. ASSUME NEW v \in Values(r) PROVE v \in Values(c)
  <2>1. PICK n \in DOMAIN r : Good(r[n]) /\ v = r[n].of
    BY <1>3 DEF Values
  <2>2. PICK m \in DOMAIN c : r[n] = c[m]
    BY <1>2, <2>1 DEF Good
  <2> QED
    BY <2>1, <2>2 DEF Values
<1>4. ASSUME NEW v \in Values(c) PROVE v \in Values(r) \cup (IF Good(c[i]) THEN {c[i].of} ELSE {})
  <2>1. PICK m \in DOMAIN c : Good(c[m]) /\ v = c[m].of
    BY <1>4 DEF Values
  <2>2. CASE m = i
    BY <2>1, <2>2
  <2>3. CASE m < i
    <3>1. m \in 1 .. i - 1 /\ m \in DOMAIN r
      BY <1>1, <2>3
    <3>2. r[m] = c[m]
      BY <1>1, <3>1
    <3> QED
      BY <2>1, <3>1, <3>2 DEF Values
  <2>4. CASE m > i
    <3>1. m \in i + 1 .. Len(c) /\ m + w - 1 \in DOMAIN r
      BY <1>1, <2>4
    <3>2. r[m + w - 1] = c[m]
      BY <1>1, <3>1
    <3> QED
      BY <2>1, <3>1, <3>2 DEF Values
  <2> QED
    BY <1>1, <2>2, <2>3, <2>4
<1> QED
  BY <1>3, <1>4 DEF r

\* The scanner reports what became junk once more, as its buffer holds it all.
LEMMA JunkAtOwed ==
  ASSUME NEW c \in Seq(Tokens), NEW i \in DOMAIN c, c[i].kind # "junk",
         Width(c[i]) < MaxErrorSize, NEW len \in Nat, NEW u \in Nat, Owed(c, len, u)
  PROVE  Owed(JunkAt(c, i), len, u + 1)
<1> DEFINE w == Width(c[i])
           r == JunkAt(c, i)
<1>1. /\ i \in 1 .. Len(c) /\ Len(c) \in Nat /\ DOMAIN c = 1 .. Len(c) /\ w \in Nat \ {0}
      /\ DOMAIN r = 1 .. Len(c) + w - 1
      /\ \A k \in 1 .. i - 1 : r[k] = c[k]
      /\ \A k \in i .. i + w - 1 : r[k] = Junk
      /\ \A k \in i + 1 .. Len(c) : r[k + w - 1] = c[k]
  BY JunkAtFacts
<1>2. w < MaxErrorSize /\ MaxErrorSize \in Nat
  BY SizesAssumption
<1> HIDE DEF w, r
<1>3. PICK K \in SUBSET DOMAIN c : Pieces(c, len, K) /\ Cardinality(K) + One(len > 0) <= u
  BY DEF Owed
<1> DEFINE J == K \cup {i}
           to(k) == IF k <= i THEN k ELSE k + w - 1
           L == {to(k) : k \in J}
<1>4. L \in SUBSET DOMAIN r
  <2> SUFFICES ASSUME NEW k \in J PROVE to(k) \in DOMAIN r
    OBVIOUS
  <2>1. k \in Nat /\ 1 <= k /\ k <= Len(c) /\ i \in Nat /\ w \in Nat /\ 1 <= w /\ Len(c) \in Nat
    BY <1>1
  <2> QED
    BY <1>1, <2>1
<1>5. Cardinality(L) \in Nat /\ Cardinality(K) \in Nat /\ Cardinality(L) <= Cardinality(K) + 1
  <2>1. IsFiniteSet(K)
    <3>1. IsFiniteSet(DOMAIN c)
      BY <1>1, FS_Interval
    <3> QED
      BY <3>1, FS_Subset
  <2>2. Cardinality(K) \in Nat
    BY <2>1, FS_CardinalityType
  <2>3. IsFiniteSet(J) /\ Cardinality(J) = IF i \in K THEN Cardinality(K) ELSE Cardinality(K) + 1
    BY <2>1, FS_AddElement
  <2> HIDE DEF J
  <2> DEFINE f == [k \in J |-> to(k)]
  <2>4. f \in Surjection(J, L)
    <3>1. \A k \in J : f[k] \in L
      OBVIOUS
    <3>2. \A y \in L : \E k \in J : f[k] = y
      OBVIOUS
    <3> QED
      BY <3>1, <3>2, Fun_IsSurj
  <2> HIDE DEF f, L
  <2>5. IsFiniteSet(L) /\ Cardinality(L) <= Cardinality(J)
    BY <2>3, <2>4, FS_Surjection
  <2>6. Cardinality(L) \in Nat
    BY <2>5, FS_CardinalityType
  <2> QED
    BY <2>2, <2>3, <2>5, <2>6
<1>6. Pieces(r, len, L)
  <2> SUFFICES ASSUME NEW n \in DOMAIN r, r[n].kind = "junk"
               PROVE  \/ len > 0 /\ n + len < MaxErrorSize /\ Junks(r, 1, n)
                      \/ \E s \in L : s <= n /\ n < s + (MaxErrorSize - 1) /\ Junks(r, s, n)
    BY DEF Pieces
  <2>0. /\ i \in Nat /\ Len(c) \in Nat /\ w \in Nat /\ n \in Nat /\ 1 <= n
        /\ 1 <= i /\ i <= Len(c) /\ 1 <= w /\ n <= Len(c) + w - 1
    BY <1>1
  <2>1. CASE n < i
    <3>1. n \in 1 .. i - 1 /\ n \in DOMAIN c
      BY <1>1, <2>0, <2>1
    <3>2. c[n].kind = "junk"
      BY <1>1, <3>1
    <3>3. \A s \in Nat \ {0} : Junks(c, s, n) => Junks(r, s, n)
      <4> SUFFICES ASSUME NEW s \in Nat \ {0}, Junks(c, s, n), NEW x \in s .. n PROVE r[x].kind = "junk"
        BY DEF Junks
      <4>1. x \in 1 .. i - 1
        BY <2>0, <2>1
      <4> QED
        BY <1>1, <4>1 DEF Junks
    <3>4. CASE len > 0 /\ n + len < MaxErrorSize /\ Junks(c, 1, n)
      BY <3>3, <3>4
    <3>5. ASSUME NEW s \in K, s <= n, n < s + (MaxErrorSize - 1), Junks(c, s, n)
          PROVE  s \in L /\ Junks(r, s, n)
      <4>1. s \in Nat \ {0} /\ s \in J /\ s <= i
        BY <1>1, <2>0, <2>1, <3>5
      <4>2. to(s) = s
        BY <4>1
      <4> QED
        BY <3>3, <3>5, <4>1, <4>2
    <3> HIDE DEF L
    <3> QED
      BY <1>3, <3>1, <3>2, <3>4, <3>5 DEF Pieces
  <2>2. CASE i <= n /\ n <= i + w - 1
    <3>1. i \in L
      <4>1. i \in J /\ to(i) = i
        BY <2>0
      <4> QED
        BY <4>1
    <3>2. n < i + (MaxErrorSize - 1)
      BY <1>2, <2>0, <2>2
    <3>3. Junks(r, i, n)
      <4> SUFFICES ASSUME NEW x \in i .. n PROVE r[x].kind = "junk"
        BY DEF Junks
      <4>1. x \in i .. i + w - 1
        BY <2>0, <2>2
      <4> QED
        BY <1>1, <4>1, TokensOnTheLine
    <3> HIDE DEF L
    <3> QED
      BY <2>2, <3>1, <3>2, <3>3
  <2>3. CASE n > i + w - 1
    <3> DEFINE m == n - w + 1
    <3>1. m \in Nat /\ i < m /\ m <= Len(c) /\ m + w - 1 = n
      BY <2>0, <2>3
    <3> HIDE DEF m
    <3>2. m \in i + 1 .. Len(c) /\ m \in DOMAIN c
      BY <1>1, <2>0, <3>1
    <3>3. c[m].kind = "junk"
      BY <1>1, <3>1, <3>2
    <3>4. ~ Junks(c, 1, m)
      <4>1. i \in 1 .. m
        BY <2>0, <3>1
      <4> QED
        BY <4>1 DEF Junks
    <3>5. PICK s \in K : s <= m /\ m < s + (MaxErrorSize - 1) /\ Junks(c, s, m)
      BY <1>3, <3>2, <3>3, <3>4 DEF Pieces
    <3>6. s \in Nat /\ i < s
      <4>1. s \in Nat
        BY <1>1
      <4>2. i \notin s .. m
        BY <3>5 DEF Junks
      <4> QED
        BY <2>0, <3>1, <4>1, <4>2
    <3>7. s + w - 1 \in L
      <4>1. s \in J /\ to(s) = s + w - 1
        BY <2>0, <3>6
      <4> QED
        BY <4>1
    <3>8. Junks(r, s + w - 1, n)
      <4> SUFFICES ASSUME NEW x \in s + w - 1 .. n PROVE r[x].kind = "junk"
        BY DEF Junks
      <4> DEFINE y == x - w + 1
      <4>1. y \in Int /\ s <= y /\ y <= m /\ y + w - 1 = x
        BY <2>0, <3>1, <3>6
      <4> HIDE DEF y
      <4>2. y \in s .. m /\ y \in i + 1 .. Len(c)
        BY <2>0, <3>1, <3>6, <4>1
      <4>3. c[y].kind = "junk"
        BY <3>5, <4>2 DEF Junks
      <4> QED
        BY <1>1, <4>1, <4>2, <4>3
    <3>9. s + w - 1 <= n /\ n < (s + w - 1) + (MaxErrorSize - 1)
      BY <1>2, <2>0, <3>1, <3>5, <3>6
    <3> HIDE DEF L
    <3> QED
      BY <3>7, <3>8, <3>9
  <2> QED
    BY <2>0, <2>1, <2>2, <2>3
<1> HIDE DEF L
<1>7. Cardinality(L) + One(len > 0) <= u + 1
  BY <1>3, <1>5 DEF One
<1> QED
  BY <1>4, <1>6, <1>7 DEF Owed, r

-----------------------------------------------------------------------------
(***************************************************************************)
(* What a rule of the scanner writes                                       *)
(***************************************************************************)
LEMMA Written ==
  ASSUME NEW c \in Seq(Tokens), NEW a \in Tokens, NEW b \in Tokens
  PROVE  /\ c \o << >> = c
         /\ c \o <<a>> = Append(c, a)
         /\ c \o <<a, b>> = Append(Append(c, a), b)
<1>1. c \o << >> = c
  BY ConcatEmptySeq
<1>2. c \o <<a>> = Append(c, a)
  BY AppendIsConcat
<1>3. c \o (<<a>> \o <<b>>) = (c \o <<a>>) \o <<b>>
  BY ConcatAssociative
<1>4. Append(c, a) \in Seq(Tokens)
  BY AppendProperties
<1>5. Append(c, a) \o <<b>> = Append(Append(c, a), b)
  BY <1>4, AppendIsConcat
<1> QED
  BY <1>1, <1>2, <1>3, <1>5, TwoTokens

\* What a channel holds once the scanner at its other end, which had kept len
\* invalid bytes, has reported them.
Told(c, len) == IF len > 0 THEN Append(c, Nak) ELSE c

\* Nothing or one token is what a rule writes of its own.
Brief(w) == w = << >> \/ \E t \in Tokens : w = <<t>>

Types ==
  /\ TypeOK
  /\ pc = [e \in Ends |-> pc[e]]
  /\ pc[Sim] = "handling" => request \in Commands

LEMMA TypedState ==
  ASSUME Types, NEW e \in Ends
  PROVE  /\ Other(e) \in Ends /\ Other(e) # e /\ (\A x \in Ends : x = e \/ x = Other(e))
         /\ chan[e] \in Seq(Tokens) /\ errlen[e] \in 0 .. MaxErrorSize - 1 /\ errlen[e] \in Nat
         /\ packet[e] \in Commands \cup {NoPacket} /\ packet[e] \in Nat
         /\ Len(answered) \in Nat /\ Current \in Nat \ {0} /\ Len(executed) \in Nat
<1>1. Other(e) \in Ends /\ Other(e) # e /\ (\A x \in Ends : x = e \/ x = Other(e))
  BY Ends2 DEF Ends
<1>2. chan[e] \in Seq(Tokens) /\ errlen[e] \in 0 .. MaxErrorSize - 1 /\ packet[e] \in Commands \cup {NoPacket}
  BY DEF Types, TypeOK
<1>3. errlen[e] \in Nat
  BY <1>2, SizesAssumption
<1>4. packet[e] \in Nat
  <2>1. packet[e] \in Commands \/ packet[e] = 0
    BY <1>2 DEF NoPacket
  <2>2. \A i \in Commands : i \in Nat
    BY CommandsAreNumbers
  <2> QED
    BY <2>1, <2>2
<1>5. Len(answered) \in Nat /\ Len(executed) \in Nat
  BY LenProperties DEF Types, TypeOK
<1> QED
  BY <1>1, <1>2, <1>3, <1>4, <1>5 DEF Current

LEMMA ToldType ==
  ASSUME NEW c \in Seq(Tokens), NEW len
  PROVE  Told(c, len) \in Seq(Tokens)
<1>1. Append(c, Nak) \in Seq(Tokens)
  BY AppendProperties, TokensOnTheLine
<1> QED
  BY <1>1 DEF Told

\* The other end's channel after handle_error and the rule's own bytes.
LEMMA WrittenBy ==
  ASSUME Types, NEW e \in Ends, NEW c \in Seq(Tokens), NEW w, Brief(w)
  PROVE  /\ c \o (HandleError(e) \o w) \in Seq(Tokens)
         /\ w = << >> => c \o (HandleError(e) \o w) = Told(c, errlen[e])
         /\ \A t \in Tokens : w = <<t>> => c \o (HandleError(e) \o w) = Append(Told(c, errlen[e]), t)
<1>0. Nak \in Tokens
  BY TokensOnTheLine
<1>1. CASE w = << >>
  <2>1. HandleError(e) \o w = IF errlen[e] > 0 THEN <<Nak>> ELSE << >>
    BY <1>1, OneToken DEF HandleError
  <2>2. c \o << >> = c /\ c \o <<Nak>> = Append(c, Nak)
    BY <1>0, Written
  <2>3. c \o (HandleError(e) \o w) = Told(c, errlen[e])
    BY <2>1, <2>2 DEF Told
  <2>4. \A t : w # <<t>>
    BY <1>1
  <2> QED
    BY <2>3, <2>4, ToldType
<1>2. ASSUME NEW t \in Tokens, w = <<t>>
      PROVE  /\ c \o (HandleError(e) \o w) \in Seq(Tokens)
             /\ c \o (HandleError(e) \o w) = Append(Told(c, errlen[e]), t)
  <2>1. HandleError(e) \o w = IF errlen[e] > 0 THEN <<Nak, t>> ELSE <<t>>
    BY <1>2, OneToken, TwoTokens DEF HandleError
  <2>2. c \o <<t>> = Append(c, t) /\ c \o <<Nak, t>> = Append(Append(c, Nak), t)
    BY <1>0, Written
  <2>3. c \o (HandleError(e) \o w) = Append(Told(c, errlen[e]), t)
    BY <2>1, <2>2 DEF Told
  <2>4. Append(Told(c, errlen[e]), t) \in Seq(Tokens)
    BY ToldType, AppendProperties
  <2> QED
    BY <2>3, <2>4
<1>3. ASSUME NEW t PROVE <<t>> # << >>
  OBVIOUS
<1> QED
  BY <1>1, <1>2, <1>3 DEF Brief

LEMMA RuleWrites ==
  ASSUME Types, NEW e \in Ends, chan[e] # << >>, NEW w, Brief(w), Rule(e, w)
  PROVE  /\ chan'[e] = Tail(chan[e])
         /\ w = << >> => chan'[Other(e)] = Told(chan[Other(e)], errlen[e])
         /\ \A t \in Tokens : w = <<t>> => chan'[Other(e)] = Append(Told(chan[Other(e)], errlen[e]), t)
         /\ errlen'[e] = 0 /\ errlen'[Other(e)] = errlen[Other(e)]
         /\ chan' \in [Ends -> Seq(Tokens)] /\ errlen' \in [Ends -> 0 .. MaxErrorSize - 1]
<1> DEFINE o == Other(e)
<1>1. o \in Ends /\ o # e /\ (\A x \in Ends : x = e \/ x = o) /\ chan[e] \in Seq(Tokens)
  BY TypedState
<1>2. chan[o] \in Seq(Tokens)
  BY <1>1, TypedState
<1>3. chan' = [chan EXCEPT ![e] = Tail(chan[e]), ![o] = chan[o] \o (HandleError(e) \o w)]
  BY <1>1 DEF Rule, Consume
<1>4. errlen' = [errlen EXCEPT ![e] = 0]
  BY DEF Rule
<1>5. chan \in [Ends -> Seq(Tokens)] /\ errlen \in [Ends -> 0 .. MaxErrorSize - 1]
  BY DEF Types, TypeOK
<1> DEFINE d == chan[o] \o (HandleError(e) \o w)
<1>6. /\ d \in Seq(Tokens)
      /\ w = << >> => d = Told(chan[o], errlen[e])
      /\ \A t \in Tokens : w = <<t>> => d = Append(Told(chan[o], errlen[e]), t)
  BY <1>2, WrittenBy
<1> HIDE DEF o, d
<1>7. chan' = [chan EXCEPT ![e] = Tail(chan[e]), ![o] = d]
  BY <1>3 DEF d
<1>8. Tail(chan[e]) \in Seq(Tokens)
  BY <1>1, Taken
<1>9. chan'[e] = Tail(chan[e]) /\ chan'[o] = d /\ chan' \in [Ends -> Seq(Tokens)]
  BY <1>1, <1>5, <1>6, <1>7, <1>8
<1>10. errlen'[e] = 0 /\ errlen'[o] = errlen[o] /\ errlen' \in [Ends -> 0 .. MaxErrorSize - 1]
  BY <1>1, <1>4, <1>5, SizesAssumption
<1> QED
  BY <1>6, <1>9, <1>10 DEF o

-----------------------------------------------------------------------------
(***************************************************************************)
(* The types                                                               *)
(***************************************************************************)
LEMMA TypesInit == Init => Types
<1> SUFFICES ASSUME Init PROVE Types
  OBVIOUS
<1> USE SizesAssumption DEF Init
<1>1. /\ pc[Client] = "ready" /\ pc[Sim] = "scanning" /\ pc = [e \in Ends |-> pc[e]]
  BY Ends2
<1>2. packet \in [Ends -> Commands \cup {NoPacket}] /\ errlen \in [Ends -> 0 .. MaxErrorSize - 1]
      /\ request \in Commands \cup {NoPacket}
  OBVIOUS
<1>3. chan \in [Ends -> Seq(Tokens)] /\ executed \in Seq(Commands) /\ answered \in Seq(Commands \cup {EOF})
  BY EmptySeq
<1>4. faults \in [frame : Nat, byte : Nat, death : Nat]
  OBVIOUS
<1> QED
  BY <1>1, <1>2, <1>3, <1>4 DEF Types, TypeOK

\* A rule that changes nothing but the line.
LEMMA TypesRule ==
  ASSUME Types, NEW e \in Ends, chan[e] # << >>, NEW w, Brief(w), Rule(e, w),
         UNCHANGED <<pc, packet, request, executed, answered, faults>>
  PROVE  Types'
<1>1. chan' \in [Ends -> Seq(Tokens)] /\ errlen' \in [Ends -> 0 .. MaxErrorSize - 1]
  BY RuleWrites
<1> QED
  BY <1>1 DEF Types, TypeOK

LEMMA BriefRules ==
  ASSUME Types, NEW e \in Ends
  PROVE  Brief(<< >>) /\ Brief(<<Ack>>) /\ Brief(<<Nak>>) /\ Brief(Transmitted(e))
<1>1. Brief(<< >>) /\ Brief(<<Ack>>) /\ Brief(<<Nak>>)
  BY TokensOnTheLine DEF Brief
<1>2. Brief(Transmitted(e))
  <2>1. CASE packet[e] = NoPacket
    BY <2>1 DEF Transmitted, Brief
  <2>2. CASE packet[e] # NoPacket
    <3>1. Frame(packet[e]) \in Tokens
      BY <2>2, TypedState, TokensOnTheLine
    <3> QED
      BY <2>2, <3>1 DEF Transmitted, Brief
  <2> QED
    BY <2>1, <2>2
<1> QED
  BY <1>1, <1>2

LEMMA TypesJunk ==
  ASSUME Types, NEW e \in Ends, AddCharacterToError(e)
  PROVE  /\ Types'
         /\ chan'[e] = Tail(chan[e])
         /\ errlen'[e] = IF ErrorFull(errlen[e]) THEN 1 ELSE errlen[e] + 1
         /\ errlen'[Other(e)] = errlen[Other(e)]
         /\ chan'[Other(e)] = IF ErrorFull(errlen[e]) THEN Told(chan[Other(e)], errlen[e]) ELSE chan[Other(e)]
<1> DEFINE o == Other(e)
           w == IF ErrorFull(errlen[e]) THEN HandleError(e) ELSE << >>
           d == chan[o] \o w
<1>1. o \in Ends /\ o # e /\ (\A x \in Ends : x = e \/ x = o) /\ chan[e] \in Seq(Tokens) /\ chan[e] # << >>
  BY TypedState DEF AddCharacterToError, Scanning
<1>2. chan[o] \in Seq(Tokens)
  BY <1>1, TypedState
<1>3. /\ chan' = [chan EXCEPT ![e] = Tail(chan[e]), ![o] = d]
      /\ errlen' = [errlen EXCEPT ![e] = IF ErrorFull(errlen[e]) THEN 1 ELSE errlen[e] + 1]
      /\ UNCHANGED <<pc, packet, request, executed, answered, faults>>
  BY <1>1 DEF AddCharacterToError, Consume
<1>4. chan \in [Ends -> Seq(Tokens)] /\ errlen \in [Ends -> 0 .. MaxErrorSize - 1]
  BY DEF Types, TypeOK
<1>5. d = IF ErrorFull(errlen[e]) THEN Told(chan[o], errlen[e]) ELSE chan[o]
  <2>1. chan[o] \o << >> = chan[o] /\ chan[o] \o <<Nak>> = Append(chan[o], Nak)
    BY <1>2, Written, TokensOnTheLine
  <2> QED
    BY <2>1 DEF HandleError, Told
<1>6. d \in Seq(Tokens)
  BY <1>2, <1>5, ToldType
<1> HIDE DEF o, d
<1>7. Tail(chan[e]) \in Seq(Tokens)
  BY <1>1, Taken
<1>8. chan'[e] = Tail(chan[e]) /\ chan'[o] = d /\ chan' \in [Ends -> Seq(Tokens)]
  BY <1>1, <1>3, <1>4, <1>6, <1>7
<1>9. /\ errlen'[e] = IF ErrorFull(errlen[e]) THEN 1 ELSE errlen[e] + 1
      /\ errlen'[o] = errlen[o] /\ errlen' \in [Ends -> 0 .. MaxErrorSize - 1]
  <2>1. errlen[e] \in 0 .. MaxErrorSize - 1
    BY <1>4
  <2>2. (IF ErrorFull(errlen[e]) THEN 1 ELSE errlen[e] + 1) \in 0 .. MaxErrorSize - 1
    BY <2>1, SizesAssumption DEF ErrorFull
  <2> QED
    BY <1>1, <1>3, <1>4, <2>2
<1>10. Types'
  BY <1>3, <1>8, <1>9 DEF Types, TypeOK
<1> QED
  BY <1>5, <1>8, <1>9, <1>10 DEF o

LEMMA TypesScan ==
  ASSUME Types, NEW e \in Ends, Scan(e)
  PROVE  Types'
<1>1. CASE ReceiveAck(e)
  BY <1>1, TypesRule, BriefRules DEF ReceiveAck, Scanning
<1>2. CASE ReceiveNak(e)
  BY <1>2, TypesRule, BriefRules DEF ReceiveNak, Scanning
<1>3. CASE ReceiveBadPacket(e)
  BY <1>3, TypesRule, BriefRules DEF ReceiveBadPacket, Scanning
<1>4. CASE AddCharacterToError(e)
  BY <1>4, TypesJunk
<1> QED
  BY <1>1, <1>2, <1>3, <1>4 DEF Scan

LEMMA TypesSend ==
  ASSUME Types, SendCommand
  PROVE  /\ Types'
         /\ chan'[Client] = chan[Client] /\ chan'[Sim] = Append(chan[Sim], Frame(Current))
         /\ packet'[Client] = Current /\ packet'[Sim] = packet[Sim]
         /\ pc'[Client] = "scanning" /\ pc'[Sim] = pc[Sim]
<1>1. /\ Current \in Commands
      /\ packet' = [packet EXCEPT ![Client] = Current]
      /\ chan' = [chan EXCEPT ![Sim] = Append(chan[Sim], Frame(Current))]
      /\ pc' = [pc EXCEPT ![Client] = "scanning"]
      /\ UNCHANGED <<errlen, request, executed, answered, faults>>
  BY DEF SendCommand
<1>2. chan \in [Ends -> Seq(Tokens)] /\ packet \in [Ends -> Commands \cup {NoPacket}]
      /\ pc = [e \in Ends |-> pc[e]]
  BY DEF Types, TypeOK
<1>3. Append(chan[Sim], Frame(Current)) \in Seq(Tokens)
  BY <1>1, <1>2, Ends2, TokensOnTheLine, AppendProperties
<1> DEFINE d == Append(chan[Sim], Frame(Current))
<1> HIDE DEF d
<1>4. chan'[Client] = chan[Client] /\ chan'[Sim] = d /\ chan' \in [Ends -> Seq(Tokens)]
  BY <1>1, <1>2, <1>3, Ends2 DEF d
<1>5. packet'[Client] = Current /\ packet'[Sim] = packet[Sim] /\ packet' \in [Ends -> Commands \cup {NoPacket}]
  BY <1>1, <1>2, Ends2
<1>6. pc'[Client] = "scanning" /\ pc'[Sim] = pc[Sim] /\ pc' = [e \in Ends |-> pc'[e]]
  BY <1>1, <1>2, Ends2
<1>7. Types'
  BY <1>1, <1>4, <1>5, <1>6 DEF Types, TypeOK
<1> QED
  BY <1>4, <1>5, <1>6, <1>7 DEF d

LEMMA TypesAnswer ==
  ASSUME Types, ReceiveAnswer
  PROVE  /\ Types'
         /\ Rule(Client, <<Ack>>) /\ chan[Client] # << >> /\ Good(Head(chan[Client]))
         /\ pc[Client] = "scanning" /\ pc'[Client] \in {"ready", "closed"} /\ pc'[Sim] = pc[Sim]
         /\ Len(answered') = Len(answered) + 1 /\ Current' = Current + 1
         /\ \A i \in 1 .. Len(answered) : answered'[i] = answered[i]
         /\ answered'[Current] = Head(chan[Client]).of
         /\ UNCHANGED <<packet, request, executed, faults>>
<1>1. /\ pc[Client] = "scanning" /\ chan[Client] # << >> /\ Good(Head(chan[Client]))
      /\ Rule(Client, <<Ack>>)
      /\ answered' = Append(answered, Head(chan[Client]).of)
      /\ pc' = [pc EXCEPT ![Client] = After(Program[Current], Head(chan[Client]).of)]
      /\ UNCHANGED <<packet, request, executed, faults>>
  BY DEF ReceiveAnswer, TakeAnswer, Scanning, Good
<1>2. /\ chan' \in [Ends -> Seq(Tokens)] /\ errlen' \in [Ends -> 0 .. MaxErrorSize - 1]
  <2>1. Brief(<<Ack>>)
    BY BriefRules, Ends2
  <2> QED
    BY <1>1, <2>1, RuleWrites, Ends2
<1>3. Head(chan[Client]).of \in Commands
  <2>1. Head(chan[Client]) \in Tokens
    BY <1>1, Taken, TypedState, Ends2
  <2> QED
    BY <1>1, <2>1, TokenFacts DEF Good
<1>4. /\ answered' \in Seq(Commands \cup {EOF}) /\ Len(answered') = Len(answered) + 1
      /\ \A i \in 1 .. Len(answered) : answered'[i] = answered[i]
      /\ answered'[Len(answered) + 1] = Head(chan[Client]).of
  BY <1>1, <1>3, AppendProperties DEF Types, TypeOK
<1>5. After(Program[Current], Head(chan[Client]).of) \in {"ready", "closed"}
  BY DEF After
<1>6. pc'[Client] \in {"ready", "closed"} /\ pc'[Sim] = pc[Sim] /\ pc' = [e \in Ends |-> pc'[e]]
  BY <1>1, <1>5, Ends2 DEF Types
<1>7. Types'
  BY <1>1, <1>2, <1>4, <1>6 DEF Types, TypeOK
<1>8. Current' = Current + 1
  BY <1>4, TypedState, Ends2 DEF Current
<1> QED
  BY <1>1, <1>4, <1>6, <1>7, <1>8 DEF Current

LEMMA TypesEOF ==
  ASSUME Types, ReceiveEOF
  PROVE  /\ Types'
         /\ pc[Sim] = "exited" /\ pc'[Sim] = "exited" /\ chan[Client] = << >> /\ chan'[Client] = << >>
         /\ pc[Client] = "scanning" /\ pc'[Client] \in {"ready", "closed"}
         /\ Len(answered') = Len(answered) + 1 /\ Current' = Current + 1
         /\ \A i \in 1 .. Len(answered) : answered'[i] = answered[i]
         /\ answered'[Current] = EOF
         /\ UNCHANGED <<packet, request, executed, faults>>
<1>1. /\ pc[Client] = "scanning" /\ chan[Client] = << >> /\ pc[Sim] = "exited"
      /\ chan' = [chan EXCEPT ![Sim] = chan[Sim] \o HandleError(Client)]
      /\ errlen' = [errlen EXCEPT ![Client] = 0]
      /\ answered' = Append(answered, EOF)
      /\ pc' = [pc EXCEPT ![Client] = After(Program[Current], EOF)]
      /\ UNCHANGED <<packet, request, executed, faults>>
  BY DEF ReceiveEOF, TakeAnswer
<1>2. chan[Sim] \o HandleError(Client) \in Seq(Tokens)
  <2>1. chan[Sim] \o (HandleError(Client) \o << >>) \in Seq(Tokens)
    <3>1. Brief(<< >>) /\ chan[Sim] \in Seq(Tokens)
      BY BriefRules, TypedState, Ends2
    <3> QED
      BY <3>1, WrittenBy, Ends2
  <2>2. HandleError(Client) \o << >> = HandleError(Client)
    BY OneToken DEF HandleError
  <2> QED
    BY <2>1, <2>2
<1> DEFINE d == chan[Sim] \o HandleError(Client)
<1> HIDE DEF d
<1>3. chan' \in [Ends -> Seq(Tokens)] /\ chan'[Client] = chan[Client]
  <2>1. chan' = [chan EXCEPT ![Sim] = d] /\ d \in Seq(Tokens)
    BY <1>1, <1>2 DEF d
  <2> QED
    BY <2>1, Ends2 DEF Types, TypeOK
<1>4. errlen' \in [Ends -> 0 .. MaxErrorSize - 1]
  <2>1. errlen \in [Ends -> 0 .. MaxErrorSize - 1] /\ errlen' = [errlen EXCEPT ![Client] = 0]
    BY <1>1 DEF Types, TypeOK
  <2>2. 0 \in 0 .. MaxErrorSize - 1
    BY SizesAssumption
  <2> QED
    BY <2>1, <2>2
<1>5. /\ answered' \in Seq(Commands \cup {EOF}) /\ Len(answered') = Len(answered) + 1
      /\ \A i \in 1 .. Len(answered) : answered'[i] = answered[i]
      /\ answered'[Len(answered) + 1] = EOF
  BY <1>1, AppendProperties DEF Types, TypeOK
<1>6. After(Program[Current], EOF) \in {"ready", "closed"}
  BY DEF After
<1>7. pc'[Client] \in {"ready", "closed"} /\ pc'[Sim] = pc[Sim] /\ pc' = [e \in Ends |-> pc'[e]]
  BY <1>1, <1>6, Ends2 DEF Types
<1>8. Types'
  BY <1>1, <1>3, <1>4, <1>5, <1>7 DEF Types, TypeOK
<1>9. Current' = Current + 1
  BY <1>5, TypedState, Ends2 DEF Current
<1> QED
  BY <1>1, <1>3, <1>5, <1>7, <1>8, <1>9 DEF Current

LEMMA TypesReset ==
  ASSUME Types, ConnectionReset
  PROVE  /\ Types'
         /\ pc[Sim] = "exited" /\ pc'[Sim] = "exited" /\ pc'[Client] = "killed"
         /\ UNCHANGED <<packet, errlen, chan, request, executed, answered, faults>>
<1>1. /\ pc[Sim] = "exited" /\ pc' = [pc EXCEPT ![Client] = "killed"]
      /\ UNCHANGED <<packet, errlen, chan, request, executed, answered, faults>>
  BY DEF ConnectionReset
<1>2. pc'[Sim] = "exited" /\ pc'[Client] = "killed" /\ pc' = [e \in Ends |-> pc'[e]]
  BY <1>1, Ends2 DEF Types
<1>3. Types'
  BY <1>1, <1>2 DEF Types, TypeOK
<1> QED
  BY <1>1, <1>2, <1>3

LEMMA TypesCommand ==
  ASSUME Types, ReceiveCommand
  PROVE  /\ Types'
         /\ Rule(Sim, <<Ack>>) /\ chan[Sim] # << >> /\ Good(Head(chan[Sim]))
         /\ request' = Head(chan[Sim]).of
         /\ pc[Sim] = "scanning" /\ pc'[Sim] = "handling" /\ pc'[Client] = pc[Client]
         /\ UNCHANGED <<packet, executed, answered, faults>>
<1>1. /\ pc[Sim] = "scanning" /\ chan[Sim] # << >> /\ Good(Head(chan[Sim]))
      /\ Rule(Sim, <<Ack>>)
      /\ request' = Head(chan[Sim]).of
      /\ pc' = [pc EXCEPT ![Sim] = "handling"]
      /\ UNCHANGED <<packet, executed, answered, faults>>
  BY DEF ReceiveCommand, Scanning, Good
<1>2. /\ chan' \in [Ends -> Seq(Tokens)] /\ errlen' \in [Ends -> 0 .. MaxErrorSize - 1]
  <2>1. Brief(<<Ack>>)
    BY BriefRules, Ends2
  <2> QED
    BY <1>1, <2>1, RuleWrites, Ends2
<1>3. Head(chan[Sim]).of \in Commands
  <2>1. Head(chan[Sim]) \in Tokens
    BY <1>1, Taken, TypedState, Ends2
  <2> QED
    BY <1>1, <2>1, TokenFacts DEF Good
<1>4. pc'[Sim] = "handling" /\ pc'[Client] = pc[Client] /\ pc' = [e \in Ends |-> pc'[e]]
  BY <1>1, Ends2 DEF Types
<1>5. Types'
  BY <1>1, <1>2, <1>3, <1>4 DEF Types, TypeOK
<1> QED
  BY <1>1, <1>4, <1>5

LEMMA TypesExecute ==
  ASSUME Types, Execute
  PROVE  /\ Types'
         /\ pc[Sim] = "handling" /\ request \in Commands /\ pc'[Client] = pc[Client]
         /\ executed' = Append(executed, request) /\ Len(executed') = Len(executed) + 1
         /\ \A i \in 1 .. Len(executed) : executed'[i] = executed[i]
         /\ executed'[Len(executed) + 1] = request
         /\ UNCHANGED <<errlen, request, answered, faults>>
         /\ packet'[Client] = packet[Client] /\ chan'[Sim] = chan[Sim]
         /\ \/ /\ pc'[Sim] = "scanning" /\ packet'[Sim] = request
               /\ chan'[Client] = Append(chan[Client], Frame(request))
            \/ pc'[Sim] = "exited" /\ packet' = packet /\ chan' = chan
<1>1. /\ pc[Sim] = "handling" /\ request \in Commands
      /\ executed' = Append(executed, request)
      /\ UNCHANGED <<errlen, request, answered, faults>>
  BY DEF Execute, Types
<1>2. /\ executed' \in Seq(Commands) /\ Len(executed') = Len(executed) + 1
      /\ \A i \in 1 .. Len(executed) : executed'[i] = executed[i]
      /\ executed'[Len(executed) + 1] = request
  BY <1>1, AppendProperties DEF Types, TypeOK
<1>3. chan \in [Ends -> Seq(Tokens)] /\ packet \in [Ends -> Commands \cup {NoPacket}]
      /\ pc = [e \in Ends |-> pc[e]]
  BY DEF Types, TypeOK
<1>4. CASE /\ packet' = [packet EXCEPT ![Sim] = request]
           /\ chan' = [chan EXCEPT ![Client] = Append(chan[Client], Frame(request))]
           /\ pc' = [pc EXCEPT ![Sim] = "scanning"]
  <2> DEFINE d == Append(chan[Client], Frame(request))
  <2>1. d \in Seq(Tokens)
    BY <1>1, <1>3, Ends2, TokensOnTheLine, AppendProperties
  <2>2. chan' = [chan EXCEPT ![Client] = d]
    BY <1>4
  <2> HIDE DEF d
  <2>3. chan'[Sim] = chan[Sim] /\ chan'[Client] = d /\ chan' \in [Ends -> Seq(Tokens)]
    BY <1>3, <2>1, <2>2, Ends2
  <2>4. packet'[Sim] = request /\ packet'[Client] = packet[Client] /\ packet' \in [Ends -> Commands \cup {NoPacket}]
    BY <1>1, <1>3, <1>4, Ends2
  <2>5. pc'[Sim] = "scanning" /\ pc'[Client] = pc[Client] /\ pc' = [e \in Ends |-> pc'[e]]
    BY <1>3, <1>4, Ends2
  <2>6. Types'
    BY <1>1, <1>2, <2>3, <2>4, <2>5 DEF Types, TypeOK
  <2> QED
    BY <1>1, <1>2, <2>3, <2>4, <2>5, <2>6 DEF d
<1>5. CASE pc' = [pc EXCEPT ![Sim] = "exited"] /\ UNCHANGED <<packet, chan>>
  <2>1. pc'[Sim] = "exited" /\ pc'[Client] = pc[Client] /\ pc' = [e \in Ends |-> pc'[e]]
    BY <1>3, <1>5, Ends2
  <2>2. Types'
    BY <1>1, <1>2, <1>5, <2>1 DEF Types, TypeOK
  <2> QED
    BY <1>1, <1>2, <1>5, <2>1, <2>2
<1> QED
  BY <1>4, <1>5 DEF Execute

LEMMA TypesDeath ==
  ASSUME Types, SimDies
  PROVE  /\ Types'
         /\ pc[Sim] # "exited" /\ pc'[Sim] = "exited" /\ pc'[Client] = pc[Client]
         /\ UNCHANGED <<packet, errlen, chan, request, executed, answered>>
         /\ faults'.byte = faults.byte /\ faults'.frame = faults.frame
<1>1. /\ faults.death > 0 /\ pc[Sim] # "exited" /\ pc' = [pc EXCEPT ![Sim] = "exited"]
      /\ faults' = [faults EXCEPT !.death = faults.death - 1]
      /\ UNCHANGED <<packet, errlen, chan, request, executed, answered>>
  BY DEF SimDies
<1>2. pc'[Sim] = "exited" /\ pc'[Client] = pc[Client] /\ pc' = [e \in Ends |-> pc'[e]]
  BY <1>1, Ends2 DEF Types
<1>3. faults' \in [frame : Nat, byte : Nat, death : Nat] /\ faults'.byte = faults.byte /\ faults'.frame = faults.frame
  <2>1. faults \in [frame : Nat, byte : Nat, death : Nat]
    BY DEF Types, TypeOK
  <2>2. faults.death > 0 /\ faults' = [faults EXCEPT !.death = faults.death - 1]
    BY <1>1
  <2> QED
    BY <2>1, <2>2
<1>4. Types'
  BY <1>1, <1>2, <1>3 DEF Types, TypeOK
<1> QED
  BY <1>1, <1>2, <1>3, <1>4

LEMMA TypesGarbleFrame ==
  ASSUME Types, NEW e \in Ends, GarbleFrame(e)
  PROVE  /\ Types'
         /\ \E i \in DOMAIN chan[e] :
              chan[e][i].kind = "frame" /\ chan'[e] = DamagedAt(chan[e], i)
         /\ chan'[Other(e)] = chan[Other(e)]
         /\ UNCHANGED <<pc, packet, errlen, request, executed, answered>>
         /\ faults'.byte = faults.byte /\ faults'.frame = faults.frame - 1
<1>1. PICK i \in DOMAIN chan[e] :
        /\ chan[e][i].kind = "frame"
        /\ chan' = [chan EXCEPT ![e] = [chan[e] EXCEPT ![i] = [chan[e][i] EXCEPT !.ok = FALSE]]]
  BY DEF GarbleFrame
<1>2. /\ faults.frame > 0 /\ faults' = [faults EXCEPT !.frame = faults.frame - 1]
      /\ UNCHANGED <<pc, packet, errlen, request, executed, answered>>
  BY DEF GarbleFrame
<1> DEFINE d == DamagedAt(chan[e], i)
<1>3. chan' = [chan EXCEPT ![e] = d]
  BY <1>1 DEF DamagedAt
<1>4. d \in Seq(Tokens)
  BY <1>1, TypedState, DamagedFacts
<1> HIDE DEF d
<1>5. chan'[e] = d /\ chan'[Other(e)] = chan[Other(e)] /\ chan' \in [Ends -> Seq(Tokens)]
  BY <1>3, <1>4, TypedState DEF Types, TypeOK
<1>6. faults' \in [frame : Nat, byte : Nat, death : Nat]
      /\ faults'.byte = faults.byte /\ faults'.frame = faults.frame - 1
  <2>1. faults \in [frame : Nat, byte : Nat, death : Nat]
    BY DEF Types, TypeOK
  <2>2. faults.frame > 0 /\ faults' = [faults EXCEPT !.frame = faults.frame - 1]
    BY <1>2
  <2> QED
    BY <2>1, <2>2
<1>7. Types'
  BY <1>2, <1>5, <1>6 DEF Types, TypeOK
<1> QED
  BY <1>1, <1>2, <1>5, <1>6, <1>7 DEF d

LEMMA TypesGarbleToken ==
  ASSUME Types, NEW e \in Ends, GarbleToken(e)
  PROVE  /\ Types'
         /\ \E i \in DOMAIN chan[e] :
              chan[e][i].kind # "junk" /\ chan'[e] = JunkAt(chan[e], i)
         /\ chan'[Other(e)] = chan[Other(e)]
         /\ UNCHANGED <<pc, packet, errlen, request, executed, answered>>
         /\ faults'.byte = faults.byte - 1 /\ faults'.frame = faults.frame
<1>1. PICK i \in DOMAIN chan[e] :
        /\ chan[e][i] # Junk
        /\ chan' = [chan EXCEPT ![e] = JunkAt(chan[e], i)]
  BY DEF GarbleToken, JunkAt
<1>2. /\ faults.byte > 0 /\ faults' = [faults EXCEPT !.byte = faults.byte - 1]
      /\ UNCHANGED <<pc, packet, errlen, request, executed, answered>>
  BY DEF GarbleToken
<1>3. chan[e][i].kind # "junk"
  <2>1. chan[e] \in Seq(Tokens)
    BY TypedState
  <2>2. i \in 1 .. Len(chan[e])
    BY <2>1, LenProperties
  <2>3. chan[e][i] \in Tokens
    BY <2>1, <2>2, ElementOfSeq
  <2> QED
    BY <1>1, <2>3, TokenFacts
<1> DEFINE d == JunkAt(chan[e], i)
<1>4. d \in Seq(Tokens)
  BY TypedState, JunkAtFacts
<1> HIDE DEF d
<1>5. chan'[e] = d /\ chan'[Other(e)] = chan[Other(e)] /\ chan' \in [Ends -> Seq(Tokens)]
  BY <1>1, <1>4, TypedState DEF Types, TypeOK, d
<1>6. faults' \in [frame : Nat, byte : Nat, death : Nat]
      /\ faults'.byte = faults.byte - 1 /\ faults'.frame = faults.frame
  <2>1. faults \in [frame : Nat, byte : Nat, death : Nat]
    BY DEF Types, TypeOK
  <2>2. faults.byte > 0 /\ faults' = [faults EXCEPT !.byte = faults.byte - 1]
    BY <1>2
  <2> QED
    BY <2>1, <2>2
<1>7. Types'
  BY <1>2, <1>5, <1>6 DEF Types, TypeOK
<1> QED
  BY <1>1, <1>2, <1>3, <1>5, <1>6, <1>7 DEF d

LEMMA TypesNext == Types /\ [Next]_vars => Types'
<1> SUFFICES ASSUME Types, [Next]_vars PROVE Types'
  OBVIOUS
<1>1. CASE Scan(Client) \/ Scan(Sim)
  BY <1>1, TypesScan, Ends2
<1>2. CASE SendCommand \/ ReceiveAnswer \/ ReceiveEOF \/ ConnectionReset
  BY <1>2, TypesSend, TypesAnswer, TypesEOF, TypesReset
<1>3. CASE ReceiveCommand \/ Execute \/ SimDies
  BY <1>3, TypesCommand, TypesExecute, TypesDeath
<1>4. CASE \E e \in Ends : GarbleFrame(e) \/ GarbleToken(e)
  BY <1>4, TypesGarbleFrame, TypesGarbleToken
<1>5. CASE UNCHANGED vars
  BY <1>5 DEF vars, Types, TypeOK
<1> QED
  BY <1>1, <1>2, <1>3, <1>4, <1>5 DEF Next, ClientStep, SimStep, Faults

\* TypeOK: whatever arrives, add_character_to_error and handle_error keep the
\* NUL that ends the invalid data inside its buffer.
THEOREM TypesCorrect == Spec => []TypeOK
<1>1. Spec => []Types
  BY TypesInit, TypesNext, PTL DEF Spec
<1>2. Types => TypeOK
  BY DEF Types
<1> QED
  BY <1>1, <1>2, PTL

-----------------------------------------------------------------------------
(***************************************************************************)
(* The invariant under noise                                               *)
(***************************************************************************)
Garbled == ByteFaults - faults.byte   \* the tokens that became junk so far
Harmed == FrameFaults - faults.frame  \* the frames damaged so far
Busy == One(pc[Sim] = "handling")
Away == One(pc[Client] # "scanning")
Ran == Len(executed)
Frames(e) == Number(chan[e], "frame")
Naks(e) == Number(chan[e], "nak")

\* The last command that the simulator took, and all that it took or will take.
Low == IF pc[Sim] = "handling" THEN request ELSE packet[Sim]
Issued == Range(executed) \cup (IF pc[Sim] = "handling" THEN {request} ELSE {}) \cup Values(chan[Sim])

\* Each end asks for what it is at; answers come in order and none before its command.
Asks ==
  /\ pc[Client] = "scanning" => Current \in Commands /\ packet[Client] = Current
  /\ pc[Client] = "ready" => packet[Client] < Current
  /\ packet[Client] <= Current /\ packet[Sim] <= Low /\ Low <= packet[Client]
  /\ Ordered(chan[Client], 0, packet[Sim])

\* Commands reach the simulator in order.
InOrder ==
  /\ \A m, n \in DOMAIN executed : m < n => executed[m] <= executed[n]
  /\ pc[Sim] # "exited" =>
       /\ \A m \in DOMAIN executed : executed[m] <= Low
       /\ Ordered(chan[Sim], Low, packet[Client])

\* The answers on their way are as late as there were garbled tokens, less the
\* answers before them.
AnswersLate == Late(chan[Client], Current - 1 - Garbled)

\* How far behind the client the simulator can still be, when u and v are the
\* reports of invalid data that client and simulator will make.
Gap(u) == Current + Frames(Client) + Naks(Sim) + u - 1 - Garbled

\* Only a garbled token adds to the frames, requests and reports under way;
\* each of them is a lag at most, or a command carried out again.
Within(u, v) ==
  /\ Owed(chan[Client], errlen[Client], u) /\ Owed(chan[Sim], errlen[Sim], v)
  /\ Frames(Client) + Naks(Client) + u + Busy + Frames(Sim) + Naks(Sim) + v + Away <= 1 + Garbled
  /\ Gap(u) <= packet[Sim]
  /\ pc[Sim] = "handling" => Gap(u) + 1 <= request
  /\ Late(chan[Sim], Gap(u) + Busy)
  /\ Ran + Busy + Frames(Sim) + Naks(Client) + v <= Cardinality(Issued) + Garbled + Harmed
Bounds == pc[Sim] # "exited" => \E u, v \in Nat : Within(u, v)

RepeatsAfterExit ==
  pc[Sim] = "exited" => Len(executed) <= Cardinality(Range(executed)) + Garbled + Harmed

Noise ==
  /\ Types /\ Asks /\ InOrder /\ AnswersLate /\ Bounds
  /\ LagBoundedByFaults /\ RepeatsAfterExit

LEMMA NoiseNumbers ==
  ASSUME Types
  PROVE  /\ \A e \in Ends : Frames(e) \in Nat /\ Naks(e) \in Nat
         /\ Busy \in 0 .. 1 /\ Away \in 0 .. 1
         /\ Garbled \in Int /\ Harmed \in Int /\ faults.byte \in Nat /\ faults.frame \in Nat
         /\ Low \in Nat
<1>1. ASSUME NEW e \in Ends PROVE Frames(e) \in Nat /\ Naks(e) \in Nat
  <2>1. Len(chan[e]) \in Nat
    BY TypedState, LenProperties
  <2> QED
    BY <2>1, UptoType DEF Frames, Naks, Number
<1>2. Busy \in 0 .. 1 /\ Away \in 0 .. 1
  BY DEF Busy, Away, One
<1>3. faults.byte \in Nat /\ faults.frame \in Nat
  BY DEF Types, TypeOK
<1>4. Garbled \in Int /\ Harmed \in Int
  BY <1>3, SizesAssumption DEF Garbled, Harmed
<1>5. Low \in Nat
  <2>1. packet[Sim] \in Nat
    BY TypedState, Ends2
  <2>2. pc[Sim] = "handling" => request \in Nat
    BY CommandsAreNumbers DEF Types
  <2> QED
    BY <2>1, <2>2 DEF Low
<1> QED
  BY <1>1, <1>2, <1>3, <1>4, <1>5

-----------------------------------------------------------------------------
(***************************************************************************)
(* What a step does to the lines                                           *)
(***************************************************************************)
\* A token other than junk is read.
LEMMA ReadHere ==
  ASSUME Types, NEW e \in Ends, chan[e] # << >>, Head(chan[e]).kind # "junk",
         chan'[e] = Tail(chan[e]), errlen'[e] = 0
  PROVE  /\ Frames(e)' = Frames(e) - One(Head(chan[e]).kind = "frame")
         /\ Naks(e)' = Naks(e) - One(Head(chan[e]).kind = "nak")
         /\ \A base \in Int : Late(chan[e], base) =>
              /\ Late(chan'[e], base + One(Head(chan[e]).kind = "frame"))
              /\ Good(Head(chan[e])) => base + 1 <= Head(chan[e]).of
         /\ \A low, high \in Nat : Ordered(chan[e], low, high) =>
              /\ Ordered(chan'[e], low, high)
              /\ Good(Head(chan[e])) =>
                   /\ low <= Head(chan[e]).of /\ Head(chan[e]).of <= high
                   /\ Ordered(chan'[e], Head(chan[e]).of, high)
         /\ \A u \in Nat : Owed(chan[e], errlen[e], u) =>
              u - One(errlen[e] > 0) \in Nat /\ Owed(chan'[e], errlen'[e], u - One(errlen[e] > 0))
         /\ Values(chan[e]) = Values(chan'[e]) \cup
              (IF Good(Head(chan[e])) THEN {Head(chan[e]).of} ELSE {})
<1> DEFINE c == chan[e]
<1>1. c \in Seq(Tokens) /\ c # << >> /\ Head(c).kind # "junk" /\ errlen[e] \in Nat
  BY TypedState
<1> HIDE DEF c
<1>2. /\ Number(Tail(c), "frame") = Number(c, "frame") - One(Head(c).kind = "frame")
      /\ Number(Tail(c), "nak") = Number(c, "nak") - One(Head(c).kind = "nak")
  BY <1>1, TakenNumbers DEF One
<1>3. \A base \in Int : Late(c, base) =>
        /\ Late(Tail(c), base + One(Head(c).kind = "frame"))
        /\ Good(Head(c)) => base + 1 <= Head(c).of
  BY <1>1, TakenLate
<1>4. \A low, high \in Nat : Ordered(c, low, high) =>
        /\ Ordered(Tail(c), low, high)
        /\ Good(Head(c)) =>
             /\ low <= Head(c).of /\ Head(c).of <= high
             /\ Ordered(Tail(c), Head(c).of, high)
  BY <1>1, TakenOrdered
<1>5. \A u \in Nat : Owed(c, errlen[e], u) =>
        u - One(errlen[e] > 0) \in Nat /\ Owed(Tail(c), 0, u - One(errlen[e] > 0))
  BY <1>1, TakenOwed
<1>6. Values(c) = Values(Tail(c)) \cup (IF Good(Head(c)) THEN {Head(c).of} ELSE {})
  BY <1>1, TakenValues
<1>7. c = chan[e] /\ Tail(c) = chan'[e]
  BY DEF c
<1>8. /\ Frames(e)' = Number(Tail(c), "frame") /\ Naks(e)' = Number(Tail(c), "nak")
      /\ Frames(e) = Number(c, "frame") /\ Naks(e) = Number(c, "nak")
  BY <1>7 DEF Frames, Naks
<1> QED
  BY <1>2, <1>3, <1>4, <1>5, <1>6, <1>7, <1>8

LEMMA ToldChannel ==
  ASSUME NEW c \in Seq(Tokens), NEW len \in Nat
  PROVE  /\ Told(c, len) \in Seq(Tokens)
         /\ Number(Told(c, len), "frame") = Number(c, "frame")
         /\ Number(Told(c, len), "nak") = Number(c, "nak") + One(len > 0)
         /\ \A base \in Int : Late(c, base) => Late(Told(c, len), base)
         /\ \A low, high \in Nat :
              low <= high /\ Ordered(c, low, high) => Ordered(Told(c, len), low, high)
         /\ \A k, u \in Nat : Owed(c, k, u) => Owed(Told(c, len), k, u)
         /\ Values(Told(c, len)) = Values(c)
<1>1. CASE len > 0
  <2>1. Nak \in Tokens /\ Nak.kind = "nak" /\ ~Good(Nak)
    BY TokensOnTheLine DEF Good
  <2>2. /\ Number(Append(c, Nak), "frame") = Number(c, "frame")
        /\ Number(Append(c, Nak), "nak") = Number(c, "nak") + 1
    BY <2>1, WrittenNumbers DEF One
  <2>3. \A base \in Int : Late(c, base) => Late(Append(c, Nak), base)
    BY <2>1, WrittenLate
  <2>4. \A low, high \in Nat :
          low <= high /\ Ordered(c, low, high) => Ordered(Append(c, Nak), low, high)
    BY <2>1, WrittenOrdered
  <2>5. \A k, u \in Nat : Owed(c, k, u) => Owed(Append(c, Nak), k, u)
    BY <2>1, WrittenOwed
  <2>6. Values(Append(c, Nak)) = Values(c)
    BY <2>1, WrittenValues
  <2>7. Told(c, len) = Append(c, Nak) /\ One(len > 0) = 1
    BY <1>1 DEF Told, One
  <2> QED
    BY <2>2, <2>3, <2>4, <2>5, <2>6, <2>7, ToldType
<1>2. CASE ~(len > 0)
  <2>1. Told(c, len) = c /\ One(len > 0) = 0
    BY <1>2 DEF Told, One
  <2>2. Number(c, "nak") \in Nat
    BY LenProperties, UptoType DEF Number
  <2> QED
    BY <2>1, <2>2
<1> QED
  BY <1>1, <1>2

\* The other end's scanner reports what it kept, if anything.
LEMMA ToldThere ==
  ASSUME Types, NEW e \in Ends, NEW len \in Nat,
         chan'[e] = Told(chan[e], len), errlen'[e] = errlen[e]
  PROVE  /\ Frames(e)' = Frames(e) /\ Naks(e)' = Naks(e) + One(len > 0)
         /\ \A base \in Int : Late(chan[e], base) => Late(chan'[e], base)
         /\ \A low, high \in Nat :
              low <= high /\ Ordered(chan[e], low, high) => Ordered(chan'[e], low, high)
         /\ \A u \in Nat : Owed(chan[e], errlen[e], u) => Owed(chan'[e], errlen'[e], u)
         /\ Values(chan'[e]) = Values(chan[e])
<1>1. chan[e] \in Seq(Tokens) /\ errlen[e] \in Nat
  BY TypedState
<1> DEFINE c == chan[e]
           d == Told(c, len)
<1> HIDE DEF c
<1>2. /\ Number(d, "frame") = Number(c, "frame")
      /\ Number(d, "nak") = Number(c, "nak") + One(len > 0)
      /\ \A base \in Int : Late(c, base) => Late(d, base)
      /\ \A low, high \in Nat : low <= high /\ Ordered(c, low, high) => Ordered(d, low, high)
      /\ \A k, u \in Nat : Owed(c, k, u) => Owed(d, k, u)
      /\ Values(d) = Values(c)
  <2>1. c \in Seq(Tokens)
    BY <1>1 DEF c
  <2> QED
    BY <2>1, ToldChannel
<1> HIDE DEF d
<1>3. c = chan[e] /\ d = chan'[e]
  BY DEF c, d
<1>4. /\ Frames(e)' = Number(d, "frame") /\ Naks(e)' = Number(d, "nak")
      /\ Frames(e) = Number(c, "frame") /\ Naks(e) = Number(c, "nak")
  BY <1>3 DEF Frames, Naks
<1> QED
  BY <1>1, <1>2, <1>3, <1>4

\* It may write a token of its own after that.
LEMMA SentThere ==
  ASSUME Types, NEW e \in Ends, NEW len \in Nat, NEW t \in Tokens, t.kind # "junk",
         chan'[e] = Append(Told(chan[e], len), t), errlen'[e] = errlen[e]
  PROVE  /\ Frames(e)' = Frames(e) + One(t.kind = "frame")
         /\ Naks(e)' = Naks(e) + One(len > 0) + One(t.kind = "nak")
         /\ \A base \in Int :
              Late(chan[e], base) /\ (Good(t) => base + Frames(e) + 1 <= t.of) => Late(chan'[e], base)
         /\ \A low, high, top \in Nat :
              low <= high /\ high <= top /\ (Good(t) => t.of = top) /\ Ordered(chan[e], low, high)
                => Ordered(chan'[e], low, top)
         /\ \A u \in Nat : Owed(chan[e], errlen[e], u) => Owed(chan'[e], errlen'[e], u)
         /\ Values(chan'[e]) = Values(chan[e]) \cup (IF Good(t) THEN {t.of} ELSE {})
<1>1. chan[e] \in Seq(Tokens) /\ errlen[e] \in Nat
  BY TypedState
<1> DEFINE c == chan[e]
           b == Told(c, len)
           d == Append(b, t)
<1> HIDE DEF c
<1>2. /\ b \in Seq(Tokens)
      /\ Number(b, "frame") = Number(c, "frame")
      /\ Number(b, "nak") = Number(c, "nak") + One(len > 0)
      /\ \A base \in Int : Late(c, base) => Late(b, base)
      /\ \A low, high \in Nat : low <= high /\ Ordered(c, low, high) => Ordered(b, low, high)
      /\ \A k, u \in Nat : Owed(c, k, u) => Owed(b, k, u)
      /\ Values(b) = Values(c)
  <2>1. c \in Seq(Tokens)
    BY <1>1 DEF c
  <2> QED
    BY <2>1, ToldChannel
<1> HIDE DEF b
<1>3. /\ Number(d, "frame") = Number(b, "frame") + One(t.kind = "frame")
      /\ Number(d, "nak") = Number(b, "nak") + One(t.kind = "nak")
  BY <1>2, WrittenNumbers
<1>4. \A base \in Int :
        Late(b, base) /\ (Good(t) => base + Number(b, "frame") + 1 <= t.of) => Late(d, base)
  BY <1>2, WrittenLate
<1>5. \A low, high, top \in Nat :
        low <= high /\ high <= top /\ (Good(t) => t.of = top) /\ Ordered(b, low, high) => Ordered(d, low, top)
  BY <1>2, WrittenOrdered
<1>6. \A k, u \in Nat : Owed(b, k, u) => Owed(d, k, u)
  BY <1>2, WrittenOwed
<1>7. Values(d) = Values(b) \cup (IF Good(t) THEN {t.of} ELSE {})
  BY <1>2, WrittenValues
<1> HIDE DEF d
<1>8. c = chan[e] /\ d = chan'[e]
  BY DEF c, b, d
<1>9. /\ Frames(e)' = Number(d, "frame") /\ Naks(e)' = Number(d, "nak")
      /\ Frames(e) = Number(c, "frame") /\ Naks(e) = Number(c, "nak")
  BY <1>8 DEF Frames, Naks
<1> QED
  BY <1>1, <1>2, <1>3, <1>4, <1>5, <1>6, <1>7, <1>8, <1>9

LEMMA NakThere ==
  ASSUME Types, NEW e \in Ends, NEW len \in Nat,
         chan'[e] = Append(Told(chan[e], len), Nak), errlen'[e] = errlen[e]
  PROVE  /\ Frames(e)' = Frames(e) /\ Naks(e)' = Naks(e) + One(len > 0) + 1
         /\ \A base \in Int : Late(chan[e], base) => Late(chan'[e], base)
         /\ \A low, high \in Nat :
              low <= high /\ Ordered(chan[e], low, high) => Ordered(chan'[e], low, high)
         /\ \A u \in Nat : Owed(chan[e], errlen[e], u) => Owed(chan'[e], errlen'[e], u)
         /\ Values(chan'[e]) = Values(chan[e])
<1>1. Nak \in Tokens /\ Nak.kind = "nak" /\ Nak.kind # "junk" /\ ~Good(Nak)
  BY TokensOnTheLine DEF Good
<1>2. /\ Frames(e)' = Frames(e) + One(Nak.kind = "frame")
      /\ Naks(e)' = Naks(e) + One(len > 0) + One(Nak.kind = "nak")
      /\ \A base \in Int :
           Late(chan[e], base) /\ (Good(Nak) => base + Frames(e) + 1 <= Nak.of) => Late(chan'[e], base)
      /\ \A low, high, top \in Nat :
           low <= high /\ high <= top /\ (Good(Nak) => Nak.of = top) /\ Ordered(chan[e], low, high)
             => Ordered(chan'[e], low, top)
      /\ \A u \in Nat : Owed(chan[e], errlen[e], u) => Owed(chan'[e], errlen'[e], u)
      /\ Values(chan'[e]) = Values(chan[e]) \cup (IF Good(Nak) THEN {Nak.of} ELSE {})
  BY <1>1, SentThere
<1>3. Frames(e) \in Nat /\ One(Nak.kind = "frame") = 0 /\ One(Nak.kind = "nak") = 1
  BY <1>1, NoiseNumbers DEF One
<1>4. Frames(e)' = Frames(e) /\ Naks(e)' = Naks(e) + One(len > 0) + 1
  BY <1>2, <1>3
<1>5. Values(chan'[e]) = Values(chan[e])
  BY <1>1, <1>2
<1>6. \A base \in Int : Late(chan[e], base) => Late(chan'[e], base)
  BY <1>1, <1>2, Zenon
<1>7. \A low, high \in Nat :
        low <= high /\ Ordered(chan[e], low, high) => Ordered(chan'[e], low, high)
  <2> SUFFICES ASSUME NEW low \in Nat, NEW high \in Nat, low <= high, Ordered(chan[e], low, high)
               PROVE  Ordered(chan'[e], low, high)
    BY Zenon
  <2>1. high <= high
    OBVIOUS
  <2> QED
    BY <1>1, <1>2, <2>1, Zenon
<1> QED
  BY <1>2, <1>4, <1>5, <1>6, <1>7, Zenon

LEMMA AckThere ==
  ASSUME Types, NEW e \in Ends, NEW len \in Nat,
         chan'[e] = Append(Told(chan[e], len), Ack), errlen'[e] = errlen[e]
  PROVE  /\ Frames(e)' = Frames(e) /\ Naks(e)' = Naks(e) + One(len > 0)
         /\ \A base \in Int : Late(chan[e], base) => Late(chan'[e], base)
         /\ \A low, high \in Nat :
              low <= high /\ Ordered(chan[e], low, high) => Ordered(chan'[e], low, high)
         /\ \A u \in Nat : Owed(chan[e], errlen[e], u) => Owed(chan'[e], errlen'[e], u)
         /\ Values(chan'[e]) = Values(chan[e])
<1>1. Ack \in Tokens /\ Ack.kind = "ack" /\ ~Good(Ack)
  BY TokensOnTheLine DEF Good
<1>2. /\ Frames(e)' = Frames(e) + One(Ack.kind = "frame")
      /\ Naks(e)' = Naks(e) + One(len > 0) + One(Ack.kind = "nak")
      /\ \A base \in Int :
           Late(chan[e], base) /\ (Good(Ack) => base + Frames(e) + 1 <= Ack.of) => Late(chan'[e], base)
      /\ \A low, high, top \in Nat :
           low <= high /\ high <= top /\ (Good(Ack) => Ack.of = top) /\ Ordered(chan[e], low, high)
             => Ordered(chan'[e], low, top)
      /\ \A u \in Nat : Owed(chan[e], errlen[e], u) => Owed(chan'[e], errlen'[e], u)
      /\ Values(chan'[e]) = Values(chan[e]) \cup (IF Good(Ack) THEN {Ack.of} ELSE {})
  BY <1>1, SentThere
<1>3. /\ Frames(e) \in Nat /\ Naks(e) \in Nat /\ One(len > 0) \in Nat
      /\ One(Ack.kind = "frame") = 0 /\ One(Ack.kind = "nak") = 0
  BY <1>1, NoiseNumbers DEF One
<1>4. Frames(e)' = Frames(e) /\ Naks(e)' = Naks(e) + One(len > 0)
  BY <1>2, <1>3
<1>5. Values(chan'[e]) = Values(chan[e])
  BY <1>1, <1>2
<1>6. \A base \in Int : Late(chan[e], base) => Late(chan'[e], base)
  BY <1>1, <1>2, Zenon
<1>7. \A low, high \in Nat :
        low <= high /\ Ordered(chan[e], low, high) => Ordered(chan'[e], low, high)
  <2> SUFFICES ASSUME NEW low \in Nat, NEW high \in Nat, low <= high, Ordered(chan[e], low, high)
               PROVE  Ordered(chan'[e], low, high)
    BY Zenon
  <2>1. high <= high
    OBVIOUS
  <2> QED
    BY <1>1, <1>2, <2>1, Zenon
<1> QED
  BY <1>2, <1>4, <1>5, <1>6, <1>7, Zenon

LEMMA FrameThere ==
  ASSUME Types, NEW e \in Ends, NEW len \in Nat, NEW i \in Commands,
         chan'[e] = Append(Told(chan[e], len), Frame(i)), errlen'[e] = errlen[e]
  PROVE  /\ Frames(e)' = Frames(e) + 1 /\ Naks(e)' = Naks(e) + One(len > 0)
         /\ \A base \in Int :
              Late(chan[e], base) /\ base + Frames(e) + 1 <= i => Late(chan'[e], base)
         /\ \A low, high \in Nat :
              low <= high /\ high <= i /\ Ordered(chan[e], low, high) => Ordered(chan'[e], low, i)
         /\ \A u \in Nat : Owed(chan[e], errlen[e], u) => Owed(chan'[e], errlen'[e], u)
         /\ Values(chan'[e]) = Values(chan[e]) \cup {i}
<1> DEFINE t == Frame(i)
<1>1. t \in Tokens /\ t.kind = "frame" /\ Good(t) /\ t.of = i /\ i \in Nat
  BY TokensOnTheLine, CommandsAreNumbers
<1>0. chan'[e] = Append(Told(chan[e], len), t)
  OBVIOUS
<1> HIDE DEF t
<1>2. /\ Frames(e)' = Frames(e) + One(t.kind = "frame")
      /\ Naks(e)' = Naks(e) + One(len > 0) + One(t.kind = "nak")
      /\ \A base \in Int :
           Late(chan[e], base) /\ (Good(t) => base + Frames(e) + 1 <= t.of) => Late(chan'[e], base)
      /\ \A low, high, top \in Nat :
           low <= high /\ high <= top /\ (Good(t) => t.of = top) /\ Ordered(chan[e], low, high)
             => Ordered(chan'[e], low, top)
      /\ \A u \in Nat : Owed(chan[e], errlen[e], u) => Owed(chan'[e], errlen'[e], u)
      /\ Values(chan'[e]) = Values(chan[e]) \cup (IF Good(t) THEN {t.of} ELSE {})
  BY <1>0, <1>1, SentThere
<1>3. /\ Naks(e) \in Nat /\ One(len > 0) \in Nat
      /\ One(t.kind = "frame") = 1 /\ One(t.kind = "nak") = 0
  BY <1>1, NoiseNumbers DEF One
<1>4. Frames(e)' = Frames(e) + 1 /\ Naks(e)' = Naks(e) + One(len > 0)
  BY <1>2, <1>3
<1>5. Values(chan'[e]) = Values(chan[e]) \cup {i}
  BY <1>1, <1>2
<1>6. \A base \in Int : Late(chan[e], base) /\ base + Frames(e) + 1 <= i => Late(chan'[e], base)
  BY <1>1, <1>2
<1>7. \A low, high \in Nat :
        low <= high /\ high <= i /\ Ordered(chan[e], low, high) => Ordered(chan'[e], low, i)
  BY <1>1, <1>2
<1> QED
  BY <1>2, <1>4, <1>5, <1>6, <1>7

-----------------------------------------------------------------------------
(***************************************************************************)
(* Steps that change nothing but the lines                                 *)
(***************************************************************************)
LEMMA SubtractMore ==
  ASSUME NEW a \in Int, NEW b \in Int, NEW c \in Int, b <= c
  PROVE  a - c <= a - b
OBVIOUS

\* The faults only grow in number.
LEMMA LinesOnly ==
  ASSUME Noise, Types', UNCHANGED <<pc, packet, request, executed, answered>>,
         Garbled <= Garbled', Harmed <= Harmed',
         Ordered(chan'[Client], 0, packet[Sim]),
         pc[Sim] # "exited" => Ordered(chan'[Sim], Low, packet[Client]),
         Late(chan'[Client], Current - 1 - Garbled),
         Bounds'
  PROVE  Noise'
<1>1. Current' = Current /\ Low' = Low
  BY DEF Current, Low
<1>2. Asks'
  BY <1>1 DEF Noise, Asks
<1>3. InOrder'
  BY <1>1 DEF Noise, InOrder
<1>4. Current \in Nat /\ Garbled \in Int /\ Harmed \in Int
  BY NoiseNumbers, TypedState, Ends2 DEF Noise
<1>5. Garbled' \in Int /\ Harmed' \in Int
  <2>1. faults' \in [frame : Nat, byte : Nat, death : Nat]
    BY DEF Types, TypeOK
  <2>2. faults'.byte \in Nat /\ faults'.frame \in Nat /\ ByteFaults \in Nat /\ FrameFaults \in Nat
    BY <2>1, SizesAssumption
  <2> QED
    BY <2>2 DEF Garbled, Harmed
<1>6. AnswersLate'
  <2>1. chan'[Client] \in Seq(Tokens)
    BY Ends2 DEF Types, TypeOK
  <2>2. Late(chan'[Client], Current - 1 - Garbled')
    <3>1. Current - 1 - Garbled \in Int /\ Current - 1 - Garbled' \in Int
      BY <1>4, <1>5
    <3>2. Current - 1 - Garbled' <= Current - 1 - Garbled
      <4>1. Current - 1 \in Int
        BY <1>4
      <4> QED
        BY <1>4, <1>5, <4>1, SubtractMore, Zenon
    <3> QED
      BY <2>1, <3>1, <3>2, LateLess
  <2> QED
    BY <1>1, <2>2 DEF AnswersLate
<1>7. LagBoundedByFaults'
  <2> SUFFICES ASSUME NEW i \in DOMAIN answered, answered[i] # EOF
               PROVE  answered[i] <= i /\ i <= answered[i] + Garbled'
    BY DEF LagBoundedByFaults, Garbled
  <2>1. answered[i] <= i /\ i <= answered[i] + Garbled
    BY DEF Noise, LagBoundedByFaults, Garbled
  <2>2. answered[i] \in Nat /\ i \in Nat
    <3>1. answered \in Seq(Commands \cup {EOF}) /\ i \in 1 .. Len(answered)
      BY LenProperties DEF Noise, Types, TypeOK
    <3>2. answered[i] \in Commands \cup {EOF}
      BY <3>1, ElementOfSeq
    <3>3. answered[i] \in Commands
      BY <3>2
    <3>4. \A k \in Commands : k \in Nat
      BY CommandsAreNumbers
    <3>5. i \in Nat
      BY <3>1
    <3> QED
      BY <3>3, <3>4, <3>5
  <2> QED
    BY <1>4, <1>5, <2>1, <2>2
<1>8. RepeatsAfterExit'
  <2>1. CASE pc[Sim] = "exited"
    <3>1. Len(executed) <= Cardinality(Range(executed)) + Garbled + Harmed
      BY <2>1 DEF Noise, RepeatsAfterExit
    <3>2. Len(executed) \in Nat /\ Cardinality(Range(executed)) \in Nat
      <4>1. Len(executed) \in Nat
        BY LenProperties DEF Noise, Types, TypeOK
      <4>2. IsFiniteSet(Range(executed))
        <5>1. DOMAIN executed = 1 .. Len(executed)
          BY LenProperties DEF Noise, Types, TypeOK
        <5>2. IsFiniteSet(DOMAIN executed)
          BY <4>1, <5>1, FS_Interval
        <5>3. executed \in Surjection(DOMAIN executed, Range(executed))
          <6>1. executed \in [DOMAIN executed -> Range(executed)]
            BY DEF Noise, Types, TypeOK, Range
          <6> QED
            BY <6>1, Fun_IsSurj DEF Range
        <5> QED
          BY <5>2, <5>3, FS_Surjection
      <4> QED
        BY <4>1, <4>2, FS_CardinalityType
    <3>3. Len(executed) <= Cardinality(Range(executed)) + Garbled' + Harmed'
      BY <1>4, <1>5, <3>1, <3>2
    <3> QED
      BY <3>3 DEF RepeatsAfterExit
  <2> QED
    BY <2>1 DEF RepeatsAfterExit
<1> QED
  BY <1>2, <1>3, <1>6, <1>7, <1>8 DEF Noise

\* All that is ever issued is a command of the program.
LEMMA IssuedFinite ==
  ASSUME Types
  PROVE  IsFiniteSet(Issued) /\ Cardinality(Issued) \in Nat
         /\ IsFiniteSet(Range(executed)) /\ Cardinality(Range(executed)) \in Nat
<1>1. IsFiniteSet(Commands)
  BY CommandsAreNumbers, FS_Interval DEF Commands
<1>2. Range(executed) \subseteq Commands
  BY DEF Types, TypeOK, Range
<1>3. Values(chan[Sim]) \subseteq Commands
  <2> SUFFICES ASSUME NEW n \in DOMAIN chan[Sim], Good(chan[Sim][n]) PROVE chan[Sim][n].of \in Commands
    BY DEF Values
  <2>1. chan[Sim] \in Seq(Tokens) /\ n \in 1 .. Len(chan[Sim])
    BY TypedState, Ends2, LenProperties
  <2> QED
    BY <2>1, ElementOfSeq, TokenFacts DEF Good
<1>4. Issued \subseteq Commands
  BY <1>2, <1>3 DEF Issued, Types
<1>5. IsFiniteSet(Issued) /\ IsFiniteSet(Range(executed))
  BY <1>1, <1>2, <1>4, FS_Subset
<1> QED
  BY <1>5, FS_CardinalityType

\* The same numbers after a step.
LEMMA Counts ==
  Types => /\ Types
           /\ Frames(Client) \in Nat /\ Naks(Client) \in Nat /\ Frames(Sim) \in Nat /\ Naks(Sim) \in Nat
           /\ Garbled \in Int /\ Harmed \in Int /\ Current \in Nat /\ Busy \in Nat /\ Away \in Nat
           /\ packet[Sim] \in Nat /\ Ran \in Nat
           /\ IsFiniteSet(Issued) /\ Cardinality(Issued) \in Nat
           /\ pc[Sim] = "handling" => request \in Nat
<1> SUFFICES ASSUME Types
             PROVE  /\ Frames(Client) \in Nat /\ Naks(Client) \in Nat /\ Frames(Sim) \in Nat /\ Naks(Sim) \in Nat
                    /\ Garbled \in Int /\ Harmed \in Int /\ Current \in Nat /\ Busy \in Nat /\ Away \in Nat
                    /\ packet[Sim] \in Nat /\ Ran \in Nat
                    /\ IsFiniteSet(Issued) /\ Cardinality(Issued) \in Nat
                    /\ pc[Sim] = "handling" => request \in Nat
  OBVIOUS
<1>1. /\ Frames(Client) \in Nat /\ Naks(Client) \in Nat /\ Frames(Sim) \in Nat /\ Naks(Sim) \in Nat
      /\ Garbled \in Int /\ Harmed \in Int
  BY NoiseNumbers, Ends2
<1>2. Busy \in Nat /\ Away \in Nat
  BY DEF Busy, Away, One
<1>3. Current \in Nat /\ packet[Sim] \in Nat /\ Ran \in Nat
  BY TypedState, Ends2 DEF Ran
<1>4. IsFiniteSet(Issued) /\ Cardinality(Issued) \in Nat
  BY IssuedFinite
<1>5. pc[Sim] = "handling" => request \in Nat
  BY CommandsAreNumbers DEF Types
<1> QED
  BY <1>1, <1>2, <1>3, <1>4, <1>5

LEMMA CountsNext ==
  Types' => /\ Frames(Client)' \in Nat /\ Naks(Client)' \in Nat /\ Frames(Sim)' \in Nat /\ Naks(Sim)' \in Nat
            /\ Garbled' \in Int /\ Harmed' \in Int /\ Current' \in Nat /\ Busy' \in Nat /\ Away' \in Nat
            /\ packet'[Sim] \in Nat /\ Ran' \in Nat
            /\ IsFiniteSet(Issued') /\ Cardinality(Issued') \in Nat
<1>1. (Types => /\ Types
                /\ Frames(Client) \in Nat /\ Naks(Client) \in Nat /\ Frames(Sim) \in Nat /\ Naks(Sim) \in Nat
                /\ Garbled \in Int /\ Harmed \in Int /\ Current \in Nat /\ Busy \in Nat /\ Away \in Nat
                /\ packet[Sim] \in Nat /\ Ran \in Nat
                /\ IsFiniteSet(Issued) /\ Cardinality(Issued) \in Nat
                /\ pc[Sim] = "handling" => request \in Nat)'
  BY Counts, PTL
<1> QED
  BY <1>1

\* What a step of the lines must not add to.
LEMMA WithinNext ==
  ASSUME Noise, Types', UNCHANGED <<pc, packet, request, executed, answered>>,
         NEW u \in Nat, NEW v \in Nat, NEW x \in Nat, NEW y \in Nat, Within(u, v),
         Owed(chan'[Client], errlen'[Client], x), Owed(chan'[Sim], errlen'[Sim], y),
         Frames(Client)' + Naks(Client)' + x + Frames(Sim)' + Naks(Sim)' + y - Garbled'
           <= Frames(Client) + Naks(Client) + u + Frames(Sim) + Naks(Sim) + v - Garbled,
         Frames(Client)' + Naks(Sim)' + x - Garbled' <= Frames(Client) + Naks(Sim) + u - Garbled,
         Late(chan'[Sim], Gap(u) + Busy),
         Frames(Sim)' + Naks(Client)' + y - Cardinality(Issued') - Garbled' - Harmed'
           <= Frames(Sim) + Naks(Client) + v - Cardinality(Issued) - Garbled - Harmed
  PROVE  Within(x, y)'
<1>1. Current' = Current /\ Busy' = Busy /\ Away' = Away /\ Ran' = Ran
  BY DEF Current, Busy, Away, Ran
<1>2. /\ Frames(Client) \in Nat /\ Naks(Client) \in Nat /\ Frames(Sim) \in Nat /\ Naks(Sim) \in Nat
      /\ Garbled \in Int /\ Harmed \in Int /\ Current \in Nat /\ Busy \in Nat /\ Away \in Nat
      /\ packet[Sim] \in Nat /\ Ran \in Nat /\ Cardinality(Issued) \in Nat
      /\ pc[Sim] = "handling" => request \in Nat
  BY Counts DEF Noise
<1>3. /\ Frames(Client)' \in Nat /\ Naks(Client)' \in Nat /\ Frames(Sim)' \in Nat /\ Naks(Sim)' \in Nat
      /\ Garbled' \in Int /\ Harmed' \in Int /\ Cardinality(Issued') \in Nat
  BY CountsNext
<1>4. /\ Gap(u) = Current + Frames(Client) + Naks(Sim) + u - 1 - Garbled
      /\ Gap(x)' = Current + Frames(Client)' + Naks(Sim)' + x - 1 - Garbled'
  BY <1>1 DEF Gap
<1>5. /\ Frames(Client) + Naks(Client) + u + Busy + Frames(Sim) + Naks(Sim) + v + Away <= 1 + Garbled
      /\ Gap(u) <= packet[Sim]
      /\ pc[Sim] = "handling" => Gap(u) + 1 <= request
      /\ Ran + Busy + Frames(Sim) + Naks(Client) + v <= Cardinality(Issued) + Garbled + Harmed
  BY DEF Within
<1>6. Gap(u) \in Int /\ Gap(x)' \in Int /\ Gap(x)' <= Gap(u)
  BY <1>2, <1>3, <1>4
<1>7. Frames(Client)' + Naks(Client)' + x + Busy + Frames(Sim)' + Naks(Sim)' + y + Away <= 1 + Garbled'
  BY <1>2, <1>3, <1>5
<1>8. Late(chan'[Sim], Gap(x)' + Busy)
  <2>1. chan'[Sim] \in Seq(Tokens)
    BY Ends2 DEF Types, TypeOK
  <2>2. Gap(u) + Busy \in Int /\ Gap(x)' + Busy \in Int /\ Gap(x)' + Busy <= Gap(u) + Busy
    BY <1>2, <1>6
  <2> QED
    BY <2>1, <2>2, LateLess
<1>9. Gap(x)' <= packet[Sim] /\ (pc[Sim] = "handling" => Gap(x)' + 1 <= request)
  BY <1>2, <1>5, <1>6
<1>10. Ran + Busy + Frames(Sim)' + Naks(Client)' + y <= Cardinality(Issued') + Garbled' + Harmed'
  BY <1>2, <1>3, <1>5
<1> QED
  BY <1>1, <1>6, <1>7, <1>8, <1>9, <1>10 DEF Within

LEMMA MoreIssued ==
  ASSUME Types, Types', Issued \subseteq Issued'
  PROVE  Cardinality(Issued) <= Cardinality(Issued')
<1>1. IsFiniteSet(Issued')
  BY CountsNext
<1> QED
  BY <1>1, FS_Subset

\* What the client's scanner takes without returning from yylex, and writes: a
\* frame (hf) or a request (hn) less, a report of junk (r), a frame (f) or a
\* request (n) more.
LEMMA ClientLines ==
  ASSUME Noise, Types', pc[Client] = "scanning",
         UNCHANGED <<pc, packet, request, executed, answered, faults>>,
         NEW r \in 0 .. 1, NEW hf \in 0 .. 1, NEW hn \in 0 .. 1, NEW f \in 0 .. 1, NEW n \in 0 .. 1,
         f <= hn, n <= hf, hf + hn <= 1,
         Frames(Client)' = Frames(Client) - hf, Naks(Client)' = Naks(Client) - hn,
         Frames(Sim)' = Frames(Sim) + f, Naks(Sim)' = Naks(Sim) + r + n,
         \A base \in Int : Late(chan[Client], base) => Late(chan'[Client], base + hf),
         \A low, high \in Nat : Ordered(chan[Client], low, high) => Ordered(chan'[Client], low, high),
         \A u \in Nat : Owed(chan[Client], errlen[Client], u) =>
           u - r \in Nat /\ Owed(chan'[Client], errlen'[Client], u - r),
         \A base \in Int : Late(chan[Sim], base) /\ (f = 1 => base + Frames(Sim) + 1 <= Current)
                             => Late(chan'[Sim], base),
         \A low \in Nat : low <= Current /\ Ordered(chan[Sim], low, Current) => Ordered(chan'[Sim], low, Current),
         \A v \in Nat : Owed(chan[Sim], errlen[Sim], v) => Owed(chan'[Sim], errlen'[Sim], v),
         Values(chan[Sim]) \subseteq Values(chan'[Sim])
  PROVE  Noise'
<1>1. Types /\ Client \in Ends /\ Sim \in Ends /\ Current \in Commands /\ packet[Client] = Current
  BY Ends2 DEF Noise, Asks
<1>2. Garbled' = Garbled /\ Harmed' = Harmed /\ Garbled \in Int /\ Harmed \in Int
  BY <1>1, Counts DEF Garbled, Harmed
<1>3. Ordered(chan'[Client], 0, packet[Sim])
  <2>1. packet[Sim] \in Nat
    BY <1>1, TypedState
  <2> QED
    BY <2>1 DEF Noise, Asks
<1>4. pc[Sim] # "exited" => Ordered(chan'[Sim], Low, packet[Client])
  <2>1. Low \in Nat /\ Low <= Current
    BY <1>1, NoiseNumbers DEF Noise, Asks
  <2> QED
    BY <1>1, <2>1 DEF Noise, InOrder
<1>5. Late(chan'[Client], Current - 1 - Garbled)
  <2>1. Current - 1 - Garbled \in Int /\ Current - 1 - Garbled + hf \in Int
        /\ Current - 1 - Garbled <= Current - 1 - Garbled + hf
    BY <1>1, <1>2, Counts
  <2>2. Late(chan'[Client], Current - 1 - Garbled + hf)
    BY <2>1 DEF Noise, AnswersLate
  <2>3. chan'[Client] \in Seq(Tokens)
    BY <1>1 DEF Types, TypeOK
  <2> QED
    BY <2>1, <2>2, <2>3, LateLess
<1>6. Bounds'
  <2> SUFFICES ASSUME pc[Sim] # "exited" PROVE \E x, y \in Nat : Within(x, y)'
    BY DEF Bounds
  <2>1. PICK u \in Nat, v \in Nat : Within(u, v)
    BY DEF Noise, Bounds
  <2>2. /\ u - r \in Nat /\ Owed(chan'[Client], errlen'[Client], u - r)
        /\ Owed(chan'[Sim], errlen'[Sim], v)
    BY <2>1 DEF Within
  <2>3. /\ Frames(Client) \in Nat /\ Naks(Client) \in Nat /\ Frames(Sim) \in Nat /\ Naks(Sim) \in Nat
        /\ Current \in Nat /\ Busy \in Nat /\ Away \in Nat /\ Cardinality(Issued) \in Nat
        /\ Naks(Client)' \in Nat /\ Cardinality(Issued') \in Nat
        /\ Frames(Client)' = Frames(Client) - hf /\ Naks(Client)' = Naks(Client) - hn
        /\ Frames(Sim)' = Frames(Sim) + f /\ Naks(Sim)' = Naks(Sim) + r + n
    BY <1>1, Counts, CountsNext
  <2>4. Frames(Client) + Naks(Client) + u + Busy + Frames(Sim) + Naks(Sim) + v + Away <= 1 + Garbled
    BY <2>1 DEF Within
  <2>5. Gap(u) = Current + Frames(Client) + Naks(Sim) + u - 1 - Garbled
    BY DEF Gap
  <2>6. Late(chan'[Sim], Gap(u) + Busy)
    <3>1. Gap(u) + Busy \in Int
      BY <1>2, <2>3, <2>5
    <3>2. f = 1 => Gap(u) + Busy + Frames(Sim) + 1 <= Current
      <4> SUFFICES ASSUME f = 1 PROVE Gap(u) + Busy + Frames(Sim) + 1 <= Current
        OBVIOUS
      <4>1. Naks(Client) >= 1
        BY <2>3
      <4> QED
        BY <1>2, <2>3, <2>4, <2>5, <4>1
    <3> QED
      BY <2>1, <3>1, <3>2 DEF Within
  <2>7. Cardinality(Issued) <= Cardinality(Issued')
    <3>1. Issued \subseteq Issued'
      BY DEF Issued
    <3> QED
      BY <1>1, <3>1, MoreIssued
  <2>8. Frames(Client)' + Naks(Client)' + (u - r) + Frames(Sim)' + Naks(Sim)' + v - Garbled'
          <= Frames(Client) + Naks(Client) + u + Frames(Sim) + Naks(Sim) + v - Garbled
    BY <1>2, <2>3
  <2>9. Frames(Client)' + Naks(Sim)' + (u - r) - Garbled' <= Frames(Client) + Naks(Sim) + u - Garbled
    BY <1>2, <2>3
  <2>10. Frames(Sim)' + Naks(Client)' + v - Cardinality(Issued') - Garbled' - Harmed'
           <= Frames(Sim) + Naks(Client) + v - Cardinality(Issued) - Garbled - Harmed
    BY <1>2, <2>3, <2>7
  <2>11. Within(u - r, v)'
    BY <2>1, <2>2, <2>6, <2>8, <2>9, <2>10, WithinNext
  <2> QED
    BY <2>2, <2>11
<1>7. Garbled <= Garbled' /\ Harmed <= Harmed'
  BY <1>2
<1> QED
  BY <1>3, <1>4, <1>5, <1>6, <1>7, LinesOnly

LEMMA ClientScans ==
  ASSUME Noise, Types', pc[Client] = "scanning",
         UNCHANGED <<pc, packet, request, executed, answered, faults>>,
         chan[Client] # << >>, Head(chan[Client]).kind # "junk",
         NEW w, Rule(Client, w), NEW f \in 0 .. 1, NEW n \in 0 .. 1,
         \/ w = << >> /\ f = 0 /\ n = 0
         \/ w = <<Nak>> /\ f = 0 /\ n = 1 /\ Head(chan[Client]).kind = "frame"
         \/ w = <<Frame(Current)>> /\ f = 1 /\ n = 0 /\ Head(chan[Client]).kind = "nak"
  PROVE  Noise'
<1> DEFINE k == Head(chan[Client]).kind
<1>1. PICK r \in 0 .. 1, hf \in 0 .. 1, hn \in 0 .. 1 :
        r = One(errlen[Client] > 0) /\ hf = One(k = "frame") /\ hn = One(k = "nak")
  <2>1. ASSUME NEW b PROVE One(b) \in 0 .. 1
    BY DEF One
  <2> QED
    BY <2>1, Zenon
<1>2. f <= hn /\ n <= hf /\ hf + hn <= 1
  BY <1>1 DEF One
<1>3. /\ Types /\ Client \in Ends /\ Sim \in Ends /\ Other(Client) = Sim
      /\ Current \in Commands /\ packet[Client] = Current /\ errlen[Client] \in Nat
  BY Ends2, TypedState DEF Noise, Asks
<1>4. Frame(Current) \in Tokens /\ Nak \in Tokens /\ Frame(Current).kind = "frame" /\ Nak.kind = "nak"
      /\ Good(Frame(Current)) /\ Frame(Current).of = Current /\ ~Good(Nak)
  BY <1>3, TokensOnTheLine DEF Good
<1>5. /\ chan'[Client] = Tail(chan[Client]) /\ errlen'[Client] = 0 /\ errlen'[Sim] = errlen[Sim]
      /\ w = << >> => chan'[Sim] = Told(chan[Sim], errlen[Client])
      /\ \A t \in Tokens : w = <<t>> => chan'[Sim] = Append(Told(chan[Sim], errlen[Client]), t)
  <2>1. Brief(w)
    BY <1>4 DEF Brief
  <2> QED
    BY <1>3, <2>1, RuleWrites
<1> HIDE DEF k
<1>6. /\ Frames(Client)' = Frames(Client) - hf /\ Naks(Client)' = Naks(Client) - hn
      /\ \A base \in Int : Late(chan[Client], base) => Late(chan'[Client], base + hf)
      /\ \A low, high \in Nat : Ordered(chan[Client], low, high) => Ordered(chan'[Client], low, high)
      /\ \A u \in Nat : Owed(chan[Client], errlen[Client], u) =>
           u - r \in Nat /\ Owed(chan'[Client], errlen'[Client], u - r)
  BY <1>1, <1>3, <1>5, ReadHere DEF k
<1>7. /\ Frames(Sim)' = Frames(Sim) + f /\ Naks(Sim)' = Naks(Sim) + r + n
      /\ \A base \in Int : Late(chan[Sim], base) /\ (f = 1 => base + Frames(Sim) + 1 <= Current)
                             => Late(chan'[Sim], base)
      /\ \A low \in Nat : low <= Current /\ Ordered(chan[Sim], low, Current) => Ordered(chan'[Sim], low, Current)
      /\ \A v \in Nat : Owed(chan[Sim], errlen[Sim], v) => Owed(chan'[Sim], errlen'[Sim], v)
      /\ Values(chan[Sim]) \subseteq Values(chan'[Sim])
  <2>0. Current \in Nat /\ Frames(Sim) \in Nat /\ Naks(Sim) \in Nat
    BY <1>3, Counts
  <2>1. CASE w = << >> /\ f = 0 /\ n = 0
    BY <1>1, <1>3, <1>5, <2>0, <2>1, ToldThere
  <2>2. CASE w = <<Nak>> /\ f = 0 /\ n = 1
    <3>1. chan'[Sim] = Append(Told(chan[Sim], errlen[Client]), Nak)
      BY <1>4, <1>5, <2>2
    <3>2. /\ Frames(Sim)' = Frames(Sim) /\ Naks(Sim)' = Naks(Sim) + One(errlen[Client] > 0) + 1
          /\ \A base \in Int : Late(chan[Sim], base) => Late(chan'[Sim], base)
          /\ \A low, high \in Nat :
               low <= high /\ Ordered(chan[Sim], low, high) => Ordered(chan'[Sim], low, high)
          /\ \A v \in Nat : Owed(chan[Sim], errlen[Sim], v) => Owed(chan'[Sim], errlen'[Sim], v)
          /\ Values(chan'[Sim]) = Values(chan[Sim])
      BY <1>3, <1>5, <3>1, NakThere
    <3>3. Frames(Sim)' = Frames(Sim) + f /\ Naks(Sim)' = Naks(Sim) + r + n
      BY <1>1, <2>0, <2>2, <3>2
    <3> QED
      BY <2>0, <3>2, <3>3
  <2>3. CASE w = <<Frame(Current)>> /\ f = 1 /\ n = 0
    <3>1. chan'[Sim] = Append(Told(chan[Sim], errlen[Client]), Frame(Current))
      BY <1>4, <1>5, <2>3
    <3>2. /\ Frames(Sim)' = Frames(Sim) + 1 /\ Naks(Sim)' = Naks(Sim) + One(errlen[Client] > 0)
          /\ \A base \in Int :
               Late(chan[Sim], base) /\ base + Frames(Sim) + 1 <= Current => Late(chan'[Sim], base)
          /\ \A low, high \in Nat :
               low <= high /\ high <= Current /\ Ordered(chan[Sim], low, high) => Ordered(chan'[Sim], low, Current)
          /\ \A v \in Nat : Owed(chan[Sim], errlen[Sim], v) => Owed(chan'[Sim], errlen'[Sim], v)
          /\ Values(chan'[Sim]) = Values(chan[Sim]) \cup {Current}
      BY <1>3, <1>5, <3>1, FrameThere
    <3>3. Frames(Sim)' = Frames(Sim) + f /\ Naks(Sim)' = Naks(Sim) + r + n
      BY <1>1, <2>0, <2>3, <3>2
    <3>4. \A low \in Nat : low <= Current /\ Ordered(chan[Sim], low, Current) => Ordered(chan'[Sim], low, Current)
      BY <2>0, <3>2
    <3> QED
      BY <2>3, <3>2, <3>3, <3>4
  <2> QED
    BY <2>1, <2>2, <2>3
<1> QED
  BY <1>2, <1>6, <1>7, ClientLines

\* The same for the simulator's scanner.
LEMMA SimLines ==
  ASSUME Noise, Types', pc[Sim] = "scanning",
         UNCHANGED <<pc, packet, request, executed, answered, faults>>,
         NEW r \in 0 .. 1, NEW hf \in 0 .. 1, NEW hn \in 0 .. 1, NEW f \in 0 .. 1, NEW n \in 0 .. 1,
         f <= hn, n <= hf, hf + hn <= 1,
         Frames(Sim)' = Frames(Sim) - hf, Naks(Sim)' = Naks(Sim) - hn,
         Frames(Client)' = Frames(Client) + f, Naks(Client)' = Naks(Client) + r + n,
         \A base \in Int : Late(chan[Sim], base) => Late(chan'[Sim], base + hf),
         \A low, high \in Nat : Ordered(chan[Sim], low, high) => Ordered(chan'[Sim], low, high),
         \A v \in Nat : Owed(chan[Sim], errlen[Sim], v) =>
           v - r \in Nat /\ Owed(chan'[Sim], errlen'[Sim], v - r),
         \A base \in Int : Late(chan[Client], base) /\ (f = 1 => base + Frames(Client) + 1 <= packet[Sim])
                             => Late(chan'[Client], base),
         Ordered(chan[Client], 0, packet[Sim]) => Ordered(chan'[Client], 0, packet[Sim]),
         \A u \in Nat : Owed(chan[Client], errlen[Client], u) => Owed(chan'[Client], errlen'[Client], u),
         Values(chan[Sim]) = Values(chan'[Sim])
  PROVE  Noise'
<1>1. /\ Types /\ Client \in Ends /\ Sim \in Ends /\ Low \in Nat
      /\ packet[Client] \in Nat /\ packet[Sim] \in Nat /\ pc[Sim] # "exited"
  BY Ends2, TypedState, NoiseNumbers DEF Noise
<1>2. Garbled' = Garbled /\ Harmed' = Harmed /\ Garbled \in Int /\ Harmed \in Int
  BY <1>1, Counts DEF Garbled, Harmed
<1>3. Ordered(chan'[Client], 0, packet[Sim])
  BY DEF Noise, Asks
<1>4. Ordered(chan'[Sim], Low, packet[Client])
  BY <1>1 DEF Noise, InOrder
<1>5. PICK u \in Nat, v \in Nat : Within(u, v)
  BY <1>1 DEF Noise, Bounds
<1>6. /\ v - r \in Nat /\ Owed(chan'[Sim], errlen'[Sim], v - r)
      /\ Owed(chan'[Client], errlen'[Client], u)
  BY <1>5 DEF Within
<1>7. /\ Frames(Client) \in Nat /\ Naks(Client) \in Nat /\ Frames(Sim) \in Nat /\ Naks(Sim) \in Nat
      /\ Current \in Nat /\ Busy \in Nat /\ Away \in Nat /\ Cardinality(Issued) \in Nat
      /\ Naks(Sim)' \in Nat
  BY <1>1, Counts, CountsNext
<1>8. Gap(u) = Current + Frames(Client) + Naks(Sim) + u - 1 - Garbled
  BY DEF Gap
<1>9. Late(chan'[Client], Current - 1 - Garbled)
  <2>1. Current - 1 - Garbled \in Int
    BY <1>2, <1>7
  <2>2. f = 1 => Current - 1 - Garbled + Frames(Client) + 1 <= packet[Sim]
    <3> SUFFICES ASSUME f = 1 PROVE Current - 1 - Garbled + Frames(Client) + 1 <= packet[Sim]
      OBVIOUS
    <3>1. Naks(Sim) >= 1 /\ Gap(u) <= packet[Sim]
      BY <1>5, <1>7 DEF Within
    <3> QED
      BY <1>1, <1>2, <1>7, <1>8, <3>1
  <2> QED
    BY <2>1, <2>2 DEF Noise, AnswersLate
<1>10. Bounds'
  <2>1. Late(chan'[Sim], Gap(u) + Busy)
    <3>1. Gap(u) + Busy \in Int /\ Gap(u) + Busy + hf \in Int /\ Gap(u) + Busy <= Gap(u) + Busy + hf
      BY <1>2, <1>7, <1>8
    <3>2. Late(chan'[Sim], Gap(u) + Busy + hf)
      BY <1>5, <3>1 DEF Within
    <3>3. chan'[Sim] \in Seq(Tokens)
      BY <1>1 DEF Types, TypeOK
    <3> QED
      BY <3>1, <3>2, <3>3, LateLess
  <2>2. Issued' = Issued
    BY DEF Issued
  <2>3. Frames(Client)' + Naks(Client)' + u + Frames(Sim)' + Naks(Sim)' + (v - r) - Garbled'
          <= Frames(Client) + Naks(Client) + u + Frames(Sim) + Naks(Sim) + v - Garbled
    BY <1>2, <1>7
  <2>4. Frames(Client)' + Naks(Sim)' + u - Garbled' <= Frames(Client) + Naks(Sim) + u - Garbled
    BY <1>2, <1>7
  <2>5. Frames(Sim)' + Naks(Client)' + (v - r) - Cardinality(Issued') - Garbled' - Harmed'
          <= Frames(Sim) + Naks(Client) + v - Cardinality(Issued) - Garbled - Harmed
    BY <1>2, <1>7, <2>2
  <2>6. Within(u, v - r)'
    BY <1>5, <1>6, <2>1, <2>3, <2>4, <2>5, WithinNext
  <2> QED
    BY <1>6, <2>6 DEF Bounds
<1>11. Garbled <= Garbled' /\ Harmed <= Harmed'
  BY <1>2
<1> QED
  BY <1>3, <1>4, <1>9, <1>10, <1>11, LinesOnly

LEMMA SimScans ==
  ASSUME Noise, Types', pc[Sim] = "scanning",
         UNCHANGED <<pc, packet, request, executed, answered, faults>>,
         chan[Sim] # << >>, Head(chan[Sim]).kind # "junk", ~Good(Head(chan[Sim])),
         NEW w, Rule(Sim, w), NEW f \in 0 .. 1, NEW n \in 0 .. 1,
         \/ w = << >> /\ f = 0 /\ n = 0
         \/ w = <<Nak>> /\ f = 0 /\ n = 1 /\ Head(chan[Sim]).kind = "frame"
         \/ w = <<Frame(packet[Sim])>> /\ packet[Sim] \in Commands /\ f = 1 /\ n = 0
            /\ Head(chan[Sim]).kind = "nak"
  PROVE  Noise'
<1> DEFINE k == Head(chan[Sim]).kind
<1>1. PICK r \in 0 .. 1, hf \in 0 .. 1, hn \in 0 .. 1 :
        r = One(errlen[Sim] > 0) /\ hf = One(k = "frame") /\ hn = One(k = "nak")
  <2>1. ASSUME NEW b PROVE One(b) \in 0 .. 1
    BY DEF One
  <2> QED
    BY <2>1, Zenon
<1>2. f <= hn /\ n <= hf /\ hf + hn <= 1
  BY <1>1 DEF One
<1>3. /\ Types /\ Client \in Ends /\ Sim \in Ends /\ Other(Sim) = Client
      /\ packet[Sim] \in Nat /\ errlen[Sim] \in Nat
  BY Ends2, TypedState DEF Noise
<1>4. /\ Nak \in Tokens
      /\ packet[Sim] \in Commands => Frame(packet[Sim]) \in Tokens
  BY TokensOnTheLine
<1>5. /\ chan'[Sim] = Tail(chan[Sim]) /\ errlen'[Sim] = 0 /\ errlen'[Client] = errlen[Client]
      /\ w = << >> => chan'[Client] = Told(chan[Client], errlen[Sim])
      /\ \A t \in Tokens : w = <<t>> => chan'[Client] = Append(Told(chan[Client], errlen[Sim]), t)
  <2>1. Brief(w)
    BY <1>4 DEF Brief
  <2> QED
    BY <1>3, <2>1, RuleWrites
<1> HIDE DEF k
<1>6. /\ Frames(Sim)' = Frames(Sim) - hf /\ Naks(Sim)' = Naks(Sim) - hn
      /\ \A base \in Int : Late(chan[Sim], base) => Late(chan'[Sim], base + hf)
      /\ \A low, high \in Nat : Ordered(chan[Sim], low, high) => Ordered(chan'[Sim], low, high)
      /\ \A v \in Nat : Owed(chan[Sim], errlen[Sim], v) =>
           v - r \in Nat /\ Owed(chan'[Sim], errlen'[Sim], v - r)
      /\ Values(chan[Sim]) = Values(chan'[Sim])
  <2>1. /\ Frames(Sim)' = Frames(Sim) - hf /\ Naks(Sim)' = Naks(Sim) - hn
        /\ \A base \in Int : Late(chan[Sim], base) => Late(chan'[Sim], base + hf)
        /\ \A low, high \in Nat : Ordered(chan[Sim], low, high) => Ordered(chan'[Sim], low, high)
        /\ \A v \in Nat : Owed(chan[Sim], errlen[Sim], v) =>
             v - r \in Nat /\ Owed(chan'[Sim], errlen'[Sim], v - r)
    BY <1>1, <1>3, <1>5, ReadHere DEF k
  <2>2. Values(chan[Sim]) = Values(chan'[Sim]) \cup
          (IF Good(Head(chan[Sim])) THEN {Head(chan[Sim]).of} ELSE {})
    BY <1>3, <1>5, ReadHere
  <2>3. Values(chan[Sim]) = Values(chan'[Sim])
    BY <2>2
  <2> QED
    BY <2>1, <2>3
<1>7. /\ Frames(Client)' = Frames(Client) + f /\ Naks(Client)' = Naks(Client) + r + n
      /\ \A base \in Int : Late(chan[Client], base) /\ (f = 1 => base + Frames(Client) + 1 <= packet[Sim])
                             => Late(chan'[Client], base)
      /\ Ordered(chan[Client], 0, packet[Sim]) => Ordered(chan'[Client], 0, packet[Sim])
      /\ \A u \in Nat : Owed(chan[Client], errlen[Client], u) => Owed(chan'[Client], errlen'[Client], u)
  <2>0. Frames(Client) \in Nat /\ Naks(Client) \in Nat /\ 0 <= packet[Sim] /\ packet[Sim] <= packet[Sim]
    BY <1>3, Counts
  <2>1. CASE w = << >> /\ f = 0 /\ n = 0
    <3>1. chan'[Client] = Told(chan[Client], errlen[Sim])
      BY <1>5, <2>1
    <3>2. /\ Frames(Client)' = Frames(Client) /\ Naks(Client)' = Naks(Client) + One(errlen[Sim] > 0)
          /\ \A base \in Int : Late(chan[Client], base) => Late(chan'[Client], base)
          /\ \A low, high \in Nat :
               low <= high /\ Ordered(chan[Client], low, high) => Ordered(chan'[Client], low, high)
          /\ \A u \in Nat : Owed(chan[Client], errlen[Client], u) => Owed(chan'[Client], errlen'[Client], u)
      BY <1>3, <1>5, <3>1, ToldThere
    <3>3. Frames(Client)' = Frames(Client) + f /\ Naks(Client)' = Naks(Client) + r + n
      BY <1>1, <2>0, <2>1, <3>2
    <3> QED
      BY <1>3, <2>0, <3>2, <3>3
  <2>2. CASE w = <<Nak>> /\ f = 0 /\ n = 1
    <3>1. chan'[Client] = Append(Told(chan[Client], errlen[Sim]), Nak)
      BY <1>4, <1>5, <2>2
    <3>2. /\ Frames(Client)' = Frames(Client) /\ Naks(Client)' = Naks(Client) + One(errlen[Sim] > 0) + 1
          /\ \A base \in Int : Late(chan[Client], base) => Late(chan'[Client], base)
          /\ \A low, high \in Nat :
               low <= high /\ Ordered(chan[Client], low, high) => Ordered(chan'[Client], low, high)
          /\ \A u \in Nat : Owed(chan[Client], errlen[Client], u) => Owed(chan'[Client], errlen'[Client], u)
      BY <1>3, <1>5, <3>1, NakThere
    <3>3. Frames(Client)' = Frames(Client) + f /\ Naks(Client)' = Naks(Client) + r + n
      BY <1>1, <2>0, <2>2, <3>2
    <3> QED
      BY <1>3, <2>0, <3>2, <3>3
  <2>3. CASE w = <<Frame(packet[Sim])>> /\ packet[Sim] \in Commands /\ f = 1 /\ n = 0
    <3>1. chan'[Client] = Append(Told(chan[Client], errlen[Sim]), Frame(packet[Sim]))
      BY <1>4, <1>5, <2>3
    <3>2. /\ Frames(Client)' = Frames(Client) + 1 /\ Naks(Client)' = Naks(Client) + One(errlen[Sim] > 0)
          /\ \A base \in Int :
               Late(chan[Client], base) /\ base + Frames(Client) + 1 <= packet[Sim] => Late(chan'[Client], base)
          /\ \A low, high \in Nat :
               low <= high /\ high <= packet[Sim] /\ Ordered(chan[Client], low, high)
                 => Ordered(chan'[Client], low, packet[Sim])
          /\ \A u \in Nat : Owed(chan[Client], errlen[Client], u) => Owed(chan'[Client], errlen'[Client], u)
      BY <1>3, <1>5, <2>3, <3>1, FrameThere
    <3>3. Frames(Client)' = Frames(Client) + f /\ Naks(Client)' = Naks(Client) + r + n
      BY <1>1, <2>0, <2>3, <3>2
    <3> QED
      BY <1>3, <2>0, <2>3, <3>2, <3>3
  <2> QED
    BY <2>1, <2>2, <2>3
<1> QED
  BY <1>1, <1>2, <1>6, <1>7, SimLines

\* A byte of junk is read; r is 1 when the buffer is full and is reported.
LEMMA JunkHere ==
  ASSUME Types, NEW e \in Ends, AddCharacterToError(e), NEW r \in 0 .. 1, r = One(ErrorFull(errlen[e]))
  PROVE  /\ Frames(e)' = Frames(e) /\ Naks(e)' = Naks(e)
         /\ \A base \in Int : Late(chan[e], base) => Late(chan'[e], base + 0)
         /\ \A low, high \in Nat : Ordered(chan[e], low, high) => Ordered(chan'[e], low, high)
         /\ \A u \in Nat : Owed(chan[e], errlen[e], u) => u - r \in Nat /\ Owed(chan'[e], errlen'[e], u - r)
         /\ Values(chan[e]) = Values(chan'[e])
         /\ Frames(Other(e))' = Frames(Other(e)) /\ Naks(Other(e))' = Naks(Other(e)) + r
         /\ \A base \in Int : Late(chan[Other(e)], base) => Late(chan'[Other(e)], base)
         /\ \A low, high \in Nat :
              low <= high /\ Ordered(chan[Other(e)], low, high) => Ordered(chan'[Other(e)], low, high)
         /\ \A u \in Nat :
              Owed(chan[Other(e)], errlen[Other(e)], u) => Owed(chan'[Other(e)], errlen'[Other(e)], u)
         /\ Values(chan'[Other(e)]) = Values(chan[Other(e)])
<1> DEFINE c == chan[e]
           o == Other(e)
           full == ErrorFull(errlen[e])
<1>1. /\ c \in Seq(Tokens) /\ c # << >> /\ Head(c).kind = "junk"
      /\ errlen[e] \in 0 .. MaxErrorSize - 1 /\ errlen[e] \in Nat /\ o \in Ends
  BY TypedState DEF AddCharacterToError, Scanning
<1>2. /\ chan'[e] = Tail(c)
      /\ errlen'[e] = IF full THEN 1 ELSE errlen[e] + 1
      /\ errlen'[o] = errlen[o]
      /\ chan'[o] = IF full THEN Told(chan[o], errlen[e]) ELSE chan[o]
  BY TypesJunk
<1>3. full => errlen[e] > 0
  BY <1>1, SizesAssumption DEF ErrorFull
<1>4. chan'[o] = Told(chan[o], IF full THEN errlen[e] ELSE 0)
  BY <1>2 DEF Told
<1>5. One((IF full THEN errlen[e] ELSE 0) > 0) = r
  BY <1>3 DEF One
<1> DEFINE len == IF full THEN errlen[e] ELSE 0
<1>6. len \in Nat /\ chan'[o] = Told(chan[o], len) /\ One(len > 0) = r
  BY <1>1, <1>4, <1>5
<1> HIDE DEF c, o, len
<1>7. /\ Frames(o)' = Frames(o) /\ Naks(o)' = Naks(o) + One(len > 0)
      /\ \A base \in Int : Late(chan[o], base) => Late(chan'[o], base)
      /\ \A low, high \in Nat : low <= high /\ Ordered(chan[o], low, high) => Ordered(chan'[o], low, high)
      /\ \A u \in Nat : Owed(chan[o], errlen[o], u) => Owed(chan'[o], errlen'[o], u)
      /\ Values(chan'[o]) = Values(chan[o])
  BY <1>1, <1>2, <1>6, ToldThere
<1>8. Number(Tail(c), "frame") = Number(c, "frame") /\ Number(Tail(c), "nak") = Number(c, "nak")
  <2>1. /\ Number(c, "frame") = One(Head(c).kind = "frame") + Number(Tail(c), "frame")
        /\ Number(c, "nak") = One(Head(c).kind = "nak") + Number(Tail(c), "nak")
        /\ Number(Tail(c), "frame") \in Nat /\ Number(Tail(c), "nak") \in Nat
    BY <1>1, TakenNumbers
  <2>2. One(Head(c).kind = "frame") = 0 /\ One(Head(c).kind = "nak") = 0
    BY <1>1 DEF One
  <2> QED
    BY <2>1, <2>2
<1>9. \A base \in Int : Late(c, base) => Late(Tail(c), base + 0)
  <2> SUFFICES ASSUME NEW base \in Int, Late(c, base) PROVE Late(Tail(c), base + 0)
    OBVIOUS
  <2>1. Late(Tail(c), base + One(Head(c).kind = "frame"))
    BY <1>1, TakenLate
  <2>2. One(Head(c).kind = "frame") = 0
    BY <1>1 DEF One
  <2> QED
    BY <2>1, <2>2
<1>10. \A low, high \in Nat : Ordered(c, low, high) => Ordered(Tail(c), low, high)
  BY <1>1, TakenOrdered
<1>11. \A u \in Nat : Owed(c, errlen[e], u) => u - r \in Nat /\ Owed(Tail(c), errlen'[e], u - r)
  <2> SUFFICES ASSUME NEW u \in Nat, Owed(c, errlen[e], u)
               PROVE  u - r \in Nat /\ Owed(Tail(c), errlen'[e], u - r)
    OBVIOUS
  <2>1. /\ ~full => Owed(Tail(c), errlen[e] + 1, u)
        /\ full => u - 1 \in Nat /\ Owed(Tail(c), 1, u - 1)
    BY <1>1, JunkOwed
  <2>2. CASE full
    <3>1. r = 1
      BY <2>2 DEF One
    <3> QED
      BY <1>2, <2>1, <2>2, <3>1
  <2>3. CASE ~full
    <3>1. r = 0 /\ u - 0 = u
      BY <2>3 DEF One
    <3> QED
      BY <1>2, <2>1, <2>3, <3>1
  <2> QED
    BY <2>2, <2>3
<1>12. Values(c) = Values(Tail(c))
  <2>1. ~Good(Head(c))
    BY <1>1 DEF Good
  <2>2. Values(c) = Values(Tail(c)) \cup (IF Good(Head(c)) THEN {Head(c).of} ELSE {})
    BY <1>1, TakenValues
  <2> QED
    BY <2>1, <2>2
<1>13. c = chan[e] /\ Tail(c) = chan'[e]
  BY <1>2 DEF c
<1>14. /\ Frames(e)' = Number(Tail(c), "frame") /\ Naks(e)' = Number(Tail(c), "nak")
       /\ Frames(e) = Number(c, "frame") /\ Naks(e) = Number(c, "nak")
  BY <1>13 DEF Frames, Naks
<1>15. Frames(e)' = Frames(e) /\ Naks(e)' = Naks(e)
  BY <1>8, <1>14
<1>16. Naks(o)' = Naks(o) + r
  BY <1>6, <1>7
<1> QED
  BY <1>7, <1>9, <1>10, <1>11, <1>12, <1>13, <1>15, <1>16 DEF o

LEMMA JunkNoise ==
  ASSUME Noise, NEW e \in Ends, AddCharacterToError(e)
  PROVE  Noise'
<1>1. PICK r \in 0 .. 1 : r = One(ErrorFull(errlen[e]))
  <2>1. One(ErrorFull(errlen[e])) \in 0 .. 1
    BY DEF One
  <2> QED
    BY <2>1
<1>2. Types /\ Types' /\ UNCHANGED <<pc, packet, request, executed, answered, faults>> /\ pc[e] = "scanning"
  BY TypesJunk DEF Noise, AddCharacterToError, Scanning
<1>3. /\ Frames(e)' = Frames(e) /\ Naks(e)' = Naks(e)
      /\ \A base \in Int : Late(chan[e], base) => Late(chan'[e], base + 0)
      /\ \A low, high \in Nat : Ordered(chan[e], low, high) => Ordered(chan'[e], low, high)
      /\ \A u \in Nat : Owed(chan[e], errlen[e], u) => u - r \in Nat /\ Owed(chan'[e], errlen'[e], u - r)
      /\ Values(chan[e]) = Values(chan'[e])
  BY <1>1, <1>2, JunkHere
<1>4. /\ Frames(Other(e))' = Frames(Other(e)) /\ Naks(Other(e))' = Naks(Other(e)) + r
      /\ \A base \in Int : Late(chan[Other(e)], base) => Late(chan'[Other(e)], base)
      /\ \A low, high \in Nat :
           low <= high /\ Ordered(chan[Other(e)], low, high) => Ordered(chan'[Other(e)], low, high)
      /\ \A u \in Nat :
           Owed(chan[Other(e)], errlen[Other(e)], u) => Owed(chan'[Other(e)], errlen'[Other(e)], u)
      /\ Values(chan'[Other(e)]) = Values(chan[Other(e)])
  BY <1>1, <1>2, JunkHere
<1>5. /\ 0 \in 0 .. 1 /\ 0 <= 0 /\ 0 + 0 <= 1
      /\ \A k \in Nat : k - 0 = k /\ k + 0 = k /\ k + r + 0 = k + r
      /\ Client \in Ends /\ Sim \in Ends
      /\ Frames(Client) \in Nat /\ Naks(Client) \in Nat /\ Frames(Sim) \in Nat /\ Naks(Sim) \in Nat
  BY <1>2, Counts, Ends2
<1>6. packet[Sim] \in Nat /\ 0 \in Nat /\ 0 <= packet[Sim] /\ Current \in Nat
  <2>1. packet[Sim] \in Nat /\ Current \in Nat
    BY <1>2, <1>5, TypedState, Counts
  <2> QED
    BY <2>1
<1>7. CASE e = Client
  <2>1. Other(e) = Sim
    BY <1>7, Ends2
  <2>2. /\ Frames(Client)' = Frames(Client) - 0 /\ Naks(Client)' = Naks(Client) - 0
        /\ Frames(Sim)' = Frames(Sim) + 0 /\ Naks(Sim)' = Naks(Sim) + r + 0
    BY <1>3, <1>4, <1>5, <1>7, <2>1
  <2>3. Values(chan[Sim]) \subseteq Values(chan'[Sim])
    BY <1>4, <2>1
  <2>4. \A low \in Nat : low <= Current /\ Ordered(chan[Sim], low, Current) => Ordered(chan'[Sim], low, Current)
    BY <1>4, <1>6, <2>1
  <2>5. \A base \in Int : Late(chan[Sim], base) /\ (0 = 1 => base + Frames(Sim) + 1 <= Current)
                             => Late(chan'[Sim], base)
    BY <1>4, <2>1
  <2>6. \A v \in Nat : Owed(chan[Sim], errlen[Sim], v) => Owed(chan'[Sim], errlen'[Sim], v)
    BY <1>4, <2>1
  <2> QED
    BY <1>2, <1>3, <1>5, <1>7, <2>2, <2>3, <2>4, <2>5, <2>6, ClientLines
<1>8. CASE e = Sim
  <2>1. Other(e) = Client
    BY <1>8, Ends2
  <2>2. /\ Frames(Sim)' = Frames(Sim) - 0 /\ Naks(Sim)' = Naks(Sim) - 0
        /\ Frames(Client)' = Frames(Client) + 0 /\ Naks(Client)' = Naks(Client) + r + 0
    BY <1>3, <1>4, <1>5, <1>8, <2>1
  <2>3. Ordered(chan[Client], 0, packet[Sim]) => Ordered(chan'[Client], 0, packet[Sim])
    BY <1>4, <1>6, <2>1
  <2>4. \A base \in Int : Late(chan[Client], base) /\ (0 = 1 => base + Frames(Client) + 1 <= packet[Sim])
                             => Late(chan'[Client], base)
    BY <1>4, <2>1
  <2>5. \A u \in Nat : Owed(chan[Client], errlen[Client], u) => Owed(chan'[Client], errlen'[Client], u)
    BY <1>4, <2>1
  <2> QED
    BY <1>2, <1>3, <1>5, <1>8, <2>2, <2>3, <2>4, <2>5, SimLines
<1> QED
  BY <1>7, <1>8 DEF Ends

LEMMA ScanNoise ==
  ASSUME Noise, NEW e \in Ends, Scan(e)
  PROVE  Noise'
<1>1. Types /\ Types' /\ (0 \in 0 .. 1) /\ (1 \in 0 .. 1) /\ Client \in Ends /\ Sim \in Ends
  BY TypesScan, Ends2 DEF Noise
<1>2. CASE ReceiveAck(e)
  <2>1. /\ pc[e] = "scanning" /\ chan[e] # << >> /\ Head(chan[e]).kind = "ack" /\ Rule(e, << >>)
        /\ UNCHANGED <<pc, packet, request, executed, answered, faults>>
    BY <1>2 DEF ReceiveAck, Scanning
  <2>2. ~Good(Head(chan[e])) /\ Head(chan[e]).kind # "junk"
    BY <2>1 DEF Good
  <2> QED
    BY <1>1, <2>1, <2>2, ClientScans, SimScans DEF Ends
<1>3. CASE ReceiveNak(e)
  <2>1. /\ pc[e] = "scanning" /\ chan[e] # << >> /\ Head(chan[e]).kind = "nak" /\ Rule(e, Transmitted(e))
        /\ UNCHANGED <<pc, packet, request, executed, answered, faults>>
    BY <1>3 DEF ReceiveNak, Scanning
  <2>2. ~Good(Head(chan[e])) /\ Head(chan[e]).kind # "junk"
    BY <2>1 DEF Good
  <2>3. CASE packet[e] = NoPacket
    <3>1. Transmitted(e) = << >>
      BY <2>3 DEF Transmitted
    <3> QED
      BY <1>1, <2>1, <2>2, <3>1, ClientScans, SimScans DEF Ends
  <2>4. CASE packet[e] # NoPacket
    <3>1. Transmitted(e) = <<Frame(packet[e])>> /\ packet[e] \in Commands
      BY <1>1, <2>4, TypedState DEF Transmitted
    <3>2. e = Client => packet[e] = Current
      BY <2>1 DEF Noise, Asks
    <3>3. CASE e = Client
      BY <1>1, <2>1, <2>2, <3>1, <3>2, <3>3, ClientScans
    <3>4. CASE e = Sim
      BY <1>1, <2>1, <2>2, <3>1, <3>4, SimScans
    <3> QED
      BY <3>3, <3>4 DEF Ends
  <2> QED
    BY <2>3, <2>4
<1>4. CASE ReceiveBadPacket(e)
  <2>1. /\ pc[e] = "scanning" /\ chan[e] # << >> /\ Head(chan[e]).kind = "frame" /\ ~Head(chan[e]).ok
        /\ Rule(e, <<Nak>>)
        /\ UNCHANGED <<pc, packet, request, executed, answered, faults>>
    BY <1>4 DEF ReceiveBadPacket, Scanning
  <2>2. ~Good(Head(chan[e])) /\ Head(chan[e]).kind # "junk"
    BY <2>1 DEF Good
  <2> QED
    BY <1>1, <2>1, <2>2, ClientScans, SimScans DEF Ends
<1>5. CASE AddCharacterToError(e)
  BY <1>5, JunkNoise
<1> QED
  BY <1>2, <1>3, <1>4, <1>5 DEF Scan

-----------------------------------------------------------------------------
(***************************************************************************)
(* The initial states                                                      *)
(***************************************************************************)
LEMMA EmptyChannel ==
  /\ \A kind : Number(<< >>, kind) = 0
  /\ \A base : Late(<< >>, base)
  /\ \A low, high : Ordered(<< >>, low, high)
  /\ Owed(<< >>, 0, 0)
  /\ Values(<< >>) = {}
<1>1. DOMAIN << >> = {} /\ Len(<< >>) = 0
  OBVIOUS
<1>2. Cardinality({}) = 0
  BY FS_EmptySet
<1>3. ASSUME NEW kind PROVE Number(<< >>, kind) = 0
  <2>1. {m \in 1 .. 0 : << >>[m].kind = kind} = {}
    OBVIOUS
  <2> QED
    BY <1>1, <1>2, <2>1 DEF Number, Upto
<1>4. Owed(<< >>, 0, 0)
  <2>1. Pieces(<< >>, 0, {})
    BY <1>1 DEF Pieces
  <2>2. Cardinality({}) + One(0 > 0) <= 0
    BY <1>2 DEF One
  <2>3. {} \in SUBSET DOMAIN << >>
    OBVIOUS
  <2> QED
    BY <2>1, <2>2, <2>3, Zenon DEF Owed
<1> QED
  BY <1>1, <1>3, <1>4 DEF Late, Ordered, Values

LEMMA NoiseInit == Init => Noise
<1> SUFFICES ASSUME Init PROVE Noise
  OBVIOUS
<1>1. Types /\ Client \in Ends /\ Sim \in Ends
  BY TypesInit, Ends2
<1>2. /\ pc[Client] = "ready" /\ pc[Sim] = "scanning"
      /\ packet[Client] = 0 /\ packet[Sim] = 0
      /\ chan[Client] = << >> /\ chan[Sim] = << >> /\ errlen[Client] = 0 /\ errlen[Sim] = 0
      /\ executed = << >> /\ answered = << >>
      /\ faults.byte = ByteFaults /\ faults.frame = FrameFaults
  BY <1>1, Ends2 DEF Init, NoPacket
<1>3. Garbled = 0 /\ Harmed = 0
  BY <1>2, SizesAssumption DEF Garbled, Harmed
<1>4. Frames(Client) = 0 /\ Naks(Client) = 0 /\ Frames(Sim) = 0 /\ Naks(Sim) = 0
  BY <1>2, EmptyChannel DEF Frames, Naks
<1>5. Busy = 0 /\ Away = 1
  BY <1>2 DEF Busy, Away, One
<1>6. Len(answered) = 0 /\ DOMAIN answered = {} /\ DOMAIN executed = {} /\ Ran = 0
  BY <1>2 DEF Ran
<1>7. Current = 1 /\ Low = 0
  BY <1>2, <1>6 DEF Current, Low
<1>8. Issued = {} /\ Cardinality(Issued) = 0
  <2>1. Range(executed) = {}
    BY <1>6 DEF Range
  <2>2. Issued = {}
    BY <1>2, <2>1, EmptyChannel DEF Issued
  <2> QED
    BY <2>2, FS_EmptySet
<1>9. Asks
  BY <1>2, <1>7, EmptyChannel DEF Asks
<1>10. InOrder
  BY <1>2, <1>6, EmptyChannel DEF InOrder
<1>11. AnswersLate
  BY <1>2, EmptyChannel DEF AnswersLate
<1>12. Bounds
  <2>1. Gap(0) = 0
    BY <1>3, <1>4, <1>7 DEF Gap
  <2>2. Owed(chan[Client], errlen[Client], 0) /\ Owed(chan[Sim], errlen[Sim], 0)
        /\ Late(chan[Sim], Gap(0) + Busy)
    BY <1>2, EmptyChannel
  <2>3. Within(0, 0)
    BY <1>2, <1>3, <1>4, <1>5, <1>6, <1>8, <2>1, <2>2 DEF Within
  <2> QED
    BY <2>3 DEF Bounds
<1>13. LagBoundedByFaults /\ RepeatsAfterExit
  BY <1>2, <1>6 DEF LagBoundedByFaults, RepeatsAfterExit
<1> QED
  BY <1>1, <1>9, <1>10, <1>11, <1>12, <1>13 DEF Noise

-----------------------------------------------------------------------------
(***************************************************************************)
(* The faults of the line                                                  *)
(***************************************************************************)
\* A garbled token (g) may add a report at one end (a or b), a damaged frame
\* (h) nothing; either takes at most one command from those issued.
LEMMA FaultLines ==
  ASSUME Noise, Types', UNCHANGED <<pc, packet, request, executed, answered>>,
         NEW g \in 0 .. 1, NEW h \in 0 .. 1, NEW a \in 0 .. 1, NEW b \in 0 .. 1, a + b <= g,
         Garbled' = Garbled + g, Harmed' = Harmed + h,
         Frames(Client)' <= Frames(Client), Naks(Client)' <= Naks(Client),
         Frames(Sim)' <= Frames(Sim), Naks(Sim)' <= Naks(Sim),
         \A e \in Ends : \A base \in Int : Late(chan[e], base) => Late(chan'[e], base),
         \A e \in Ends : \A low, high \in Nat : Ordered(chan[e], low, high) => Ordered(chan'[e], low, high),
         \A u \in Nat : Owed(chan[Client], errlen[Client], u) => Owed(chan'[Client], errlen'[Client], u + a),
         \A v \in Nat : Owed(chan[Sim], errlen[Sim], v) => Owed(chan'[Sim], errlen'[Sim], v + b),
         Frames(Sim)' + b - Cardinality(Issued') <= Frames(Sim) - Cardinality(Issued) + g + h
  PROVE  Noise'
<1>1. /\ Types /\ Client \in Ends /\ Sim \in Ends /\ Low \in Nat /\ packet[Client] \in Nat
      /\ packet[Sim] \in Nat
  BY Ends2, NoiseNumbers, TypedState DEF Noise
<1>2. /\ Frames(Client) \in Nat /\ Naks(Client) \in Nat /\ Frames(Sim) \in Nat /\ Naks(Sim) \in Nat
      /\ Garbled \in Int /\ Harmed \in Int /\ Current \in Nat /\ Busy \in Nat /\ Away \in Nat
      /\ Cardinality(Issued) \in Nat
  BY <1>1, Counts
<1>3. /\ Frames(Client)' \in Nat /\ Naks(Client)' \in Nat /\ Frames(Sim)' \in Nat /\ Naks(Sim)' \in Nat
      /\ Cardinality(Issued') \in Nat
  BY CountsNext
<1>4. Ordered(chan'[Client], 0, packet[Sim])
  <2>1. 0 \in Nat
    OBVIOUS
  <2> QED
    BY <1>1, <2>1 DEF Noise, Asks
<1>5. pc[Sim] # "exited" => Ordered(chan'[Sim], Low, packet[Client])
  BY <1>1 DEF Noise, InOrder
<1>6. Late(chan'[Client], Current - 1 - Garbled)
  <2>1. Current - 1 - Garbled \in Int
    BY <1>2
  <2> QED
    BY <1>1, <2>1 DEF Noise, AnswersLate
<1>7. Bounds'
  <2> SUFFICES ASSUME pc[Sim] # "exited" PROVE \E x, y \in Nat : Within(x, y)'
    BY DEF Bounds
  <2>1. PICK u \in Nat, v \in Nat : Within(u, v)
    BY DEF Noise, Bounds
  <2>2. Owed(chan'[Client], errlen'[Client], u + a) /\ Owed(chan'[Sim], errlen'[Sim], v + b)
    BY <2>1 DEF Within
  <2>3. u + a \in Nat /\ v + b \in Nat
    OBVIOUS
  <2>4. Gap(u) + Busy \in Int
    BY <1>2 DEF Gap
  <2>5. Late(chan'[Sim], Gap(u) + Busy)
    BY <1>1, <2>1, <2>4 DEF Within
  <2>6. Frames(Client)' + Naks(Client)' + (u + a) + Frames(Sim)' + Naks(Sim)' + (v + b) - Garbled'
          <= Frames(Client) + Naks(Client) + u + Frames(Sim) + Naks(Sim) + v - Garbled
    BY <1>2, <1>3
  <2>7. Frames(Client)' + Naks(Sim)' + (u + a) - Garbled' <= Frames(Client) + Naks(Sim) + u - Garbled
    BY <1>2, <1>3
  <2>8. Frames(Sim)' + Naks(Client)' + (v + b) - Cardinality(Issued') - Garbled' - Harmed'
          <= Frames(Sim) + Naks(Client) + v - Cardinality(Issued) - Garbled - Harmed
    BY <1>2, <1>3
  <2>9. Within(u + a, v + b)'
    BY <2>1, <2>2, <2>3, <2>5, <2>6, <2>7, <2>8, WithinNext
  <2> QED
    BY <2>3, <2>9
<1>8. Garbled <= Garbled' /\ Harmed <= Harmed'
  BY <1>2
<1> QED
  BY <1>4, <1>5, <1>6, <1>7, <1>8, LinesOnly

LEMMA LessIssued ==
  ASSUME Types, Types', NEW x, Issued \subseteq Issued' \cup {x}
  PROVE  Cardinality(Issued) <= Cardinality(Issued') + 1
<1>1. /\ IsFiniteSet(Issued) /\ Cardinality(Issued) \in Nat
      /\ IsFiniteSet(Issued') /\ Cardinality(Issued') \in Nat
  BY Counts, CountsNext
<1>2. /\ IsFiniteSet(Issued' \cup {x})
      /\ Cardinality(Issued' \cup {x}) = IF x \in Issued' THEN Cardinality(Issued') ELSE Cardinality(Issued') + 1
  BY <1>1, FS_AddElement
<1>3. Cardinality(Issued) <= Cardinality(Issued' \cup {x})
  BY <1>2, FS_Subset
<1> QED
  BY <1>1, <1>2, <1>3

\* What a frame or a token out of Sim's line takes from the commands issued.
LEMMA IssuedLeft ==
  ASSUME NEW X, UNCHANGED <<pc, request, executed>>,
         Values(chan[Sim]) \subseteq Values(chan'[Sim]) \cup X
  PROVE  Issued \subseteq Issued' \cup X
  BY DEF Issued

LEMMA GarbleFrameNoise ==
  ASSUME Noise, NEW e \in Ends, GarbleFrame(e)
  PROVE  Noise'
<1>1. /\ Types /\ Types' /\ chan'[Other(e)] = chan[Other(e)] /\ errlen' = errlen
      /\ UNCHANGED <<pc, packet, request, executed, answered>>
      /\ faults'.byte = faults.byte /\ faults'.frame = faults.frame - 1
  BY TypesGarbleFrame DEF Noise
<1>2. PICK i \in DOMAIN chan[e] : chan[e][i].kind = "frame" /\ chan'[e] = DamagedAt(chan[e], i)
  BY <1>1, TypesGarbleFrame
<1>3. /\ chan[e] \in Seq(Tokens) /\ Other(e) \in Ends /\ (\A x \in Ends : x = e \/ x = Other(e))
      /\ Client \in Ends /\ Sim \in Ends
  BY <1>1, TypedState, Ends2
<1>4. /\ \A kind : Number(chan'[e], kind) = Number(chan[e], kind)
      /\ \A base : Late(chan[e], base) => Late(chan'[e], base)
      /\ \A low, high : Ordered(chan[e], low, high) => Ordered(chan'[e], low, high)
      /\ \A len, u : Owed(chan[e], len, u) => Owed(chan'[e], len, u)
      /\ Values(chan[e]) \subseteq Values(chan'[e]) \cup {chan[e][i].of}
  BY <1>2, <1>3, DamagedChannel
<1>5. ASSUME NEW x \in Ends
      PROVE  /\ Frames(x)' = Frames(x) /\ Naks(x)' = Naks(x)
             /\ \A base : Late(chan[x], base) => Late(chan'[x], base)
             /\ \A low, high : Ordered(chan[x], low, high) => Ordered(chan'[x], low, high)
             /\ \A u : Owed(chan[x], errlen[x], u) => Owed(chan'[x], errlen'[x], u)
             /\ Values(chan[x]) \subseteq Values(chan'[x]) \cup {chan[e][i].of}
  <2>1. CASE x = e
    BY <1>1, <1>4, <2>1 DEF Frames, Naks
  <2>2. CASE x = Other(e)
    BY <1>1, <2>2 DEF Frames, Naks
  <2> QED
    BY <1>3, <2>1, <2>2
<1>6. Cardinality(Issued) <= Cardinality(Issued') + 1
  <2>1. Issued \subseteq Issued' \cup {chan[e][i].of}
    BY <1>1, <1>3, <1>5, IssuedLeft
  <2> QED
    BY <1>1, <2>1, LessIssued
<1>7. Garbled' = Garbled + 0 /\ Harmed' = Harmed + 1
  <2>1. Garbled \in Int /\ Harmed \in Int /\ faults.frame \in Nat
    BY <1>1, NoiseNumbers
  <2> QED
    BY <1>1, <2>1, SizesAssumption DEF Garbled, Harmed
<1>8. /\ Frames(Client) \in Nat /\ Naks(Client) \in Nat /\ Frames(Sim) \in Nat /\ Naks(Sim) \in Nat
      /\ Cardinality(Issued) \in Nat /\ Cardinality(Issued') \in Nat
      /\ 0 \in 0 .. 1 /\ 1 \in 0 .. 1 /\ 0 + 0 <= 0 /\ \A u \in Nat : u + 0 = u
  BY <1>1, Counts, CountsNext
<1>9. Frames(Sim)' + 0 - Cardinality(Issued') <= Frames(Sim) - Cardinality(Issued) + 0 + 1
  BY <1>3, <1>5, <1>6, <1>8
<1>10. /\ Frames(Client)' <= Frames(Client) /\ Naks(Client)' <= Naks(Client)
       /\ Frames(Sim)' <= Frames(Sim) /\ Naks(Sim)' <= Naks(Sim)
  BY <1>3, <1>5, <1>8
<1>11. /\ \A u \in Nat : Owed(chan[Client], errlen[Client], u) => Owed(chan'[Client], errlen'[Client], u + 0)
       /\ \A v \in Nat : Owed(chan[Sim], errlen[Sim], v) => Owed(chan'[Sim], errlen'[Sim], v + 0)
  BY <1>3, <1>5, <1>8
<1> QED
  BY <1>1, <1>5, <1>7, <1>8, <1>9, <1>10, <1>11, FaultLines

LEMMA GarbleTokenNoise ==
  ASSUME FrameBytes < MaxErrorSize, Noise, NEW e \in Ends, GarbleToken(e)
  PROVE  Noise'
<1>1. /\ Types /\ Types' /\ chan'[Other(e)] = chan[Other(e)] /\ errlen' = errlen
      /\ UNCHANGED <<pc, packet, request, executed, answered>>
      /\ faults'.byte = faults.byte - 1 /\ faults'.frame = faults.frame
  BY TypesGarbleToken DEF Noise
<1>2. PICK i \in DOMAIN chan[e] : chan[e][i].kind # "junk" /\ chan'[e] = JunkAt(chan[e], i)
  BY <1>1, TypesGarbleToken
<1>3. /\ chan[e] \in Seq(Tokens) /\ Other(e) \in Ends /\ (\A x \in Ends : x = e \/ x = Other(e))
      /\ Client \in Ends /\ Sim \in Ends /\ errlen[e] \in Nat
  BY <1>1, TypedState, Ends2
<1>4. Width(chan[e][i]) < MaxErrorSize
  BY SizesAssumption DEF Width
<1>5. PICK lost \in 0 .. 1, less \in 0 .. 1 :
        /\ lost = One(chan[e][i].kind = "frame") /\ less = One(chan[e][i].kind = "nak")
  <2>1. ASSUME NEW b PROVE One(b) \in 0 .. 1
    BY DEF One
  <2> QED
    BY <2>1, Zenon
<1>6. /\ Number(chan'[e], "frame") = Number(chan[e], "frame") - lost
      /\ Number(chan'[e], "nak") = Number(chan[e], "nak") - less
  <2>1. /\ Number(JunkAt(chan[e], i), "frame")
             = Number(chan[e], "frame") - One(chan[e][i].kind = "frame")
        /\ Number(JunkAt(chan[e], i), "nak")
             = Number(chan[e], "nak") - One(chan[e][i].kind = "nak")
    BY <1>3, JunkAtNumbers
  <2> QED
    BY <1>2, <1>5, <2>1, Zenon
<1>7. /\ \A base \in Int : Late(chan[e], base) => Late(chan'[e], base)
      /\ \A low, high \in Nat : Ordered(chan[e], low, high) => Ordered(chan'[e], low, high)
  BY <1>2, <1>3, JunkAtLate, JunkAtOrdered
<1>8. \A u \in Nat : Owed(chan[e], errlen[e], u) => Owed(chan'[e], errlen'[e], u + 1)
  BY <1>1, <1>2, <1>3, <1>4, JunkAtOwed
<1>9. Values(chan[e]) \subseteq Values(chan'[e]) \cup (IF Good(chan[e][i]) THEN {chan[e][i].of} ELSE {})
  BY <1>2, <1>3, JunkAtValues
<1>10. Garbled' = Garbled + 1 /\ Harmed' = Harmed + 0
  <2>1. Garbled \in Int /\ Harmed \in Int /\ faults.byte \in Nat
    BY <1>1, NoiseNumbers
  <2> QED
    BY <1>1, <2>1, SizesAssumption DEF Garbled, Harmed
<1>11. /\ Frames(Client) \in Nat /\ Naks(Client) \in Nat /\ Frames(Sim) \in Nat /\ Naks(Sim) \in Nat
       /\ Cardinality(Issued) \in Nat /\ Cardinality(Issued') \in Nat
       /\ 0 \in 0 .. 1 /\ 1 \in 0 .. 1 /\ 0 + 1 <= 1 /\ 1 + 0 <= 1 /\ \A u \in Nat : u + 0 = u
  BY <1>1, Counts, CountsNext
<1>12. /\ Frames(e)' = Frames(e) - lost /\ Naks(e)' = Naks(e) - less
       /\ Frames(Other(e))' = Frames(Other(e)) /\ Naks(Other(e))' = Naks(Other(e))
       /\ \A u \in Nat :
            Owed(chan[Other(e)], errlen[Other(e)], u) => Owed(chan'[Other(e)], errlen'[Other(e)], u + 0)
  BY <1>1, <1>6, <1>11 DEF Frames, Naks
<1>13. /\ \A x \in Ends : \A base \in Int : Late(chan[x], base) => Late(chan'[x], base)
       /\ \A x \in Ends : \A low, high \in Nat : Ordered(chan[x], low, high) => Ordered(chan'[x], low, high)
  BY <1>1, <1>3, <1>7
<1>14. CASE e = Client
  <2>1. Other(e) = Sim
    BY <1>14, Ends2
  <2>2. Cardinality(Issued') = Cardinality(Issued)
    <3>1. Issued' = Issued
      BY <1>1, <2>1 DEF Issued
    <3> QED
      BY <3>1
  <2>3. /\ Frames(Client)' <= Frames(Client) /\ Naks(Client)' <= Naks(Client)
        /\ Frames(Sim)' <= Frames(Sim) /\ Naks(Sim)' <= Naks(Sim)
        /\ Frames(Sim)' + 0 - Cardinality(Issued') <= Frames(Sim) - Cardinality(Issued) + 1 + 0
    BY <1>11, <1>12, <1>14, <2>1, <2>2
  <2>4. /\ \A u \in Nat : Owed(chan[Client], errlen[Client], u) => Owed(chan'[Client], errlen'[Client], u + 1)
        /\ \A v \in Nat : Owed(chan[Sim], errlen[Sim], v) => Owed(chan'[Sim], errlen'[Sim], v + 0)
    BY <1>8, <1>12, <1>14, <2>1
  <2> QED
    BY <1>1, <1>10, <1>11, <1>13, <2>3, <2>4, FaultLines
<1>15. CASE e = Sim
  <2>1. Other(e) = Client
    BY <1>15, Ends2
  <2>2. Cardinality(Issued) <= Cardinality(Issued') + lost
    <3>1. CASE Good(chan[e][i])
      <4>1. Issued \subseteq Issued' \cup {chan[e][i].of}
        BY <1>1, <1>9, <1>15, <3>1, IssuedLeft
      <4>2. Cardinality(Issued) <= Cardinality(Issued') + 1
        BY <1>1, <4>1, LessIssued
      <4>3. lost = 1
        BY <1>5, <3>1 DEF Good, One
      <4> QED
        BY <4>2, <4>3
    <3>2. CASE ~Good(chan[e][i])
      <4>1. Issued \subseteq Issued'
        BY <1>1, <1>9, <1>15, <3>2 DEF Issued
      <4>2. Cardinality(Issued) <= Cardinality(Issued')
        BY <1>1, <4>1, MoreIssued
      <4> QED
        BY <1>11, <4>2
    <3> QED
      BY <3>1, <3>2
  <2>3. /\ Frames(Client)' <= Frames(Client) /\ Naks(Client)' <= Naks(Client)
        /\ Frames(Sim)' <= Frames(Sim) /\ Naks(Sim)' <= Naks(Sim)
        /\ Frames(Sim)' + 1 - Cardinality(Issued') <= Frames(Sim) - Cardinality(Issued) + 1 + 0
    BY <1>11, <1>12, <1>15, <2>1, <2>2
  <2>4. /\ \A u \in Nat : Owed(chan[Client], errlen[Client], u) => Owed(chan'[Client], errlen'[Client], u + 0)
        /\ \A v \in Nat : Owed(chan[Sim], errlen[Sim], v) => Owed(chan'[Sim], errlen'[Sim], v + 1)
    BY <1>8, <1>12, <1>15, <2>1
  <2> QED
    BY <1>1, <1>10, <1>11, <1>13, <2>3, <2>4, FaultLines
<1> QED
  BY <1>14, <1>15 DEF Ends

-----------------------------------------------------------------------------
(***************************************************************************)
(* The simulator is gone, or goes                                          *)
(***************************************************************************)
LEMMA ValuesCounted ==
  ASSUME NEW c \in Seq(Tokens)
  PROVE  IsFiniteSet(Values(c)) /\ Cardinality(Values(c)) <= Number(c, "frame")
         /\ Cardinality(Values(c)) \in Nat
<1> DEFINE G == {m \in DOMAIN c : Good(c[m])}
           F == {m \in 1 .. Len(c) : c[m].kind = "frame"}
           f == [m \in G |-> c[m].of]
<1>1. Len(c) \in Nat /\ DOMAIN c = 1 .. Len(c)
  BY LenProperties
<1>2. IsFiniteSet(F) /\ Cardinality(F) \in Nat /\ Number(c, "frame") = Cardinality(F)
  BY <1>1, UptoType DEF Number, Upto
<1>3. G \subseteq F
  BY <1>1 DEF Good
<1>4. IsFiniteSet(G) /\ Cardinality(G) <= Cardinality(F) /\ Cardinality(G) \in Nat
  <2>1. IsFiniteSet(G) /\ Cardinality(G) <= Cardinality(F)
    BY <1>2, <1>3, FS_Subset
  <2> QED
    BY <2>1, FS_CardinalityType
<1>5. f \in Surjection(G, Values(c))
  <2>1. f \in [G -> Values(c)]
    BY DEF Values
  <2>2. \A t \in Values(c) : \E s \in G : f[s] = t
    BY DEF Values
  <2> QED
    BY <2>1, <2>2 DEF Surjection
<1>6. IsFiniteSet(Values(c)) /\ Cardinality(Values(c)) <= Cardinality(G)
  BY <1>4, <1>5, FS_Surjection
<1>7. Cardinality(Values(c)) \in Nat
  BY <1>6, FS_CardinalityType
<1> HIDE DEF G, F
<1> QED
  BY <1>2, <1>4, <1>6, <1>7

\* Each command issued was carried out, is being carried out or is on its way.
LEMMA IssuedCounted ==
  ASSUME Types
  PROVE  Cardinality(Issued) <= Cardinality(Range(executed)) + Busy + Frames(Sim)
<1> DEFINE R == Range(executed)
           B == IF pc[Sim] = "handling" THEN {request} ELSE {}
           V == Values(chan[Sim])
<1>1. IsFiniteSet(R) /\ Cardinality(R) \in Nat
  BY IssuedFinite
<1>2. IsFiniteSet(V) /\ Cardinality(V) \in Nat /\ Cardinality(V) <= Frames(Sim) /\ Frames(Sim) \in Nat
  <2>1. chan[Sim] \in Seq(Tokens)
    BY TypedState, Ends2
  <2>2. Frames(Sim) \in Nat
    BY Counts
  <2> QED
    BY <2>1, <2>2, ValuesCounted DEF Frames
<1>3. IsFiniteSet(B) /\ Cardinality(B) = Busy /\ Busy \in Nat
  <2>1. Busy = IF pc[Sim] = "handling" THEN 1 ELSE 0
    BY DEF Busy, One
  <2>2. IsFiniteSet({request}) /\ Cardinality({request}) = 1
    BY FS_Singleton
  <2>3. IsFiniteSet({}) /\ Cardinality({}) = 0
    BY FS_EmptySet
  <2> QED
    BY <2>1, <2>2, <2>3
<1>4. Issued = (R \cup B) \cup V
  BY DEF Issued
<1> HIDE DEF R, B, V
<1>5. /\ IsFiniteSet(R \cup B) /\ Cardinality(R \cup B) \in Nat
      /\ Cardinality(R \cup B) <= Cardinality(R) + Cardinality(B)
  <2>1. /\ IsFiniteSet(R \cup B)
        /\ Cardinality(R \cup B) = Cardinality(R) + Cardinality(B) - Cardinality(R \cap B)
    BY <1>1, <1>3, FS_Union
  <2>2. R \cap B \in SUBSET R
    OBVIOUS
  <2>3. IsFiniteSet(R \cap B)
    BY <1>1, <2>2, FS_Subset
  <2>4. Cardinality(R \cup B) \in Nat /\ Cardinality(R \cap B) \in Nat
    BY <2>1, <2>3, FS_CardinalityType
  <2> QED
    BY <1>1, <1>3, <2>1, <2>4
<1>6. Cardinality((R \cup B) \cup V) <= Cardinality(R \cup B) + Cardinality(V)
  <2>1. Cardinality((R \cup B) \cup V)
          = Cardinality(R \cup B) + Cardinality(V) - Cardinality((R \cup B) \cap V)
    BY <1>2, <1>5, FS_Union
  <2>2. (R \cup B) \cap V \in SUBSET V
    OBVIOUS
  <2>3. IsFiniteSet((R \cup B) \cap V)
    BY <1>2, <2>2, FS_Subset
  <2>4. Cardinality((R \cup B) \cap V) \in Nat
    BY <2>3, FS_CardinalityType
  <2> QED
    BY <1>2, <1>5, <2>1, <2>4
<1>7. Cardinality(Issued) \in Nat
  BY IssuedFinite
<1> QED
  <2>1. Cardinality(Issued) <= Cardinality(R) + Busy + Frames(Sim)
    BY <1>1, <1>2, <1>3, <1>4, <1>5, <1>6, <1>7
  <2> QED
    BY <2>1 DEF R

\* What has been repeated so far, while the simulator is there.
LEMMA RepeatsCounted ==
  ASSUME Types, NEW u \in Nat, NEW v \in Nat, Within(u, v)
  PROVE  Ran <= Cardinality(Range(executed)) + Garbled + Harmed
<1>1. Ran + Busy + Frames(Sim) + Naks(Client) + v <= Cardinality(Issued) + Garbled + Harmed
  BY DEF Within
<1>2. /\ Ran \in Nat /\ Busy \in Nat /\ Frames(Sim) \in Nat /\ Naks(Client) \in Nat
      /\ Garbled \in Int /\ Harmed \in Int /\ Cardinality(Issued) \in Nat
      /\ Cardinality(Range(executed)) \in Nat
  BY Counts, IssuedFinite
<1>3. Cardinality(Issued) <= Cardinality(Range(executed)) + Busy + Frames(Sim)
  BY IssuedCounted
<1> QED
  BY <1>1, <1>2, <1>3

LEMMA DeathNoise ==
  ASSUME Noise, SimDies
  PROVE  Noise'
<1>1. /\ Types /\ Types' /\ pc[Sim] # "exited" /\ pc'[Sim] = "exited" /\ pc'[Client] = pc[Client]
      /\ UNCHANGED <<packet, errlen, chan, request, executed, answered>>
      /\ faults'.byte = faults.byte /\ faults'.frame = faults.frame
  BY TypesDeath DEF Noise
<1>2. Garbled' = Garbled /\ Harmed' = Harmed /\ Current' = Current
  BY <1>1 DEF Garbled, Harmed, Current
<1>3. Low' = packet[Sim] /\ packet[Sim] \in Nat /\ packet[Client] \in Nat /\ Low \in Nat
      /\ packet[Sim] <= Low /\ Low <= packet[Client]
  <2>1. Low' = packet[Sim]
    BY <1>1 DEF Low
  <2>2. packet[Sim] \in Nat /\ packet[Client] \in Nat /\ Low \in Nat
    BY <1>1, TypedState, NoiseNumbers, Ends2
  <2> QED
    BY <2>1, <2>2 DEF Noise, Asks
<1>4. Asks'
  <2>1. packet[Sim] <= packet[Sim] /\ packet[Sim] <= packet[Client]
    BY <1>3
  <2> QED
    BY <1>1, <1>2, <1>3, <2>1 DEF Noise, Asks
<1>5. InOrder'
  BY <1>1 DEF Noise, InOrder
<1>6. AnswersLate'
  BY <1>1, <1>2 DEF Noise, AnswersLate
<1>7. LagBoundedByFaults'
  BY <1>1 DEF Noise, LagBoundedByFaults
<1>8. RepeatsAfterExit'
  <2>1. PICK u \in Nat, v \in Nat : Within(u, v)
    BY <1>1 DEF Noise, Bounds
  <2>2. Ran <= Cardinality(Range(executed)) + Garbled + Harmed
    BY <1>1, <2>1, RepeatsCounted
  <2> QED
    BY <1>1, <1>2, <2>2 DEF RepeatsAfterExit, Ran
<1> QED
  BY <1>1, <1>4, <1>5, <1>6, <1>7, <1>8 DEF Noise, Bounds

LEMMA ResetNoise ==
  ASSUME Noise, ConnectionReset
  PROVE  Noise'
<1>1. /\ Types' /\ pc[Sim] = "exited" /\ pc'[Sim] = "exited" /\ pc'[Client] = "killed"
      /\ UNCHANGED <<packet, errlen, chan, request, executed, answered, faults>>
  BY TypesReset DEF Noise
<1>2. Garbled' = Garbled /\ Harmed' = Harmed /\ Current' = Current /\ Low' = Low
  BY <1>1 DEF Garbled, Harmed, Current, Low
<1>3. Asks'
  BY <1>1, <1>2 DEF Noise, Asks
<1>4. InOrder'
  BY <1>1 DEF Noise, InOrder
<1>5. AnswersLate'
  BY <1>1, <1>2 DEF Noise, AnswersLate
<1>6. LagBoundedByFaults' /\ RepeatsAfterExit'
  BY <1>1, <1>2 DEF Noise, LagBoundedByFaults, RepeatsAfterExit
<1> QED
  BY <1>1, <1>3, <1>4, <1>5, <1>6 DEF Noise, Bounds

\* An answer more; it is not late, when those before it were not.
LEMMA LagNext ==
  ASSUME Types, Types', LagBoundedByFaults, faults' = faults,
         Len(answered') = Len(answered) + 1,
         \A i \in 1 .. Len(answered) : answered'[i] = answered[i],
         answered'[Current] # EOF =>
           answered'[Current] <= Current /\ Current <= answered'[Current] + Garbled
  PROVE  LagBoundedByFaults'
<1> SUFFICES ASSUME NEW i \in DOMAIN answered', answered'[i] # EOF
             PROVE  answered'[i] <= i /\ i <= answered'[i] + Garbled
  BY DEF LagBoundedByFaults, Garbled
<1>1. Len(answered) \in Nat /\ DOMAIN answered = 1 .. Len(answered) /\ DOMAIN answered' = 1 .. Len(answered')
  BY LenProperties DEF Types, TypeOK
<1>2. i \in 1 .. Len(answered) \/ i = Current
  BY <1>1 DEF Current
<1>3. CASE i \in 1 .. Len(answered)
  BY <1>1, <1>3 DEF LagBoundedByFaults, Garbled
<1>4. CASE i = Current
  BY <1>4
<1> QED
  BY <1>2, <1>3, <1>4

LEMMA EOFNoise ==
  ASSUME Noise, ReceiveEOF
  PROVE  Noise'
<1>1. /\ Types /\ Types'
      /\ pc[Sim] = "exited" /\ pc'[Sim] = "exited" /\ chan'[Client] = << >>
      /\ pc'[Client] \in {"ready", "closed"}
      /\ Len(answered') = Len(answered) + 1 /\ Current' = Current + 1
      /\ \A i \in 1 .. Len(answered) : answered'[i] = answered[i]
      /\ answered'[Current] = EOF
      /\ UNCHANGED <<packet, request, executed, faults>>
  BY TypesEOF DEF Noise
<1>2. Garbled' = Garbled /\ Harmed' = Harmed /\ Low' = Low
  BY <1>1 DEF Garbled, Harmed, Low
<1>3. Asks'
  <2>1. packet[Client] \in Nat /\ Current \in Nat /\ packet[Client] <= Current
    BY <1>1, TypedState, Ends2 DEF Noise, Asks
  <2>2. packet[Client] < Current + 1 /\ packet[Client] <= Current + 1
    BY <2>1
  <2>3. Ordered(chan'[Client], 0, packet'[Sim])
    BY <1>1, EmptyChannel
  <2> QED
    BY <1>1, <1>2, <2>2, <2>3 DEF Noise, Asks
<1>4. InOrder'
  BY <1>1 DEF Noise, InOrder
<1>5. AnswersLate'
  BY <1>1, EmptyChannel DEF AnswersLate
<1>6. LagBoundedByFaults'
  BY <1>1, LagNext DEF Noise
<1>7. RepeatsAfterExit'
  BY <1>1, <1>2 DEF Noise, RepeatsAfterExit
<1> QED
  BY <1>1, <1>3, <1>4, <1>5, <1>6, <1>7 DEF Noise, Bounds

-----------------------------------------------------------------------------
(***************************************************************************)
(* The client moves                                                        *)
(***************************************************************************)
\* What is issued is no later than the client's last command.
LEMMA IssuedBounded ==
  ASSUME Noise, pc[Sim] # "exited", NEW k \in Issued
  PROVE  k \in Nat /\ k <= packet[Client]
<1>1. Types /\ Low \in Nat /\ packet[Client] \in Nat /\ Low <= packet[Client]
  BY NoiseNumbers, TypedState, Ends2 DEF Noise, Asks
<1>2. CASE k \in Range(executed)
  <2>1. PICK m \in DOMAIN executed : k = executed[m]
    BY <1>2 DEF Range
  <2>2. k <= Low
    BY <2>1 DEF Noise, InOrder
  <2>3. k \in Commands
    BY <1>1, <2>1 DEF Types, TypeOK
  <2> QED
    BY <1>1, <2>2, <2>3, CommandsAreNumbers
<1>3. CASE pc[Sim] = "handling" /\ k = request
  BY <1>1, <1>3 DEF Low
<1>4. CASE k \in Values(chan[Sim])
  <2>1. PICK n \in DOMAIN chan[Sim] : Good(chan[Sim][n]) /\ k = chan[Sim][n].of
    BY <1>4 DEF Values
  <2>2. k <= packet[Client]
    BY <2>1 DEF Noise, InOrder, Ordered
  <2>3. chan[Sim] \in Seq(Tokens) /\ n \in 1 .. Len(chan[Sim])
    BY <1>1, TypedState, Ends2, LenProperties
  <2>4. k \in Commands
    BY <2>1, <2>3, ElementOfSeq, TokenFacts DEF Good
  <2> QED
    BY <2>2, <2>4, CommandsAreNumbers
<1> QED
  BY <1>2, <1>3, <1>4 DEF Issued

\* The numbers of SendCommand: one frame more, of a command not yet issued.
LEMMA SendWithin ==
  ASSUME Types, Types', NEW u \in Nat, NEW v \in Nat, Within(u, v),
         UNCHANGED <<request, executed, faults>>, pc'[Sim] = pc[Sim], packet'[Sim] = packet[Sim],
         Current' = Current, Away = 1, Away' = 0,
         Frames(Client)' = Frames(Client), Naks(Client)' = Naks(Client),
         Frames(Sim)' = Frames(Sim) + 1, Naks(Sim)' = Naks(Sim),
         Cardinality(Issued') = Cardinality(Issued) + 1,
         Owed(chan'[Client], errlen'[Client], u), Owed(chan'[Sim], errlen'[Sim], v),
         \A base \in Int : Late(chan[Sim], base) /\ base + Frames(Sim) + 1 <= Current => Late(chan'[Sim], base)
  PROVE  Within(u, v)'
<1>1. /\ Frames(Client) \in Nat /\ Naks(Client) \in Nat /\ Frames(Sim) \in Nat /\ Naks(Sim) \in Nat
      /\ Garbled \in Int /\ Harmed \in Int /\ Current \in Nat /\ Busy \in Nat
      /\ Ran \in Nat /\ Cardinality(Issued) \in Nat
  BY Counts
<1>2. Garbled' = Garbled /\ Harmed' = Harmed /\ Busy' = Busy /\ Ran' = Ran
  BY DEF Garbled, Harmed, Busy, Ran
<1>3. Gap(u)' = Gap(u) /\ Gap(u) = Current + Frames(Client) + Naks(Sim) + u - 1 - Garbled
  BY <1>2 DEF Gap
<1>4. /\ Frames(Client) + Naks(Client) + u + Busy + Frames(Sim) + Naks(Sim) + v + Away <= 1 + Garbled
      /\ Gap(u) <= packet[Sim]
      /\ pc[Sim] = "handling" => Gap(u) + 1 <= request
      /\ Late(chan[Sim], Gap(u) + Busy)
      /\ Ran + Busy + Frames(Sim) + Naks(Client) + v <= Cardinality(Issued) + Garbled + Harmed
  BY DEF Within
<1>5. Late(chan'[Sim], Gap(u) + Busy)
  <2>1. Gap(u) + Busy \in Int /\ Gap(u) + Busy + Frames(Sim) + 1 <= Current
    BY <1>1, <1>3, <1>4
  <2> QED
    BY <1>4, <2>1
<1>6. Frames(Client)' + Naks(Client)' + u + Busy' + Frames(Sim)' + Naks(Sim)' + v + Away' <= 1 + Garbled'
  BY <1>1, <1>2, <1>4
<1>7. Ran' + Busy' + Frames(Sim)' + Naks(Client)' + v <= Cardinality(Issued') + Garbled' + Harmed'
  BY <1>1, <1>2, <1>4
<1> QED
  BY <1>2, <1>3, <1>4, <1>5, <1>6, <1>7 DEF Within

LEMMA SendNoise ==
  ASSUME Noise, SendCommand
  PROVE  Noise'
<1>1. /\ Types /\ Types'
      /\ chan'[Client] = chan[Client] /\ chan'[Sim] = Append(chan[Sim], Frame(Current))
      /\ packet'[Client] = Current /\ packet'[Sim] = packet[Sim]
      /\ pc'[Client] = "scanning" /\ pc'[Sim] = pc[Sim]
  BY TypesSend DEF Noise
<1>2. /\ pc[Client] = "ready" /\ Current \in Commands
      /\ UNCHANGED <<errlen, request, executed, answered, faults>>
  BY DEF SendCommand
<1>3. /\ Garbled' = Garbled /\ Harmed' = Harmed /\ Current' = Current /\ Low' = Low
      /\ Busy' = Busy /\ Ran' = Ran /\ Away = 1 /\ Away' = 0
  BY <1>1, <1>2 DEF Garbled, Harmed, Current, Low, Busy, Ran, Away, One
<1>4. /\ Client \in Ends /\ Sim \in Ends /\ packet[Client] \in Nat /\ Low \in Nat /\ Current \in Nat
      /\ Low <= packet[Client] /\ packet[Client] < Current /\ packet[Sim] <= Low
  BY <1>1, <1>2, TypedState, NoiseNumbers, Ends2 DEF Noise, Asks
<1>5. /\ Frames(Sim)' = Frames(Sim) + 1 /\ Naks(Sim)' = Naks(Sim)
      /\ \A base \in Int :
           Late(chan[Sim], base) /\ base + Frames(Sim) + 1 <= Current => Late(chan'[Sim], base)
      /\ \A low, high \in Nat :
           low <= high /\ high <= Current /\ Ordered(chan[Sim], low, high) => Ordered(chan'[Sim], low, Current)
      /\ \A v \in Nat : Owed(chan[Sim], errlen[Sim], v) => Owed(chan'[Sim], errlen'[Sim], v)
      /\ Values(chan'[Sim]) = Values(chan[Sim]) \cup {Current}
  <2>1. 0 \in Nat /\ Told(chan[Sim], 0) = chan[Sim] /\ One(0 > 0) = 0
    BY DEF Told, One
  <2>2. chan'[Sim] = Append(Told(chan[Sim], 0), Frame(Current)) /\ errlen'[Sim] = errlen[Sim]
    BY <1>1, <1>2, <2>1
  <2>3. Naks(Sim) \in Nat
    BY <1>1, Counts
  <2>4. Naks(Sim)' = Naks(Sim) + 0
    BY <1>1, <1>2, <1>4, <2>1, <2>2, FrameThere
  <2>5. Naks(Sim)' = Naks(Sim)
    BY <2>3, <2>4
  <2>6. /\ Frames(Sim)' = Frames(Sim) + 1
        /\ \A base \in Int :
             Late(chan[Sim], base) /\ base + Frames(Sim) + 1 <= Current => Late(chan'[Sim], base)
        /\ \A low, high \in Nat :
             low <= high /\ high <= Current /\ Ordered(chan[Sim], low, high) => Ordered(chan'[Sim], low, Current)
        /\ \A v \in Nat : Owed(chan[Sim], errlen[Sim], v) => Owed(chan'[Sim], errlen'[Sim], v)
        /\ Values(chan'[Sim]) = Values(chan[Sim]) \cup {Current}
    BY <1>1, <1>2, <1>4, <2>1, <2>2, FrameThere
  <2> QED
    BY <2>5, <2>6
<1>6. Frames(Client)' = Frames(Client) /\ Naks(Client)' = Naks(Client)
  BY <1>1 DEF Frames, Naks
<1>7. Asks'
  <2>1. Low <= Current /\ Current <= Current
    BY <1>4
  <2> QED
    BY <1>1, <1>2, <1>3, <1>4, <2>1 DEF Noise, Asks
<1>8. InOrder'
  <2>1. pc[Sim] # "exited" => Ordered(chan'[Sim], Low, Current)
    <3>1. packet[Client] <= Current
      BY <1>4
    <3> QED
      BY <1>4, <1>5, <3>1 DEF Noise, InOrder
  <2> QED
    BY <1>1, <1>2, <1>3, <2>1 DEF Noise, InOrder
<1>9. AnswersLate'
  BY <1>1, <1>3 DEF Noise, AnswersLate
<1>10. LagBoundedByFaults'
  BY <1>2 DEF Noise, LagBoundedByFaults
<1>11. RepeatsAfterExit'
  BY <1>1, <1>2, <1>3 DEF Noise, RepeatsAfterExit
<1>12. Bounds'
  <2> SUFFICES ASSUME pc[Sim] # "exited" PROVE \E x, y \in Nat : Within(x, y)'
    BY <1>1 DEF Bounds
  <2>1. PICK u \in Nat, v \in Nat : Within(u, v)
    BY DEF Noise, Bounds
  <2>2. Cardinality(Issued') = Cardinality(Issued) + 1
    <3>1. Issued' = Issued \cup {Current}
      BY <1>1, <1>2, <1>5 DEF Issued
    <3>2. Current \notin Issued
      <4>1. ~(Current <= packet[Client])
        BY <1>4
      <4> QED
        BY <4>1, IssuedBounded
    <3>3. IsFiniteSet(Issued)
      BY <1>1, Counts
    <3>4. Cardinality(Issued \cup {Current}) =
            IF Current \in Issued THEN Cardinality(Issued) ELSE Cardinality(Issued) + 1
      BY <3>3, FS_AddElement
    <3> QED
      BY <3>1, <3>2, <3>4
  <2>3. Owed(chan'[Client], errlen'[Client], u) /\ Owed(chan'[Sim], errlen'[Sim], v)
    BY <1>1, <1>2, <1>5, <2>1 DEF Within
  <2>4. Within(u, v)'
    BY <1>1, <1>2, <1>3, <1>5, <1>6, <2>1, <2>2, <2>3, SendWithin
  <2> QED
    BY <2>4
<1> QED
  BY <1>1, <1>7, <1>8, <1>9, <1>10, <1>11, <1>12 DEF Noise

\* The numbers of ReceiveAnswer: a frame less, and r reports turned into requests.
LEMMA AnswerWithin ==
  ASSUME Types, Types', NEW u \in Nat, NEW v \in Nat, Within(u, v), NEW r \in 0 .. 1, u - r \in Nat,
         UNCHANGED <<packet, request, executed, faults>>, pc'[Sim] = pc[Sim],
         Current' = Current + 1, Away = 0, Away' = 1,
         Frames(Client)' = Frames(Client) - 1, Naks(Client)' = Naks(Client),
         Frames(Sim)' = Frames(Sim), Naks(Sim)' = Naks(Sim) + r, Issued' = Issued,
         Owed(chan'[Client], errlen'[Client], u - r), Owed(chan'[Sim], errlen'[Sim], v),
         \A base \in Int : Late(chan[Sim], base) => Late(chan'[Sim], base)
  PROVE  Within(u - r, v)'
<1>1. /\ Frames(Client) \in Nat /\ Naks(Client) \in Nat /\ Frames(Sim) \in Nat /\ Naks(Sim) \in Nat
      /\ Garbled \in Int /\ Harmed \in Int /\ Current \in Nat /\ Busy \in Nat
      /\ Ran \in Nat /\ Cardinality(Issued) \in Nat
  BY Counts
<1>2. Garbled' = Garbled /\ Harmed' = Harmed /\ Busy' = Busy /\ Ran' = Ran
  BY DEF Garbled, Harmed, Busy, Ran
<1>3. Gap(u) = Current + Frames(Client) + Naks(Sim) + u - 1 - Garbled
  BY DEF Gap
<1>4. Gap(u - r)' = Gap(u)
  <2>1. Gap(u - r)' = Current' + Frames(Client)' + Naks(Sim)' + (u - r) - 1 - Garbled'
    BY DEF Gap
  <2> QED
    BY <1>1, <1>2, <1>3, <2>1
<1>5. /\ Frames(Client) + Naks(Client) + u + Busy + Frames(Sim) + Naks(Sim) + v + Away <= 1 + Garbled
      /\ Gap(u) <= packet[Sim]
      /\ pc[Sim] = "handling" => Gap(u) + 1 <= request
      /\ Late(chan[Sim], Gap(u) + Busy)
      /\ Ran + Busy + Frames(Sim) + Naks(Client) + v <= Cardinality(Issued) + Garbled + Harmed
  BY DEF Within
<1>6. Late(chan'[Sim], Gap(u) + Busy)
  <2>1. Gap(u) + Busy \in Int
    BY <1>1, <1>3
  <2> QED
    BY <1>5, <2>1
<1>7. Frames(Client)' + Naks(Client)' + (u - r) + Busy' + Frames(Sim)' + Naks(Sim)' + v + Away' <= 1 + Garbled'
  BY <1>1, <1>2, <1>5
<1> QED
  BY <1>2, <1>4, <1>5, <1>6, <1>7 DEF Within

LEMMA AnswerNoise ==
  ASSUME Noise, ReceiveAnswer
  PROVE  Noise'
<1>1. /\ Types /\ Types' /\ Rule(Client, <<Ack>>) /\ chan[Client] # << >> /\ Good(Head(chan[Client]))
      /\ pc[Client] = "scanning" /\ pc'[Client] \in {"ready", "closed"} /\ pc'[Sim] = pc[Sim]
      /\ Len(answered') = Len(answered) + 1 /\ Current' = Current + 1
      /\ \A i \in 1 .. Len(answered) : answered'[i] = answered[i]
      /\ answered'[Current] = Head(chan[Client]).of
      /\ UNCHANGED <<packet, request, executed, faults>>
  BY TypesAnswer DEF Noise
<1>2. /\ Garbled' = Garbled /\ Harmed' = Harmed /\ Low' = Low
      /\ Busy' = Busy /\ Ran' = Ran /\ Away = 0 /\ Away' = 1
  BY <1>1 DEF Garbled, Harmed, Low, Busy, Ran, Away, One
<1>3. /\ Client \in Ends /\ Sim \in Ends /\ Other(Client) = Sim
      /\ packet[Client] \in Nat /\ packet[Sim] \in Nat /\ Low \in Nat /\ Current \in Nat /\ 0 \in Nat
      /\ Garbled \in Int /\ errlen[Client] \in Nat /\ Naks(Client) \in Nat /\ Naks(Sim) \in Nat
  BY <1>1, TypedState, NoiseNumbers, Ends2
<1>4. packet[Client] = Current /\ Low <= packet[Client] /\ packet[Sim] <= Low
  BY <1>1 DEF Noise, Asks
<1>5. Head(chan[Client]).kind = "frame" /\ Head(chan[Client]).kind # "junk"
  BY <1>1 DEF Good
<1>6. One(Head(chan[Client]).kind = "frame") = 1 /\ One(Head(chan[Client]).kind = "nak") = 0
  BY <1>5 DEF One
<1>7. PICK r \in 0 .. 1 : r = One(errlen[Client] > 0)
  <2>1. One(errlen[Client] > 0) \in 0 .. 1
    BY DEF One
  <2> QED
    BY <2>1
<1>8. /\ chan'[Client] = Tail(chan[Client]) /\ errlen'[Client] = 0 /\ errlen'[Sim] = errlen[Sim]
      /\ chan'[Sim] = Append(Told(chan[Sim], errlen[Client]), Ack)
  <2>1. Ack \in Tokens
    BY TokensOnTheLine
  <2>2. Brief(<<Ack>>)
    BY <2>1 DEF Brief
  <2> QED
    BY <1>1, <1>3, <2>1, <2>2, RuleWrites
<1>9. /\ Frames(Client)' = Frames(Client) - 1 /\ Naks(Client)' = Naks(Client) - 0
      /\ \A base \in Int : Late(chan[Client], base) =>
           Late(chan'[Client], base + 1) /\ base + 1 <= Head(chan[Client]).of
      /\ \A low, high \in Nat : Ordered(chan[Client], low, high) =>
           Ordered(chan'[Client], low, high) /\ Head(chan[Client]).of <= high
      /\ \A u \in Nat : Owed(chan[Client], errlen[Client], u) =>
           u - r \in Nat /\ Owed(chan'[Client], errlen'[Client], u - r)
  BY <1>1, <1>3, <1>5, <1>6, <1>7, <1>8, ReadHere
<1>10. /\ Frames(Sim)' = Frames(Sim) /\ Naks(Sim)' = Naks(Sim) + r
       /\ \A base \in Int : Late(chan[Sim], base) => Late(chan'[Sim], base)
       /\ \A low, high \in Nat :
            low <= high /\ Ordered(chan[Sim], low, high) => Ordered(chan'[Sim], low, high)
       /\ \A v \in Nat : Owed(chan[Sim], errlen[Sim], v) => Owed(chan'[Sim], errlen'[Sim], v)
       /\ Values(chan'[Sim]) = Values(chan[Sim])
  BY <1>1, <1>3, <1>7, <1>8, AckThere
<1>11. Naks(Client)' = Naks(Client)
  BY <1>3, <1>9
<1>12. Asks'
  <2>1. Ordered(chan'[Client], 0, packet[Sim])
    BY <1>3, <1>9 DEF Noise, Asks
  <2>2. packet[Client] < Current + 1 /\ packet[Client] <= Current + 1
    BY <1>3, <1>4
  <2> QED
    BY <1>1, <1>2, <1>4, <2>1, <2>2 DEF Asks
<1>13. InOrder'
  <2>1. pc[Sim] # "exited" => Ordered(chan'[Sim], Low, packet[Client])
    BY <1>3, <1>4, <1>10 DEF Noise, InOrder
  <2> QED
    BY <1>1, <1>2, <2>1 DEF Noise, InOrder
<1>14. Current - 1 - Garbled \in Int /\ Current - 1 - Garbled + 1 = Current + 1 - 1 - Garbled
       /\ Current - 1 - Garbled + 1 = Current - Garbled
  BY <1>3
<1>15. AnswersLate'
  <2>1. Late(chan'[Client], Current + 1 - 1 - Garbled)
    BY <1>9, <1>14 DEF Noise, AnswersLate
  <2>2. Current' = Current + 1 /\ Garbled' = Garbled
    BY <1>1, <1>2
  <2>3. Current' - 1 - Garbled' = Current + 1 - 1 - Garbled
    BY <1>3, <2>2
  <2>4. Late(chan'[Client], Current' - 1 - Garbled')
    BY <2>1, <2>3, Zenon
  <2> QED
    BY <2>4 DEF AnswersLate
<1>16. LagBoundedByFaults'
  <2> DEFINE a == Head(chan[Client]).of
  <2>1. a \in Nat
    <3>1. chan[Client] \in Seq(Tokens)
      BY <1>1, <1>3, TypedState
    <3>2. Head(chan[Client]) \in Tokens
      BY <1>1, <3>1, HeadTailProperties
    <3> QED
      BY <1>5, <3>2, TokenFacts, CommandsAreNumbers
  <2>2. Current - Garbled <= a
    BY <1>9, <1>14 DEF Noise, AnswersLate
  <2>3. a <= packet[Sim]
    BY <1>3, <1>9 DEF Noise, Asks
  <2>4. answered'[Current] = a
    BY <1>1
  <2> HIDE DEF a
  <2>5. a <= Current /\ Current <= a + Garbled
    BY <1>3, <1>4, <2>1, <2>2, <2>3
  <2> QED
    BY <1>1, <2>4, <2>5, LagNext DEF Noise
<1>17. RepeatsAfterExit'
  BY <1>1, <1>2 DEF Noise, RepeatsAfterExit
<1>18. Bounds'
  <2> SUFFICES ASSUME pc[Sim] # "exited" PROVE \E x, y \in Nat : Within(x, y)'
    BY <1>1 DEF Bounds
  <2>1. PICK u \in Nat, v \in Nat : Within(u, v)
    BY DEF Noise, Bounds
  <2>2. /\ u - r \in Nat /\ Owed(chan'[Client], errlen'[Client], u - r)
        /\ Owed(chan'[Sim], errlen'[Sim], v)
    BY <1>9, <1>10, <2>1 DEF Within
  <2>3. Issued' = Issued
    BY <1>1, <1>10 DEF Issued
  <2>4. Within(u - r, v)'
    BY <1>1, <1>2, <1>9, <1>10, <1>11, <2>1, <2>2, <2>3, AnswerWithin
  <2> QED
    BY <2>2, <2>4
<1> QED
  BY <1>1, <1>12, <1>13, <1>15, <1>16, <1>17, <1>18 DEF Noise

-----------------------------------------------------------------------------
(***************************************************************************)
(* The simulator moves                                                     *)
(***************************************************************************)
\* The numbers of ReceiveCommand: the frame read is now the command handled.
LEMMA CommandWithin ==
  ASSUME Types, Types', NEW u \in Nat, NEW v \in Nat, Within(u, v), NEW r \in 0 .. 1, v - r \in Nat,
         UNCHANGED <<packet, executed, answered, faults>>, pc'[Client] = pc[Client],
         Busy = 0, Busy' = 1, NEW k \in Nat, request' = k,
         Frames(Client)' = Frames(Client), Naks(Client)' = Naks(Client) + r,
         Frames(Sim)' = Frames(Sim) - 1, Naks(Sim)' = Naks(Sim), Issued' = Issued,
         Owed(chan'[Client], errlen'[Client], u), Owed(chan'[Sim], errlen'[Sim], v - r),
         \A base \in Int : Late(chan[Sim], base) => Late(chan'[Sim], base + 1) /\ base + 1 <= k
  PROVE  Within(u, v - r)'
<1>1. /\ Frames(Client) \in Nat /\ Naks(Client) \in Nat /\ Frames(Sim) \in Nat /\ Naks(Sim) \in Nat
      /\ Garbled \in Int /\ Harmed \in Int /\ Current \in Nat /\ Away \in Nat
      /\ Ran \in Nat /\ Cardinality(Issued) \in Nat
  BY Counts
<1>2. Garbled' = Garbled /\ Harmed' = Harmed /\ Away' = Away /\ Ran' = Ran /\ Current' = Current
  BY DEF Garbled, Harmed, Away, Ran, Current
<1>3. Gap(u) = Current + Frames(Client) + Naks(Sim) + u - 1 - Garbled /\ Gap(u)' = Gap(u)
  BY <1>2 DEF Gap
<1>4. /\ Frames(Client) + Naks(Client) + u + Busy + Frames(Sim) + Naks(Sim) + v + Away <= 1 + Garbled
      /\ Gap(u) <= packet[Sim]
      /\ Late(chan[Sim], Gap(u) + Busy)
      /\ Ran + Busy + Frames(Sim) + Naks(Client) + v <= Cardinality(Issued) + Garbled + Harmed
  BY DEF Within
<1>5. Gap(u) \in Int /\ Gap(u) + Busy = Gap(u)
  BY <1>1, <1>3
<1>6. Late(chan'[Sim], Gap(u) + 1) /\ Gap(u) + 1 <= k
  BY <1>4, <1>5
<1>7. Frames(Client)' + Naks(Client)' + u + Busy' + Frames(Sim)' + Naks(Sim)' + (v - r) + Away' <= 1 + Garbled'
  BY <1>1, <1>2, <1>4
<1>8. Ran' + Busy' + Frames(Sim)' + Naks(Client)' + (v - r) <= Cardinality(Issued') + Garbled' + Harmed'
  BY <1>1, <1>2, <1>4
<1> QED
  BY <1>2, <1>3, <1>4, <1>6, <1>7, <1>8 DEF Within

LEMMA CommandNoise ==
  ASSUME Noise, ReceiveCommand
  PROVE  Noise'
<1> DEFINE k == Head(chan[Sim]).of
<1>1. /\ Types /\ Types' /\ Rule(Sim, <<Ack>>) /\ chan[Sim] # << >> /\ Good(Head(chan[Sim]))
      /\ request' = k
      /\ pc[Sim] = "scanning" /\ pc'[Sim] = "handling" /\ pc'[Client] = pc[Client]
      /\ UNCHANGED <<packet, executed, answered, faults>>
  BY TypesCommand DEF Noise
<1>2. /\ Garbled' = Garbled /\ Harmed' = Harmed /\ Low = packet[Sim] /\ Low' = k
      /\ Busy = 0 /\ Busy' = 1 /\ Current' = Current
  BY <1>1 DEF Garbled, Harmed, Low, Busy, Current, One
<1>3. /\ Client \in Ends /\ Sim \in Ends /\ Other(Sim) = Client
      /\ packet[Client] \in Nat /\ packet[Sim] \in Nat /\ Current \in Nat /\ 0 \in Nat
      /\ Garbled \in Int /\ errlen[Sim] \in Nat /\ Naks(Sim) \in Nat /\ Naks(Client) \in Nat
  BY <1>1, TypedState, NoiseNumbers, Ends2
<1>4. k \in Nat
  <2>1. chan[Sim] \in Seq(Tokens)
    BY <1>1, <1>3, TypedState
  <2>2. Head(chan[Sim]) \in Tokens
    BY <1>1, <2>1, HeadTailProperties
  <2> QED
    BY <1>1, <2>2, TokenFacts, CommandsAreNumbers DEF Good
<1>5. Head(chan[Sim]).kind = "frame" /\ Head(chan[Sim]).kind # "junk"
  BY <1>1 DEF Good
<1>6. One(Head(chan[Sim]).kind = "frame") = 1 /\ One(Head(chan[Sim]).kind = "nak") = 0
  BY <1>5 DEF One
<1>7. PICK r \in 0 .. 1 : r = One(errlen[Sim] > 0)
  <2>1. One(errlen[Sim] > 0) \in 0 .. 1
    BY DEF One
  <2> QED
    BY <2>1
<1>8. /\ chan'[Sim] = Tail(chan[Sim]) /\ errlen'[Sim] = 0 /\ errlen'[Client] = errlen[Client]
      /\ chan'[Client] = Append(Told(chan[Client], errlen[Sim]), Ack)
  <2>1. Ack \in Tokens
    BY TokensOnTheLine
  <2>2. Brief(<<Ack>>)
    BY <2>1 DEF Brief
  <2> QED
    BY <1>1, <1>3, <2>1, <2>2, RuleWrites
<1>9. /\ Frames(Sim)' = Frames(Sim) - 1 /\ Naks(Sim)' = Naks(Sim) - 0
      /\ \A base \in Int : Late(chan[Sim], base) => Late(chan'[Sim], base + 1) /\ base + 1 <= k
      /\ \A low, high \in Nat : Ordered(chan[Sim], low, high) =>
           low <= k /\ k <= high /\ Ordered(chan'[Sim], k, high)
      /\ \A v \in Nat : Owed(chan[Sim], errlen[Sim], v) =>
           v - r \in Nat /\ Owed(chan'[Sim], errlen'[Sim], v - r)
      /\ Values(chan[Sim]) = Values(chan'[Sim]) \cup {k}
  BY <1>1, <1>3, <1>5, <1>6, <1>7, <1>8, ReadHere
<1>10. /\ Frames(Client)' = Frames(Client) /\ Naks(Client)' = Naks(Client) + r
       /\ \A base \in Int : Late(chan[Client], base) => Late(chan'[Client], base)
       /\ \A low, high \in Nat :
            low <= high /\ Ordered(chan[Client], low, high) => Ordered(chan'[Client], low, high)
       /\ \A u \in Nat : Owed(chan[Client], errlen[Client], u) => Owed(chan'[Client], errlen'[Client], u)
  BY <1>1, <1>3, <1>7, <1>8, AckThere
<1>11. Naks(Sim)' = Naks(Sim)
  BY <1>3, <1>9
<1> HIDE DEF k
<1>12. packet[Sim] <= k /\ k <= packet[Client] /\ Ordered(chan'[Sim], k, packet[Client])
  <2>1. Ordered(chan[Sim], packet[Sim], packet[Client])
    BY <1>1, <1>2 DEF Noise, InOrder
  <2> QED
    BY <1>3, <1>9, <2>1
<1>13. Asks'
  <2>1. Ordered(chan'[Client], 0, packet[Sim])
    <3>1. 0 <= packet[Sim]
      BY <1>3
    <3> QED
      BY <1>3, <1>10, <3>1 DEF Noise, Asks
  <2> QED
    BY <1>1, <1>2, <1>12, <2>1 DEF Noise, Asks
<1>14. InOrder'
  <2>1. ASSUME NEW m \in DOMAIN executed PROVE executed[m] <= k
    <3>1. executed[m] <= packet[Sim]
      BY <1>1, <1>2 DEF Noise, InOrder
    <3>2. executed[m] \in Nat
      BY <1>1, CommandsAreNumbers DEF Types, TypeOK
    <3> QED
      BY <1>3, <1>4, <1>12, <3>1, <3>2
  <2> QED
    BY <1>1, <1>2, <1>12, <2>1 DEF Noise, InOrder
<1>15. AnswersLate'
  <2>1. Current - 1 - Garbled \in Int
    BY <1>3
  <2> QED
    BY <1>1, <1>2, <1>10, <2>1 DEF Noise, AnswersLate
<1>16. LagBoundedByFaults' /\ RepeatsAfterExit'
  BY <1>1 DEF Noise, LagBoundedByFaults, RepeatsAfterExit
<1>17. Bounds'
  <2>1. PICK u \in Nat, v \in Nat : Within(u, v)
    BY <1>1 DEF Noise, Bounds
  <2>2. /\ v - r \in Nat /\ Owed(chan'[Sim], errlen'[Sim], v - r)
        /\ Owed(chan'[Client], errlen'[Client], u)
    BY <1>9, <1>10, <2>1 DEF Within
  <2>3. Issued' = Issued
    BY <1>1, <1>9 DEF Issued
  <2>4. Within(u, v - r)'
    BY <1>1, <1>2, <1>4, <1>9, <1>10, <1>11, <2>1, <2>2, <2>3, CommandWithin
  <2> QED
    BY <2>2, <2>4 DEF Bounds
<1> QED
  BY <1>1, <1>13, <1>14, <1>15, <1>16, <1>17 DEF Noise

LEMMA ExecutedNext ==
  ASSUME Types, Types', NEW k \in Commands, executed' = Append(executed, k),
         \A m, n \in DOMAIN executed : m < n => executed[m] <= executed[n],
         \A m \in DOMAIN executed : executed[m] <= k
  PROVE  /\ Ran' = Ran + 1 /\ Range(executed') = Range(executed) \cup {k}
         /\ \A m, n \in DOMAIN executed' : m < n => executed'[m] <= executed'[n]
         /\ \A m \in DOMAIN executed' : executed'[m] <= k
<1>1. /\ Ran \in Nat /\ DOMAIN executed = 1 .. Ran
      /\ Len(executed') = Ran + 1 /\ DOMAIN executed' = 1 .. Ran + 1
      /\ executed'[Ran + 1] = k /\ \A m \in 1 .. Ran : executed'[m] = executed[m]
  <2>1. executed \in Seq(Commands) /\ executed' \in Seq(Commands) /\ Ran \in Nat
    BY LenProperties DEF Types, TypeOK, Ran
  <2>2. /\ Len(executed') = Ran + 1 /\ executed'[Ran + 1] = k
        /\ \A m \in 1 .. Ran : executed'[m] = executed[m]
    BY <2>1, AppendProperties DEF Ran
  <2> QED
    BY <2>1, <2>2, LenProperties DEF Ran
<1>2. Ran' = Ran + 1
  BY <1>1 DEF Ran
<1>3. \A m \in DOMAIN executed' : m \in DOMAIN executed \/ m = Ran + 1
  BY <1>1
<1>4. DOMAIN executed \subseteq DOMAIN executed' /\ Ran + 1 \in DOMAIN executed'
  BY <1>1
<1>5. Range(executed') = Range(executed) \cup {k}
  <2>1. \A m \in DOMAIN executed : executed'[m] = executed[m]
    BY <1>1
  <2> QED
    BY <1>1, <1>3, <1>4, <2>1 DEF Range
<1>6. \A m \in DOMAIN executed' : executed'[m] <= k
  <2>1. k <= k
    BY CommandsAreNumbers
  <2> QED
    BY <1>1, <1>3, <2>1
<1>7. ASSUME NEW m \in DOMAIN executed', NEW n \in DOMAIN executed', m < n
      PROVE  executed'[m] <= executed'[n]
  <2>1. CASE n = Ran + 1
    BY <1>1, <1>6, <2>1
  <2>2. CASE n # Ran + 1
    <3>1. n \in 1 .. Ran /\ m \in 1 .. Ran
      BY <1>1, <1>7, <2>2
    <3> QED
      BY <1>1, <1>7, <3>1
  <2> QED
    BY <2>1, <2>2
<1> QED
  BY <1>2, <1>5, <1>6, <1>7

\* The numbers of an Execute that answers: a frame instead of a command at hand.
LEMMA ReplyWithin ==
  ASSUME Types, Types', NEW u \in Nat, NEW v \in Nat, Within(u, v),
         UNCHANGED <<answered, faults>>, pc[Sim] = "handling", pc'[Sim] = "scanning", pc'[Client] = pc[Client],
         packet'[Sim] = request, Ran' = Ran + 1, Issued' = Issued, chan'[Sim] = chan[Sim],
         Frames(Client)' = Frames(Client) + 1, Naks(Client)' = Naks(Client),
         Frames(Sim)' = Frames(Sim), Naks(Sim)' = Naks(Sim),
         Owed(chan'[Client], errlen'[Client], u), Owed(chan'[Sim], errlen'[Sim], v)
  PROVE  Within(u, v)'
<1>1. /\ Frames(Client) \in Nat /\ Naks(Client) \in Nat /\ Frames(Sim) \in Nat /\ Naks(Sim) \in Nat
      /\ Garbled \in Int /\ Harmed \in Int /\ Current \in Nat /\ Away \in Nat
      /\ Ran \in Nat /\ Cardinality(Issued) \in Nat
  BY Counts
<1>2. Garbled' = Garbled /\ Harmed' = Harmed /\ Away' = Away /\ Current' = Current /\ Busy = 1 /\ Busy' = 0
  BY DEF Garbled, Harmed, Away, Current, Busy, One
<1>3. Gap(u) = Current + Frames(Client) + Naks(Sim) + u - 1 - Garbled
  BY DEF Gap
<1>4. Gap(u)' = Gap(u) + 1
  <2>1. Gap(u)' = Current' + Frames(Client)' + Naks(Sim)' + u - 1 - Garbled'
    BY DEF Gap
  <2> QED
    BY <1>1, <1>2, <1>3, <2>1
<1>5. /\ Frames(Client) + Naks(Client) + u + Busy + Frames(Sim) + Naks(Sim) + v + Away <= 1 + Garbled
      /\ Gap(u) + 1 <= request
      /\ Late(chan[Sim], Gap(u) + Busy)
      /\ Ran + Busy + Frames(Sim) + Naks(Client) + v <= Cardinality(Issued) + Garbled + Harmed
  BY DEF Within
<1>6. Gap(u)' + Busy' = Gap(u) + Busy
  BY <1>1, <1>2, <1>3, <1>4
<1>7. Late(chan'[Sim], Gap(u)' + Busy')
  BY <1>5, <1>6, Zenon
<1>8. Frames(Client)' + Naks(Client)' + u + Busy' + Frames(Sim)' + Naks(Sim)' + v + Away' <= 1 + Garbled'
  BY <1>1, <1>2, <1>5
<1>9. Ran' + Busy' + Frames(Sim)' + Naks(Client)' + v <= Cardinality(Issued') + Garbled' + Harmed'
  BY <1>1, <1>2, <1>5
<1>10. Gap(u)' <= packet'[Sim]
  BY <1>4, <1>5
<1> QED
  BY <1>7, <1>8, <1>9, <1>10 DEF Within

LEMMA IssuedCountedNext ==
  Types' => Cardinality(Issued') <= Cardinality(Range(executed')) + Busy' + Frames(Sim)'
<1>1. (Types => Cardinality(Issued) <= Cardinality(Range(executed)) + Busy + Frames(Sim))'
  BY IssuedCounted, PTL
<1> QED
  BY <1>1

LEMMA ExecuteNoise ==
  ASSUME Noise, Execute
  PROVE  Noise'
<1>1. /\ Types /\ Types'
      /\ pc[Sim] = "handling" /\ request \in Commands /\ pc'[Client] = pc[Client]
      /\ executed' = Append(executed, request)
      /\ UNCHANGED <<errlen, request, answered, faults>>
      /\ packet'[Client] = packet[Client] /\ chan'[Sim] = chan[Sim]
      /\ \/ /\ pc'[Sim] = "scanning" /\ packet'[Sim] = request
            /\ chan'[Client] = Append(chan[Client], Frame(request))
         \/ pc'[Sim] = "exited" /\ packet' = packet /\ chan' = chan
  BY TypesExecute DEF Noise
<1>2. Garbled' = Garbled /\ Harmed' = Harmed /\ Low = request /\ Current' = Current /\ Busy = 1 /\ Busy' = 0
  BY <1>1 DEF Garbled, Harmed, Low, Current, Busy, One
<1>3. /\ Client \in Ends /\ Sim \in Ends /\ request \in Nat
      /\ packet[Client] \in Nat /\ packet[Sim] \in Nat /\ Current \in Nat /\ 0 \in Nat
      /\ Garbled \in Int /\ Harmed \in Int /\ Frames(Client) \in Nat /\ Naks(Client) \in Nat
      /\ Frames(Sim) \in Nat /\ Naks(Sim) \in Nat /\ Ran \in Nat /\ Cardinality(Issued) \in Nat
  BY <1>1, TypedState, Counts, CommandsAreNumbers, Ends2
<1>4. packet[Sim] <= request /\ request <= packet[Client]
  BY <1>2 DEF Noise, Asks
<1>5. /\ Ran' = Ran + 1 /\ Range(executed') = Range(executed) \cup {request}
      /\ \A m, n \in DOMAIN executed' : m < n => executed'[m] <= executed'[n]
      /\ \A m \in DOMAIN executed' : executed'[m] <= request
  <2>1. /\ \A m, n \in DOMAIN executed : m < n => executed[m] <= executed[n]
        /\ \A m \in DOMAIN executed : executed[m] <= request
    BY <1>1, <1>2 DEF Noise, InOrder
  <2>2. PICK k \in Commands : k = request
    BY <1>1
  <2>3. executed' = Append(executed, k) /\ \A m \in DOMAIN executed : executed[m] <= k
    BY <1>1, <2>1, <2>2
  <2>4. /\ Ran' = Ran + 1 /\ Range(executed') = Range(executed) \cup {k}
        /\ \A m, n \in DOMAIN executed' : m < n => executed'[m] <= executed'[n]
        /\ \A m \in DOMAIN executed' : executed'[m] <= k
    BY <1>1, <2>1, <2>3, ExecutedNext
  <2> QED
    BY <2>2, <2>4
<1>6. Issued' = Issued
  <2>1. pc'[Sim] # "handling"
    BY <1>1
  <2> QED
    BY <1>1, <1>5, <2>1 DEF Issued
<1>7. Frames(Sim)' = Frames(Sim) /\ Naks(Sim)' = Naks(Sim)
  BY <1>1 DEF Frames, Naks
<1>8. LagBoundedByFaults'
  BY <1>1 DEF Noise, LagBoundedByFaults
<1>9. PICK u \in Nat, v \in Nat : Within(u, v)
  BY <1>1 DEF Noise, Bounds
<1>10. CASE pc'[Sim] = "scanning" /\ packet'[Sim] = request
            /\ chan'[Client] = Append(chan[Client], Frame(request))
  <2>1. /\ Frames(Client)' = Frames(Client) + 1 /\ Naks(Client)' = Naks(Client)
        /\ \A base \in Int :
             Late(chan[Client], base) /\ base + Frames(Client) + 1 <= request => Late(chan'[Client], base)
        /\ \A low, high \in Nat :
             low <= high /\ high <= request /\ Ordered(chan[Client], low, high)
               => Ordered(chan'[Client], low, request)
        /\ \A x \in Nat : Owed(chan[Client], errlen[Client], x) => Owed(chan'[Client], errlen'[Client], x)
    <3>1. Told(chan[Client], 0) = chan[Client] /\ One(0 > 0) = 0
      BY DEF Told, One
    <3>2. chan'[Client] = Append(Told(chan[Client], 0), Frame(request)) /\ errlen'[Client] = errlen[Client]
      BY <1>1, <1>10, <3>1
    <3>3. /\ Frames(Client)' = Frames(Client) + 1 /\ Naks(Client)' = Naks(Client) + 0
          /\ \A base \in Int :
               Late(chan[Client], base) /\ base + Frames(Client) + 1 <= request => Late(chan'[Client], base)
          /\ \A low, high \in Nat :
               low <= high /\ high <= request /\ Ordered(chan[Client], low, high)
                 => Ordered(chan'[Client], low, request)
          /\ \A x \in Nat : Owed(chan[Client], errlen[Client], x) => Owed(chan'[Client], errlen'[Client], x)
      BY <1>1, <1>3, <3>1, <3>2, FrameThere
    <3>4. Naks(Client)' = Naks(Client)
      BY <1>3, <3>3
    <3> QED
      BY <3>3, <3>4
  <2>2. Low' = request
    BY <1>10 DEF Low
  <2>3. Asks'
    <3>1. 0 <= packet[Sim] /\ request <= request
      BY <1>3
    <3>2. Ordered(chan'[Client], 0, request)
      BY <1>3, <1>4, <2>1, <3>1 DEF Noise, Asks
    <3> QED
      BY <1>1, <1>2, <1>4, <1>10, <2>2, <3>1, <3>2 DEF Noise, Asks
  <2>4. InOrder'
    <3>1. Ordered(chan[Sim], request, packet[Client])
      BY <1>1, <1>2 DEF Noise, InOrder
    <3> QED
      BY <1>1, <1>5, <1>10, <2>2, <3>1 DEF InOrder
  <2>5. AnswersLate'
    <3>1. Gap(u) + 1 <= request /\ Gap(u) = Current + Frames(Client) + Naks(Sim) + u - 1 - Garbled
      BY <1>1, <1>9 DEF Within, Gap
    <3>2. Current - 1 - Garbled \in Int /\ Current - 1 - Garbled + Frames(Client) + 1 <= request
      BY <1>3, <3>1
    <3>3. Late(chan'[Client], Current - 1 - Garbled)
      BY <2>1, <3>2 DEF Noise, AnswersLate
    <3> QED
      BY <1>2, <3>3 DEF AnswersLate
  <2>6. Within(u, v)'
    <3>1. Owed(chan'[Client], errlen'[Client], u) /\ Owed(chan'[Sim], errlen'[Sim], v)
      BY <1>1, <1>9, <2>1 DEF Within
    <3> QED
      BY <1>1, <1>5, <1>6, <1>7, <1>9, <1>10, <2>1, <3>1, ReplyWithin
  <2>7. Bounds' /\ RepeatsAfterExit'
    BY <1>10, <2>6 DEF Bounds, RepeatsAfterExit
  <2> QED
    BY <1>1, <1>8, <2>3, <2>4, <2>5, <2>7 DEF Noise
<1>11. CASE pc'[Sim] = "exited" /\ packet' = packet /\ chan' = chan
  <2>1. Low' = packet[Sim]
    BY <1>11 DEF Low
  <2>2. Asks'
    <3>1. packet[Sim] <= packet[Sim] /\ packet[Sim] <= packet[Client]
      BY <1>3, <1>4
    <3> QED
      BY <1>1, <1>2, <1>11, <2>1, <3>1 DEF Noise, Asks
  <2>3. InOrder'
    BY <1>5, <1>11 DEF InOrder
  <2>4. AnswersLate'
    BY <1>2, <1>11 DEF Noise, AnswersLate
  <2>5. RepeatsAfterExit'
    <3>1. Ran + Busy + Frames(Sim) + Naks(Client) + v <= Cardinality(Issued) + Garbled + Harmed
      BY <1>9 DEF Within
    <3>2. Cardinality(Issued) <= Cardinality(Range(executed')) + 0 + Frames(Sim)
      BY <1>1, <1>2, <1>6, <1>7, IssuedCountedNext
    <3>3. Cardinality(Range(executed')) \in Nat
      <4>1. (Types => Cardinality(Range(executed)) \in Nat)'
        BY IssuedFinite, PTL
      <4> QED
        BY <1>1, <4>1
    <3>4. Ran' <= Cardinality(Range(executed')) + Garbled' + Harmed'
      BY <1>2, <1>3, <1>5, <3>1, <3>2, <3>3
    <3> QED
      BY <3>4 DEF RepeatsAfterExit, Ran
  <2>6. Bounds'
    BY <1>11 DEF Bounds
  <2> QED
    BY <1>1, <1>8, <2>2, <2>3, <2>4, <2>5, <2>6 DEF Noise
<1> QED
  BY <1>1, <1>10, <1>11

-----------------------------------------------------------------------------
(***************************************************************************)
(* The bounds                                                              *)
(***************************************************************************)
LEMMA NoiseNext ==
  ASSUME FrameBytes < MaxErrorSize, Noise, [Next]_vars
  PROVE  Noise'
<1>1. CASE UNCHANGED vars
  <2>1. UNCHANGED <<pc, packet, errlen, chan, request, executed, answered, faults>>
    BY <1>1 DEF vars
  <2>2. /\ UNCHANGED <<Current, Low, Issued, Garbled, Harmed, Busy, Away, Ran>>
        /\ \A e \in Ends : Frames(e)' = Frames(e) /\ Naks(e)' = Naks(e)
        /\ \A u \in Nat : Gap(u)' = Gap(u)
    BY <2>1, Ends2 DEF Current, Low, Issued, Garbled, Harmed, Busy, Away, Ran, Frames, Naks, Gap
  <2>3. Types'
    BY <2>1 DEF Noise, Types, TypeOK
  <2>4. Asks' /\ InOrder'
    BY <2>1, <2>2 DEF Noise, Asks, InOrder
  <2>5. AnswersLate' /\ LagBoundedByFaults' /\ RepeatsAfterExit'
    BY <2>1, <2>2 DEF Noise, AnswersLate, LagBoundedByFaults, RepeatsAfterExit
  <2>6. \A u, v \in Nat : Within(u, v) => Within(u, v)'
    BY <2>1, <2>2, Ends2 DEF Within
  <2>7. Bounds'
    BY <2>1, <2>6 DEF Noise, Bounds
  <2> QED
    BY <2>3, <2>4, <2>5, <2>7 DEF Noise
<1>2. CASE ClientStep
  BY <1>2, ScanNoise, SendNoise, AnswerNoise, EOFNoise DEF ClientStep, Ends
<1>3. CASE SimStep
  BY <1>3, ScanNoise, CommandNoise, ExecuteNoise DEF SimStep, Ends
<1>4. CASE ConnectionReset
  BY <1>4, ResetNoise
<1>5. CASE Faults
  BY <1>5, DeathNoise, GarbleFrameNoise, GarbleTokenNoise DEF Faults
<1> QED
  BY <1>1, <1>2, <1>3, <1>4, <1>5 DEF Next

\* However many tokens are lost as bytes that match no rule, the client takes
\* an answer at most that many commands old for the answer to its last
\* command (gdb_get_answer takes the packet that yylex returns, whatever it
\* answers).  A packet has at most MAX_PACKET_SIZE - 1 bytes (gdb_protocol.c)
\* and the scanner's buffer MAX_ERROR_SIZE (scanner.l), both 1024.
THEOREM LagCorrect ==
  ASSUME FrameBytes < MaxErrorSize
  PROVE  Spec => []LagBoundedByFaults
<1>1. Spec => []Noise
  BY NoiseInit, NoiseNext, PTL DEF Spec
<1>2. Noise => LagBoundedByFaults
  BY DEF Noise
<1> QED
  BY <1>1, <1>2, PTL

\* Retransmission makes the simulator carry out a command again at most once
\* for each fault of the line, and never one before the last.
THEOREM RepeatsCorrect ==
  ASSUME FrameBytes < MaxErrorSize
  PROVE  Spec => []RepeatsBoundedByFaults
<1>1. Spec => []Noise
  BY NoiseInit, NoiseNext, PTL DEF Spec
<1>2. Noise => RepeatsBoundedByFaults
  <2> SUFFICES ASSUME Noise PROVE RepeatsBoundedByFaults
    OBVIOUS
  <2>1. Len(executed) <= Cardinality(Range(executed)) + Garbled + Harmed
    <3>1. CASE pc[Sim] = "exited"
      BY <3>1 DEF Noise, RepeatsAfterExit
    <3>2. CASE pc[Sim] # "exited"
      <4>1. PICK u \in Nat, v \in Nat : Within(u, v)
        BY <3>2 DEF Noise, Bounds
      <4> QED
        BY <4>1, RepeatsCounted DEF Noise, Ran
    <3> QED
      BY <3>1, <3>2
  <2>2. \A m, n \in DOMAIN executed : m < n => executed[m] <= executed[n]
    BY DEF Noise, InOrder
  <2> QED
    BY <2>1, <2>2 DEF RepeatsBoundedByFaults, Garbled, Harmed
<1> QED
  BY <1>1, <1>2, PTL
=============================================================================
