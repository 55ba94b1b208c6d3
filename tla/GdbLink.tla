------------------------------ MODULE GdbLink ------------------------------
(***************************************************************************)
(* The link between the client programs and the ARM simulator: framing,    *)
(* acknowledgement and retransmission of gdb_protocol.c over the token     *)
(* scanner of scanner.l.                                                   *)
(*                                                                         *)
(* The client is one thread: a command is framed and written, and yylex    *)
(* then reads tokens until it returns a packet or EOF.  The simulator is a *)
(* process of its own.  Its binary embeds the same scanner and the same    *)
(* packet check, so both ends share the receiving actions; what it does    *)
(* with a command is external.  The bytes in flight in one direction are a *)
(* sequence of tokens of the scanner, in the order they were written.      *)
(***************************************************************************)
EXTENDS Naturals, FiniteSets, Sequences, SequencesExt

CONSTANTS
  Program,       \* the kinds of the commands, in the order the client issues them
  MaxErrorSize,  \* MAX_ERROR_SIZE of scanner.l
  FrameFaults,   \* how many frames may arrive with a wrong checksum
  ByteFaults,    \* how many tokens may arrive as bytes that match no rule
  FrameBytes,    \* how many such bytes a frame without its '$' becomes
  SimDeaths      \* how many times the simulator may exit by itself

Kinds == {"set", "step", "cont"}  \* gdb_write_*, gdb_step, gdb_cont
Client == "client"
Sim == "sim"
Ends == {Client, Sim}
EOF == 0
NoPacket == 0

ASSUME ProgramAssumption ==
  /\ Program \in Seq(Kinds)
  /\ Len(Program) > 0
ASSUME SizesAssumption ==
  /\ MaxErrorSize \in Nat \ {0, 1}
  /\ FrameBytes \in Nat \ {0}
  /\ {FrameFaults, ByteFaults, SimDeaths} \subseteq Nat

VARIABLES
  pc,        \* where each end is
  packet,    \* gdb->packet of each end, the last one framed; NoPacket before
  errlen,    \* data.len of each end's scanner
  chan,      \* the tokens on their way to each end
  request,   \* the command the simulator is carrying out
  executed,  \* the commands carried out, in order
  answered,  \* what the client took as the answer to each command
  faults     \* the faults still to come

vars == <<pc, packet, errlen, chan, request, executed, answered, faults>>

Commands == 1 .. Len(Program)
Current == Len(answered) + 1  \* the command the client is at

(***************************************************************************)
(* Tokens                                                                  *)
(***************************************************************************)
Ack == [kind |-> "ack"]
Nak == [kind |-> "nak"]
Junk == [kind |-> "junk"]
Frame(i) == [kind |-> "frame", of |-> i, ok |-> TRUE]

Tokens == {Ack, Nak, Junk} \cup
          [kind : {"frame"}, of : Commands, ok : BOOLEAN]

Other(e) == IF e = Client THEN Sim ELSE Client

(***************************************************************************)
(* gdb_transmit_packet: writes packet[0 .. len-1]; len is 0 before the     *)
(* first packet is framed.                                                 *)
(***************************************************************************)
Transmitted(e) == IF packet[e] = NoPacket THEN << >> ELSE <<Frame(packet[e])>>

Init ==
  /\ pc = [e \in Ends |-> IF e = Client THEN "ready" ELSE "scanning"]
  /\ packet = [e \in Ends |-> NoPacket]
  /\ errlen = [e \in Ends |-> 0]
  /\ chan = [e \in Ends |-> << >>]
  /\ request = NoPacket
  /\ executed = << >>
  /\ answered = << >>
  /\ faults = [frame |-> FrameFaults, byte |-> ByteFaults, death |-> SimDeaths]

(***************************************************************************)
(* The scanner, at either end                                              *)
(***************************************************************************)
Scanning(e, kind) ==
  /\ pc[e] = "scanning"
  /\ chan[e] # << >>
  /\ Head(chan[e]).kind = kind

(* Mutant of HandleError: without the test of data->len.                   *)
HandleErrorAlways(e) == <<Nak>>

\* What handle_error writes before the rule's own bytes.
HandleError(e) == IF errlen[e] > 0 THEN <<Nak>> ELSE << >>

Consume(e, written) ==
  chan' = [chan EXCEPT ![e] = Tail(@), ![Other(e)] = @ \o written]

\* A rule of the scanner: handle_error, then the bytes the rule writes.
Rule(e, written) ==
  /\ Consume(e, HandleError(e) \o written)
  /\ errlen' = [errlen EXCEPT ![e] = 0]

ReceiveAck(e) ==
  /\ Scanning(e, "ack")
  /\ Rule(e, << >>)
  /\ UNCHANGED <<pc, packet, request, executed, answered, faults>>

(* Mutant of ReceiveNak: nothing is sent again.                            *)
ReceiveNakIgnores(e) ==
  /\ Scanning(e, "nak")
  /\ Rule(e, << >>)
  /\ UNCHANGED <<pc, packet, request, executed, answered, faults>>

ReceiveNak(e) ==
  /\ Scanning(e, "nak")
  /\ Rule(e, Transmitted(e))
  /\ UNCHANGED <<pc, packet, request, executed, answered, faults>>

(* Mutant of ReceiveBadPacket: the retransmission is required twice.       *)
ReceiveBadPacketTwice(e) ==
  /\ Scanning(e, "frame")
  /\ ~Head(chan[e]).ok
  /\ Rule(e, <<Nak, Nak>>)
  /\ UNCHANGED <<pc, packet, request, executed, answered, faults>>

\* gdb_packet_check finds a wrong checksum and yylex goes on.
ReceiveBadPacket(e) ==
  /\ Scanning(e, "frame")
  /\ ~Head(chan[e]).ok
  /\ Rule(e, <<Nak>>)
  /\ UNCHANGED <<pc, packet, request, executed, answered, faults>>

(* Mutant of ErrorFull: no place is kept for the NUL.                      *)
ErrorFullLate(len) == len > MaxErrorSize - 1

\* add_character_to_error: the buffer is reported when a byte more and the
\* terminating NUL would no longer fit.
ErrorFull(len) == len > MaxErrorSize - 2

(* Mutant of AddCharacterToError: every invalid byte is reported.          *)
AddCharacterToErrorReports(e) ==
  /\ Scanning(e, "junk")
  /\ Consume(e, <<Nak>>)
  /\ UNCHANGED <<pc, packet, errlen, request, executed, answered, faults>>

AddCharacterToError(e) ==
  /\ Scanning(e, "junk")
  /\ Consume(e, IF ErrorFull(errlen[e]) THEN HandleError(e) ELSE << >>)
  /\ errlen' = [errlen EXCEPT ![e] = IF ErrorFull(@) THEN 1 ELSE @ + 1]
  /\ UNCHANGED <<pc, packet, request, executed, answered, faults>>

(***************************************************************************)
(* The client                                                              *)
(***************************************************************************)
\* gdb_send_buffer and gdb_send_data, then yylex.
SendCommand ==
  /\ pc[Client] = "ready"
  /\ Current \in Commands
  /\ packet' = [packet EXCEPT ![Client] = Current]
  /\ chan' = [chan EXCEPT ![Sim] = Append(@, Frame(Current))]
  /\ pc' = [pc EXCEPT ![Client] = "scanning"]
  /\ UNCHANGED <<errlen, request, executed, answered, faults>>

(* Mutant of After: gdb_cont, too, goes on until EOF.                      *)
AfterEOF(kind, answer) ==
  IF kind \in {"cont", "step"} /\ answer = EOF THEN "closed" ELSE "ready"

\* Where the client goes once yylex returned: arm_run cleans up whatever the
\* answer, arm_step only after EOF, and the writes ignore the answer.
After(kind, answer) ==
  IF kind = "cont" \/ (kind = "step" /\ answer = EOF) THEN "closed" ELSE "ready"

TakeAnswer(answer) ==
  /\ answered' = Append(answered, answer)
  /\ pc' = [pc EXCEPT ![Client] = After(Program[Current], answer)]
  /\ UNCHANGED <<packet, request, executed, faults>>

ReceiveAnswer ==
  /\ Scanning(Client, "frame")
  /\ Head(chan[Client]).ok
  /\ Rule(Client, <<Ack>>)
  /\ TakeAnswer(Head(chan[Client]).of)

ReceiveEOF ==
  /\ pc[Client] = "scanning"
  /\ chan[Client] = << >>
  /\ pc[Sim] = "exited"
  /\ chan' = [chan EXCEPT ![Sim] = @ \o HandleError(Client)]
  /\ errlen' = [errlen EXCEPT ![Client] = 0]
  /\ TakeAnswer(EOF)

(***************************************************************************)
(* Bytes written to a simulator that exited are never read and reset the   *)
(* connection: a read then fails (the scanner exits), a write raises       *)
(* SIGPIPE.                                                                *)
(***************************************************************************)
ConnectionReset ==
  /\ pc[Client] \in {"ready", "scanning"}
  /\ pc[Sim] = "exited"
  /\ chan[Sim] # << >>
  /\ pc' = [pc EXCEPT ![Client] = "killed"]
  /\ UNCHANGED <<packet, errlen, chan, request, executed, answered, faults>>

(***************************************************************************)
(* The simulator                                                           *)
(***************************************************************************)
ReceiveCommand ==
  /\ Scanning(Sim, "frame")
  /\ Head(chan[Sim]).ok
  /\ Rule(Sim, <<Ack>>)
  /\ request' = Head(chan[Sim]).of
  /\ pc' = [pc EXCEPT ![Sim] = "handling"]
  /\ UNCHANGED <<packet, executed, answered, faults>>

Execute ==
  /\ pc[Sim] = "handling"
  /\ executed' = Append(executed, request)
  /\ \/ /\ packet' = [packet EXCEPT ![Sim] = request]
        /\ chan' = [chan EXCEPT ![Client] = Append(@, Frame(request))]
        /\ pc' = [pc EXCEPT ![Sim] = "scanning"]
     \/ /\ Program[request] # "set"
        /\ pc' = [pc EXCEPT ![Sim] = "exited"]
        /\ UNCHANGED <<packet, chan>>
  /\ UNCHANGED <<errlen, request, answered, faults>>

SimDies ==
  /\ faults.death > 0
  /\ pc[Sim] # "exited"
  /\ pc' = [pc EXCEPT ![Sim] = "exited"]
  /\ faults' = [faults EXCEPT !.death = @ - 1]
  /\ UNCHANGED <<packet, errlen, chan, request, executed, answered>>

(***************************************************************************)
(* The line                                                                *)
(***************************************************************************)
GarbleFrame(e) ==
  /\ faults.frame > 0
  /\ \E i \in DOMAIN chan[e] :
       /\ chan[e][i].kind = "frame"
       /\ chan[e][i].ok
       /\ chan' = [chan EXCEPT ![e][i].ok = FALSE]
  /\ faults' = [faults EXCEPT !.frame = @ - 1]
  /\ UNCHANGED <<pc, packet, errlen, request, executed, answered>>

JunkFor(token) ==
  [k \in 1 .. IF token.kind = "frame" THEN FrameBytes ELSE 1 |-> Junk]

GarbleToken(e) ==
  /\ faults.byte > 0
  /\ \E i \in DOMAIN chan[e] :
       /\ chan[e][i] # Junk
       /\ chan' = [chan EXCEPT ![e] =
            SubSeq(@, 1, i - 1) \o JunkFor(@[i]) \o SubSeq(@, i + 1, Len(@))]
  /\ faults' = [faults EXCEPT !.byte = @ - 1]
  /\ UNCHANGED <<pc, packet, errlen, request, executed, answered>>

Scan(e) == ReceiveAck(e) \/ ReceiveNak(e) \/ ReceiveBadPacket(e) \/ AddCharacterToError(e)

ClientStep == Scan(Client) \/ SendCommand \/ ReceiveAnswer \/ ReceiveEOF
SimStep == Scan(Sim) \/ ReceiveCommand \/ Execute
Faults == SimDies \/ \E e \in Ends : GarbleFrame(e) \/ GarbleToken(e)

Next == ClientStep \/ SimStep \/ ConnectionReset \/ Faults

(***************************************************************************)
(* Fairness: both processes go on running while they have something to do; *)
(* no fault has to happen.                                                 *)
(***************************************************************************)
Spec == Init /\ [][Next]_vars /\ WF_vars(ClientStep) /\ WF_vars(SimStep)

(***************************************************************************)
(* Properties                                                              *)
(***************************************************************************)
\* The type of every variable, and the bound of the scanner's error buffer:
\* handle_error stores a NUL at buffer[len], so len stays below its size.
TypeOK ==
  /\ pc[Client] \in {"ready", "scanning", "closed", "killed"}
  /\ pc[Sim] \in {"scanning", "handling", "exited"}
  /\ packet \in [Ends -> Commands \cup {NoPacket}]
  /\ errlen \in [Ends -> 0 .. MaxErrorSize - 1]
  /\ chan \in [Ends -> Seq(Tokens)]
  /\ request \in Commands \cup {NoPacket}
  /\ executed \in Seq(Commands)
  /\ answered \in Seq(Commands \cup {EOF})
  /\ faults \in [frame : Nat, byte : Nat, death : Nat]

\* Retransmission never makes the simulator carry out a command twice, skip
\* one or see two out of order, however the checksums fail (a "step" or a
\* "set" repeated would change what the program computes).
ExecutedOnceInOrder == executed = [i \in 1 .. Len(executed) |-> i]

\* The packet that yylex returns to gdb_get_answer is the answer to the
\* command just sent, not one the simulator sent again for an earlier one.
AnswersMatch == \A i \in DOMAIN answered : answered[i] \in {i, EOF}

\* gdb_transmit_packet sends whatever gdb->packet holds: a request for
\* retransmission on its way to an end must find there the packet that was
\* refused, so the client is still waiting and has not been overtaken.
RetransmitsWhatWasLost ==
  \A i \in DOMAIN chan[Client] :
    chan[Client][i].kind = "nak" =>
      /\ pc[Client] = "scanning"
      /\ Current \notin Range(executed)

\* The link is what RemoteRun says of it.
Abstract == INSTANCE RemoteRun WITH alive <- pc[Sim] # "exited"
RefinesRemoteRun == Abstract!Spec

\* However the simulator ends, the client gets to its cleanup or dies of the
\* reset; it never stays in yylex for an answer that no one will send.
ClientTerminates == <>(pc[Client] \in {"closed", "killed"})

\* Every garbled token puts the client at most one answer ahead of the
\* simulator's: an answer taken for command i is that of command i less the
\* number of tokens garbled so far, or a later one.
LagBoundedByFaults ==
  \A i \in DOMAIN answered :
    answered[i] # EOF => answered[i] <= i /\ i <= answered[i] + (ByteFaults - faults.byte)

\* A garbled acknowledgement makes the client send its last command again,
\* when the simulator has carried it out already (scanner.l:64), and so does
\* a damaged command once the client is ahead.  Never more often than there
\* were faults, and never an earlier command after a later one.
RepeatsBoundedByFaults ==
  /\ Len(executed) <= Cardinality(Range(executed))
                        + (ByteFaults - faults.byte) + (FrameFaults - faults.frame)
  /\ \A i, j \in DOMAIN executed : i < j => executed[i] <= executed[j]

\* scanner.l:45 reports "gdb protocol error, invalid data ..., requiring
\* retransmission": bytes that match no rule are reported to the other end,
\* which sends its packet again.
InvalidDataRequiresRetransmission ==
  [](errlen[Client] > 0 => <>(errlen[Client] = 0))
=============================================================================
