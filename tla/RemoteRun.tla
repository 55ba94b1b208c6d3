----------------------------- MODULE RemoteRun -----------------------------
(***************************************************************************)
(* What the command link promises to the programs that use it (load_sim,   *)
(* ARM_runner_example): the simulator carries out the commands of the      *)
(* program once each and in order, never one before the answer to the      *)
(* previous one was taken; the answer taken for a command is the           *)
(* simulator's answer to that very command, or EOF once it has exited.     *)
(***************************************************************************)
EXTENDS Naturals, Sequences

CONSTANTS
  Program,  \* the kinds of the commands, in the order the client issues them
  EOF       \* what the scanner returns in place of an answer

VARIABLES
  executed,  \* the commands the simulator carried out, in order
  answered,  \* answered[i]: what the client took as the answer to command i
  alive      \* the simulator has not exited

vars == <<executed, answered, alive>>

Init ==
  /\ executed = << >>
  /\ answered = << >>
  /\ alive = TRUE

Execute ==
  /\ alive
  /\ Len(executed) = Len(answered)
  /\ Len(executed) < Len(Program)
  /\ executed' = Append(executed, Len(executed) + 1)
  /\ alive' \in IF Program[Len(executed) + 1] = "set" THEN {TRUE} ELSE BOOLEAN
  /\ UNCHANGED answered

Answer ==
  /\ Len(answered) < Len(executed)
  /\ answered' = Append(answered, Len(executed))
  /\ UNCHANGED <<executed, alive>>

\* Only a simulator that exited leaves a command without its answer, whether
\* it carried the command out or not.
AnswerEOF ==
  /\ ~alive
  /\ Len(answered) < Len(Program)
  /\ answered' = Append(answered, EOF)
  /\ UNCHANGED <<executed, alive>>

Exit ==
  /\ alive
  /\ alive' = FALSE
  /\ UNCHANGED <<executed, answered>>

Next == Execute \/ Answer \/ AnswerEOF \/ Exit

\* While the simulator lives the exchange goes on to the end of the program.
Exchange == alive /\ (Execute \/ Answer)

Spec == Init /\ [][Next]_vars /\ WF_vars(Exchange)
=============================================================================
