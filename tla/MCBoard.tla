------------------------------- MODULE MCBoard -------------------------------
(***************************************************************************)
(* Three services of the board support package that share no variable,     *)
(* checked side by side: part is the one that runs, the others stay where  *)
(* they begin.  No action of one reads a variable of another.              *)
(***************************************************************************)
EXTENDS Alarms, Files, Interrupts

VARIABLE part
board == <<part, alarms, files, interrupts>>

BoardInit ==
  /\ part \in {"alarms", "files", "interrupts"}
  /\ AlarmsInit /\ FilesInit /\ IrqInit
  /\ part # "interrupts" => ienable = {} /\ lines = {} /\ ~started

NextAlarms == part = "alarms" /\ AlarmsNext /\ UNCHANGED <<part, files, interrupts>>
NextFiles == part = "files" /\ FilesNext /\ UNCHANGED <<part, alarms, interrupts>>
NextInterrupts == part = "interrupts" /\ IrqNext /\ UNCHANGED <<part, alarms, files>>
BoardNext == NextAlarms \/ NextFiles \/ NextInterrupts

(* The processor does not stop, for the part that runs. *)
BoardFairness ==
  /\ WF_interrupts(part = "interrupts" /\ ProgramStep)
  /\ WF_interrupts(part = "interrupts" /\ Dispatch)

BoardSpec == BoardInit /\ [][BoardNext]_board /\ BoardFairness
=============================================================================
