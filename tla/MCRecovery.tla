----------------------------- MODULE MCRecovery -----------------------------
(* A LevelDB that stops and is opened again, when the machine may stop and  *)
(* when only the process does.                                              *)
EXTENDS Recovery

CONSTANT ProcessWrites  \* updates when only processes stop

VARIABLE part

(* The process may stop, not the machine; no caller asks for sync.          *)
Process == INSTANCE Recovery WITH
  MachineCrashes <- FALSE, SyncModes <- {FALSE}, MaxWrites <- ProcessWrites

ASSUME Process!BoundsAssumption

-----------------------------------------------------------------------------
MCInit == part \in {"machine", "process"} /\ Init

MachineStep == part = "machine" /\ Next /\ UNCHANGED part

ProcessStep == part = "process" /\ Process!Next /\ UNCHANGED part

MCNext == MachineStep \/ ProcessStep

MCSpec == MCInit /\ [][MCNext]_<<part, vars>>
=============================================================================
