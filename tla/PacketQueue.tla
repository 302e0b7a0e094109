----------------------------- MODULE PacketQueue -----------------------------
(***************************************************************************)
(* What Reporter.c promises a transfer agent: the packets it reports are   *)
(* handled by the reporter one by one, in the order of the calls, none of  *)
(* them twice, and the report is freed only when nothing is left in it.    *)
(* Packets are numbered by the calls.                                      *)
(***************************************************************************)
EXTENDS Integers

VARIABLES written, handled, freed

queueVars == <<written, handled, freed>>

QueueInit == written = 0 /\ handled = 0 /\ freed = FALSE

Put == ~freed /\ written' = written + 1 /\ UNCHANGED <<handled, freed>>
Take == ~freed /\ handled < written /\ handled' = handled + 1 /\ UNCHANGED <<written, freed>>
FreeReport == ~freed /\ handled = written /\ freed' = TRUE /\ UNCHANGED <<written, handled>>

QueueNext == Put \/ Take \/ FreeReport

QueueSpec == QueueInit /\ [][QueueNext]_queueVars
=============================================================================
