------------------------------- MODULE MCTrap -------------------------------
(* Trap on three slots: the boot thread and two more. *)
EXTENDS Trap

MCBothStarted  == {1, 2}
MCNoneStarted  == {}
MCFirstFaults  == {1}
MCNoFaults     == {}

=============================================================================
