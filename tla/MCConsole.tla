----------------------------- MODULE MCConsole -----------------------------
(* Console as kernel_main uses it, on the screen it has. *)
EXTENDS Console

CONSTANTS boot, other

MCThreads == {boot, other}
MCStart   == [x |-> 10, y |-> 10, scale |-> 1]
MCCalls   == {[x |-> 60, y |-> 60, scale |-> 1]}

=============================================================================
