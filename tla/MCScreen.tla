------------------------------ MODULE MCScreen ------------------------------
(* Screen with two threads, frames of three bytes and three draws. *)
EXTENDS Screen

CONSTANTS ta, tb

MCThreads == {ta, tb}

=============================================================================
