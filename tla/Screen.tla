------------------------------- MODULE Screen -------------------------------
(***************************************************************************)
(* The double-buffered screen of src/fb.c: threads draw into back_buffer   *)
(* and copy it to the framebuffer, as thread_a and thread_b of             *)
(* src/kernel.c do for ever: fkprintf(...); flush(); ksleep(...).          *)
(*                                                                         *)
(* fkprintf draws with interrupts off and is one step.  flush does not     *)
(* lock anything: its byte loop may be preempted between any load and the  *)
(* store that follows, and any other thread may draw and flush meanwhile.  *)
(*                                                                         *)
(* A byte is abstracted to its version: the number of the draw that wrote  *)
(* it.                                                                     *)
(***************************************************************************)
EXTENDS Naturals

CONSTANTS
  Threads,
  fb_size,      \* bytes in a frame
  MaxDraws      \* bound: fkprintf calls made

ASSUME ScreenAssumption == fb_size \in Nat \ {0} /\ MaxDraws \in Nat

Bytes == 0 .. (fb_size - 1)

VARIABLES
  back_buffer,  \* version of each byte drawn
  fb,           \* version of each byte shown
  pc,           \* "print", or "load" or "store" inside flush, per thread
  i,            \* kmemcpy's index, per thread
  reg,          \* the byte between its load and its store, per thread
  draws,        \* draws made so far
  torn          \* bytes a late store has set back and none has mended (history)

vars == <<back_buffer, fb, pc, i, reg, draws, torn>>

Init ==
  /\ back_buffer = [b \in Bytes |-> 0]
  /\ fb = [b \in Bytes |-> 0]
  /\ pc = [t \in Threads |-> "print"]
  /\ i = [t \in Threads |-> 0]
  /\ reg = [t \in Threads |-> 0]
  /\ draws = 0
  /\ torn = {}

(* fkprintf changes some bytes of the back buffer; then flush begins. *)
fkprintf(t) ==
  /\ pc[t] = "print"
  /\ draws < MaxDraws
  /\ draws' = draws + 1
  /\ \E S \in SUBSET Bytes \ {{}} :
       back_buffer' = [b \in Bytes |-> IF b \in S THEN draws' ELSE back_buffer[b]]
  /\ pc' = [pc EXCEPT ![t] = "load"]
  /\ i' = [i EXCEPT ![t] = 0]
  /\ UNCHANGED <<fb, reg, torn>>

ContinuesShort(n) == n < fb_size - 1     \* mutant: stops one byte early
ContinuesPast(n)  == n <= fb_size        \* mutant: copies one byte more

(* i < size *)
Continues(n) == n < fb_size

(* mutant: *src, without the index *)
load_first(t) ==
  /\ pc[t] = "load"
  /\ reg' = [reg EXCEPT ![t] = back_buffer[0]]
  /\ pc' = [pc EXCEPT ![t] = "store"]
  /\ UNCHANGED <<back_buffer, fb, i, draws, torn>>

load(t) ==
  /\ pc[t] = "load"
  /\ reg' = [reg EXCEPT ![t] = back_buffer[i[t]]]
  /\ pc' = [pc EXCEPT ![t] = "store"]
  /\ UNCHANGED <<back_buffer, fb, i, draws, torn>>

(* The store, i++ and the loop's test; after the last byte flush returns. *)
store(t) ==
  LET b == i[t]
  IN /\ pc[t] = "store"
     /\ fb' = [fb EXCEPT ![b] = reg[t]]
     /\ torn' = IF reg[t] < fb[b] THEN torn \cup {b}
                ELSE IF reg[t] = back_buffer[b] THEN torn \ {b}
                ELSE torn
     /\ i' = [i EXCEPT ![t] = b + 1]
     /\ pc' = [pc EXCEPT ![t] = IF Continues(b + 1) THEN "load" ELSE "print"]
     /\ UNCHANGED <<back_buffer, reg, draws>>

(* Every thread sleeps. *)
Quiet == \A t \in Threads : pc[t] = "print"

AllAsleep == Quiet /\ draws = MaxDraws /\ UNCHANGED vars

Flush(t) == load(t) \/ store(t)

Next == (\E t \in Threads : fkprintf(t) \/ Flush(t)) \/ AllAsleep

Spec == Init /\ [][Next]_vars

(* The scheduler runs every thread that is ready (NoStarvation in Trap). *)
FairSpec == Spec /\ \A t \in Threads : WF_vars(Flush(t))

-----------------------------------------------------------------------------
(* Properties *)

TypeOK ==
  /\ back_buffer \in [Bytes -> 0 .. MaxDraws]
  /\ fb \in [Bytes -> 0 .. MaxDraws]
  /\ pc \in [Threads -> {"print", "load", "store"}]
  /\ i \in [Threads -> 0 .. fb_size]
  /\ \A t \in Threads : pc[t] # "print" => i[t] \in Bytes
  /\ reg \in [Threads -> 0 .. MaxDraws]
  /\ draws \in 0 .. MaxDraws
  /\ torn \subseteq Bytes

(***************************************************************************)
(* When nobody is inside flush the screen shows what has been drawn, but   *)
(* for bytes that a preempted flush set back.                              *)
(***************************************************************************)
QuietIsCurrent ==
  Quiet => \A b \in Bytes \ torn : fb[b] = back_buffer[b]

(* Whatever is drawn comes to the screen, but for bytes set back. *)
DrawnIsShown ==
  \A b \in Bytes, v \in 1 .. MaxDraws :
    back_buffer[b] = v ~> (fb[b] >= v \/ b \in torn)

(* Without the exemption: when all is quiet the screen shows what was drawn. *)
EveryQuietIsCurrent == Quiet => fb = back_buffer

=============================================================================
