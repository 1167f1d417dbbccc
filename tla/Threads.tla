------------------------------ MODULE Threads ------------------------------
(***************************************************************************)
(* What the kernel promises its threads, with no traps in it: one thread   *)
(* has the hart; it may nap for some ticks or exit, and then does nothing  *)
(* more until the hart goes to another; ticks wake sleepers when their     *)
(* naps are over; and the hart goes round the threads that are ready,      *)
(* passing none over.                                                      *)
(***************************************************************************)
EXTENDS Integers

CONSTANTS
  N,         \* threads are numbered 0 .. N - 1
  MaxNap     \* the longest nap

Ids == 0 .. (N - 1)

VARIABLES
  state,     \* "alive", "sleep" or "dead"
  nap,       \* ticks of sleep each thread has left
  running    \* who has the hart

tvars == <<state, nap, running>>

TInit ==
  /\ state \in [Ids -> {"alive", "dead"}]
  /\ nap = [i \in Ids |-> 0]
  /\ running = 0 /\ state[0] = "alive"

Nap ==
  /\ state[running] = "alive"
  /\ \E ticks \in 1 .. MaxNap : nap' = [nap EXCEPT ![running] = ticks]
  /\ state' = [state EXCEPT ![running] = "sleep"]
  /\ UNCHANGED running

Exit ==
  /\ state[running] = "alive"
  /\ state' = [state EXCEPT ![running] = "dead"]
  /\ UNCHANGED <<nap, running>>

(* Every sleeper is one tick nearer to its end; those at the end wake. *)
Tick ==
  /\ nap' = [i \in Ids |-> IF state[i] = "sleep" THEN nap[i] - 1 ELSE nap[i]]
  /\ state' = [i \in Ids |->
                 IF state[i] = "sleep" /\ nap[i] = 1 THEN "alive" ELSE state[i]]
  /\ UNCHANGED running

(* How many threads further round the circle j is from the running one. *)
Ahead(j) == IF j > running THEN j - running ELSE j - running + N

Switch ==
  /\ \E j \in Ids :
       /\ running' = j
       /\ state[j] = "alive"
       /\ \A k \in Ids : state[k] = "alive" => Ahead(j) <= Ahead(k)
  /\ UNCHANGED <<state, nap>>

TNext == Nap \/ Exit \/ Tick \/ Switch

TSpec == TInit /\ [][TNext]_tvars

=============================================================================
