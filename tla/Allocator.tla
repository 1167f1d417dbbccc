----------------------------- MODULE Allocator -----------------------------
(***************************************************************************)
(* What kmalloc and kfree (include/malloc.h) promise a caller, with no     *)
(* free list: a set of live blocks, each with its length.  A request is    *)
(* granted any stretch of the arena that meets no other block, and may be  *)
(* refused only when there is none.                                        *)
(***************************************************************************)
EXTENDS Integers

CONSTANTS
  Overhead,   \* bytes in front of every block that belong to it
  Unit,       \* lengths are rounded up to a multiple of this
  Requests    \* the sizes callers ask for

VARIABLES
  arena,      \* the addresses under management
  live,       \* blocks callers hold: address -> length
  pending     \* the size being asked for, 0 when no call is under way

avars == <<arena, live, pending>>

Extent(p) == (p - Overhead) .. (p + live[p] - 1)

IsHole(S) == S \subseteq arena /\ \A p \in DOMAIN live : S \cap Extent(p) = {}

RoundUp(n) == ((n + Unit - 1) \div Unit) * Unit

AInit == arena = {} /\ live = [p \in {} |-> 0] /\ pending = 0

(* Management starts, over whatever memory there turns out to be. *)
Open ==
  /\ arena = {} /\ live = [p \in {} |-> 0] /\ pending = 0
  /\ UNCHANGED <<live, pending>>

Call ==
  /\ pending = 0
  /\ pending' \in Requests \ {0}
  /\ UNCHANGED <<arena, live>>

Grant ==
  /\ pending # 0
  /\ pending' = 0
  /\ \E p \in DOMAIN live' \ DOMAIN live :
       /\ live'[p] >= pending
       /\ IsHole((p - Overhead) .. (p + live'[p] - 1))
       /\ live' = [q \in DOMAIN live \cup {p} |->
                     IF q = p THEN live'[p] ELSE live[q]]
  /\ UNCHANGED arena

Refuse ==
  /\ pending # 0
  /\ pending' = 0
  /\ \A x \in arena : ~IsHole(x .. (x + Overhead + RoundUp(pending) - 1))
  /\ UNCHANGED <<arena, live>>

Free ==
  /\ pending = 0
  /\ \E p \in DOMAIN live : live' = [q \in DOMAIN live \ {p} |-> live[q]]
  /\ UNCHANGED <<arena, pending>>

ANext == Open \/ Call \/ Grant \/ Refuse \/ Free

ASpec == AInit /\ [][ANext]_avars

=============================================================================
