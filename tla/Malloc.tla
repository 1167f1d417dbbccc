------------------------------- MODULE Malloc -------------------------------
(***************************************************************************)
(* The heap allocator of src/malloc.c: one doubly linked list of block     *)
(* headers laid out back to back, first fit, split on kmalloc and          *)
(* coalescing with both neighbours on kfree.                               *)
(*                                                                         *)
(* The allocator has one caller at a time: in src/kernel.c only the boot   *)
(* thread calls kmalloc and kfree (directly, through create_thread and     *)
(* through the QOI decoder).  heap_init and kfree are one action each;     *)
(* kmalloc is its call, one action per iteration of its loop over the      *)
(* list, and its two ways out.                                             *)
(***************************************************************************)
EXTENDS Integers, FiniteSets, FiniteSetsExt

CONSTANTS
  SIZE_MOD,    \* 2^64 in the code: size_t arithmetic wraps at it
  StackTop,    \* &_stack_top, the address the linker script leaves for the heap
  HeapSizes,   \* the values heap_init is called with (HEAP_SIZE in the code)
  Requests     \* the values kmalloc is called with

ALIGNMENT   == 8
HEADER_SIZE == 32   \* sizeof(BlockHeader) on a 64-bit target
NULL        == 0

(* mutant: masks without adding ALIGNMENT - 1 first *)
ALIGNDown(n) == (n \div ALIGNMENT) * ALIGNMENT

(* #define ALIGN(size): round up to ALIGNMENT in wrapping arithmetic. *)
ALIGN(n) == (((n + (ALIGNMENT - 1)) % SIZE_MOD) \div ALIGNMENT) * ALIGNMENT

(***************************************************************************)
(* The linker script aligns _stack_top, and no caller asks for a size so   *)
(* close to 2^64 that ALIGN wraps to a smaller one.                        *)
(***************************************************************************)
ASSUME HeapAssumption ==
  /\ StackTop \in Nat \ {0} /\ StackTop % ALIGNMENT = 0
  /\ HeapSizes \subseteq Nat
  /\ Requests \subseteq Nat
  /\ SIZE_MOD \in Nat
  /\ StackTop + ALIGNMENT <= SIZE_MOD
  /\ \A n \in Requests : n + ALIGNMENT <= SIZE_MOD

VARIABLES
  free_list_head,  \* first block of the list, or NULL
  mem,             \* the BlockHeaders in use: address -> header
  busy_mem_size,
  pc,              \* "boot" before heap_init, "idle", or "walk" inside kmalloc
  size,            \* kmalloc's local size, after ALIGN
  current,         \* kmalloc's local cursor
  request,         \* the size the last kmalloc was called with
  owned,           \* pointers the callers hold: pointer -> size they asked for
  heap_end         \* end of the memory heap_init was given (history)

vars == <<free_list_head, mem, busy_mem_size, pc, size, current, request,
          owned, heap_end>>

Header == [size : Nat, is_free : BOOLEAN, next : Nat, prev : Nat]

-----------------------------------------------------------------------------
(* Functions with one point more, and one point fewer. *)
Add(f, x, v) == [y \in DOMAIN f \cup {x} |-> IF y = x THEN v ELSE f[y]]
Drop(f, x)   == [y \in DOMAIN f \ {x} |-> f[y]]

(* The list surgery shared by kmalloc and kfree, on a header map m.         *)

SetPrevNot(m, b, p) == m            \* mutant: the assignment is missing

(* if (b != NULL) b->prev = p; *)
SetPrev(m, b, p) == IF b = NULL THEN m ELSE [m EXCEPT ![b].prev = p]

(* kmalloc keeps s bytes of block b and makes a free block of the rest. *)
Split(m, b, s) ==
  LET rest == b + HEADER_SIZE + s
      h    == [size |-> m[b].size - s - HEADER_SIZE, is_free |-> TRUE,
               next |-> m[b].next, prev |-> b]
  IN [SetPrev(Add(m, rest, h), m[b].next, rest)
        EXCEPT ![b].size = s, ![b].next = rest]

(* mutant: the absorbed header's own bytes are forgotten *)
JoinPayload(m, a, b) ==
  Drop(SetPrev([m EXCEPT ![a].size = m[a].size + m[b].size, ![a].next = m[b].next],
               m[b].next, a), b)

(* Block a absorbs the block b that follows it: b's header is no longer one. *)
Join(m, a, b) ==
  Drop(SetPrev([m EXCEPT ![a].size = m[a].size + HEADER_SIZE + m[b].size,
                         ![a].next = m[b].next],
               m[b].next, a), b)

CoalesceNextNot(m, b) == m          \* mutant: only looks at prev

CoalesceNext(m, b) ==
  IF m[b].next # NULL /\ m[m[b].next].is_free THEN Join(m, b, m[b].next) ELSE m

CoalescePrevNot(m, b) == m          \* mutant: only looks at next

CoalescePrev(m, b) ==
  IF m[b].prev # NULL /\ m[m[b].prev].is_free THEN Join(m, m[b].prev, b) ELSE m

-----------------------------------------------------------------------------
Init ==
  /\ free_list_head = NULL
  /\ mem = [b \in {} |-> NULL]
  /\ busy_mem_size = 0
  /\ pc = "boot"
  /\ size = 0 /\ current = NULL /\ request = 0
  /\ owned = [p \in {} |-> 0]
  /\ heap_end = StackTop

(* heap_init: one free block over everything, or no heap if there is no room. *)
heap_init(total) ==
  LET aligned_start  == ALIGN(StackTop)
      remaining_size == total - (aligned_start - StackTop)
  IN /\ pc = "boot"
     /\ pc' = "idle"
     /\ heap_end' = StackTop + total
     /\ \/ /\ remaining_size <= HEADER_SIZE
           /\ UNCHANGED <<free_list_head, mem>>
        \/ /\ remaining_size > HEADER_SIZE
           /\ free_list_head' = aligned_start
           /\ mem' = [b \in {aligned_start} |->
                        [size |-> remaining_size - HEADER_SIZE, is_free |-> TRUE,
                         next |-> NULL, prev |-> NULL]]
     /\ UNCHANGED <<busy_mem_size, size, current, request, owned>>

(* kmalloc(0) returns NULL at once and changes nothing. *)
kmalloc_enter(n) ==
  /\ pc = "idle"
  /\ n # 0
  /\ size' = ALIGN(n)
  /\ current' = free_list_head
  /\ request' = n
  /\ pc' = "walk"
  /\ UNCHANGED <<free_list_head, mem, busy_mem_size, owned, heap_end>>

(* kmalloc's frame, and the locals in it, are gone once it returns. *)
kmalloc_return == pc' = "idle" /\ size' = 0 /\ current' = NULL /\ request' = 0

FitsStrictly(b) == mem[b].is_free /\ mem[b].size > size   \* mutant: > for >=

FitsTaken(b) == mem[b].size >= size                       \* mutant: any block

Fits(b) == mem[b].is_free /\ mem[b].size >= size

(* mutant: the loop body does not advance *)
kmalloc_next_stays ==
  /\ pc = "walk"
  /\ current # NULL
  /\ ~Fits(current)
  /\ current' = current
  /\ UNCHANGED <<free_list_head, mem, busy_mem_size, pc, size, request, owned,
                 heap_end>>

(* The loop body when the block is taken or too small. *)
kmalloc_next ==
  /\ pc = "walk"
  /\ current # NULL
  /\ ~Fits(current)
  /\ current' = mem[current].next
  /\ UNCHANGED <<free_list_head, mem, busy_mem_size, pc, size, request, owned,
                 heap_end>>

(* mutant: the rest need not hold a header *)
SplitsAnyway(b) == mem[b].size >= size + ALIGNMENT

(* The rest of the block can hold a header and at least ALIGNMENT bytes. *)
Splits(b) == mem[b].size >= size + HEADER_SIZE + ALIGNMENT

(* The loop body when the block fits. *)
kmalloc_take ==
  LET m == IF Splits(current) THEN Split(mem, current, size) ELSE mem
  IN /\ pc = "walk"
     /\ current # NULL
     /\ Fits(current)
     /\ mem' = [m EXCEPT ![current].is_free = FALSE]
     /\ busy_mem_size' = busy_mem_size + m[current].size
     /\ owned' = Add(owned, current + HEADER_SIZE, request)
     /\ kmalloc_return
     /\ UNCHANGED <<free_list_head, heap_end>>

(* The loop ran off the list. *)
kmalloc_null ==
  /\ pc = "walk"
  /\ current = NULL
  /\ kmalloc_return
  /\ UNCHANGED <<free_list_head, mem, busy_mem_size, owned, heap_end>>

(* The list after kfree of the block at b. *)
Freed(m, b) == CoalescePrev(CoalesceNext([m EXCEPT ![b].is_free = TRUE], b), b)

(* mutant: the size is taken after the neighbours have been absorbed *)
kfree_late(ptr) ==
  LET b == ptr - HEADER_SIZE
      m == CoalesceNext([mem EXCEPT ![b].is_free = TRUE], b)
  IN /\ pc = "idle"
     /\ busy_mem_size' = busy_mem_size - m[b].size
     /\ mem' = Freed(mem, b)
     /\ owned' = Drop(owned, ptr)
     /\ UNCHANGED <<free_list_head, pc, size, current, request, heap_end>>

(* kfree of a pointer a caller holds; kfree(NULL) returns and changes nothing. *)
kfree(ptr) ==
  LET b == ptr - HEADER_SIZE
  IN /\ pc = "idle"
     /\ busy_mem_size' = busy_mem_size - mem[b].size
     /\ mem' = Freed(mem, b)
     /\ owned' = Drop(owned, ptr)
     /\ UNCHANGED <<free_list_head, pc, size, current, request, heap_end>>

Next ==
  \/ \E total \in HeapSizes : heap_init(total)
  \/ \E n \in Requests : kmalloc_enter(n)
  \/ kmalloc_next
  \/ kmalloc_take
  \/ kmalloc_null
  \/ \E ptr \in DOMAIN owned : kfree(ptr)

Spec == Init /\ [][Next]_vars

-----------------------------------------------------------------------------
(* Properties *)

TypeOK ==
  /\ free_list_head \in Nat
  /\ DOMAIN mem \subseteq Nat \ {NULL}
  /\ mem \in [DOMAIN mem -> Header]
  /\ busy_mem_size \in Int
  /\ pc \in {"boot", "idle", "walk"}
  /\ size \in Nat /\ current \in Nat /\ request \in Nat
  /\ DOMAIN owned \subseteq Nat
  /\ owned \in [DOMAIN owned -> Nat]
  /\ heap_end \in Nat

(* Block b reaches from its header to the address before End(b). *)
End(b) == b + HEADER_SIZE + mem[b].size

(***************************************************************************)
(* next leads to the header right behind a block and prev leads back; only *)
(* the first block has no prev and only the last one, which ends where the *)
(* heap does, has no next (the pointer updates of kmalloc and kfree).      *)
(***************************************************************************)
WellLinked ==
  \A b \in DOMAIN mem :
    /\ mem[b].next # NULL => /\ mem[b].next \in DOMAIN mem
                             /\ mem[b].next = End(b)
                             /\ mem[mem[b].next].prev = b
    /\ mem[b].prev # NULL => /\ mem[b].prev \in DOMAIN mem
                             /\ mem[mem[b].prev].next = b
    /\ mem[b].next = NULL => End(b) = heap_end
    /\ mem[b].prev = NULL => b = free_list_head

(* Blocks do not overlap, and no byte of the heap is lost between them. *)
Tiled ==
  /\ \A a, b \in DOMAIN mem : a < b => End(a) <= b
  /\ free_list_head # NULL =>
       \A x \in free_list_head .. (heap_end - 1) :
         \E b \in DOMAIN mem : b <= x /\ x < End(b)

(* kfree leaves no two free blocks side by side. *)
Coalesced ==
  \A b \in DOMAIN mem :
    mem[b].is_free /\ mem[b].next # NULL => ~mem[mem[b].next].is_free

(***************************************************************************)
(* What a caller holds is usable: its memory lies inside the heap, is at   *)
(* least as long as asked for, 8-aligned, and shared with no other caller  *)
(* and with no header (the address kmalloc returns, line 79).              *)
(***************************************************************************)
OwnedIsUsable ==
  \A p \in DOMAIN owned :
    /\ p % ALIGNMENT = 0
    /\ StackTop < p /\ p + owned[p] <= heap_end
    /\ \A q \in DOMAIN owned : q < p => q + owned[q] <= p
    /\ \A b \in DOMAIN mem : b + HEADER_SIZE <= p \/ p + owned[p] <= b

(***************************************************************************)
(* Once every pointer has been given back the heap is one free block       *)
(* again, as large as heap_init made it (the allocate-and-free sequence of *)
(* kernel.c:44-76 can be repeated for ever).                               *)
(***************************************************************************)
AllFreedIsWhole ==
  owned = [p \in {} |-> 0] /\ free_list_head # NULL =>
    /\ DOMAIN mem = {free_list_head}
    /\ mem[free_list_head].is_free
    /\ End(free_list_head) = heap_end

(***************************************************************************)
(* get_busy_mem_size is the number of payload bytes in blocks that callers *)
(* hold, and zero when they hold none.                                     *)
(***************************************************************************)
BusyIsExact ==
  busy_mem_size = MapThenSumSet(LAMBDA p : mem[p - HEADER_SIZE].size, DOMAIN owned)

(***************************************************************************)
(* kmalloc returns NULL only when the heap has no hole left for the block: *)
(* every stretch of HEADER_SIZE + size bytes meets a header or the payload *)
(* of a block that is held.  Fragmentation the code could have avoided by  *)
(* coalescing, or a block the walk skipped, would break it.                *)
(***************************************************************************)
NullMeansFull ==
  pc = "walk" /\ current = NULL /\ free_list_head # NULL =>
    \A x \in free_list_head .. (heap_end - HEADER_SIZE - size) :
      \E p \in DOMAIN owned :
        /\ p - HEADER_SIZE < x + HEADER_SIZE + size
        /\ x < End(p - HEADER_SIZE)

(* The loop of kmalloc ends: it cannot follow next pointers for ever. *)
KmallocReturns == (pc = "walk") ~> (pc = "idle")

(* kmalloc, once called, is executed to its end. *)
FairSpec == Spec /\ WF_vars(kmalloc_next) /\ WF_vars(kmalloc_take) /\ WF_vars(kmalloc_null)

-----------------------------------------------------------------------------
(***************************************************************************)
(* The free list implements the allocator its header file promises: the    *)
(* arena is the heap behind free_list_head, a live block is the payload of *)
(* a block a caller holds, and a call is pending while its walk lasts.     *)
(***************************************************************************)
Promise == INSTANCE Allocator WITH
  Overhead <- HEADER_SIZE,
  Unit     <- ALIGNMENT,
  arena    <- IF free_list_head = NULL THEN {} ELSE free_list_head .. (heap_end - 1),
  live     <- [p \in DOMAIN owned |-> mem[p - HEADER_SIZE].size],
  pending  <- request

ImplementsAllocator == Promise!ASpec

=============================================================================
