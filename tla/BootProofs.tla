---------------------------- MODULE BootProofs -----------------------------
(***************************************************************************)
(* kernel_main, with its threads beside it, uses the driver of FwCfg and   *)
(* the heap of Malloc as those modules say, wherever its image ends.  What *)
(* is proved of the two holds of the kernel, and places the frame buffer.  *)
(* Then KInv follows kernel_main's own blocks through its script.          *)
(***************************************************************************)
EXTENDS Boot, FwCfgProofs

Called == {Script[k].n : k \in {j \in DOMAIN Script : Script[j].op = "kmalloc"}}

(* Malloc's proofs, for the heap of Boot. *)
H == INSTANCE MallocProofs WITH
  pc <- walk, request <- asked, HeapSizes <- {HEAP_SIZE}, Requests <- Called

-----------------------------------------------------------------------------
(* The driver. *)

LEMMA BootStepIsDriverStep == [BootNext]_boot_vars => [Next]_vars
<1> SUFFICES ASSUME [BootNext]_boot_vars PROVE [Next]_vars
  OBVIOUS
<1>1. CASE ramfb_setup
  BY <1>1 DEF ramfb_setup, Next
<1>2. CASE Device
  BY <1>2 DEF Next
<1>3. CASE UNCHANGED boot_vars
  BY <1>3 DEF boot_vars
<1> QED
  BY <1>1, <1>2, <1>3 DEF BootNext, Boot

(* The kernel implements FwCfg: between _start and its last wfi it does to  *)
(* the device only what ramfb_setup does, and in its order.                 *)
THEOREM BootRunsDriver == BootSpec => Spec
<1>1. BootInit => Init
  BY DEF BootInit
<1> QED
  BY <1>1, BootStepIsDriverStep, PTL DEF BootSpec, Spec

(* While the device has the address of a record, the kernel is in the call  *)
(* of qemu_cfg_dma_transfer whose frame it is, whatever the threads do.     *)
THEOREM BootFramesOutlive == BootSpec => []FrameOutlivesTransfer
BY BootRunsDriver, FramesOutlive, PTL

(* Without errors the kernel goes on to allocate and draw only with the     *)
(* device configured through the file of that name.                         *)
THEOREM BootFindsFile == BootSpec => []FindsFile
BY BootRunsDriver, FileIsFound, PTL

-----------------------------------------------------------------------------
(* Where kernel_main's blocks lie.                                          *)

(* The steps of the script that allocate and free what is kept under a name. *)
Born(name) ==
  CASE name = "back_buffer" -> 4
    [] name = "stack_a"     -> 7
    [] name = "stack_b"     -> 9
    [] name = "arr"         -> 12
    [] name = "ptr1"        -> 17
    [] name = "ptr2"        -> 19
    [] name = "one"         -> 21
    [] name = "two"         -> 22
    [] name = "three"       -> 23
    [] name = "pixel_data"  -> 29

Dies(name) ==
  CASE name = "arr"         -> 15
    [] name = "ptr1"        -> 18
    [] name = "ptr2"        -> 20
    [] name = "one"         -> 25
    [] name = "two"         -> 26
    [] name = "three"       -> 27
    [] name = "pixel_data"  -> 31
    [] OTHER                -> 34

Lives(name, i) == Born(name) < i /\ i <= Dies(name)

Bytes(name) ==
  CASE name \in {"back_buffer", "pixel_data"} -> FRAME_SIZE
    [] name \in {"stack_a", "stack_b"}        -> 4096
    [] name \in {"arr", "ptr1", "ptr2"}       -> 40
    [] name = "one"                           -> 1024
    [] name = "two"                           -> 64 * 1024
    [] name = "three"                         -> 1024 * 1024

(* The stacks lie behind the back buffer, if there is one, and everything   *)
(* else behind the stacks.                                                  *)
Base(p) == IF p["back_buffer"] = NULL THEN StackTop ELSE StackTop + FRAME_SIZE + 32

Place(name, p) ==
  CASE name = "back_buffer" -> StackTop
    [] name = "stack_a"     -> Base(p)
    [] name = "stack_b"     -> Base(p) + 4128
    [] name = "two"         -> Base(p) + 9312
    [] name = "three"       -> Base(p) + 74880
    [] OTHER                -> Base(p) + 8256

(* What a name adds to the bytes that are busy before step i. *)
Share(name, i, p) == IF Lives(name, i) /\ p[name] # NULL THEN Bytes(name) ELSE 0

KeptShare(i, p) == Share("back_buffer", i, p) + Share("stack_a", i, p) + Share("stack_b", i, p)

Shares(i, p) ==
  KeptShare(i, p) + Share("arr", i, p) + Share("ptr1", i, p) + Share("ptr2", i, p)
  + Share("one", i, p) + Share("two", i, p) + Share("three", i, p)
  + Share("pixel_data", i, p)

-----------------------------------------------------------------------------
(* The script. *)

LEMMA ScriptAt ==
  /\ DOMAIN Script = 1 .. 33 /\ Len(Script) = 33
  /\ \A i \in 1 .. 33 :
       Script[i] = IF i <= 10 THEN SetUp[i]
                   ELSE IF i <= 20 THEN SmallBlocks[i - 10]
                   ELSE IF i <= 28 THEN BigBlocks[i - 20]
                   ELSE Wallpaper[i - 28]
BY SMTT(30) DEF Script, SetUp, SmallBlocks, BigBlocks, Wallpaper

(* Every kmalloc is of a name that has no block, and every kfree of one     *)
(* that has.                                                                *)
LEMMA Kmallocs ==
  \A i \in 1 .. 33 : Script[i].op = "kmalloc" =>
    \/ i = 4 /\ Script[i].arg = "back_buffer" /\ Script[i].n = FRAME_SIZE
    \/ i = 7 /\ Script[i].arg = "stack_a" /\ Script[i].n = 4096
    \/ i = 9 /\ Script[i].arg = "stack_b" /\ Script[i].n = 4096
    \/ i = 12 /\ Script[i].arg = "arr" /\ Script[i].n = 40
    \/ i = 17 /\ Script[i].arg = "ptr1" /\ Script[i].n = 40
    \/ i = 19 /\ Script[i].arg = "ptr2" /\ Script[i].n = 40
    \/ i = 21 /\ Script[i].arg = "one" /\ Script[i].n = 1024
    \/ i = 22 /\ Script[i].arg = "two" /\ Script[i].n = 64 * 1024
    \/ i = 23 /\ Script[i].arg = "three" /\ Script[i].n = 1024 * 1024
    \/ i = 29 /\ Script[i].arg = "pixel_data" /\ Script[i].n = FRAME_SIZE
BY ScriptAt, SMTT(30)
   DEF SetUp, SmallBlocks, BigBlocks, Wallpaper, Do, Alloc, Freed, Report

LEMMA Kfrees ==
  \A i \in 1 .. 33 : Script[i].op = "kfree" =>
    \/ i = 15 /\ Script[i].arg = "arr"
    \/ i = 18 /\ Script[i].arg = "ptr1"
    \/ i = 20 /\ Script[i].arg = "ptr2"
    \/ i = 25 /\ Script[i].arg = "one"
    \/ i = 26 /\ Script[i].arg = "two"
    \/ i = 27 /\ Script[i].arg = "three"
    \/ i = 31 /\ Script[i].arg = "pixel_data"
BY ScriptAt, SMTT(30)
   DEF SetUp, SmallBlocks, BigBlocks, Wallpaper, Do, Alloc, Freed, Report

LEMMA OtherSteps ==
  ASSUME NEW i \in 1 .. 33
  PROVE  /\ Script[i].op = "heap_init" => i = 2
         /\ Script[i].op = "ramfb_setup" => i = 3
         /\ Script[i].op = "fb" => i = 5
         /\ Script[i].op = "create" =>
              (i = 8 /\ Script[i].arg = "a") \/ (i = 10 /\ Script[i].arg = "b")
         /\ Script[i].op = "use" => i = 13 /\ Script[i].arg = "arr"
         /\ Script[i].op = "draw" => i = 30 \/ i = 32
         /\ Script[i].op = "report" =>
              \/ i \in {11, 16, 28, 33} /\ Script[i].arg \notin {"then", "now"}
              \/ i = 14 /\ Script[i].arg = "then"
              \/ i = 24 /\ Script[i].arg = "now"
<1> USE DEF Do, Alloc, Freed, Report
<1>1. CASE i <= 10
  BY <1>1, ScriptAt, SMTT(30) DEF SetUp
<1>2. CASE i > 10 /\ i <= 20
  BY <1>2, ScriptAt, SMTT(30) DEF SmallBlocks
<1>3. CASE i > 20 /\ i <= 28
  BY <1>3, ScriptAt, SMTT(30) DEF BigBlocks
<1>4. CASE i > 28
  BY <1>4, ScriptAt, SMTT(30) DEF Wallpaper
<1> QED
  BY <1>1, <1>2, <1>3, <1>4

LEMMA KmallocsAndKfrees ==
  /\ \A i \in {4, 7, 9, 12, 17, 19, 21, 22, 23, 29} : Script[i].op = "kmalloc"
  /\ \A i \in {15, 18, 20, 25, 26, 27, 31} : Script[i].op = "kfree"
BY ScriptAt, SMTT(30)
   DEF SetUp, SmallBlocks, BigBlocks, Wallpaper, Do, Alloc, Freed, Report

LEMMA BirthAndDeath ==
  ASSUME NEW i \in 1 .. 33, NEW name \in Names
  PROVE  /\ Script[i].op = "kmalloc" =>
              /\ Script[i].arg \in Names /\ Born(Script[i].arg) = i
              /\ Script[i].n = Bytes(Script[i].arg)
              /\ Lives(name, i + 1) <=> Lives(name, i) \/ name = Script[i].arg
              /\ ~Lives(Script[i].arg, i)
         /\ Script[i].op = "kfree" =>
              /\ Script[i].arg \in Names /\ Lives(Script[i].arg, i)
              /\ Lives(name, i + 1) <=> Lives(name, i) /\ name # Script[i].arg
         /\ Script[i].op \notin {"kmalloc", "kfree"} =>
              /\ Lives(name, i + 1) <=> Lives(name, i)
              /\ Born(name) # i
<1>1. CASE Script[i].op = "kmalloc"
  BY <1>1, Kmallocs, SMTT(60) DEF Lives, Born, Dies, Bytes, Names
<1>2. CASE Script[i].op = "kfree"
  BY <1>2, Kfrees, SMTT(60) DEF Lives, Born, Dies, Names
<1>3. CASE Script[i].op \notin {"kmalloc", "kfree"}
  <2>1. i \notin {4, 7, 9, 12, 17, 19, 21, 22, 23, 29, 15, 18, 20, 25, 26, 27, 31}
    BY <1>3, KmallocsAndKfrees
  <2> QED
    BY <1>3, <2>1, SMTT(60) DEF Lives, Born, Dies, Names
<1> QED
  BY <1>1, <1>2, <1>3

(* No request wraps ALIGN, so what is proved of Malloc is true here. *)
LEMMA HeapAssumptionHolds == H!HeapAssumption
<1>1. \A n \in Called : n \in Nat /\ n <= FRAME_SIZE
  <2> SUFFICES ASSUME NEW k \in 1 .. 33, Script[k].op = "kmalloc"
               PROVE  Script[k].n \in Nat /\ Script[k].n <= FRAME_SIZE
    BY ScriptAt DEF Called
  <2> QED
    BY Kmallocs DEF FRAME_SIZE
<1> QED
  BY <1>1, BootAssumption DEF H!HeapAssumption, H!ALIGNMENT, FRAME_SIZE, HEAP_SIZE

-----------------------------------------------------------------------------
(* The heap. *)

LEMMA SameOperators ==
  /\ M!Init = H!Init
  /\ M!vars = H!vars
  /\ M!heap_init(HEAP_SIZE) = H!heap_init(HEAP_SIZE)
  /\ \A n : M!kmalloc_enter(n) = H!kmalloc_enter(n)
  /\ M!kmalloc_next = H!kmalloc_next
  /\ M!kmalloc_take = H!kmalloc_take
  /\ M!kmalloc_null = H!kmalloc_null
  /\ \A p : M!kfree(p) = H!kfree(p)
<1> USE DEF M!ALIGN, H!ALIGN, M!ALIGNMENT, H!ALIGNMENT, M!HEADER_SIZE, H!HEADER_SIZE,
            M!NULL, H!NULL, M!Add, H!Add, M!Drop, H!Drop, M!SetPrev, H!SetPrev
<1>1. M!Init = H!Init /\ M!vars = H!vars
  BY DEF M!Init, H!Init, M!vars, H!vars
<1>2. M!heap_init(HEAP_SIZE) = H!heap_init(HEAP_SIZE)
  BY DEF M!heap_init, H!heap_init
<1>3. \A n : M!kmalloc_enter(n) = H!kmalloc_enter(n)
  BY DEF M!kmalloc_enter, H!kmalloc_enter
<1>4. M!kmalloc_next = H!kmalloc_next
  BY DEF M!kmalloc_next, H!kmalloc_next, M!Fits, H!Fits
<1>5. M!kmalloc_take = H!kmalloc_take
  BY DEF M!kmalloc_take, H!kmalloc_take, M!Fits, H!Fits, M!Splits, H!Splits, M!Split,
         H!Split, M!kmalloc_return, H!kmalloc_return
<1>6. M!kmalloc_null = H!kmalloc_null
  BY DEF M!kmalloc_null, H!kmalloc_null, M!kmalloc_return, H!kmalloc_return
<1>7. \A p : M!kfree(p) = H!kfree(p)
  <2>1. \A m, a, b : M!Join(m, a, b) = H!Join(m, a, b)
    BY DEF M!Join, H!Join
  <2>2. \A m, b : M!CoalesceNext(m, b) = H!CoalesceNext(m, b)
    BY <2>1 DEF M!CoalesceNext, H!CoalesceNext
  <2>3. \A m, b : M!CoalescePrev(m, b) = H!CoalescePrev(m, b)
    BY <2>1 DEF M!CoalescePrev, H!CoalescePrev
  <2>4. \A m, b : M!Freed(m, b) = H!Freed(m, b)
    BY <2>2, <2>3 DEF M!Freed, H!Freed
  <2> QED
    BY <2>4 DEF M!kfree, H!kfree
<1> QED
  BY <1>1, <1>2, <1>3, <1>4, <1>5, <1>6, <1>7

(* Where kernel_main is, and what it knows of memory. *)
Placed ==
  /\ ip \in Nat \ {0}
  /\ heap_end \in {StackTop, StackTop + HEAP_SIZE}
  /\ fb_addr \in {0, StackTop + HEAP_SIZE}

LEMMA PlacedInit == BootInit => Placed
BY DEF BootInit, M!Init, Placed

LEMMA PlacedKept == Placed /\ [BootNext]_boot_vars => Placed'
<1> SUFFICES ASSUME Placed, [BootNext]_boot_vars PROVE Placed'
  OBVIOUS
<1> USE DEF Placed
<1>1. CASE ramfb_setup
  BY <1>1 DEF ramfb_setup, heap
<1>2. CASE OnHeap
  <2>1. CASE heap_init
    BY <2>1 DEF heap_init, M!heap_init
  <2>2. CASE kmalloc
    BY <2>2 DEF kmalloc, M!kmalloc_enter
  <2>3. CASE kmalloc_walk
    BY <2>3 DEF kmalloc_walk, M!kmalloc_next, M!kmalloc_take, M!kmalloc_null
  <2>4. CASE kfree
    BY <2>4 DEF kfree, M!kfree, heap
  <2> QED
    BY <1>2, <2>1, <2>2, <2>3, <2>4 DEF OnHeap
<1>3. CASE OffHeap
  BY <1>3 DEF OffHeap, check_fw_cfg_dma, ramfb_return, kprint, create_thread,
              late_stores, report, use, draw, heap, FrameAddr
<1>4. CASE Threads
  BY <1>4 DEF Threads, round, struck_round, wake, heap
<1>5. CASE UNCHANGED kernel
  BY <1>5 DEF kernel, heap
<1> QED
  BY <1>1, <1>2, <1>3, <1>4, <1>5 DEF BootNext, Boot, Stopped, boot_vars

LEMMA BootStepIsHeapStep == Placed /\ [BootNext]_boot_vars => [H!Next]_(H!vars)
<1> SUFFICES ASSUME Placed, [BootNext]_boot_vars PROVE H!Next \/ UNCHANGED heap
  BY DEF H!vars, heap
<1>1. CASE OnHeap
  <2>1. CASE heap_init
    BY <2>1, SameOperators DEF heap_init, H!Next
  <2>2. CASE kmalloc
    <3>1. Len(Script) \in Nat /\ DOMAIN Script = 1 .. Len(Script)
      BY ScriptAt
    <3>2. ip \in DOMAIN Script /\ Script[ip].op = "kmalloc"
      BY <2>2, <3>1 DEF kmalloc, Does, Placed
    <3>3. Script[ip].n \in Called
      BY <3>2 DEF Called
    <3>4. H!kmalloc_enter(Script[ip].n)
      BY <2>2, SameOperators DEF kmalloc
    <3> QED
      BY <3>3, <3>4 DEF H!Next
  <2>3. CASE kmalloc_walk
    BY <2>3, SameOperators DEF kmalloc_walk, H!Next
  <2>4. CASE kfree
    BY <2>4, SameOperators DEF kfree, H!Next
  <2> QED
    BY <1>1, <2>1, <2>2, <2>3, <2>4 DEF OnHeap
<1>2. CASE UNCHANGED heap
  BY <1>2
<1>3. CASE ~OnHeap
  BY <1>3 DEF BootNext, Boot, ramfb_setup, OffHeap, check_fw_cfg_dma, ramfb_return, kprint,
              create_thread, late_stores, report, use, draw, Threads, round, struck_round,
              wake, Stopped, kernel, boot_vars
<1> QED
  BY <1>1, <1>3

LEMMA BootHeap == BootSpec => M!Spec /\ []H!IInv
<1>1. BootInit => M!Init /\ H!IInv
  BY SameOperators, HeapAssumptionHolds, H!InitInv DEF BootInit
<1>2. H!IInv /\ [H!Next]_(H!vars) => H!IInv'
  BY HeapAssumptionHolds, H!NextInv
<1>3. [H!Next]_(H!vars) => [M!Next]_(M!vars)
  <2>1. ASSUME NEW total \in {HEAP_SIZE}, H!heap_init(total) PROVE M!Next
    BY <2>1, SameOperators DEF M!Next
  <2>2. ASSUME NEW n \in Called, H!kmalloc_enter(n) PROVE M!Next
    <3>1. M!kmalloc_enter(n)
      BY <2>2, SameOperators
    <3> QED
      BY <3>1 DEF M!Next, Called
  <2>3. ASSUME H!kmalloc_next \/ H!kmalloc_take \/ H!kmalloc_null PROVE M!Next
    BY <2>3, SameOperators DEF M!Next
  <2>4. ASSUME NEW p \in DOMAIN owned, H!kfree(p) PROVE M!Next
    BY <2>4, SameOperators DEF M!Next
  <2>5. M!vars = H!vars
    BY SameOperators
  <2>6. H!Next => M!Next
    BY <2>1, <2>2, <2>3, <2>4 DEF H!Next
  <2>7. UNCHANGED (H!vars) => UNCHANGED (M!vars)
    BY DEF H!vars, M!vars
  <2> QED
    BY <2>6, <2>7
<1> QED
  BY <1>1, <1>2, <1>3, PlacedInit, PlacedKept, BootStepIsHeapStep, PTL DEF BootSpec, M!Spec

(* The kernel is a caller as Malloc has them: it calls heap_init once, and  *)
(* kmalloc and kfree one at a time.  So what MallocProofs proves holds of   *)
(* its heap; a kfree of what is not held, which is no step of Malloc, is    *)
(* kept apart in hart.                                                      *)
THEOREM BootKeepsHeap == BootSpec => M!Spec
BY BootHeap, PTL

(* Wherever the image ends, the frame buffer behind the heap is nobody      *)
(* else's: flush overwrites no header, no pointer kmalloc handed out, and   *)
(* nothing on the kernel's stack.                                           *)
THEOREM FrameApart == BootSpec => []FrameIsApart
<1>1. ASSUME H!IInv, Placed PROVE FrameIsApart
  <2> SUFFICES ASSUME fb_addr # 0
               PROVE  /\ \A b \in DOMAIN mem : StackTop <= b /\ M!End(b) <= fb_addr
                      /\ \A p \in DOMAIN owned : p + owned[p] <= fb_addr
    BY DEF FrameIsApart
  <2>1. heap_end <= fb_addr /\ heap_end \in Nat /\ fb_addr \in Nat /\ StackTop \in Nat
    BY <1>1, BootAssumption DEF Placed, HEAP_SIZE
  <2>2. ASSUME NEW b \in DOMAIN mem
        PROVE  StackTop <= b /\ M!End(b) <= fb_addr
    <3>1. /\ free_list_head # H!NULL /\ StackTop <= free_list_head
          /\ H!Placed(mem, free_list_head, heap_end) /\ free_list_head \in Nat
      BY <1>1, <2>2 DEF H!IInv, H!Layout, H!TypeOK
    <3>2. free_list_head <= b /\ H!EndOf(mem, b) <= heap_end
          /\ b \in Nat /\ mem[b].size \in Nat
      BY <2>2, <3>1 DEF H!Placed, H!Header
    <3> QED
      BY <2>1, <3>1, <3>2 DEF M!End, H!EndOf, M!HEADER_SIZE, H!HEADER_SIZE
  <2>3. ASSUME NEW p \in DOMAIN owned
        PROVE  p + owned[p] <= fb_addr
    <3>1. p + owned[p] <= heap_end
      BY <1>1, <2>3, HeapAssumptionHolds, H!InvUsable DEF H!OwnedIsUsable
    <3>2. p \in Nat /\ owned[p] \in Nat
      BY <1>1, <2>3 DEF H!IInv, H!TypeOK
    <3> QED
      BY <2>1, <3>1, <3>2
  <2> QED
    BY <2>2, <2>3
<1> QED
  BY <1>1, BootHeap, PlacedInit, PlacedKept, PTL DEF BootSpec

-----------------------------------------------------------------------------
(* The inductive invariant: the heap is what the script has made of it. *)

ThreadStates == {"none", "ready", "asleep", "exited", "struck", "overslept"}

KeptTypes ==
  /\ ip \in 1 .. 34
  /\ hart \in {"runs", "halted", "panic"}
  /\ ptr \in [Names -> Nat]
  /\ thread \in [{"a", "b"} -> ThreadStates]
  /\ rounds \in 0 .. 5

(* A pointer is NULL until the script comes to it, and is then where the    *)
(* script puts it.                                                          *)
Pointers ==
  /\ \A name \in Names : ip <= Born(name) => ptr[name] = NULL
  /\ \A name \in Names : Born(name) < ip =>
       \/ ptr[name] = Place(name, ptr) + 32
       \/ name = "back_buffer" /\ ptr[name] = NULL /\ pc = "failed"

Blocks ==
  /\ ip <= 2 => walk = "boot"
  /\ ip > 2 =>
    /\ walk # "boot" /\ free_list_head = StackTop /\ heap_end = StackTop + HEAP_SIZE
    /\ \A name \in Names :
         Lives(name, ip) /\ ptr[name] # NULL =>
           ptr[name] \in DOMAIN owned /\ mem[Place(name, ptr)].size = Bytes(name)
    /\ \A p \in DOMAIN owned : \E name \in Names : Lives(name, ip) /\ p = ptr[name] /\ p # NULL

Counts ==
  /\ busy_mem_size = Shares(ip, ptr)
  /\ \A label \in DOMAIN reported :
       /\ ip > 11
       /\ reported[label] = KeptShare(ip, ptr)
                            + (IF label = "then" THEN 40
                               ELSE IF label = "now" THEN 1024 + 64 * 1024 + 1024 * 1024 ELSE 0)

Walking ==
  walk = "walk" => ip <= 33 /\ Script[ip].op = "kmalloc" /\ size = Script[ip].n

Running ==
  /\ thread["a"] # "none" => ip >= 8
  /\ thread["b"] # "none" => ip >= 10
  /\ CASE thread["a"] = "none"   -> rounds = 0
       [] thread["a"] = "exited" -> rounds = 5
       [] OTHER                  -> rounds < 5

Panics ==
  hart = "panic" => (pc = "failed" /\ ip > 3) \/ \E t \in {"a", "b"} : thread[t] = "struck"

KInv == KeptTypes /\ Pointers /\ Blocks /\ Counts /\ Walking /\ Running /\ Panics

-----------------------------------------------------------------------------
(* What the sum of the shares is. *)

LEMMA BytesAreNat == \A name \in Names : Bytes(name) \in Nat /\ Bytes(name) % 8 = 0
BY SMTT(30) DEF Names, Bytes, FRAME_SIZE

LEMMA ShareIsNat ==
  ASSUME NEW i, NEW p
  PROVE  \A name \in Names : Share(name, i, p) \in Nat
BY BytesAreNat DEF Share

LEMMA SharesAreNat ==
  ASSUME NEW i, NEW p
  PROVE  KeptShare(i, p) \in Nat /\ Shares(i, p) \in Nat
BY ShareIsNat, SMTT(30) DEF Shares, KeptShare, Names

LEMMA SharesSame ==
  ASSUME NEW i, NEW j, NEW p, NEW q,
         \A name \in Names : Share(name, i, p) = Share(name, j, q)
  PROVE  Shares(i, p) = Shares(j, q) /\ KeptShare(i, p) = KeptShare(j, q)
BY DEF Shares, KeptShare, Names

LEMMA SharesDiffer ==
  ASSUME NEW i, NEW j, NEW p, NEW q, NEW n \in Names, NEW d \in Int,
         Share(n, j, q) = Share(n, i, p) + d,
         \A name \in Names \ {n} : Share(name, i, p) = Share(name, j, q)
  PROVE  /\ Shares(j, q) = Shares(i, p) + d
         /\ n \notin {"back_buffer", "stack_a", "stack_b"} => KeptShare(j, q) = KeptShare(i, p)
<1>1. \A name \in Names : Share(name, i, p) \in Nat /\ Share(name, j, q) \in Nat
  BY ShareIsNat
<1>2. \/ n = "back_buffer" \/ n = "stack_a" \/ n = "stack_b" \/ n = "arr" \/ n = "ptr1"
      \/ n = "ptr2" \/ n = "one" \/ n = "two" \/ n = "three" \/ n = "pixel_data"
  BY DEF Names
<1> QED
  BY <1>1, <1>2, SMTT(60) DEF Shares, KeptShare, Names

-----------------------------------------------------------------------------
(* A step that leaves the heap and the pointers alone. *)

LEMMA AtStep ==
  ASSUME KInv, NEW op, Does(op)
  PROVE  /\ ip \in 1 .. 33 /\ Script[ip].op = op /\ ip + 1 \in 1 .. 34
         /\ hart = "runs" /\ walk # "walk"
BY ScriptAt DEF KInv, KeptTypes, Does

(* The heap is the same before the next step of the script. *)
Onward ==
  /\ UNCHANGED <<heap, ptr, pc>>
  /\ \/ ip' = ip
     \/ /\ ip \in 1 .. 33 /\ walk # "walk" /\ ip' = ip + 1 /\ ip # 2
        /\ Script[ip].op \notin {"kmalloc", "kfree"}
     \/ ip = 3 /\ ip' = 6 /\ pc = "failed" /\ walk # "walk"

LEMMA LivesOn ==
  ASSUME KInv, Onward, NEW name \in Names, ptr[name] # NULL
  PROVE  Lives(name, ip') <=> Lives(name, ip)
<1>1. CASE ip' = ip
  BY <1>1
<1>2. CASE ip' = ip + 1 /\ ip \in 1 .. 33 /\ Script[ip].op \notin {"kmalloc", "kfree"}
  BY <1>2, BirthAndDeath
<1>3. CASE ip = 3 /\ ip' = 6
  BY <1>3 DEF KInv, Pointers, Lives, Born, Dies, Names
<1> QED
  BY <1>1, <1>2, <1>3 DEF Onward

LEMMA OnwardKeeps ==
  ASSUME KInv, Onward
  PROVE  /\ Pointers' /\ Blocks' /\ Walking' /\ ip' \in 1 .. 34
         /\ Shares(ip', ptr') = Shares(ip, ptr)
         /\ KeptShare(ip', ptr') = KeptShare(ip, ptr)
<1>1. /\ ptr' = ptr /\ pc' = pc /\ mem' = mem /\ owned' = owned /\ walk' = walk
      /\ size' = size /\ free_list_head' = free_list_head /\ heap_end' = heap_end
      /\ ip \in 1 .. 34 /\ ip' \in 1 .. 34 /\ ip <= ip' /\ (ip <= 2 <=> ip' <= 2)
  BY DEF Onward, heap, KInv, KeptTypes
<1>2. \A name \in Names : ptr[name] # NULL => (Lives(name, ip') <=> Lives(name, ip))
  BY LivesOn
<1>3. Pointers'
  <2>1. ASSUME NEW name \in Names, ip' <= Born(name)
        PROVE  ptr[name] = NULL
    <3>1. ip <= Born(name)
      BY <1>1, <2>1 DEF Born, Names
    <3> QED
      BY <3>1 DEF KInv, Pointers
  <2>2. ASSUME NEW name \in Names, Born(name) < ip'
        PROVE  \/ ptr[name] = Place(name, ptr) + 32
               \/ name = "back_buffer" /\ ptr[name] = NULL /\ pc = "failed"
    <3>1. CASE Born(name) < ip
      BY <3>1 DEF KInv, Pointers
    <3>2. CASE ip = 3 /\ ip' = 6 /\ pc = "failed"
      <4>1. name = "back_buffer"
        BY <2>2, <3>2 DEF Born, Names
      <4> QED
        BY <3>2, <4>1 DEF KInv, Pointers, Born, Names
    <3>3. CASE ip' = ip + 1 /\ ip \in 1 .. 33 /\ Script[ip].op \notin {"kmalloc", "kfree"}
      <4>1. Born(name) # ip
        BY <3>3, BirthAndDeath
      <4>2. Born(name) \in Nat
        BY DEF Born, Names
      <4> QED
        BY <2>2, <3>1, <3>3, <4>1, <4>2
    <3> QED
      BY <1>1, <2>2, <3>1, <3>2, <3>3 DEF Onward
  <2> QED
    BY <1>1, <2>1, <2>2 DEF Pointers
<1>4. Blocks'
  <2>1. ip' <= 2 => walk' = "boot"
    BY <1>1 DEF KInv, Blocks
  <2>2. ASSUME ip' > 2
        PROVE  /\ walk # "boot" /\ free_list_head = StackTop /\ heap_end = StackTop + HEAP_SIZE
               /\ \A name \in Names :
                    Lives(name, ip') /\ ptr[name] # NULL =>
                      ptr[name] \in DOMAIN owned /\ mem[Place(name, ptr)].size = Bytes(name)
    BY <1>1, <1>2, <2>2 DEF KInv, Blocks
  <2>3. ASSUME ip' > 2, NEW p \in DOMAIN owned
        PROVE  \E name \in Names : Lives(name, ip') /\ p = ptr[name] /\ p # NULL
    BY <1>1, <1>2, <2>3 DEF KInv, Blocks
  <2> QED
    BY <1>1, <2>1, <2>2, <2>3 DEF Blocks
<1>5. Walking'
  BY <1>1 DEF Onward, KInv, Walking
<1>6. \A name \in Names : Share(name, ip, ptr) = Share(name, ip', ptr')
  BY <1>1, <1>2 DEF Share
<1> QED
  BY <1>1, <1>3, <1>4, <1>5, <1>6, SharesSame

-----------------------------------------------------------------------------
(* The first step: one free block over everything. *)

LEMMA StartKeeps ==
  ASSUME KInv, H!IInv, heap_init, pc' = pc
  PROVE  /\ Pointers' /\ Blocks' /\ Walking' /\ ip' = 3 /\ ptr' = ptr
         /\ Shares(ip', ptr') = Shares(ip, ptr) /\ DOMAIN reported = {}
         /\ busy_mem_size' = busy_mem_size
<1>1. /\ ip = 2 /\ ip' = 3 /\ ptr' = ptr
      /\ M!heap_init(HEAP_SIZE) /\ walk = "boot" /\ walk' = "idle"
      /\ heap_end' = StackTop + HEAP_SIZE /\ owned' = owned /\ pc' = pc
      /\ busy_mem_size' = busy_mem_size
  <2>1. ip \in 1 .. 33 /\ Script[ip].op = "heap_init"
    BY AtStep DEF heap_init
  <2> QED
    BY <2>1, OtherSteps DEF heap_init, M!heap_init
<1>2. free_list_head' = StackTop
  <2>1. H!ALIGN(StackTop) = StackTop
    <3>1. StackTop + 8 <= SIZE_MOD /\ StackTop \in Nat /\ StackTop % 8 = 0
      BY BootAssumption DEF HEAP_SIZE
    <3> QED
      BY <3>1, HeapAssumptionHolds, H!ALIGNValue DEF H!ALIGNMENT
  <2>2. M!ALIGN(StackTop) = StackTop
    BY <2>1 DEF M!ALIGN, H!ALIGN, M!ALIGNMENT, H!ALIGNMENT
  <2>3. HEAP_SIZE - (StackTop - StackTop) = HEAP_SIZE /\ ~(HEAP_SIZE <= 32)
    BY BootAssumption DEF HEAP_SIZE
  <2> QED
    BY <1>1, <2>2, <2>3 DEF M!heap_init, M!HEADER_SIZE
<1>3. DOMAIN owned = {}
  BY <1>1 DEF H!IInv, H!Walked, H!NULL
<1>4. \A name \in Names : ~Lives(name, 2) /\ ~Lives(name, 3) /\ ~(Born(name) < 3)
  BY DEF Names, Lives, Born
<1>5. \A name \in Names : Share(name, ip, ptr) = Share(name, ip', ptr')
  BY <1>1, <1>4 DEF Share
<1>6. Pointers'
  <2>1. \A name \in Names : ip <= Born(name)
    BY <1>1 DEF Born, Names
  <2> QED
    BY <1>1, <1>4, <2>1 DEF KInv, Pointers
<1>7. Blocks'
  BY <1>1, <1>2, <1>3, <1>4 DEF Blocks
<1>8. Walking'
  BY <1>1 DEF Walking
<1>9. DOMAIN reported = {}
  BY <1>1 DEF KInv, Counts
<1> QED
  BY <1>1, <1>5, <1>6, <1>7, <1>8, <1>9, SharesSame

-----------------------------------------------------------------------------
(* A call of kmalloc. *)

LEMMA EnterKeeps ==
  ASSUME KInv, kmalloc, pc' = pc
  PROVE  Pointers' /\ Blocks' /\ Walking' /\ UNCHANGED <<ip, ptr, busy_mem_size>>
<1>1. /\ ip \in 1 .. 33 /\ Script[ip].op = "kmalloc"
      /\ M!kmalloc_enter(Script[ip].n) /\ UNCHANGED <<ip, ptr, pc>>
  BY AtStep DEF kmalloc, M!kmalloc_enter
<1>2. /\ walk = "idle" /\ walk' = "walk" /\ size' = M!ALIGN(Script[ip].n)
      /\ UNCHANGED <<free_list_head, mem, busy_mem_size, owned, heap_end>>
  BY <1>1 DEF M!kmalloc_enter
<1>3. M!ALIGN(Script[ip].n) = Script[ip].n
  <2>1. Script[ip].n \in Nat /\ Script[ip].n % 8 = 0 /\ Script[ip].n <= FRAME_SIZE
    BY <1>1, Kmallocs DEF FRAME_SIZE
  <2>2. Script[ip].n + 8 <= SIZE_MOD
    BY <2>1, BootAssumption DEF FRAME_SIZE, HEAP_SIZE
  <2>3. H!ALIGN(Script[ip].n) = Script[ip].n
    BY <2>1, <2>2, HeapAssumptionHolds, H!ALIGNValue DEF H!ALIGNMENT
  <2> QED
    BY <2>3 DEF M!ALIGN, H!ALIGN, M!ALIGNMENT, H!ALIGNMENT
<1>4. Pointers'
  BY <1>1 DEF KInv, Pointers
<1>5. Blocks'
  BY <1>1, <1>2 DEF KInv, Blocks
<1>6. Walking'
  BY <1>1, <1>2, <1>3 DEF Walking
<1> QED
  BY <1>1, <1>2, <1>4, <1>5, <1>6

(* The names that have a block. *)
Has(name) == Lives(name, ip) /\ ptr[name] # NULL

LEMMA WhatHas ==
  ASSUME KInv, ip > 2, NEW name \in Names
  PROVE  /\ Base(ptr) \in Nat /\ Place(name, ptr) \in Nat
         /\ Bytes(name) \in Nat
         /\ Has(name) => /\ ptr[name] = Place(name, ptr) + 32 /\ ptr[name] \in DOMAIN owned
                         /\ mem[Place(name, ptr)].size = Bytes(name)
         /\ Lives(name, ip) /\ name # "back_buffer" => Has(name)
<1>1. Base(ptr) \in Nat
  BY BootAssumption DEF Base, FRAME_SIZE
<1>2. Place(name, ptr) \in Nat
  BY <1>1, BootAssumption DEF Place, Names
<1>3. Lives(name, ip) => Born(name) < ip
  BY DEF Lives
<1> QED
  BY <1>1, <1>2, <1>3, BytesAreNat DEF Has, KInv, Pointers, Blocks, NULL

(* Wherever kernel_main allocates, what it holds lies side by side, and its *)
(* new block is to go right behind that.                                    *)
LEMMA Packed ==
  ASSUME KInv, ip \in 1 .. 33, Script[ip].op = "kmalloc", NEW t, t = Place(Script[ip].arg, ptr)
  PROVE  /\ t \in Nat /\ StackTop <= t /\ t <= StackTop + FRAME_SIZE + 74912
         /\ \A name \in Names : Has(name) => Place(name, ptr) + 32 + Bytes(name) <= t
         /\ \A x \in StackTop .. (t - 1) :
              \E name \in Names : /\ Has(name) /\ Place(name, ptr) <= x
                                  /\ x < Place(name, ptr) + 32 + Bytes(name)
<1> DEFINE B == Base(ptr)
<1>0. StackTop \in Nat /\ B \in Nat /\ ip > 2
  BY BootAssumption, Kmallocs DEF Base, FRAME_SIZE
<1>1. B = IF ptr["back_buffer"] = NULL THEN StackTop ELSE StackTop + FRAME_SIZE + 32
  BY DEF Base
<1>2. /\ Place("back_buffer", ptr) = StackTop /\ Bytes("back_buffer") = FRAME_SIZE
      /\ Place("stack_a", ptr) = B /\ Bytes("stack_a") = 4096
      /\ Place("stack_b", ptr) = B + 4128 /\ Bytes("stack_b") = 4096
      /\ \A name \in {"arr", "ptr1", "ptr2", "one", "pixel_data"} : Place(name, ptr) = B + 8256
      /\ Place("two", ptr) = B + 9312 /\ Bytes("two") = 65536
      /\ Place("three", ptr) = B + 74880 /\ Bytes("one") = 1024
  BY DEF Place, Bytes
<1> HIDE DEF B
<1>3. /\ ip > 4 => (Has("back_buffer") <=> ptr["back_buffer"] # NULL)
      /\ ip > 7 => Has("stack_a")
      /\ ip > 9 => Has("stack_b")
      /\ ip \in {22, 23} => Has("one")
      /\ ip = 23 => Has("two")
  <2>1. /\ ip > 4 => Lives("back_buffer", ip)
        /\ ip > 7 => Lives("stack_a", ip)
        /\ ip > 9 => Lives("stack_b", ip)
        /\ ip \in {22, 23} => Lives("one", ip)
        /\ ip = 23 => Lives("two", ip)
    BY DEF Lives, Born, Dies
  <2> QED
    BY <1>0, <2>1, WhatHas DEF Has, Names
<1>4. ASSUME NEW name \in Names, Has(name)
      PROVE  \/ name = "back_buffer" /\ ip > 4
             \/ name = "stack_a" /\ ip > 7
             \/ name = "stack_b" /\ ip > 9
             \/ name = "one" /\ ip \in {22, 23}
             \/ name = "two" /\ ip = 23
  <2>1. ip \in {4, 7, 9, 12, 17, 19, 21, 22, 23, 29}
    BY Kmallocs
  <2> QED
    BY <1>4, <2>1, SMTT(30) DEF Has, Lives, Born, Dies, Names
<1>5. \/ ip = 4 /\ t = StackTop
      \/ ip = 7 /\ t = B
      \/ ip = 9 /\ t = B + 4128
      \/ ip \in {12, 17, 19, 21, 29} /\ t = B + 8256
      \/ ip = 22 /\ t = B + 9312
      \/ ip = 23 /\ t = B + 74880
  BY <1>2, Kmallocs
<1>6. t \in Nat /\ StackTop <= t /\ t <= StackTop + FRAME_SIZE + 74912
  BY <1>0, <1>1, <1>5 DEF FRAME_SIZE
<1>7. ASSUME NEW name \in Names, Has(name)
      PROVE  Place(name, ptr) + 32 + Bytes(name) <= t
  <2>1. ptr["back_buffer"] # NULL \/ name # "back_buffer"
    BY <1>7 DEF Has
  <2> QED
    BY <1>0, <1>1, <1>2, <1>4, <1>5, <1>7, <2>1, SMTT(30) DEF FRAME_SIZE
<1>8. ASSUME NEW x \in StackTop .. (t - 1)
      PROVE  \E name \in Names : /\ Has(name) /\ Place(name, ptr) <= x
                                 /\ x < Place(name, ptr) + 32 + Bytes(name)
  <2>0. x \in Nat /\ StackTop <= x /\ x < t
    BY <1>0, <1>6
  <2>1. CASE x < B
    <3>1. ptr["back_buffer"] # NULL /\ x < StackTop + 32 + FRAME_SIZE
      BY <1>0, <1>1, <2>0, <2>1 DEF FRAME_SIZE
    <3>2. ip > 4
      BY <1>0, <1>5, <2>0
    <3> QED
      BY <1>2, <1>3, <2>0, <3>1, <3>2 DEF Names
  <2>2. CASE B <= x /\ x < B + 4128
    <3>1. ip > 7
      BY <1>0, <1>1, <1>5, <2>0, <2>2 DEF KInv, Pointers
    <3> QED
      BY <1>0, <1>2, <1>3, <2>0, <2>2, <3>1 DEF Names
  <2>3. CASE B + 4128 <= x /\ x < B + 8256
    <3>1. ip > 9
      BY <1>0, <1>1, <1>5, <2>0, <2>3 DEF KInv, Pointers
    <3> QED
      BY <1>0, <1>2, <1>3, <2>0, <2>3, <3>1 DEF Names
  <2>4. CASE B + 8256 <= x /\ x < B + 9312
    <3>1. ip \in {22, 23}
      BY <1>0, <1>1, <1>5, <2>0, <2>4 DEF KInv, Pointers
    <3> QED
      BY <1>0, <1>2, <1>3, <2>0, <2>4, <3>1 DEF Names
  <2>5. CASE B + 9312 <= x
    <3>1. ip = 23 /\ x < B + 74880
      BY <1>0, <1>1, <1>5, <2>0, <2>5 DEF KInv, Pointers
    <3> QED
      BY <1>0, <1>2, <1>3, <2>0, <2>5, <3>1 DEF Names
  <2> QED
    BY <1>0, <2>0, <2>1, <2>2, <2>3, <2>4, <2>5
<1> QED
  BY <1>6, <1>7, <1>8

(* So the walk has just one block to find, and that is large enough.        *)
LEMMA Frontier ==
  ASSUME KInv, H!IInv, walk = "walk", NEW t, t = Place(Script[ip].arg, ptr)
  PROVE  /\ ip \in 1 .. 33 /\ Script[ip].op = "kmalloc" /\ size = Script[ip].n /\ ip > 2
         /\ t \in DOMAIN mem /\ mem[t].is_free /\ t \in Nat \ {0}
         /\ mem[t].size >= size + 40
         /\ \A b \in DOMAIN mem : mem[b].is_free => b = t
<1>1. ip \in 1 .. 33 /\ Script[ip].op = "kmalloc" /\ size = Script[ip].n
  BY DEF KInv, KeptTypes, Walking
<1>2. ip > 2 /\ size \in Nat /\ size <= FRAME_SIZE
  BY <1>1, Kmallocs DEF FRAME_SIZE
<1>3. free_list_head = StackTop /\ heap_end = StackTop + HEAP_SIZE /\ StackTop \in Nat \ {0}
  BY <1>2, BootAssumption DEF KInv, Blocks
<1>4. /\ t \in Nat /\ StackTop <= t /\ t <= StackTop + FRAME_SIZE + 74912
      /\ \A name \in Names : Has(name) => Place(name, ptr) + 32 + Bytes(name) <= t
      /\ \A x \in StackTop .. (t - 1) :
           \E name \in Names : /\ Has(name) /\ Place(name, ptr) <= x
                               /\ x < Place(name, ptr) + 32 + Bytes(name)
  BY <1>1, Packed
<1>5. ASSUME NEW name \in Names, Has(name)
      PROVE  /\ ptr[name] \in DOMAIN owned
             /\ ptr[name] - H!HEADER_SIZE = Place(name, ptr)
             /\ H!End(ptr[name] - H!HEADER_SIZE) = Place(name, ptr) + 32 + Bytes(name)
  BY <1>2, <1>5, WhatHas DEF H!End, H!HEADER_SIZE
<1>6. ASSUME NEW p \in DOMAIN owned
      PROVE  H!End(p - H!HEADER_SIZE) <= t
  <2>1. PICK name \in Names : Has(name) /\ p = ptr[name]
    BY <1>2 DEF KInv, Blocks, Has
  <2> QED
    BY <1>4, <1>5, <2>1
<1>7. ASSUME NEW x \in free_list_head .. (t - 1)
      PROVE  \E p \in DOMAIN owned : p - H!HEADER_SIZE <= x /\ x < H!End(p - H!HEADER_SIZE)
  <2>1. PICK name \in Names : /\ Has(name) /\ Place(name, ptr) <= x
                              /\ x < Place(name, ptr) + 32 + Bytes(name)
    BY <1>3, <1>4
  <2> QED
    BY <1>5, <2>1
<1>8. t < heap_end /\ free_list_head # H!NULL /\ free_list_head <= t
  BY <1>3, <1>4 DEF HEAP_SIZE, FRAME_SIZE, H!NULL
<1>9. /\ t \in DOMAIN mem /\ mem[t].is_free /\ H!End(t) = heap_end
      /\ \A b \in DOMAIN mem : mem[b].is_free => b = t
  BY <1>4, <1>6, <1>7, <1>8, HeapAssumptionHolds, H!FrontierIsFree
<1>10. mem[t].size \in Nat
  BY <1>9 DEF H!IInv, H!TypeOK, H!Header
<1>11. mem[t].size >= size + 40
  BY <1>2, <1>3, <1>4, <1>9, <1>10 DEF H!End, H!HEADER_SIZE, HEAP_SIZE, FRAME_SIZE
<1> QED
  BY <1>1, <1>2, <1>3, <1>4, <1>9, <1>11

(* The loop never runs off the list. *)
LEMMA NeverNull == KInv /\ H!IInv => ~M!kmalloc_null
<1> SUFFICES ASSUME KInv, H!IInv, H!kmalloc_null PROVE FALSE
  BY SameOperators
<1>1. walk = "walk" /\ current = 0
  BY DEF H!kmalloc_null, H!NULL
<1>2. PICK t : t = Place(Script[ip].arg, ptr)
  OBVIOUS
<1>3. t \in DOMAIN mem /\ mem[t].is_free /\ mem[t].size >= size + 40
  BY <1>1, <1>2, Frontier
<1>4. size \in Nat /\ mem[t].size \in Nat
  BY <1>3 DEF H!IInv, H!TypeOK, H!Header
<1>5. ~H!Fits(t)
  BY <1>1, <1>3 DEF H!IInv, H!Walked, H!NULL
<1> QED
  BY <1>3, <1>4, <1>5 DEF H!Fits

LEMMA NextKeepsHeap ==
  ASSUME KInv, M!kmalloc_next, UNCHANGED <<ip, ptr, pc>>
  PROVE  Pointers' /\ Blocks' /\ Walking' /\ busy_mem_size' = busy_mem_size
<1>1. /\ UNCHANGED <<free_list_head, mem, busy_mem_size, walk, size, owned, heap_end>>
  BY DEF M!kmalloc_next
<1> QED
  BY <1>1 DEF KInv, Pointers, Blocks, Walking

(* kmalloc returns the address of the new block, which becomes its name's.  *)
LEMMA TakeKeeps ==
  ASSUME KInv, H!IInv, M!kmalloc_take, pc' = pc, ip' = ip + 1,
         NEW name, name = Script[ip].arg,
         ptr' = [ptr EXCEPT ![name] = IF current = NULL THEN NULL ELSE current + M!HEADER_SIZE]
  PROVE  /\ Pointers' /\ Blocks' /\ Walking' /\ ip' \in 1 .. 34
         /\ ptr' \in [Names -> Nat]
         /\ busy_mem_size' = busy_mem_size + Bytes(name)
         /\ Shares(ip', ptr') = Shares(ip, ptr) + Bytes(name)
         /\ ip > 11 => KeptShare(ip', ptr') = KeptShare(ip, ptr)
<1> DEFINE t == Place(name, ptr)
<1>1. H!kmalloc_take /\ walk = "walk" /\ current # 0 /\ H!Fits(current) /\ walk' = "idle"
      /\ UNCHANGED <<free_list_head, heap_end>>
  BY SameOperators DEF M!kmalloc_take, M!kmalloc_return, H!kmalloc_take, H!NULL
<1>2. /\ ip \in 1 .. 33 /\ Script[ip].op = "kmalloc" /\ size = Script[ip].n /\ ip > 2
      /\ t \in DOMAIN mem /\ t \in Nat \ {0} /\ mem[t].size >= size + 40
      /\ \A b \in DOMAIN mem : mem[b].is_free => b = t
  BY <1>1, Frontier
<1>3. current = t
  <2>1. current \in DOMAIN mem
    BY <1>1 DEF H!IInv, H!Walked, H!NULL
  <2> QED
    BY <1>1, <1>2, <2>1 DEF H!Fits
<1>4. H!Splits(current)
  <2>1. mem[t].size \in Nat /\ size \in Nat
    BY <1>2 DEF H!IInv, H!TypeOK, H!Header
  <2>2. mem[current].size >= size + 32 + 8
    BY <1>2, <1>3, <2>1
  <2> QED
    BY <2>2 DEF H!Splits, H!HEADER_SIZE, H!ALIGNMENT
<1>5. /\ name \in Names /\ Born(name) = ip /\ size = Bytes(name) /\ ~Lives(name, ip)
      /\ Bytes(name) \in Nat
      /\ \A n \in Names : Lives(n, ip + 1) <=> Lives(n, ip) \/ n = name
  <2>1. "arr" \in Names /\ size = Script[ip].n
    BY <1>2 DEF Names
  <2>2. /\ name \in Names /\ Born(name) = ip /\ size = Bytes(name) /\ ~Lives(name, ip)
    BY <1>2, <2>1, BirthAndDeath
  <2>3. \A n \in Names : Lives(n, ip + 1) <=> Lives(n, ip) \/ n = name
    BY <1>2, BirthAndDeath
  <2> QED
    BY <2>2, <2>3, BytesAreNat
<1> HIDE DEF t
<1>6. /\ mem'[t].size = Bytes(name) /\ busy_mem_size' = busy_mem_size + Bytes(name)
      /\ t + 32 \notin DOMAIN owned
      /\ DOMAIN owned' = DOMAIN owned \cup {t + 32}
      /\ \A p \in DOMAIN owned : mem'[p - 32].size = mem[p - 32].size
  BY <1>1, <1>3, <1>4, <1>5, HeapAssumptionHolds, H!SplitTakesSize DEF H!HEADER_SIZE
<1>7. /\ ptr \in [Names -> Nat] /\ ptr' = [ptr EXCEPT ![name] = t + 32] /\ t + 32 \in Nat \ {0}
  BY <1>1, <1>2, <1>3 DEF KInv, KeptTypes, M!HEADER_SIZE, NULL
<1>8. /\ ptr' \in [Names -> Nat] /\ ptr'[name] = t + 32
      /\ \A n \in Names \ {name} : ptr'[n] = ptr[n]
  BY <1>5, <1>7
<1>9. ASSUME NEW n \in Names, Born(n) < ip \/ n = name
      PROVE  Place(n, ptr') = Place(n, ptr)
  <2>1. CASE name = "back_buffer"
    <3>1. n = "back_buffer"
      BY <1>5, <1>9, <2>1 DEF Names, Born
    <3> QED
      BY <3>1 DEF Place
  <2>2. CASE name # "back_buffer"
    <3>1. Base(ptr') = Base(ptr)
      BY <1>8, <2>2 DEF Base, Names
    <3> QED
      BY <3>1 DEF Place
  <2> QED
    BY <2>1, <2>2
<1>10. Pointers'
  <2>1. ASSUME NEW n \in Names, ip' <= Born(n)
        PROVE  ptr'[n] = NULL
    <3>1. ip <= Born(n) /\ n # name
      BY <1>2, <1>5, <2>1 DEF Born, Names
    <3> QED
      BY <1>8, <3>1 DEF KInv, Pointers
  <2>2. ASSUME NEW n \in Names, Born(n) < ip'
        PROVE  \/ ptr'[n] = Place(n, ptr') + 32
               \/ n = "back_buffer" /\ ptr'[n] = NULL /\ pc' = "failed"
    <3>1. CASE n = name
      BY <1>8, <1>9, <3>1 DEF t
    <3>2. CASE n # name
      <4>1. Born(n) < ip
        <5>1. Born(n) # ip
          BY <1>2, <1>5, <3>2, Kmallocs, SMTT(30) DEF Born, Names
        <5>2. Born(n) \in Nat
          BY DEF Born, Names
        <5> QED
          BY <1>2, <2>2, <5>1, <5>2
      <4> QED
        BY <1>8, <1>9, <3>2, <4>1 DEF KInv, Pointers
    <3> QED
      BY <3>1, <3>2
  <2> QED
    BY <2>1, <2>2 DEF Pointers
<1>11. Blocks'
  <2>1. /\ ip' > 2 /\ walk' # "boot" /\ free_list_head' = StackTop
        /\ heap_end' = StackTop + HEAP_SIZE
    BY <1>1, <1>2 DEF KInv, Blocks
  <2>2. ASSUME NEW n \in Names, Lives(n, ip'), ptr'[n] # NULL
        PROVE  ptr'[n] \in DOMAIN owned' /\ mem'[Place(n, ptr')].size = Bytes(n)
    <3>1. CASE n = name
      BY <1>6, <1>8, <1>9, <3>1 DEF t
    <3>2. CASE n # name
      <4>1. Lives(n, ip) /\ ptr'[n] = ptr[n] /\ Born(n) < ip
        BY <1>5, <1>8, <2>2, <3>2 DEF Lives
      <4>2. /\ ptr[n] = Place(n, ptr) + 32 /\ ptr[n] \in DOMAIN owned /\ Place(n, ptr) \in Nat
            /\ mem[Place(n, ptr)].size = Bytes(n)
        BY <1>2, <2>2, <4>1, WhatHas DEF Has
      <4>3. ptr[n] - 32 = Place(n, ptr)
        BY <4>2
      <4> QED
        BY <1>6, <1>9, <4>1, <4>2, <4>3
    <3> QED
      BY <3>1, <3>2
  <2>3. ASSUME NEW p \in DOMAIN owned'
        PROVE  \E n \in Names : Lives(n, ip') /\ p = ptr'[n] /\ p # NULL
    <3>1. CASE p = t + 32
      BY <1>5, <1>7, <1>8, <3>1 DEF NULL
    <3>2. CASE p # t + 32
      <4>1. PICK n \in Names : Lives(n, ip) /\ p = ptr[n] /\ p # NULL
        BY <1>2, <1>6, <2>3, <3>2 DEF KInv, Blocks
      <4> QED
        BY <1>5, <1>8, <4>1
    <3> QED
      BY <3>1, <3>2
  <2>4. ~(ip' <= 2)
    BY <1>2
  <2> QED
    BY <2>1, <2>2, <2>3, <2>4, Zenon DEF Blocks
<1>12. Walking'
  BY <1>1 DEF Walking
<1>13. /\ Share(name, ip, ptr) = 0 /\ Share(name, ip', ptr') = Bytes(name)
       /\ \A n \in Names \ {name} : Share(n, ip, ptr) = Share(n, ip', ptr')
  BY <1>5, <1>7, <1>8 DEF Share, NULL
<1>14. /\ Shares(ip', ptr') = Shares(ip, ptr) + Bytes(name)
       /\ name \notin {"back_buffer", "stack_a", "stack_b"} =>
            KeptShare(ip', ptr') = KeptShare(ip, ptr)
  <2>1. PICK i, p, j, q, d : i = ip /\ p = ptr /\ j = ip' /\ q = ptr' /\ d = Bytes(name)
    OBVIOUS
  <2>2. /\ Share(name, j, q) = Share(name, i, p) + d /\ d \in Int
        /\ \A n \in Names \ {name} : Share(n, i, p) = Share(n, j, q)
    <3>1. Share(name, j, q) = Share(name, i, p) + d
      BY <1>5, <1>13, <2>1
    <3>2. d \in Int
      BY <1>5, <2>1
    <3>3. \A n \in Names \ {name} : Share(n, i, p) = Share(n, j, q)
      BY <1>13, <2>1
    <3>4. QED BY <3>1, <3>2, <3>3
  <2>3. /\ Shares(j, q) = Shares(i, p) + d
        /\ name \notin {"back_buffer", "stack_a", "stack_b"} => KeptShare(j, q) = KeptShare(i, p)
    <3>1. name \in Names
      BY <1>5
    <3> QED
      BY <2>2, <3>1, SharesDiffer
  <2> QED
    BY <2>1, <2>3
<1>15. ip > 11 => name \notin {"back_buffer", "stack_a", "stack_b"}
  BY <1>5 DEF Born
<1> QED
  BY <1>2, <1>6, <1>8, <1>10, <1>11, <1>12, <1>14, <1>15

-----------------------------------------------------------------------------
(* A call of kfree. *)

(* What is freed lies where nothing else does. *)
LEMMA Apart ==
  ASSUME KInv, ip \in 1 .. 33, Script[ip].op = "kfree", NEW name, name = Script[ip].arg,
         NEW n \in Names, n # name, Has(n)
  PROVE  Place(n, ptr) # Place(name, ptr)
<1>1. \/ ip = 15 /\ name = "arr"
      \/ ip = 18 /\ name = "ptr1"
      \/ ip = 20 /\ name = "ptr2"
      \/ ip = 25 /\ name = "one"
      \/ ip = 26 /\ name = "two"
      \/ ip = 27 /\ name = "three"
      \/ ip = 31 /\ name = "pixel_data"
  BY Kfrees
<1>2. \/ n \in {"back_buffer", "stack_a", "stack_b"}
      \/ n \in {"two", "three"} /\ name = "one"
      \/ n = "three" /\ name = "two"
  BY <1>1, SMTT(30) DEF Has, Lives, Born, Dies, Names
<1>3. StackTop \in Nat /\ Base(ptr) \in Nat
      /\ (ptr["back_buffer"] # NULL => Base(ptr) = StackTop + FRAME_SIZE + 32)
  BY BootAssumption DEF Base, FRAME_SIZE
<1>4. n = "back_buffer" => ptr["back_buffer"] # NULL
  BY DEF Has
<1>5. /\ n = "back_buffer" => Place(n, ptr) = StackTop
      /\ n = "stack_a" => Place(n, ptr) = Base(ptr)
      /\ n = "stack_b" => Place(n, ptr) = Base(ptr) + 4128
      /\ n = "two" => Place(n, ptr) = Base(ptr) + 9312
      /\ n = "three" => Place(n, ptr) = Base(ptr) + 74880
  BY DEF Place
<1>6. /\ name = "two" => Place(name, ptr) = Base(ptr) + 9312
      /\ name = "three" => Place(name, ptr) = Base(ptr) + 74880
      /\ name \in {"arr", "ptr1", "ptr2", "one", "pixel_data"} =>
           Place(name, ptr) = Base(ptr) + 8256
  BY DEF Place
<1> QED
  BY <1>1, <1>2, <1>3, <1>4, <1>5, <1>6, SMTT(30) DEF FRAME_SIZE

LEMMA KfreeKeeps ==
  ASSUME KInv, H!IInv, kfree, pc' = pc, NEW name, name = Script[ip].arg
  PROVE  /\ Pointers' /\ Blocks' /\ Walking' /\ ip' \in 1 .. 34
         /\ ip' = ip + 1 /\ ip > 14 /\ ptr' = ptr /\ hart' = hart
         /\ busy_mem_size' = busy_mem_size - Bytes(name)
         /\ Shares(ip', ptr') = Shares(ip, ptr) - Bytes(name)
         /\ KeptShare(ip', ptr') = KeptShare(ip, ptr)
         /\ Bytes(name) \in Nat
<1>0. pc' = pc
  OBVIOUS
<1>1. /\ ip \in 1 .. 33 /\ Script[ip].op = "kfree" /\ ip' = ip + 1 /\ ptr' = ptr
      /\ walk # "walk"
  BY AtStep DEF kfree
<1>2. /\ name \in {"arr", "ptr1", "ptr2", "one", "two", "three", "pixel_data"} /\ ip > 14
  BY <1>1, Kfrees
<1>3. /\ name \in Names /\ name \notin {"back_buffer", "stack_a", "stack_b"}
      /\ Bytes(name) \in Nat
  BY <1>2, BytesAreNat DEF Names
<1>4. /\ Lives(name, ip)
      /\ \A n \in Names : Lives(n, ip + 1) <=> Lives(n, ip) /\ n # name
  <2>1. Lives(name, ip)
    BY <1>1, <1>3, BirthAndDeath
  <2>2. \A n \in Names : Lives(n, ip + 1) <=> Lives(n, ip) /\ n # name
    BY <1>1, BirthAndDeath
  <2> QED
    BY <2>1, <2>2
<1>5. /\ Has(name) /\ ptr[name] = Place(name, ptr) + 32 /\ ptr[name] \in DOMAIN owned
      /\ mem[Place(name, ptr)].size = Bytes(name) /\ Place(name, ptr) \in Nat
  <2>1. name # "back_buffer" /\ ip > 2
    BY <1>1, <1>2
  <2> QED
    BY <1>3, <1>4, <2>1, WhatHas
<1>6. M!kfree(ptr[name]) /\ hart' = hart /\ ptr[name] - 32 = Place(name, ptr)
  <2>1. ptr[name] # NULL /\ Arg = name
    BY <1>5 DEF Has, Arg
  <2>2. M!kfree(ptr[name]) /\ hart' = hart
    BY <1>5, <2>1 DEF kfree
  <2>3. ptr[name] - 32 = Place(name, ptr)
    BY <1>5
  <2> QED
    BY <2>2, <2>3
<1>7. /\ H!kfree(ptr[name]) /\ walk = "idle" /\ walk' = walk
      /\ UNCHANGED <<free_list_head, heap_end>>
  BY <1>6, SameOperators DEF H!kfree
<1>8. /\ busy_mem_size' = busy_mem_size - mem[ptr[name] - 32].size
      /\ DOMAIN owned' = DOMAIN owned \ {ptr[name]}
      /\ \A p \in DOMAIN owned \ {ptr[name]} : mem'[p - 32].size = mem[p - 32].size
  BY <1>5, <1>7, HeapAssumptionHolds, H!KfreeGivesBack DEF H!HEADER_SIZE
<1>9. Pointers'
  <2>1. ASSUME NEW n \in Names, Born(n) < ip'
        PROVE  Born(n) < ip
    <3>1. Born(n) # ip
      BY <1>1, Kfrees, SMTT(30) DEF Born, Names
    <3>2. Born(n) \in Nat
      BY DEF Born, Names
    <3> QED
      BY <1>1, <2>1, <3>1, <3>2
  <2>2. ASSUME NEW n \in Names, ip' <= Born(n)
        PROVE  ip <= Born(n)
    BY <1>1, <2>2 DEF Born, Names
  <2> QED
    BY <1>0, <1>1, <2>1, <2>2 DEF KInv, Pointers
<1>10. Blocks'
  <2>1. /\ walk' # "boot" /\ free_list_head' = StackTop /\ heap_end' = StackTop + HEAP_SIZE
    BY <1>1, <1>2, <1>7 DEF KInv, Blocks
  <2>2. ASSUME NEW n \in Names, Lives(n, ip'), ptr'[n] # NULL
        PROVE  ptr'[n] \in DOMAIN owned' /\ mem'[Place(n, ptr')].size = Bytes(n)
    <3>1. n # name /\ Has(n)
      BY <1>1, <1>4, <2>2 DEF Has
    <3>2. /\ ptr[n] = Place(n, ptr) + 32 /\ ptr[n] \in DOMAIN owned /\ Place(n, ptr) \in Nat
          /\ mem[Place(n, ptr)].size = Bytes(n)
      BY <1>1, <1>2, <3>1, WhatHas
    <3>3. Place(n, ptr) # Place(name, ptr)
      BY <1>1, <3>1, Apart
    <3>4. ptr[n] # ptr[name] /\ ptr[n] - 32 = Place(n, ptr)
      BY <1>5, <3>2, <3>3
    <3> QED
      BY <1>1, <1>8, <3>2, <3>4
  <2>3. ASSUME NEW p \in DOMAIN owned'
        PROVE  \E n \in Names : Lives(n, ip') /\ p = ptr'[n] /\ p # NULL
    <3>1. PICK n \in Names : Lives(n, ip) /\ p = ptr[n] /\ p # NULL
      BY <1>1, <1>2, <1>8, <2>3 DEF KInv, Blocks
    <3>2. n # name
      BY <1>8, <2>3, <3>1
    <3> QED
      BY <1>1, <1>4, <3>1, <3>2
  <2>4. ~(ip' <= 2)
    BY <1>1, <1>2
  <2> QED
    BY <2>1, <2>2, <2>3, <2>4, Zenon DEF Blocks
<1>11. Walking'
  BY <1>7 DEF Walking
<1>12. /\ Shares(ip', ptr') = Shares(ip, ptr) - Bytes(name)
       /\ KeptShare(ip', ptr') = KeptShare(ip, ptr)
  <2>1. PICK i, p, j, q, d : i = ip /\ p = ptr /\ j = ip' /\ q = ptr' /\ d = 0 - Bytes(name)
    OBVIOUS
  <2>2. Share(name, ip, ptr) = Bytes(name) /\ Share(name, ip', ptr') = 0
    BY <1>1, <1>3, <1>4, <1>5 DEF Share, Has
  <2>3. Share(name, j, q) = Share(name, i, p) + d /\ d \in Int
    BY <1>3, <2>1, <2>2
  <2>4. \A n \in Names \ {name} : Share(n, ip, ptr) = Share(n, ip', ptr')
    BY <1>1, <1>4 DEF Share
  <2>5. \A n \in Names \ {name} : Share(n, i, p) = Share(n, j, q)
    BY <2>1, <2>4
  <2>6. Shares(j, q) = Shares(i, p) + d /\ KeptShare(j, q) = KeptShare(i, p)
    BY <1>3, <2>3, <2>5, SharesDiffer
  <2>7. Shares(ip, ptr) \in Nat
    BY SharesAreNat
  <2> QED
    BY <1>3, <2>1, <2>6, <2>7
<1> QED
  BY <1>1, <1>2, <1>3, <1>5, <1>6, <1>8, <1>9, <1>10, <1>11, <1>12

-----------------------------------------------------------------------------
(* What the other parts of the invariant need of a step. *)

LEMMA CountsKept ==
  ASSUME KInv, reported' = reported, ip' \in 1 .. 34, ip <= ip',
         busy_mem_size' = Shares(ip', ptr'),
         ip > 11 => KeptShare(ip', ptr') = KeptShare(ip, ptr)
  PROVE  Counts'
<1> PICK k, l : k = KeptShare(ip, ptr) /\ l = KeptShare(ip', ptr')
  OBVIOUS
<1> QED
  BY DEF KInv, KeptTypes, Counts

LEMMA RunningKept ==
  ASSUME KInv, thread' = thread, rounds' = rounds, ip' \in 1 .. 34, ip <= ip'
  PROVE  Running'
BY DEF KInv, KeptTypes, Running

LEMMA PanicsKept ==
  ASSUME KInv, hart' = hart, pc' = pc, thread' = thread, ip' \in 1 .. 34, ip <= ip'
  PROVE  Panics'
BY DEF KInv, KeptTypes, Panics

(* Whoever has no back buffer has no screen. *)
LEMMA NoScreen ==
  ASSUME KInv, ip > 4, ptr["back_buffer"] = NULL
  PROVE  pc = "failed"
<1>1. "back_buffer" \in Names /\ Born("back_buffer") < ip
  BY DEF Names, Born
<1>2. Place("back_buffer", ptr) + 32 # NULL
  BY BootAssumption DEF Place, NULL
<1> QED
  BY <1>1, <1>2 DEF KInv, Pointers

-----------------------------------------------------------------------------
(* The steps that leave the heap alone. *)

LEMMA DoesOnward ==
  ASSUME KInv, NEW op, Does(op), op \notin {"kmalloc", "kfree", "heap_init"},
         UNCHANGED <<heap, ptr, pc>>, ip' = ip \/ ip' = ip + 1
  PROVE  Onward
<1>1. ip \in 1 .. 33 /\ Script[ip].op = op /\ walk # "walk"
  BY AtStep
<1>2. Script[2].op = "heap_init"
  BY ScriptAt DEF SetUp, Do
<1> QED
  BY <1>1, <1>2 DEF Onward

LEMMA OnwardInv ==
  ASSUME KInv, Onward, UNCHANGED <<reported, thread, rounds>>,
         hart' \in {"runs", "halted", "panic"}, Panics'
  PROVE  KInv'
<1>1. ip \in 1 .. 34 /\ ip' \in 1 .. 34 /\ ip <= ip' /\ ptr' = ptr
      /\ busy_mem_size' = busy_mem_size
  BY OnwardKeeps DEF Onward, heap, KInv, KeptTypes
<1>2. busy_mem_size' = Shares(ip', ptr')
  BY <1>1, OnwardKeeps DEF KInv, Counts
<1>3. Counts'
  BY <1>1, <1>2, OnwardKeeps, CountsKept
<1>4. Running'
  BY <1>1, RunningKept
<1>5. KeptTypes'
  BY <1>1 DEF KInv, KeptTypes
<1> QED
  BY <1>3, <1>4, <1>5, OnwardKeeps DEF KInv

LEMMA CheckInv == KInv /\ check_fw_cfg_dma /\ UNCHANGED vars => KInv'
<1> SUFFICES ASSUME KInv, check_fw_cfg_dma, UNCHANGED vars PROVE KInv'
  OBVIOUS
<1>1. Does("check") /\ UNCHANGED <<heap, ptr, pc, reported, thread, rounds>>
      /\ \/ ip' = ip + 1 /\ hart' = hart
         \/ ip' = ip /\ hart' = "halted"
  BY DEF check_fw_cfg_dma, vars, driver
<1>2. Onward
  BY <1>1, DoesOnward
<1>3. hart = "runs"
  BY <1>1 DEF Does
<1> QED
  BY <1>1, <1>2, <1>3, OnwardInv DEF Panics

(* The driver works before there is anything on the heap, so it may go      *)
(* where it will.                                                           *)
LEMMA RamfbInv == KInv /\ ramfb_setup => KInv'
<1> SUFFICES ASSUME KInv, ramfb_setup PROVE KInv'
  OBVIOUS
<1>1. /\ ip = 3 /\ hart = "runs" /\ walk # "walk"
      /\ UNCHANGED <<heap, hart, ptr, fb_addr, reported, thread, rounds>>
  <2>1. Does("ramfb_setup")
    BY DEF ramfb_setup
  <2>2. ip \in 1 .. 33 /\ Script[ip].op = "ramfb_setup" /\ hart = "runs" /\ walk # "walk"
    BY <2>1, AtStep
  <2> QED
    BY <2>2, OtherSteps DEF ramfb_setup
<1>2. CASE ip' = ip
  <2>1. \A name \in Names : ~(Born(name) < 3)
    BY DEF Names, Born
  <2>2. Pointers'
    BY <1>1, <1>2, <2>1 DEF KInv, Pointers
  <2>3. Blocks' /\ Walking' /\ Counts' /\ Running' /\ KeptTypes'
    <3>1. /\ ip' = ip /\ ptr' = ptr /\ mem' = mem /\ owned' = owned /\ walk' = walk
          /\ size' = size /\ free_list_head' = free_list_head /\ heap_end' = heap_end
          /\ busy_mem_size' = busy_mem_size /\ reported' = reported /\ hart' = hart
          /\ thread' = thread /\ rounds' = rounds
      BY <1>1, <1>2 DEF heap
    <3>2. Blocks'
      BY <3>1 DEF KInv, Blocks
    <3>3. Walking'
      BY <3>1 DEF KInv, Walking
    <3>4. busy_mem_size' = Shares(ip', ptr') /\ KeptShare(ip', ptr') = KeptShare(ip, ptr)
          /\ ip' \in 1 .. 34 /\ ip <= ip'
      BY <1>1, <3>1 DEF KInv, Counts
    <3>5. Counts' /\ Running'
      BY <3>1, <3>4, CountsKept, RunningKept
    <3>6. KeptTypes'
      BY <3>1 DEF KInv, KeptTypes
    <3> QED
      BY <3>2, <3>3, <3>5, <3>6
  <2> QED
    BY <1>1, <2>2, <2>3 DEF KInv, Panics
<1>3. CASE ip' # ip
  <2>1. pc' = pc /\ (ip' = ip + 1 \/ (ip' = 6 /\ pc = "failed"))
    <3>1. \/ pc = "ready" /\ ip' = ip + 1 /\ UNCHANGED vars
          \/ pc = "failed" /\ ip' = ip + 3 /\ UNCHANGED vars
      BY <1>3 DEF ramfb_setup
    <3>2. UNCHANGED vars => pc' = pc
      BY DEF vars, driver
    <3> QED
      BY <1>1, <3>1, <3>2
  <2>2. Onward
    <3>1. Script[ip].op \notin {"kmalloc", "kfree"}
      BY DEF ramfb_setup, Does
    <3> QED
      BY <1>1, <2>1, <3>1 DEF Onward
  <2> QED
    BY <1>1, <2>2, OnwardInv DEF Panics
<1> QED
  BY <1>2, <1>3

LEMMA PrintInv == KInv /\ (ramfb_return \/ kprint) /\ UNCHANGED vars => KInv'
<1> SUFFICES ASSUME KInv, ramfb_return \/ kprint, UNCHANGED vars PROVE KInv'
  OBVIOUS
<1>1. UNCHANGED <<heap, ptr, pc, reported, thread, rounds, hart>> /\ ip' = ip + 1
      /\ (Does("fb") \/ Does("kprint"))
  BY DEF ramfb_return, kprint, vars, driver
<1>2. Onward
  BY <1>1, DoesOnward
<1>3. hart = "runs"
  BY <1>1 DEF Does
<1> QED
  BY <1>1, <1>2, <1>3, OnwardInv DEF Panics

(* What create_thread does to a thread does not move it past its script.    *)
LEMMA ThreadInv ==
  ASSUME KInv, Onward, NEW t \in {"a", "b"}, NEW state \in ThreadStates,
         UNCHANGED <<reported, rounds, hart>>, hart = "runs",
         thread' = [thread EXCEPT ![t] = state],
         state # "none", t = "a" => ip >= 8, t = "b" => ip >= 10, ip <= ip',
         t = "a" => (state = "exited" <=> thread["a"] = "exited")
  PROVE  KInv'
<1>1. /\ ip \in 1 .. 34 /\ ip' \in 1 .. 34 /\ ptr' = ptr /\ busy_mem_size' = busy_mem_size
  BY OnwardKeeps DEF Onward, heap, KInv, KeptTypes
<1>2. KeptTypes'
  BY <1>1 DEF KInv, KeptTypes
<1>3. Counts'
  <2>1. busy_mem_size' = Shares(ip', ptr')
    BY <1>1, OnwardKeeps DEF KInv, Counts
  <2> QED
    BY <1>1, <2>1, OnwardKeeps, CountsKept
<1>4. Running'
  <2>1. CASE t = "a"
    <3>1. thread'["a"] = state /\ thread'["b"] = thread["b"]
      BY <2>1 DEF KInv, KeptTypes
    <3>2. thread["a"] = "none" => rounds = 0
      BY DEF KInv, Running
    <3> QED
      BY <1>1, <2>1, <3>1, <3>2 DEF KInv, KeptTypes, Running
  <2>2. CASE t = "b"
    <3>1. thread'["b"] = state /\ thread'["a"] = thread["a"]
      BY <2>2 DEF KInv, KeptTypes
    <3> QED
      BY <1>1, <2>2, <3>1 DEF KInv, KeptTypes, Running
  <2> QED
    BY <2>1, <2>2
<1>5. Panics'
  BY DEF Panics
<1> QED
  BY <1>2, <1>3, <1>4, <1>5, OnwardKeeps DEF KInv

LEMMA CreateInv == KInv /\ create_thread /\ UNCHANGED vars => KInv'
<1> SUFFICES ASSUME KInv, create_thread, UNCHANGED vars PROVE KInv'
  OBVIOUS
<1>1. PICK t : t = Script[ip].arg
  OBVIOUS
<1>2. /\ Does("create") /\ UNCHANGED <<heap, ip, ptr, pc, reported, rounds, hart>>
      /\ thread[t] = "none" /\ thread' = [thread EXCEPT ![t] = "ready"]
  BY <1>1 DEF create_thread, vars, driver, Arg
<1>3. Onward
  BY <1>2, DoesOnward
<1>4. hart = "runs" /\ ((ip = 8 /\ t = "a") \/ (ip = 10 /\ t = "b"))
  <2>1. hart = "runs" /\ ip \in 1 .. 33 /\ Script[ip].op = "create"
    BY <1>2, AtStep
  <2> QED
    BY <1>1, <2>1, OtherSteps
<1>5. "ready" \in ThreadStates /\ ip <= ip'
  BY <1>2, <1>4 DEF ThreadStates
<1> QED
  BY <1>2, <1>3, <1>4, <1>5, ThreadInv

LEMMA LateStoresInv == KInv /\ late_stores /\ UNCHANGED vars => KInv'
<1> SUFFICES ASSUME KInv, late_stores, UNCHANGED vars PROVE KInv'
  OBVIOUS
<1>1. PICK t : t = Script[ip].arg
  OBVIOUS
<1>2. /\ Does("create") /\ UNCHANGED <<heap, ptr, pc, reported, rounds, hart>>
      /\ ip' = ip + 1 /\ thread[t] # "none"
  BY <1>1 DEF late_stores, vars, driver, Arg
<1>3. PICK state \in AfterLateStores(thread[t]) : thread' = [thread EXCEPT ![t] = state]
  BY <1>1 DEF late_stores, Arg
<1>4. Onward
  BY <1>2, DoesOnward
<1>5. hart = "runs" /\ ((ip = 8 /\ t = "a") \/ (ip = 10 /\ t = "b"))
  <2>1. hart = "runs" /\ ip \in 1 .. 33 /\ Script[ip].op = "create"
    BY <1>2, AtStep
  <2> QED
    BY <1>1, <2>1, OtherSteps
<1>6. thread[t] \in ThreadStates
  BY <1>5 DEF KInv, KeptTypes
<1>7. /\ state \in ThreadStates /\ state # "none"
      /\ state = "exited" <=> thread[t] = "exited"
  <2>1. CASE thread[t] = "ready"
    BY <1>3, <2>1 DEF AfterLateStores, ThreadStates
  <2>2. CASE thread[t] = "asleep"
    BY <1>3, <2>2 DEF AfterLateStores, ThreadStates
  <2>3. CASE thread[t] # "ready" /\ thread[t] # "asleep"
    BY <1>2, <1>3, <1>6, <2>3 DEF AfterLateStores
  <2> QED
    BY <2>1, <2>2, <2>3
<1>8. /\ t \in {"a", "b"} /\ ip <= ip' /\ (t = "a" => ip >= 8) /\ (t = "b" => ip >= 10)
      /\ t = "a" => (state = "exited" <=> thread["a"] = "exited")
  BY <1>2, <1>5, <1>7
<1>9. UNCHANGED <<reported, rounds, hart>>
  BY <1>2
<1> QED
  BY <1>3, <1>4, <1>5, <1>7, <1>8, <1>9, ThreadInv

(* The numbers kernel_main prints. *)
LEMMA ReportInv == KInv /\ report /\ UNCHANGED vars => KInv'
<1> SUFFICES ASSUME KInv, report, UNCHANGED vars PROVE KInv'
  OBVIOUS
<1> DEFINE more(label) == IF label = "then" THEN 40
                          ELSE IF label = "now" THEN 1024 + 64 * 1024 + 1024 * 1024 ELSE 0
<1>1. /\ Does("report") /\ UNCHANGED <<heap, ptr, pc, thread, rounds, hart, busy_mem_size>>
      /\ ip' = ip + 1
      /\ reported' = [label \in DOMAIN reported \cup {Script[ip].arg} |->
                        IF label = Script[ip].arg THEN busy_mem_size ELSE reported[label]]
  BY DEF report, vars, driver, heap, Arg
<1>2. Onward
  BY <1>1, DoesOnward
<1>3. /\ hart = "runs" /\ ip \in 1 .. 33
      /\ \/ ip \in {11, 16, 28, 33} /\ Script[ip].arg \notin {"then", "now"}
         \/ ip = 14 /\ Script[ip].arg = "then"
         \/ ip = 24 /\ Script[ip].arg = "now"
  <2>1. hart = "runs" /\ ip \in 1 .. 33 /\ Script[ip].op = "report"
    BY <1>1, AtStep
  <2> QED
    BY <2>1, OtherSteps
<1>4. ip' \in 1 .. 34 /\ ip <= ip'
  BY <1>1, <1>3
<1>5. KeptTypes'
  BY <1>1, <1>4 DEF KInv, KeptTypes
<1>6. Shares(ip, ptr) = KeptShare(ip, ptr) + more(Script[ip].arg)
  <2> DEFINE Sh(name) == Share(name, ip, ptr)
  <2>1. Shares(ip, ptr) = KeptShare(ip, ptr) + Sh("arr") + Sh("ptr1") + Sh("ptr2")
                          + Sh("one") + Sh("two") + Sh("three") + Sh("pixel_data")
    BY DEF Shares
  <2>2. \A name \in Names \ {"back_buffer"} : Sh(name) = IF Lives(name, ip) THEN Bytes(name) ELSE 0
    BY <1>3, WhatHas DEF Share, Has
  <2>3. /\ Sh("ptr1") = 0 /\ Sh("ptr2") = 0 /\ Sh("pixel_data") = 0
        /\ Sh("arr") = IF ip = 14 THEN 40 ELSE 0
        /\ Sh("one") = IF ip = 24 THEN 1024 ELSE 0
        /\ Sh("two") = IF ip = 24 THEN 64 * 1024 ELSE 0
        /\ Sh("three") = IF ip = 24 THEN 1024 * 1024 ELSE 0
    <3>1. /\ ~Lives("ptr1", ip) /\ ~Lives("ptr2", ip) /\ ~Lives("pixel_data", ip)
          /\ Lives("arr", ip) <=> ip = 14
          /\ Lives("one", ip) <=> ip = 24
          /\ Lives("two", ip) <=> ip = 24
          /\ Lives("three", ip) <=> ip = 24
      BY <1>3 DEF Lives, Born, Dies
    <3> QED
      BY <2>2, <3>1 DEF Bytes, Names
  <2>4. KeptShare(ip, ptr) \in Nat
    BY SharesAreNat
  <2> HIDE DEF Sh
  <2> QED
    BY <1>3, <2>1, <2>3, <2>4
<1>7. Counts'
  <2>1. busy_mem_size' = Shares(ip', ptr') /\ KeptShare(ip', ptr') = KeptShare(ip, ptr)
        /\ busy_mem_size = Shares(ip, ptr)
    BY <1>1, <1>2, OnwardKeeps DEF KInv, Counts
  <2>2. ASSUME NEW label \in DOMAIN reported'
        PROVE  ip' > 11 /\ reported'[label] = KeptShare(ip', ptr') + more(label)
    <3>1. ip' > 11
      BY <1>1, <1>3
    <3>2. CASE label = Script[ip].arg
      <4>1. reported'[label] = busy_mem_size
        BY <1>1, <2>2, <3>2
      <4> QED
        BY <1>6, <2>1, <3>1, <3>2, <4>1
    <3>3. CASE label # Script[ip].arg
      <4>1. label \in DOMAIN reported /\ reported'[label] = reported[label]
        BY <1>1, <2>2, <3>3
      <4>2. reported[label] = KeptShare(ip, ptr) + more(label)
        BY <4>1 DEF KInv, Counts
      <4> QED
        BY <2>1, <3>1, <4>1, <4>2
    <3> QED
      BY <3>2, <3>3
  <2> QED
    BY <2>1, <2>2 DEF Counts
<1>8. Running'
  BY <1>1, <1>4, RunningKept
<1>9. Panics'
  BY <1>1, <1>3 DEF Panics
<1> QED
  BY <1>2, <1>5, <1>7, <1>8, <1>9, OnwardKeeps DEF KInv

LEMMA UseInv == KInv /\ (use \/ draw) /\ UNCHANGED vars => KInv'
<1> SUFFICES ASSUME KInv, use \/ draw, UNCHANGED vars PROVE KInv'
  OBVIOUS
<1>1. UNCHANGED <<heap, ptr, pc, reported, thread, rounds>> /\ ip' = ip + 1
      /\ (Does("use") \/ Does("draw"))
  BY DEF use, draw, vars, driver
<1>2. Onward
  BY <1>1, DoesOnward
<1>3. hart = "runs" /\ ip \in {13, 30, 32}
  BY <1>1, AtStep, OtherSteps
<1>4. hart' = hart \/ (hart' = "panic" /\ ptr["back_buffer"] = NULL)
  <2>1. CASE use
    <3>1. ip = 13 /\ Script[ip].arg = "arr"
      BY <2>1, AtStep, OtherSteps DEF use
    <3>2. ptr["arr"] # NULL
      <4>1. "arr" \in Names /\ Lives("arr", ip)
        BY <3>1 DEF Names, Lives, Born, Dies
      <4> QED
        BY <3>1, <4>1, WhatHas DEF Has
    <3> QED
      BY <2>1, <3>1, <3>2 DEF use, Access, Arg
  <2>2. CASE draw
    BY <2>2 DEF draw, Access
  <2> QED
    BY <2>1, <2>2
<1>5. Panics'
  BY <1>1, <1>3, <1>4, NoScreen DEF Panics
<1> QED
  BY <1>1, <1>2, <1>3, <1>4, <1>5, OnwardInv

-----------------------------------------------------------------------------
(* The steps of the heap. *)

LEMMA HeapStepInv == KInv /\ H!IInv /\ OnHeap /\ UNCHANGED vars => KInv'
<1> SUFFICES ASSUME KInv, H!IInv, OnHeap, UNCHANGED vars PROVE KInv'
  OBVIOUS
<1>0. pc' = pc
  BY DEF vars, driver
<1>1. CASE heap_init
  <2>1. UNCHANGED <<hart, reported, thread, rounds>>
    BY <1>1 DEF heap_init
  <2>2. /\ ip' = 3 /\ ptr' = ptr /\ Shares(ip', ptr') = Shares(ip, ptr)
        /\ DOMAIN reported = {} /\ busy_mem_size' = busy_mem_size
        /\ Pointers' /\ Blocks' /\ Walking'
    BY <1>0, <1>1, StartKeeps
  <2>3. ip = 2 /\ hart = "runs"
    <3>1. ip \in 1 .. 33 /\ Script[ip].op = "heap_init" /\ hart = "runs"
      BY <1>1, AtStep DEF heap_init
    <3> QED
      BY <3>1, OtherSteps
  <2>4. KeptTypes'
    BY <2>1, <2>2 DEF KInv, KeptTypes
  <2>5. Counts'
    BY <2>1, <2>2 DEF KInv, Counts
  <2>6. Running' /\ Panics'
    BY <1>0, <2>1, <2>2, <2>3, RunningKept, PanicsKept
  <2> QED
    BY <2>2, <2>4, <2>5, <2>6 DEF KInv
<1>2. CASE kmalloc
  <2>1. UNCHANGED <<ip, hart, ptr, reported, thread, rounds>>
    BY <1>2 DEF kmalloc
  <2>2. busy_mem_size' = busy_mem_size /\ Pointers' /\ Blocks' /\ Walking'
    BY <1>0, <1>2, EnterKeeps
  <2>3. ip' \in 1 .. 34 /\ ip <= ip'
    BY <2>1 DEF KInv, KeptTypes
  <2>4. Counts'
    BY <2>1, <2>2 DEF KInv, Counts
  <2>5. Running' /\ Panics'
    BY <1>0, <2>1, <2>3, RunningKept, PanicsKept
  <2>6. KeptTypes'
    BY <2>1 DEF KInv, KeptTypes
  <2> QED
    BY <2>2, <2>4, <2>5, <2>6 DEF KInv
<1>3. CASE kmalloc_walk
  <2>1. UNCHANGED <<hart, reported, thread, rounds>>
    BY <1>3 DEF kmalloc_walk
  <2>2. CASE M!kmalloc_next /\ UNCHANGED <<ip, ptr>>
    <3>1. busy_mem_size' = busy_mem_size /\ Pointers' /\ Blocks' /\ Walking'
      BY <1>0, <2>2, NextKeepsHeap
    <3>2. ip' \in 1 .. 34 /\ ip <= ip'
      BY <2>2 DEF KInv, KeptTypes
    <3>3. Counts'
      BY <2>1, <2>2, <3>1 DEF KInv, Counts
    <3>4. Running' /\ Panics'
      BY <1>0, <2>1, <3>2, RunningKept, PanicsKept
    <3>5. KeptTypes'
      BY <2>1, <2>2 DEF KInv, KeptTypes
    <3> QED
      BY <3>1, <3>3, <3>4, <3>5 DEF KInv
  <2>3. CASE ~(M!kmalloc_next /\ UNCHANGED <<ip, ptr>>)
    <3>1. PICK name : name = Script[ip].arg
      OBVIOUS
    <3>2. /\ M!kmalloc_take /\ ip' = ip + 1
          /\ ptr' = [ptr EXCEPT ![name] =
                       IF current = NULL THEN NULL ELSE current + M!HEADER_SIZE]
      BY <1>3, <2>3, <3>1, NeverNull DEF kmalloc_walk, Arg
    <3>3. /\ Pointers' /\ Blocks' /\ Walking' /\ ip' \in 1 .. 34
          /\ ptr' \in [Names -> Nat]
          /\ busy_mem_size' = busy_mem_size + Bytes(name)
          /\ Shares(ip', ptr') = Shares(ip, ptr) + Bytes(name)
          /\ ip > 11 => KeptShare(ip', ptr') = KeptShare(ip, ptr)
      BY <1>0, <3>1, <3>2, TakeKeeps
    <3>4. ip \in 1 .. 34 /\ ip <= ip'
      BY <3>2 DEF KInv, KeptTypes
    <3>5. Counts'
      <4>1. busy_mem_size' = Shares(ip', ptr')
        BY <3>3 DEF KInv, Counts
      <4> QED
        BY <2>1, <3>3, <3>4, <4>1, CountsKept
    <3>6. Running' /\ Panics'
      BY <1>0, <2>1, <3>3, <3>4, RunningKept, PanicsKept
    <3>7. KeptTypes'
      BY <2>1, <3>3 DEF KInv, KeptTypes
    <3> QED
      BY <3>3, <3>5, <3>6, <3>7 DEF KInv
  <2> QED
    BY <2>2, <2>3
<1>4. CASE kfree
  <2>1. PICK name : name = Script[ip].arg
    OBVIOUS
  <2>2. UNCHANGED <<ptr, reported, thread, rounds>>
    BY <1>4 DEF kfree
  <2>3. /\ Pointers' /\ Blocks' /\ Walking' /\ ip' \in 1 .. 34
        /\ ip' = ip + 1 /\ hart' = hart
        /\ busy_mem_size' = busy_mem_size - Bytes(name)
        /\ Shares(ip', ptr') = Shares(ip, ptr) - Bytes(name)
        /\ KeptShare(ip', ptr') = KeptShare(ip, ptr)
    BY <1>0, <1>4, <2>1, KfreeKeeps
  <2>4. ip \in 1 .. 34 /\ ip <= ip'
    BY <2>3 DEF KInv, KeptTypes
  <2>5. Counts'
    <3>1. busy_mem_size' = Shares(ip', ptr')
      BY <2>3 DEF KInv, Counts
    <3> QED
      BY <2>2, <2>3, <2>4, <3>1, CountsKept
  <2>6. Running' /\ Panics'
    BY <1>0, <2>2, <2>3, <2>4, RunningKept, PanicsKept
  <2>7. KeptTypes'
    BY <2>2, <2>3 DEF KInv, KeptTypes
  <2> QED
    BY <2>3, <2>5, <2>6, <2>7 DEF KInv
<1> QED
  BY <1>1, <1>2, <1>3, <1>4 DEF OnHeap

-----------------------------------------------------------------------------
(* The steps of the threads. *)

LEMMA RoundInv == ASSUME KInv, NEW t \in {"a", "b"}, round(t), UNCHANGED vars PROVE KInv'
<1>1. /\ UNCHANGED <<heap, ip, ptr, pc, reported, rounds, busy_mem_size>>
      /\ hart = "runs" /\ thread[t] = "ready"
      /\ thread' = [thread EXCEPT ![t] = "asleep"]
  BY DEF round, vars, driver, heap
<1>2. Onward
  BY <1>1 DEF Onward
<1>3. ip >= 8 /\ ptr[Stack[t]] # NULL
  <2>1. ip >= 8 /\ (t = "b" => ip >= 10)
    BY <1>1 DEF KInv, KeptTypes, Running
  <2>2. Stack[t] \in Names /\ Stack[t] # "back_buffer" /\ Lives(Stack[t], ip)
    BY <2>1 DEF Stack, Names, Lives, Born, Dies, KInv, KeptTypes
  <2>3. ip > 2
    BY <2>1 DEF KInv, KeptTypes
  <2>4. Has(Stack[t])
    BY <2>2, <2>3, WhatHas
  <2> QED
    BY <2>1, <2>4 DEF Has
<1>4. hart' = hart \/ (hart' = "panic" /\ ptr["back_buffer"] = NULL)
  BY <1>3 DEF round, Access
<1>5. Panics'
  <2>1. ip > 4 /\ ip > 3 /\ ip' = ip /\ pc' = pc
    BY <1>1, <1>3 DEF KInv, KeptTypes
  <2> QED
    BY <1>1, <1>4, <2>1, NoScreen DEF Panics
<1>6. Counts'
  BY <1>1 DEF KInv, Counts
<1>7. Running'
  BY <1>1 DEF KInv, KeptTypes, Running
<1>8. KeptTypes'
  BY <1>1, <1>4 DEF KInv, KeptTypes, ThreadStates
<1> QED
  BY <1>2, <1>5, <1>6, <1>7, <1>8, OnwardKeeps DEF KInv

LEMMA StruckRoundInv ==
  ASSUME KInv, NEW t \in {"a", "b"}, struck_round(t), UNCHANGED vars PROVE KInv'
<1>1. /\ UNCHANGED <<heap, ip, ptr, pc, reported, rounds, busy_mem_size>>
      /\ hart = "runs" /\ thread[t] = "struck"
  BY DEF struck_round, vars, driver, heap
<1>2. Onward
  BY <1>1 DEF Onward
<1>3. ip \in 1 .. 34 /\ ip >= 8 /\ (t = "b" => ip >= 10) /\ ip' = ip
  BY <1>1 DEF KInv, KeptTypes, Running
<1>4. CASE hart' = "panic" /\ UNCHANGED thread
  <2>1. Panics'
    BY <1>1, <1>4 DEF Panics
  <2> QED
    BY <1>1, <1>2, <1>4, <2>1, OnwardInv
<1>5. CASE Access(ptr["back_buffer"]) /\ thread' = [thread EXCEPT ![t] = "overslept"]
  <2>1. hart' = hart \/ (hart' = "panic" /\ ptr["back_buffer"] = NULL)
    BY <1>5 DEF Access
  <2>2. Panics'
    <3>1. ip > 4 /\ ip > 3 /\ pc' = pc
      BY <1>1, <1>3
    <3> QED
      BY <1>1, <1>3, <2>1, <3>1, NoScreen DEF Panics
  <2>3. Counts'
    BY <1>1 DEF KInv, Counts
  <2>4. Running'
    BY <1>1, <1>3, <1>5 DEF KInv, KeptTypes, Running
  <2>5. KeptTypes'
    BY <1>1, <1>5, <2>1 DEF KInv, KeptTypes, ThreadStates
  <2> QED
    BY <1>2, <2>2, <2>3, <2>4, <2>5, OnwardKeeps DEF KInv
<1> QED
  BY <1>4, <1>5 DEF struck_round

LEMMA WakeInv == ASSUME KInv, NEW t \in {"a", "b"}, wake(t), UNCHANGED vars PROVE KInv'
<1>1. /\ UNCHANGED <<heap, ip, ptr, pc, reported, hart, busy_mem_size>>
      /\ hart = "runs" /\ thread[t] = "asleep"
      /\ rounds' = IF t = "a" THEN rounds + 1 ELSE rounds
      /\ thread' = [thread EXCEPT ![t] = IF t = "a" /\ rounds' = 5 THEN "exited" ELSE "ready"]
  BY DEF wake, vars, driver, heap, Counted, LastRound
<1>2. Onward
  BY <1>1 DEF Onward
<1>3. ip' \in 1 .. 34 /\ ip <= ip'
  BY <1>1 DEF KInv, KeptTypes
<1>4. Panics'
  BY <1>1 DEF Panics
<1>5. Counts'
  BY <1>1 DEF KInv, Counts
<1>6. Running' /\ rounds' \in 0 .. 5
  <2>1. CASE t = "a"
    <3>1. rounds < 5 /\ rounds \in 0 .. 5 /\ ip >= 8 /\ rounds' = rounds + 1
      BY <1>1, <2>1 DEF KInv, KeptTypes, Running
    <3>2. thread'["b"] = thread["b"] /\ thread'["a"] = IF rounds' = 5 THEN "exited" ELSE "ready"
      BY <1>1, <2>1 DEF KInv, KeptTypes
    <3> QED
      BY <1>1, <3>1, <3>2 DEF KInv, Running
  <2>2. CASE t = "b"
    <3>1. thread'["a"] = thread["a"] /\ ip >= 10 /\ rounds' = rounds
      BY <1>1, <2>2 DEF KInv, KeptTypes, Running
    <3> QED
      BY <1>1, <3>1 DEF KInv, KeptTypes, Running
  <2> QED
    BY <2>1, <2>2
<1>7. KeptTypes'
  BY <1>1, <1>6 DEF KInv, KeptTypes, ThreadStates
<1> QED
  BY <1>2, <1>4, <1>5, <1>6, <1>7, OnwardKeeps DEF KInv

-----------------------------------------------------------------------------
(* Whatever the device does, the kernel's blocks are where they were, and   *)
(* only the driver moves pc.                                                *)

LEMMA StillInv == KInv /\ UNCHANGED kernel /\ pc' = pc => KInv'
<1> SUFFICES ASSUME KInv, UNCHANGED kernel, pc' = pc PROVE KInv'
  OBVIOUS
<1>1. UNCHANGED <<heap, ip, hart, ptr, reported, thread, rounds>>
  BY DEF kernel
<1>2. Onward
  BY <1>1 DEF Onward
<1>3. ip' \in 1 .. 34 /\ ip <= ip' /\ hart' \in {"runs", "halted", "panic"}
  BY <1>1 DEF KInv, KeptTypes
<1>4. Panics'
  BY <1>1, <1>3, PanicsKept
<1> QED
  BY <1>1, <1>2, <1>3, <1>4, OnwardInv

LEMMA KInit == BootInit => KInv
<1> SUFFICES ASSUME BootInit PROVE KInv
  OBVIOUS
<1> USE DEF BootInit
<1>1. KeptTypes
  BY DEF KeptTypes, NULL, ThreadStates
<1>2. \A name \in Names : ~(Born(name) < 1) /\ ~Lives(name, 1)
  BY DEF Names, Born, Lives
<1>3. "back_buffer" \in Names
  BY DEF Names
<1>4. Pointers
  BY <1>2, <1>3 DEF Pointers
<1>5. walk = "boot" /\ busy_mem_size = 0
  BY DEF M!Init
<1>6. Blocks /\ Walking
  BY <1>5 DEF Blocks, Walking
<1>7. Counts
  <2>1. \A name \in Names : Share(name, ip, ptr) = 0
    BY <1>2 DEF Share
  <2>2. Shares(ip, ptr) = 0
    BY <2>1 DEF Shares, KeptShare, Names
  <2> QED
    BY <1>5, <2>2 DEF Counts
<1>8. Running /\ Panics
  BY DEF Running, Panics
<1> QED
  BY <1>1, <1>4, <1>6, <1>7, <1>8 DEF KInv

LEMMA KNext == KInv /\ H!IInv /\ [BootNext]_boot_vars => KInv'
<1> SUFFICES ASSUME KInv, H!IInv, [BootNext]_boot_vars PROVE KInv'
  OBVIOUS
<1>1. CASE ramfb_setup
  BY <1>1, RamfbInv
<1>2. CASE OnHeap /\ UNCHANGED vars
  BY <1>2, HeapStepInv
<1>3. CASE OffHeap /\ UNCHANGED vars
  BY <1>3, CheckInv, PrintInv, CreateInv, LateStoresInv, ReportInv, UseInv DEF OffHeap
<1>4. CASE Device /\ UNCHANGED kernel
  <2>1. pc' = pc
    BY <1>4 DEF Device, DeviceMoves, DeviceAnswers, DeviceFails
  <2> QED
    BY <1>4, <2>1, StillInv
<1>5. CASE Threads /\ UNCHANGED vars
  BY <1>5, RoundInv, StruckRoundInv, WakeInv DEF Threads
<1>6. CASE UNCHANGED <<vars, kernel>>
  BY <1>6, StillInv DEF vars, driver
<1> QED
  BY <1>1, <1>2, <1>3, <1>4, <1>5, <1>6 DEF BootNext, Boot, Stopped, boot_vars

LEMMA BootKeeps == BootSpec => [](KInv /\ H!IInv /\ Placed)
<1> QED
  BY KInit, KNext, BootHeap, PlacedInit, PlacedKept, PTL DEF BootSpec

-----------------------------------------------------------------------------
(* The properties of the whole boot. *)

(* The types of the kernel's variables, the heap's and the driver's.        *)
THEOREM BootTyped == BootSpec => []BootTypeOK
<1>1. ASSUME KInv, H!IInv, Placed, TypeOK PROVE BootTypeOK
  <2>1. M!TypeOK
    <3>1. H!TypeOK
      BY <1>1 DEF H!IInv
    <3> QED
      BY <3>1 DEF H!TypeOK, M!TypeOK, H!Header, M!Header, H!NULL, M!NULL
  <2>2. fb_addr \in Nat
    BY <1>1, BootAssumption DEF Placed, HEAP_SIZE
  <2>3. ASSUME NEW label \in DOMAIN reported
        PROVE  reported[label] \in Nat
    <3>1. KeptShare(ip, ptr) \in Nat
      BY SharesAreNat
    <3> QED
      BY <1>1, <2>3, <3>1 DEF KInv, Counts
  <2>4. Len(Script) = 33
    BY ScriptAt
  <2> QED
    BY <1>1, <2>1, <2>2, <2>3, <2>4 DEF KInv, KeptTypes, ThreadStates, BootTypeOK
<1> QED
  BY <1>1, BootKeeps, BootRunsDriver, TypeCorrect, PTL

(* HEAP_SIZE is enough for everything kernel_main allocates, wherever the   *)
(* image ends: no call of kmalloc returns NULL, and no kfree is given what  *)
(* is not held.  It takes a device without the ramfb file, or with an       *)
(* error, or a thread create_thread has struck, to bring the kernel to      *)
(* handle_trap's panic.                                                     *)
THEOREM BootPanics == BootSpec => []PanicsOnlyWithoutScreen
<1>1. ASSUME KInv, FindsFile PROVE PanicsOnlyWithoutScreen
  BY <1>1 DEF KInv, KeptTypes, Panics, FindsFile, PanicsOnlyWithoutScreen
<1> QED
  BY <1>1, BootKeeps, BootFindsFile, PTL

(* The numbers kernel_main prints go up and come down by what it asked for, *)
(* ptr2 is the block ptr1 was, and what is left at the end is the back      *)
(* buffer and the two stacks.                                               *)
THEOREM HeapBalanced == BootSpec => []HeapIsBalanced
<1>1. ASSUME KInv PROVE HeapIsBalanced
  <2>1. KeptShare(ip, ptr) \in Nat
    BY SharesAreNat
  <2>2. ASSUME NEW label \in DOMAIN reported
        PROVE  reported[label] = KeptShare(ip, ptr)
                 + (IF label = "then" THEN 40
                    ELSE IF label = "now" THEN 1024 + 64 * 1024 + 1024 * 1024 ELSE 0)
    BY <1>1, <2>2 DEF KInv, Counts
  <2>3. ptr["ptr2"] # NULL => ptr["ptr2"] = ptr["ptr1"]
    <3> SUFFICES ASSUME ptr["ptr2"] # NULL PROVE ptr["ptr2"] = ptr["ptr1"]
      OBVIOUS
    <3>1. "ptr1" \in Names /\ "ptr2" \in Names
      BY DEF Names
    <3>2. ip > 19
      BY <1>1, <3>1 DEF KInv, KeptTypes, Pointers, Born
    <3>3. Born("ptr1") < ip /\ Born("ptr2") < ip
      BY <3>2, <1>1 DEF Born, KInv, KeptTypes
    <3>4. Place("ptr1", ptr) = Place("ptr2", ptr)
      BY DEF Place
    <3> QED
      BY <1>1, <3>1, <3>3, <3>4 DEF KInv, Pointers
  <2>4. ASSUME ip > Len(Script)
        PROVE  DOMAIN owned = {ptr[name] : name \in {"back_buffer", "stack_a", "stack_b"}} \ {NULL}
    <3>1. ip = 34
      BY <1>1, <2>4, ScriptAt DEF KInv, KeptTypes
    <3>2. \A name \in Names : Lives(name, 34) <=> name \in {"back_buffer", "stack_a", "stack_b"}
      BY DEF Names, Lives, Born, Dies
    <3>3. {"back_buffer", "stack_a", "stack_b"} \subseteq Names
      BY DEF Names
    <3>4. /\ \A name \in Names : Lives(name, 34) /\ ptr[name] # NULL => ptr[name] \in DOMAIN owned
          /\ \A p \in DOMAIN owned :
               \E name \in Names : Lives(name, 34) /\ p = ptr[name] /\ p # NULL
      BY <1>1, <3>1 DEF KInv, Blocks
    <3> QED
      BY <3>2, <3>3, <3>4
  <2> QED
    BY <2>1, <2>2, <2>3, <2>4 DEF HeapIsBalanced
<1> QED
  BY <1>1, BootKeeps, PTL
=============================================================================
