-------------------------------- MODULE Boot --------------------------------
(***************************************************************************)
(* The kernel from _start to its last wfi (src/kernel.c), with the real    *)
(* sizes, on the heap of Malloc and with the driver of FwCfg: what         *)
(* kernel_main asks of the allocator, of the device and of the screen, in  *)
(* its order, and the two threads it creates, which run as soon as they    *)
(* are there.                                                              *)
(*                                                                         *)
(* Boot and threads share the hart by the scheduler of Trap: whoever is    *)
(* ready goes on sometime, and a sleeper wakes sometime, unless the last   *)
(* stores of create_thread have struck it.  The device works beside them   *)
(* and leaves no request unanswered.                                       *)
(***************************************************************************)
EXTENDS FwCfg, Integers

CONSTANTS
  SIZE_MOD,   \* as in Malloc
  StackTop    \* &_stack_top, where the kernel's image and stack end

HEAP_SIZE_short == 1024 * 64       \* mutant: a factor is missing

HEAP_SIZE  == 1024 * 1024 * 64
FRAME_SIZE == 1280 * 720 * 4       \* of the back buffer, and of the decoded wallpaper
NULL       == 0
Names      == {"back_buffer", "stack_a", "stack_b", "arr", "ptr1", "ptr2", "one",
               "two", "three", "pixel_data"}

ASSUME BootAssumption ==
  /\ StackTop \in Nat \ {0} /\ StackTop % 8 = 0
  /\ SIZE_MOD \in Nat /\ StackTop + 2 * HEAP_SIZE < SIZE_MOD

VARIABLES
  free_list_head, mem, busy_mem_size, size, current, owned, heap_end,
  walk,      \* Malloc's pc
  asked,     \* Malloc's request
  ip,        \* how far kernel_main is in Script
  hart,      \* "runs", "halted" (behind kernel_main), "panic" (in handle_trap), or
             \* "wild" (kfree was given what kmalloc did not return)
  ptr,       \* the pointers kernel_main, ramfb_setup and create_thread keep
  fb_addr,   \* of struct fb
  said,      \* the lines on the serial console that may be right or wrong
  reported,  \* get_busy_mem_size where kernel_main prints it: label -> number
  thread,    \* what thread_a and thread_b do: "none" (not there), "ready", "asleep",
             \* "exited", or what create_thread's last stores have made of them:
             \* "struck" (in a round, a0 or the sleep count overwritten) or
             \* "overslept" (asleep without a count, that is, for 2^64 ticks)
  rounds     \* thread_a's local e

heap == <<free_list_head, mem, busy_mem_size, size, current, owned, heap_end, walk,
          asked>>
kernel == <<heap, ip, hart, ptr, fb_addr, said, reported, thread, rounds>>
boot_vars == <<vars, kernel>>

-----------------------------------------------------------------------------
Do(op, arg, n) == [op |-> op, arg |-> arg, n |-> n]

Alloc(name, n) == Do("kmalloc", name, n)
Freed(name)    == Do("kfree", name, 0)
Report(label)  == Do("report", label, 0)

(* kernel_main, and what it calls that matters to heap and screen:      *)
(* ramfb_setup without a screen jumps over its last two steps, and      *)
(* create_thread allocates and finds a slot that has never been used.   *)
SetUp ==
  <<Do("check", "none", 0), Do("heap_init", "none", 0), Do("ramfb_setup", "none", 0),
    Alloc("back_buffer", FRAME_SIZE), Do("fb", "none", 0),
    Do("kprint", "setup_ramfb_successfull", 0),
    Alloc("stack_a", 4096), Do("create", "a", 0),
    Alloc("stack_b", 4096), Do("create", "b", 0)>>

SmallBlocks ==
  <<Report("before"),
    Alloc("arr", 10 * 4), Do("use", "arr", 0), Report("then"), Freed("arr"),
    Report("after"),
    Alloc("ptr1", 40), Freed("ptr1"), Alloc("ptr2", 40), Freed("ptr2")>>

BigBlocks ==
  <<Alloc("one", 1024), Alloc("two", 64 * 1024), Alloc("three", 1024 * 1024),
    Report("now"),
    Freed("one"), Freed("two"), Freed("three"),
    Report("after_big_clean")>>

Wallpaper ==
  <<Alloc("pixel_data", FRAME_SIZE), Do("draw", "pixel_data", 0), Freed("pixel_data"),
    Do("draw", "none", 0),
    Report("heap")>>

Script == SetUp \o SmallBlocks \o BigBlocks \o Wallpaper

M == INSTANCE Malloc WITH
  pc <- walk, request <- asked,
  HeapSizes <- {HEAP_SIZE},
  Requests  <- {Script[k].n : k \in {j \in DOMAIN Script : Script[j].op = "kmalloc"}}

BootInit ==
  /\ Init /\ M!Init
  /\ ip = 1 /\ hart = "runs"
  /\ ptr = [name \in Names |-> NULL] /\ fb_addr = 0
  /\ said = {} /\ reported = [label \in {} |-> 0]
  /\ thread = [t \in {"a", "b"} |-> "none"] /\ rounds = 0

-----------------------------------------------------------------------------
Does(op) == hart = "runs" /\ walk # "walk" /\ ip <= Len(Script) /\ Script[ip].op = op
Arg    == Script[ip].arg

(* The signature and the DMA interface are both there, or the kernel is done. *)
check_fw_cfg_dma ==
  /\ Does("check")
  /\ \E signature, dma \in BOOLEAN :
       IF signature /\ dma THEN ip' = ip + 1 /\ UNCHANGED hart
                           ELSE hart' = "halted" /\ UNCHANGED ip
  /\ UNCHANGED <<heap, ptr, fb_addr, said, reported, thread, rounds>>

heap_init ==
  /\ Does("heap_init") /\ M!heap_init(HEAP_SIZE)
  /\ ip' = ip + 1
  /\ UNCHANGED <<hart, ptr, fb_addr, said, reported, thread, rounds>>

(* ramfb_setup runs the driver, which finds the file and configures the *)
(* device, or does not.                                                 *)
ramfb_setup ==
  /\ Does("ramfb_setup")
  /\ \/ /\ Driver
        /\ UNCHANGED <<ip, said>>
     \/ /\ pc = "ready"
        /\ ip' = ip + 1
        /\ UNCHANGED <<vars, said>>
     \/ /\ pc = "failed"
        /\ ip' = ip + 3
        /\ said' = said \cup {"error_setting_up_ramfb"}
        /\ UNCHANGED vars
  /\ UNCHANGED <<heap, hart, ptr, fb_addr, reported, thread, rounds>>

FrameAtStackTop == StackTop                    \* mutant: the heap is forgotten

FrameAddr == StackTop + HEAP_SIZE

ramfb_return ==
  /\ Does("fb")
  /\ fb_addr' = FrameAddr
  /\ ip' = ip + 1
  /\ UNCHANGED <<heap, hart, ptr, said, reported, thread, rounds>>

kprint ==
  /\ Does("kprint")
  /\ said' = said \cup {Arg}
  /\ ip' = ip + 1
  /\ UNCHANGED <<heap, hart, ptr, fb_addr, reported, thread, rounds>>

(* A call of kmalloc, its walk over the list, and what it returns. *)
kmalloc ==
  /\ Does("kmalloc") /\ M!kmalloc_enter(Script[ip].n)
  /\ UNCHANGED <<ip, hart, ptr, fb_addr, said, reported, thread, rounds>>

kmalloc_walk ==
  /\ hart = "runs"
  /\ \/ /\ M!kmalloc_next
        /\ UNCHANGED <<ip, ptr>>
     \/ /\ M!kmalloc_take \/ M!kmalloc_null
        /\ ptr' = [ptr EXCEPT ![Arg] = IF current = NULL THEN NULL ELSE current + M!HEADER_SIZE]
        /\ ip' = ip + 1
  /\ UNCHANGED <<hart, fb_addr, said, reported, thread, rounds>>

kfree ==
  /\ Does("kfree")
  /\ \/ ptr[Arg] = NULL /\ UNCHANGED <<heap, hart>>
     \/ ptr[Arg] \in DOMAIN owned /\ M!kfree(ptr[Arg]) /\ UNCHANGED hart
     \/ ptr[Arg] \notin DOMAIN owned \cup {NULL} /\ hart' = "wild" /\ UNCHANGED heap
  /\ ip' = ip + 1
  /\ UNCHANGED <<ptr, fb_addr, said, reported, thread, rounds>>

(* create_thread makes the new thread ALIVE, whatever kmalloc has returned; *)
(* from now on it may be dispatched.                                        *)
create_thread ==
  /\ Does("create") /\ thread[Arg] = "none"
  /\ thread' = [thread EXCEPT ![Arg] = "ready"]
  /\ UNCHANGED <<heap, ip, hart, ptr, fb_addr, said, reported, rounds>>

(***************************************************************************)
(* The stores of create_thread behind that one, to the sleep count and to  *)
(* a0, which hurt a thread only if it has been dispatched in between.  One *)
(* that is ready may be at any place of a round, where it takes harm or    *)
(* not, or not have begun; one that is asleep may have stored its count    *)
(* after the first of them, or before.                                     *)
(***************************************************************************)
AfterLateStores(state) ==
  CASE state = "ready"  -> {"ready", "struck"}
    [] state = "asleep" -> {"asleep", "overslept"}
    [] OTHER            -> {state}

late_stores ==
  /\ Does("create") /\ thread[Arg] # "none"
  /\ \E state \in AfterLateStores(thread[Arg]) : thread' = [thread EXCEPT ![Arg] = state]
  /\ ip' = ip + 1
  /\ UNCHANGED <<heap, hart, ptr, fb_addr, said, reported, rounds>>

report ==
  /\ Does("report")
  /\ reported' = [label \in DOMAIN reported \cup {Arg} |->
                    IF label = Arg THEN busy_mem_size ELSE reported[label]]
  /\ ip' = ip + 1
  /\ UNCHANGED <<heap, hart, ptr, fb_addr, said, thread, rounds>>

(* An access to a pointer: one at address 0 ends in handle_trap's panic. *)
Access(p) == hart' = IF p = NULL THEN "panic" ELSE hart

use ==
  /\ Does("use") /\ Access(ptr[Arg])
  /\ ip' = ip + 1
  /\ UNCHANGED <<heap, ptr, fb_addr, said, reported, thread, rounds>>

(* display_qoi_image, which looks whether it has an image, and fill_rect. *)
draw ==
  /\ Does("draw")
  /\ IF Arg # "none" /\ ptr[Arg] = NULL THEN UNCHANGED hart ELSE Access(ptr["back_buffer"])
  /\ ip' = ip + 1
  /\ UNCHANGED <<heap, ptr, fb_addr, said, reported, thread, rounds>>

OnHeap ==
  \/ heap_init \/ kmalloc \/ kmalloc_walk \/ kfree

OffHeap ==
  \/ check_fw_cfg_dma \/ ramfb_return \/ kprint \/ create_thread \/ late_stores
  \/ report \/ use \/ draw

(* A step of kernel_main or of what it calls. *)
Boot == ramfb_setup \/ ((OnHeap \/ OffHeap) /\ UNCHANGED vars)

-----------------------------------------------------------------------------
Stack == [a |-> "stack_a", b |-> "stack_b"]

(* A round of a thread, on its stack: fkprintf, flush and the call of ksleep. *)
round(t) ==
  /\ hart = "runs" /\ thread[t] = "ready"
  /\ IF ptr[Stack[t]] = NULL THEN Access(NULL) ELSE Access(ptr["back_buffer"])
  /\ thread' = [thread EXCEPT ![t] = "asleep"]
  /\ UNCHANGED <<heap, ip, ptr, fb_addr, said, reported, rounds>>

(***************************************************************************)
(* The rest of a round that has taken harm: with a0 become 0 under it, it  *)
(* reads or writes at address 0; or its ksleep, which had just stored the  *)
(* count, sleeps without one, and for 2^64 ticks no step of wake follows.  *)
(***************************************************************************)
struck_round(t) ==
  /\ hart = "runs" /\ thread[t] = "struck"
  /\ \/ hart' = "panic" /\ UNCHANGED thread
     \/ /\ Access(ptr["back_buffer"])
        /\ thread' = [thread EXCEPT ![t] = "overslept"]
  /\ UNCHANGED <<heap, ip, ptr, fb_addr, said, reported, rounds>>

LastRoundMissed(n) == n = 6        \* mutant: off by one

LastRound(n) == n = 5

CountedNot(n) == n                 \* mutant: without e++

Counted(n) == n + 1

(* ksleep returns; thread_a counts its rounds and calls kexit after five. *)
wake(t) ==
  /\ hart = "runs" /\ thread[t] = "asleep"
  /\ rounds' = IF t = "a" THEN Counted(rounds) ELSE rounds
  /\ thread' = [thread EXCEPT ![t] = IF t = "a" /\ LastRound(rounds') THEN "exited" ELSE "ready"]
  /\ UNCHANGED <<heap, ip, hart, ptr, fb_addr, said, reported>>

Threads == \E t \in {"a", "b"} : round(t) \/ struck_round(t) \/ wake(t)

(* A kernel that returns to _start or panics halts; one that has come to    *)
(* its end waits for interrupts, beside its threads.                        *)
Stopped == (hart # "runs" \/ ip > Len(Script)) /\ UNCHANGED kernel

BootNext ==
  \/ Boot
  \/ Device /\ UNCHANGED kernel
  \/ (Threads \/ Stopped) /\ UNCHANGED vars

BootSpec == BootInit /\ [][BootNext]_boot_vars

(***************************************************************************)
(* What the scheduler gives to whoever is ready, and its ticks to whoever  *)
(* has a count to be counted down.  A thread that create_thread has struck *)
(* is promised nothing: neither that its round ends nor that it wakes.     *)
(***************************************************************************)
BootFairSpec ==
  /\ BootSpec
  /\ WF_boot_vars(Boot)
  /\ WF_vars(Device)
  /\ \A t \in {"a", "b"} :
       WF_kernel(round(t)) /\ WF_kernel(wake(t))

-----------------------------------------------------------------------------
(* Properties *)

(* The variables hold values of their types, those of driver and heap included. *)
BootTypeOK ==
  /\ TypeOK /\ M!TypeOK
  /\ ip \in 1 .. Len(Script) + 1
  /\ hart \in {"runs", "halted", "panic", "wild"}
  /\ ptr \in [Names -> Nat] /\ fb_addr \in Nat
  /\ \A label \in DOMAIN reported : reported[label] \in Nat
  /\ thread \in [{"a", "b"} -> {"none", "ready", "asleep", "exited", "struck", "overslept"}]
  /\ rounds \in 0 .. 5

(***************************************************************************)
(* No result of kmalloc is looked at by kernel_main, ramfb_setup or        *)
(* create_thread, and none needs to: HEAP_SIZE is enough for the whole     *)
(* boot, two frames at a time included.  As far as heap and device go, the *)
(* kernel falls over only when there is no screen or an answer was an      *)
(* error; apart from them, only while there is a thread whose a0           *)
(* create_thread has overwritten.  It never frees what it does not hold.   *)
(***************************************************************************)
PanicsOnlyWithoutScreen ==
  /\ hart # "wild"
  /\ hart = "panic" =>
       \/ errors
       \/ \A i \in DOMAIN directory : directory[i].name # "etc/ramfb"
       \/ \E t \in {"a", "b"} : thread[t] = "struck"

(***************************************************************************)
(* The frame buffer lies right behind the heap: no block and no header     *)
(* reaches into what flush overwrites, nor into the kernel's own stack.    *)
(***************************************************************************)
FrameIsApart ==
  fb_addr # 0 =>
    /\ \A b \in DOMAIN mem : StackTop <= b /\ M!End(b) <= fb_addr
    /\ \A p \in DOMAIN owned : p + owned[p] <= fb_addr

(***************************************************************************)
(* What kernel_main prints of the heap is what its exercise is for: the    *)
(* numbers rise by what was asked for and come back to where they were,    *)
(* the same block is found again, and only what is still in use remains.   *)
(***************************************************************************)
HeapIsBalanced ==
  LET Rises(from, to, n) ==
        {from, to} \subseteq DOMAIN reported => reported[to] = reported[from] + n
  IN /\ Rises("before", "then", 40) /\ Rises("before", "after", 0)
     /\ Rises("after", "now", 1024 + 64 * 1024 + 1024 * 1024)
     /\ Rises("after", "after_big_clean", 0) /\ Rises("after", "heap", 0)
     /\ ptr["ptr2"] # NULL => ptr["ptr2"] = ptr["ptr1"]
     /\ ip > Len(Script) =>
          DOMAIN owned = {ptr[name] : name \in {"back_buffer", "stack_a", "stack_b"}} \ {NULL}

Struck(t) == thread[t] \in {"struck", "overslept"}

(***************************************************************************)
(* Whatever the device answers, the kernel comes to its last wfi, or to a  *)
(* panic; and thread_a prints five times and exits, and thread_b goes on   *)
(* for ever, each unless create_thread has struck it, and whatever it has  *)
(* done to the other.                                                      *)
(***************************************************************************)
KernelGoesOn ==
  \/ <>(hart # "runs")
  \/ /\ <>(ip > Len(Script))
     /\ <>[](thread["a"] = "exited") \/ <>Struck("a")
     /\ ([]<>(thread["b"] = "ready") /\ []<>(thread["b"] = "asleep")) \/ <>Struck("b")

(***************************************************************************)
(* Not so: the serial console calls the setup of ramfb successful when the *)
(* device has no such file, and when it answered ERROR.                    *)
(***************************************************************************)
SuccessIsReported == "setup_ramfb_successfull" \in said => configured

=============================================================================
