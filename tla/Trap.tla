-------------------------------- MODULE Trap --------------------------------
(***************************************************************************)
(* Threads, traps and the scheduler: src/trap.c and src/trap.s.            *)
(*                                                                         *)
(* One hart.  Outside a trap it executes the thread whose registers it     *)
(* holds (cpu), one step of the kernel API at a time; the machine timer    *)
(* may preempt it before any step unless mstatus.MIE or mie.MTIE is off.   *)
(* A trap saves cpu through mscratch, runs handle_trap with interrupts     *)
(* off, and leaves through mret with the registers of threads[current_i].  *)
(*                                                                         *)
(* Slot 0 is the boot thread, kernel_main of src/kernel.c: it creates      *)
(* threads and otherwise loops on wfi; it never sleeps and never exits.    *)
(* The other threads yield, sleep, print and exit as they like.            *)
(***************************************************************************)
EXTENDS Integers

CONSTANTS
  MAX_THREADS,
  MaxSleep,      \* bound: longest sleep asked for, in system ticks
  TICKS_MAX,     \* 2^64 - 1 in the code: what decrementing 0 wraps to
  MaxCreate,     \* bound: create_thread calls made
  Started,       \* slots whose threads exist when the behaviour begins
  Faulting,      \* threads whose code may raise an exception
  HeapMayFail    \* whether kmalloc may return NULL for a stack

Slots  == 0 .. (MAX_THREADS - 1)
Nobody == MAX_THREADS        \* the null pointer in mscratch

(***************************************************************************)
(* int8_t current_i and uint8_t checked hold every slot number.            *)
(***************************************************************************)
ASSUME TrapAssumption ==
  /\ MAX_THREADS \in 1 .. 127
  /\ MaxSleep \in Nat \ {0}
  /\ TICKS_MAX \in Nat /\ MaxSleep <= TICKS_MAX
  /\ MaxCreate \in Nat
  /\ Started \subseteq Slots \ {0}
  /\ Faulting \subseteq Slots
  /\ HeapMayFail \in BOOLEAN

(* typedef enum Status *)
STATUS_DEAD  == "dead"
STATUS_ALIVE == "alive"
STATUS_SLEEP == "sleep"

(***************************************************************************)
(* Where a thread's pc is.  "entry": at the first instruction of its       *)
(* function.  "user": in its own code.  "crit": inside fkprintf.           *)
(* "sleep_status", "ecall", "exit_ecall", "exit_return": inside ksleep and *)
(* kexit.  "c_...": inside create_thread.  "none": sepc is zero.           *)
(***************************************************************************)
CreatePcs == {"c_scan", "c_stack", "c_fill", "c_publish", "c_ticks", "c_a0"}
Pcs == {"none", "entry", "user", "crit", "sleep_status", "ecall", "exit_ecall",
        "exit_return"} \cup CreatePcs

(* The registers the model keeps: whose control flow it is, pc, and a0.     *)
Context == [job : Slots \cup {Nobody}, pc : Pcs, a0 : {0, 1}]
Blank   == [job |-> Nobody, pc |-> "none", a0 |-> 0]
Entry(i) == [job |-> i, pc |-> "entry", a0 |-> 0]

VARIABLES
  cpu,              \* the hart's registers
  hart,             \* what it executes: "thread" or a stage of the trap
  MIE, MPIE,        \* mstatus.MIE and its copy while a trap is handled
  timer_enabled,    \* mie.MTIE
  timer_pending,    \* mip.MTIP: mtime has reached mtimecmp
  mscratch,         \* the slot trap.s saves to, or Nobody
  tf,               \* the slot the last trap saved to
  current_i,
  status, sleep_sys_ticks, ctx, stack,   \* fields of threads[i]
  saved_mstatus,    \* fkprintf's local status
  slot, checked,    \* create_thread's locals current_i_ and checked
  created,          \* create_thread calls made so far (bound)
  overwritten       \* slots create_thread wrote to after they ran (history)

csrs     == <<MIE, MPIE, timer_enabled, timer_pending, mscratch>>
slots    == <<status, sleep_sys_ticks, ctx, stack>>
locals   == <<slot, checked, created, overwritten>>
vars     == <<cpu, hart, csrs, tf, current_i, slots, saved_mstatus, locals>>

-----------------------------------------------------------------------------
(* init_traps has returned; the threads in Started have been created.      *)
Init ==
  /\ cpu = [job |-> 0, pc |-> "user", a0 |-> 0]
  /\ hart = "thread"
  /\ MIE = TRUE /\ MPIE = FALSE
  /\ timer_enabled = TRUE /\ timer_pending = FALSE
  /\ mscratch = 0 /\ tf = 0 /\ current_i = 0
  /\ status = [i \in Slots |-> IF i \in Started \cup {0} THEN STATUS_ALIVE
                                                         ELSE STATUS_DEAD]
  /\ sleep_sys_ticks = [i \in Slots |-> 0]
  /\ ctx = [i \in Slots |-> IF i \in Started THEN Entry(i) ELSE Blank]
  /\ stack = [i \in Slots |-> IF i = 0 THEN "boot"
                              ELSE IF i \in Started THEN "heap" ELSE "none"]
  /\ saved_mstatus = FALSE
  /\ slot = 0 /\ checked = 0 /\ created = 0 /\ overwritten = {}

-----------------------------------------------------------------------------
(* The hardware timer and the way into a trap.                             *)

(* mtime reaches mtimecmp. *)
TimerFires ==
  /\ ~timer_pending
  /\ hart \notin {"halted", "wild"}
  /\ timer_pending' = TRUE
  /\ UNCHANGED <<cpu, hart, MIE, MPIE, timer_enabled, mscratch, tf, current_i,
                 slots, saved_mstatus, locals>>

(* A pending, enabled interrupt is taken before the next instruction. *)
Deliverable == timer_pending /\ timer_enabled /\ MIE

(* trap.s up to the call of handle_trap: every register goes to *mscratch. *)
TrapEntry ==
  /\ ctx' = [ctx EXCEPT ![mscratch] = cpu]
  /\ tf' = mscratch
  /\ mscratch' = Nobody
  /\ MPIE' = MIE
  /\ MIE' = FALSE
  /\ UNCHANGED <<cpu, timer_enabled, timer_pending, current_i, status,
                 sleep_sys_ticks, stack, saved_mstatus, locals>>

(***************************************************************************)
(* handle_trap runs on the stack of the thread it interrupts.  Without one *)
(* it faults at once, and faults again on the way into that trap, because  *)
(* mscratch is then null.                                                  *)
(***************************************************************************)
NoStack == stack[cpu.job] = "null"

TakeTimer ==
  /\ hart = "thread" /\ Deliverable
  /\ hart' = IF NoStack THEN "halted" ELSE "timer"
  /\ TrapEntry

(* The hart is at label l of the thread it executes, and may execute it. *)
At(l) == hart = "thread" /\ ~Deliverable /\ cpu.pc = l

TakeEcall ==
  /\ At("ecall") \/ At("exit_ecall")
  /\ hart' = "ecall"
  /\ TrapEntry

(***************************************************************************)
(* Any other exception, from a thread's own code or from its first access  *)
(* to a stack it does not have: KERNEL PANIC, then while(1).               *)
(***************************************************************************)
TakeException ==
  /\ \/ cpu.job \in Faulting /\ (At("user") \/ At("crit"))
     \/ NoStack /\ At("entry")
  /\ hart' = "halted"
  /\ TrapEntry

-----------------------------------------------------------------------------
(* handle_trap and scheduler_tick, with interrupts off.                    *)

NextSlotUnwrapped(i) == i + 1       \* mutant: no wrap at MAX_THREADS

NextSlot(i) == (i + 1) % MAX_THREADS

(* The slot scheduler_tick looks at first: the one after the current one. *)
ScanFromTwoOn == NextSlot(NextSlot(current_i))   \* mutant: advances twice
ScanFromZero  == 0                               \* mutant: always from slot 0

ScanFrom == NextSlot(current_i)

RunnableIfNotDead(i) == status[i] # STATUS_DEAD  \* mutant: only skips the dead

Runnable(i) == status[i] = STATUS_ALIVE

Decremented(n) == IF n = 0 THEN TICKS_MAX ELSE n - 1

(* The sleepers one timer interrupt counts down. *)
SleepersButLast ==                               \* mutant: i < MAX_THREADS - 1
  {i \in 0 .. (MAX_THREADS - 2) : status[i] = STATUS_SLEEP}

Sleepers == {i \in Slots : status[i] = STATUS_SLEEP}

TickedSleep(i) == IF i \in Sleepers THEN Decremented(sleep_sys_ticks[i])
                                    ELSE sleep_sys_ticks[i]

(* mutant: the count is tested before it is decremented *)
TickedStatusLate(i) ==
  IF i \in Sleepers /\ sleep_sys_ticks[i] = 0 THEN STATUS_ALIVE ELSE status[i]

TickedStatus(i) ==
  IF i \in Sleepers /\ TickedSleep(i) = 0 THEN STATUS_ALIVE ELSE status[i]

(* case TR_TIMER: re-arm, count every sleeper down, enter scheduler_tick. *)
HandleTimer ==
  /\ hart = "timer"
  /\ timer_enabled' = FALSE
  /\ timer_pending' = FALSE
  /\ sleep_sys_ticks' = [i \in Slots |-> TickedSleep(i)]
  /\ status' = [i \in Slots |-> TickedStatus(i)]
  /\ current_i' = ScanFrom
  /\ hart' = "timer_scan"
  /\ UNCHANGED <<cpu, MIE, MPIE, mscratch, tf, ctx, stack, saved_mstatus, locals>>

(* The instruction after an ecall: sepc + 4. *)
AfterEcall(pc) == IF pc = "exit_ecall" THEN "exit_return" ELSE "user"

(* mutant: sepc is advanced after scheduler_tick, in the slot it chose *)
HandleEcallLate ==
  /\ hart = "ecall"
  /\ ctx' = [ctx EXCEPT ![ScanFrom].pc = AfterEcall(@)]
  /\ current_i' = ScanFrom
  /\ hart' = "ecall_scan"
  /\ UNCHANGED <<cpu, csrs, tf, status, sleep_sys_ticks, stack, saved_mstatus,
                 locals>>

(* case INST_M_MODE_CALL: step over the ecall, enter scheduler_tick. *)
HandleEcall ==
  /\ hart = "ecall"
  /\ ctx' = [ctx EXCEPT ![tf].pc = AfterEcall(@)]
  /\ current_i' = ScanFrom
  /\ hart' = "ecall_scan"
  /\ UNCHANGED <<cpu, csrs, tf, status, sleep_sys_ticks, stack, saved_mstatus,
                 locals>>

Scanning == hart \in {"timer_scan", "ecall_scan"}

(* while (threads[current_i].status != STATUS_ALIVE) *)
ScanSkip ==
  /\ Scanning
  /\ ~Runnable(current_i)
  /\ current_i' = NextSlot(current_i)
  /\ UNCHANGED <<cpu, hart, csrs, tf, slots, saved_mstatus, locals>>

(* mutant: the timer interrupt stays disabled *)
ScanStopMasked ==
  /\ Scanning
  /\ Runnable(current_i)
  /\ mscratch' = current_i
  /\ hart' = "mret"
  /\ UNCHANGED <<cpu, MIE, MPIE, timer_enabled, timer_pending, tf, current_i,
                 slots, saved_mstatus, locals>>

(* The loop has found a thread; the timer case enables its interrupt again. *)
ScanStop ==
  /\ Scanning
  /\ Runnable(current_i)
  /\ mscratch' = current_i
  /\ timer_enabled' = (timer_enabled \/ hart = "timer_scan")
  /\ hart' = "mret"
  /\ UNCHANGED <<cpu, MIE, MPIE, timer_pending, tf, current_i, slots,
                 saved_mstatus, locals>>

(* What handle_trap returns, in a0. *)
ReturnsItsArgument == tf                         \* mutant: return tf

Returned == current_i

(* trap.s after handle_trap: registers come from the slot it returned. *)
Mret ==
  /\ hart = "mret"
  /\ cpu' = ctx[Returned]
  /\ mscratch' = Returned
  /\ MIE' = MPIE
  /\ MPIE' = TRUE
  /\ hart' = "thread"
  /\ UNCHANGED <<timer_enabled, timer_pending, tf, current_i, slots,
                 saved_mstatus, locals>>

-----------------------------------------------------------------------------
(* What threads do between traps.  Each step leaves the trap state alone.  *)

Goto(l) == cpu' = [cpu EXCEPT !.pc = l]

NoTrap == UNCHANGED <<hart, MPIE, timer_enabled, timer_pending, mscratch, tf,
                      current_i>>

(* The thread's own code, from its first instruction on. *)
run ==
  /\ At("entry") \/ At("user")
  /\ ~NoStack
  /\ \E v \in {0, 1} : cpu' = [cpu EXCEPT !.pc = "user", !.a0 = v]
  /\ NoTrap
  /\ UNCHANGED <<MIE, slots, saved_mstatus, locals>>

kyield ==
  /\ At("user")
  /\ Goto("ecall")
  /\ NoTrap
  /\ UNCHANGED <<MIE, slots, saved_mstatus, locals>>

(* fkprintf: disable_interrupts, draw, restore_interrupts. *)
disable_interrupts ==
  /\ At("user")
  /\ saved_mstatus' = MIE
  /\ MIE' = FALSE
  /\ Goto("crit")
  /\ NoTrap
  /\ UNCHANGED <<slots, locals>>

restore_interrupts ==
  /\ At("crit")
  /\ MIE' = saved_mstatus
  /\ Goto("user")
  /\ NoTrap
  /\ UNCHANGED <<slots, saved_mstatus, locals>>

(* ksleep up to line 165; at least one tick (line 164), at most MaxSleep. *)
ksleep(ticks) ==
  /\ At("user") /\ cpu.job # 0
  /\ sleep_sys_ticks' = [sleep_sys_ticks EXCEPT ![current_i] = ticks]
  /\ Goto("sleep_status")
  /\ NoTrap
  /\ UNCHANGED <<MIE, status, ctx, stack, saved_mstatus, locals>>

ksleep_status ==
  /\ At("sleep_status")
  /\ status' = [status EXCEPT ![current_i] = STATUS_SLEEP]
  /\ Goto("ecall")
  /\ NoTrap
  /\ UNCHANGED <<MIE, sleep_sys_ticks, ctx, stack, saved_mstatus, locals>>

kexit ==
  /\ At("user") /\ cpu.job # 0
  /\ status' = [status EXCEPT ![current_i] = STATUS_DEAD]
  /\ Goto("exit_ecall")
  /\ NoTrap
  /\ UNCHANGED <<MIE, sleep_sys_ticks, ctx, stack, saved_mstatus, locals>>

-----------------------------------------------------------------------------
(***************************************************************************)
(* create_thread, called by kernel_main with a legal stack_size (any other *)
(* size returns at once) and interrupts on.                                *)
(***************************************************************************)
create_thread ==
  /\ At("user") /\ cpu.job = 0
  /\ created < MaxCreate
  /\ created' = created + 1
  /\ slot' = 0 /\ checked' = 0
  /\ Goto("c_scan")
  /\ NoTrap
  /\ UNCHANGED <<MIE, slots, saved_mstatus, overwritten>>

UnusedIfAsleep(i) == status[i] # STATUS_ALIVE    \* mutant: tests for ALIVE

Unused(i) == status[i] = STATUS_DEAD

(* One test of the search for a dead slot; it gives up after MAX_THREADS. *)
create_scan ==
  /\ At("c_scan")
  /\ \/ /\ Unused(slot)
        /\ Goto("c_stack")
        /\ UNCHANGED <<slot, checked>>
     \/ /\ ~Unused(slot)
        /\ slot' = NextSlot(slot)
        /\ checked' = checked + 1
        /\ IF checked' >= MAX_THREADS THEN Goto("user") ELSE UNCHANGED cpu
  /\ NoTrap
  /\ UNCHANGED <<MIE, slots, saved_mstatus, created, overwritten>>

(***************************************************************************)
(* How far a saved sp is below the top of its stack: trap.s stores the     *)
(* live sp, and only a thread that has not run yet has an empty stack.     *)
(***************************************************************************)
Depth(pc) == IF pc \in {"none", "entry"} THEN 0 ELSE 1

(***************************************************************************)
(* kfree of the old stack, kmalloc of the new one.  The old one is taken   *)
(* to start at sp - stack_size, which is what kmalloc returned only if sp  *)
(* is the top of that stack; freeing anything else is undefined, and the   *)
(* model does not follow the hart beyond it.                               *)
(***************************************************************************)
create_stack ==
  /\ At("c_stack")
  /\ \/ /\ stack[slot] # "none" /\ Depth(ctx[slot].pc) # 0
        /\ hart' = "wild"
        /\ UNCHANGED <<cpu, stack>>
     \/ /\ stack[slot] = "none" \/ Depth(ctx[slot].pc) = 0
        /\ \E s \in {"heap"} \cup (IF HeapMayFail THEN {"null"} ELSE {}) :
             stack' = [stack EXCEPT ![slot] = s]
        /\ Goto("c_fill")
        /\ UNCHANGED hart
  /\ UNCHANGED <<csrs, tf, current_i, status, sleep_sys_ticks, ctx,
                 saved_mstatus, locals>>

(* kmemset of the slot, then sepc, sp and stack_size. *)
create_fill ==
  /\ At("c_fill")
  /\ ctx' = [ctx EXCEPT ![slot] = Entry(slot)]
  /\ status' = [status EXCEPT ![slot] = STATUS_DEAD]
  /\ sleep_sys_ticks' = [sleep_sys_ticks EXCEPT ![slot] = 0]
  /\ Goto("c_publish")
  /\ NoTrap
  /\ UNCHANGED <<MIE, stack, saved_mstatus, locals>>

create_publish ==
  /\ At("c_publish")
  /\ status' = [status EXCEPT ![slot] = STATUS_ALIVE]
  /\ Goto("c_ticks")
  /\ NoTrap
  /\ UNCHANGED <<MIE, sleep_sys_ticks, ctx, stack, saved_mstatus, locals>>

(* A store to the slot after its thread has run is remembered. *)
NoteOverwrite ==
  overwritten' = IF ctx[slot] = Entry(slot) THEN overwritten
                                            ELSE overwritten \cup {slot}

create_ticks ==
  /\ At("c_ticks")
  /\ sleep_sys_ticks' = [sleep_sys_ticks EXCEPT ![slot] = 0]
  /\ NoteOverwrite
  /\ Goto("c_a0")
  /\ NoTrap
  /\ UNCHANGED <<MIE, status, ctx, stack, saved_mstatus, slot, checked, created>>

(***************************************************************************)
(* gp and a0.  A thread that runs before its gp is stored has the 0 of     *)
(* create_fill in it, which nothing sees: no code of this kernel addresses *)
(* by gp, so it is not part of a context here.  a0 is live in a thread     *)
(* that has run.                                                           *)
(***************************************************************************)
create_a0 ==
  /\ At("c_a0")
  /\ ctx' = [ctx EXCEPT ![slot].a0 = 0]
  /\ NoteOverwrite
  /\ Goto("user")
  /\ NoTrap
  /\ UNCHANGED <<MIE, status, sleep_sys_ticks, stack, saved_mstatus, slot,
                 checked, created>>

-----------------------------------------------------------------------------
Trapped == TakeTimer \/ TakeEcall \/ TakeException

Handler == HandleTimer \/ HandleEcall \/ ScanSkip \/ ScanStop \/ Mret

Api ==
  \/ run \/ kyield \/ kexit
  \/ disable_interrupts \/ restore_interrupts
  \/ \E ticks \in 1 .. MaxSleep : ksleep(ticks)
  \/ ksleep_status

Create ==
  \/ create_thread \/ create_scan \/ create_stack \/ create_fill
  \/ create_publish \/ create_ticks \/ create_a0

(* while(1) of a kernel panic, and whatever follows undefined behaviour. *)
Stuck == hart \in {"halted", "wild"} /\ UNCHANGED vars

Next == TimerFires \/ Trapped \/ Handler \/ Api \/ Create \/ Stuck

Spec == Init /\ [][Next]_vars

(***************************************************************************)
(* The timer keeps running, the hart takes its interrupt, handle_trap ends,*)
(* and fkprintf gets to restore_interrupts.  Nothing is assumed of the     *)
(* threads: each may run, or loop, for as long as it likes.                *)
(***************************************************************************)
Fairness ==
  /\ WF_vars(TimerFires)
  /\ WF_vars(TakeTimer)
  /\ WF_vars(Handler)
  /\ WF_vars(restore_interrupts)

FairSpec == Spec /\ Fairness

-----------------------------------------------------------------------------
(* Properties *)

TypeOK ==
  /\ cpu \in Context
  /\ hart \in {"thread", "timer", "ecall", "timer_scan", "ecall_scan", "mret",
               "halted", "wild"}
  /\ MIE \in BOOLEAN /\ MPIE \in BOOLEAN
  /\ timer_enabled \in BOOLEAN /\ timer_pending \in BOOLEAN
  /\ mscratch \in Slots \cup {Nobody}
  /\ tf \in Slots /\ current_i \in Slots
  /\ status \in [Slots -> {STATUS_DEAD, STATUS_ALIVE, STATUS_SLEEP}]
  /\ sleep_sys_ticks \in [Slots -> 0 .. TICKS_MAX]
  /\ ctx \in [Slots -> Context]
  /\ stack \in [Slots -> {"none", "boot", "heap", "null"}]
  /\ saved_mstatus \in BOOLEAN
  /\ slot \in Slots /\ checked \in 0 .. MAX_THREADS
  /\ created \in 0 .. MaxCreate
  /\ overwritten \subseteq Slots

(***************************************************************************)
(* The thread on the hart is the one current_i names, so threads[current_i]*)
(* in ksleep and kexit is the caller's own slot, and the next trap saves   *)
(* to that slot.                                                           *)
(***************************************************************************)
CurrentIsRunning ==
  hart = "thread" => cpu.job = current_i /\ mscratch = current_i

(***************************************************************************)
(* The hart executes only live threads: one whose status is not ALIVE is   *)
(* on its way into the ecall that gives the hart away, and kexit never     *)
(* returns.                                                                *)
(***************************************************************************)
OnlyLiveThreadsRun ==
  hart = "thread" =>
    /\ cpu.pc = "exit_ecall" => status[cpu.job] = STATUS_DEAD
    /\ cpu.pc = "ecall" => status[cpu.job] # STATUS_DEAD
    /\ cpu.pc \notin {"ecall", "exit_ecall"} => status[cpu.job] = STATUS_ALIVE
    /\ cpu.pc \notin {"none", "exit_return"}

(***************************************************************************)
(* fkprintf's disabled interrupts stay with fkprintf: no other thread ever *)
(* runs with them off, and none loses its time slices for good.            *)
(***************************************************************************)
InterruptsAreRestored ==
  hart = "thread" => timer_enabled /\ (MIE <=> cpu.pc # "crit")

(* The slots scheduler_tick passes over on its way from slot i to slot j. *)
Between(i, j) ==
  IF i < j THEN (i + 1) .. (j - 1)
           ELSE ((i + 1) .. (MAX_THREADS - 1)) \cup (0 .. (j - 1))

(* scheduler_tick passes over no thread that could run. *)
NoThreadSkipped ==
  hart = "mret" =>
    /\ status[current_i] = STATUS_ALIVE
    /\ \A i \in Between(tf, current_i) : status[i] # STATUS_ALIVE

(***************************************************************************)
(* A sleeping thread has ticks left to count down, no more than it asked   *)
(* for: it can neither miss its wake-up nor wrap around.  Exempt are       *)
(* threads that create_thread wrote to after they had started to run.      *)
(***************************************************************************)
SleepIsBounded(i) ==
  status[i] = STATUS_SLEEP => sleep_sys_ticks[i] \in 1 .. MaxSleep

SleepersCanWake == \A i \in Slots \ overwritten : SleepIsBounded(i)

(***************************************************************************)
(* The saved registers of a thread change only when a trap saves them or   *)
(* steps over its ecall; a dead slot may be filled.  Exempt as above.      *)
(***************************************************************************)
OwnContextStep(i) ==
  \/ ctx'[i] = ctx[i]
  \/ i = cpu.job /\ hart = "thread" /\ ctx'[i] = cpu
  \/ i = tf /\ hart = "ecall"
  \/ status[i] = STATUS_DEAD

ContextIsOwn == [][\A i \in Slots : i \in overwritten' \/ OwnContextStep(i)]_vars

(***************************************************************************)
(* create_thread takes a slot nobody uses: from the moment it has found it *)
(* dead until it makes it ALIVE, no thread owns that slot.                 *)
(***************************************************************************)
ThreadPc(i) == IF hart = "thread" /\ cpu.job = i THEN cpu.pc ELSE ctx[i].pc

CreatedSlotIsDead ==
  ThreadPc(0) \in {"c_stack", "c_fill", "c_publish"} =>
    slot # 0 /\ status[slot] = STATUS_DEAD

(* Every thread that may run is dispatched, whatever the others do. *)
NoStarvation ==
  \A i \in Slots :
    status[i] = STATUS_ALIVE ~> (hart = "thread" /\ cpu.job = i)

(***************************************************************************)
(* A thread that has gone to sleep is made ALIVE again, one that           *)
(* create_thread has just made as well, whatever becomes of the others:    *)
(* unless create_thread stored to its slot after it had run, or the kernel *)
(* has stopped in a panic or been given up to a wrong kfree.               *)
(***************************************************************************)
SleepersWake ==
  \A i \in Slots :
    status[i] = STATUS_SLEEP ~>
      status[i] = STATUS_ALIVE \/ i \in overwritten \/ hart \in {"halted", "wild"}

(***************************************************************************)
(* What the code does not keep up in every case.                           *)
(***************************************************************************)

(* Without the exemption: ksleep's count survives in every thread.  (Nor  *)
(* is ContextIsOwn true without it, by the same stores of create_thread.)  *)
EverySleeperCanWake == \A i \in Slots : SleepIsBounded(i)

(* create_thread gives kfree only pointers kmalloc returned. *)
StackFreesAreLegal == hart # "wild"

-----------------------------------------------------------------------------
(***************************************************************************)
(* Once its threads exist the kernel implements the scheduler of module    *)
(* Threads: the running thread is the one on the hart, or the one a trap   *)
(* has interrupted, until mret; a thread naps for the ticks in its slot.   *)
(***************************************************************************)
Scheduler == INSTANCE Threads WITH
  N       <- MAX_THREADS,
  MaxNap  <- MaxSleep,
  state   <- status,
  nap     <- [i \in Slots |-> IF status[i] = STATUS_SLEEP THEN sleep_sys_ticks[i]
                                                         ELSE 0],
  running <- IF hart = "thread" THEN cpu.job ELSE tf

ImplementsThreads == Scheduler!TSpec

=============================================================================
