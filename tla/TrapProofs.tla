----------------------------- MODULE TrapProofs -----------------------------
(***************************************************************************)
(* Trap keeps its safety properties for every number of slots, every bound *)
(* and every set of started or faulting threads.                           *)
(***************************************************************************)
EXTENDS Trap, TLAPS

-----------------------------------------------------------------------------
(* The parts of the inductive invariant. *)

Stages == {"timer", "ecall", "timer_scan", "ecall_scan", "mret"}

OnHart(i) == hart = "thread" /\ cpu.job = i

(* Whose slot is current on the hart, and in the handler before the search. *)
Bookkeeping ==
  /\ status[0] = STATUS_ALIVE
  /\ hart = "thread" => cpu.job = current_i /\ mscratch = current_i
  /\ hart \in {"timer", "ecall"} => tf = current_i
  /\ hart = "mret" => status[current_i] = STATUS_ALIVE
  /\ hart = "ecall" =>
       \/ ctx[tf].pc = "ecall" /\ status[tf] # STATUS_DEAD
       \/ ctx[tf].pc = "exit_ecall" /\ status[tf] = STATUS_DEAD

(* The registers of every thread that may still run are its own ... *)
ContextOf(i) ==
  status[i] # STATUS_DEAD => OnHart(i) \/ ctx[i].job = i

(* ... and where its pc is agrees with its status. *)
PcOf(i) ==
  /\ status[i] = STATUS_ALIVE =>
       ThreadPc(i) \notin {"none", "exit_ecall", "exit_return"}
  /\ status[i] = STATUS_SLEEP => \/ ThreadPc(i) = "ecall"
                                 \/ ThreadPc(i) = "user" /\ ~OnHart(i)
  /\ status[i] = STATUS_DEAD =>
       \/ ThreadPc(i) = "exit_ecall"
       \/ ThreadPc(i) \in {"none", "entry", "exit_return"} /\ ~OnHart(i)
  /\ i # 0 => ThreadPc(i) \notin CreatePcs

(* Interrupts are off exactly in fkprintf and in the handler. *)
Interrupts ==
  /\ hart = "thread" => timer_enabled /\ (MIE <=> cpu.pc # "crit")
  /\ hart = "thread" /\ cpu.pc = "crit" => saved_mstatus
  /\ hart \in Stages => MPIE /\ (timer_enabled \/ hart = "timer_scan")
  /\ hart # "halted" => \A i \in Slots : ctx[i].pc # "crit"

(* What the boot thread does, and the slot create_thread works on. *)
Creating ==
  /\ ThreadPc(0) # "sleep_status"
  /\ ThreadPc(0) \in CreatePcs \ {"c_scan"} => slot # 0
  /\ ThreadPc(0) \in {"c_stack", "c_fill", "c_publish"} =>
       status[slot] = STATUS_DEAD /\ ~OnHart(slot)
  /\ ThreadPc(0) = "c_publish" => ctx[slot] = Entry(slot)
  /\ ThreadPc(0) = "c_scan" => checked < MAX_THREADS

(* The slots already passed over in the search for a runnable thread. *)
Passed ==
  hart \in {"timer_scan", "ecall_scan", "mret"} =>
    \A i \in Between(tf, current_i) : status[i] # STATUS_ALIVE

(* A count is set before its thread is asleep, and stays set. *)
Counted(i) ==
  i \notin overwritten /\ ThreadPc(i) = "sleep_status" =>
    sleep_sys_ticks[i] \in 1 .. MaxSleep

(* All of it but the types; past undefined behaviour little is left. *)
Parts ==
  /\ SleepersCanWake
  /\ CreatedSlotIsDead
  /\ hart # "wild" =>
       /\ Bookkeeping
       /\ \A i \in Slots : ContextOf(i) /\ PcOf(i) /\ Counted(i)
       /\ Interrupts
       /\ Creating
       /\ Passed

IInv == TypeOK /\ Parts

-----------------------------------------------------------------------------
(* Helpers. *)

(* NextSlot goes round the slots, and a search that advances with it has    *)
(* passed over the slots in between and the one it was at.                  *)
LEMMA NextSlotValue ==
  ASSUME NEW i \in Slots
  PROVE  /\ NextSlot(i) = IF i = MAX_THREADS - 1 THEN 0 ELSE i + 1
         /\ NextSlot(i) \in Slots
  BY TrapAssumption DEF NextSlot, Slots

LEMMA BetweenNext ==
  ASSUME NEW i \in Slots, NEW j \in Slots
  PROVE  /\ Between(i, NextSlot(i)) = {}
         /\ Between(i, NextSlot(j)) \subseteq Between(i, j) \cup {j}
  BY NextSlotValue, TrapAssumption DEF Slots, Between

LEMMA ZeroIsSlot == 0 \in Slots
  BY TrapAssumption DEF Slots

(* Goto changes the pc and nothing else. *)
LEMMA GotoPc ==
  ASSUME cpu \in Context, NEW l \in Pcs, Goto(l)
  PROVE  cpu' \in Context /\ cpu'.job = cpu.job /\ cpu'.pc = l
  BY DEF Goto, Context

(***************************************************************************)
(* A trap taken from a thread saves that thread's registers in its own     *)
(* slot: it moves every thread's pc from the hart to memory, unchanged.    *)
(***************************************************************************)
LEMMA TrapEntrySaves ==
  ASSUME IInv, hart = "thread", hart' # "thread", TrapEntry
  PROVE  /\ current_i \in Slots /\ cpu.job = current_i
         /\ tf' = current_i /\ ctx'[current_i] = cpu
         /\ \A i \in Slots : i # current_i => ctx'[i] = ctx[i]
         /\ \A i \in Slots : ThreadPc(i)' = ThreadPc(i)
         /\ \A i \in Slots : ~OnHart(i)'
  BY DEF IInv, Parts, TypeOK, Bookkeeping, TrapEntry, ThreadPc, OnHart

(* Only the boot thread is ever inside create_thread. *)
LEMMA CreatorIsBoot ==
  ASSUME IInv, hart = "thread", cpu.pc \in CreatePcs
  PROVE  /\ current_i = 0 /\ cpu.job = 0
         /\ ThreadPc(0) = cpu.pc
  BY DEF IInv, Parts, TypeOK, Bookkeeping, PcOf, ThreadPc

-----------------------------------------------------------------------------
(* Type correctness, one step per action that changes something typed. *)

LEMMA TypeStep ==
  ASSUME IInv, Next
  PROVE  TypeOK'
<1> USE TrapAssumption, ZeroIsSlot DEF IInv, Parts, TypeOK
<1>1. CASE TimerFires
  BY <1>1 DEF TimerFires, slots, locals
<1>2. CASE Trapped
  <2>1. hart = "thread" /\ TrapEntry /\ hart' \in {"timer", "ecall", "halted"}
    BY <1>2 DEF Trapped, TakeTimer, TakeEcall, TakeException, At
  <2>2. mscratch \in Slots
    BY <2>1 DEF Bookkeeping
  <2> QED BY <2>1, <2>2 DEF TrapEntry, locals
<1>3. CASE HandleTimer
  <2>1. sleep_sys_ticks' \in [Slots -> 0 .. TICKS_MAX]
    BY <1>3 DEF HandleTimer, TickedSleep, Decremented
  <2>2. status' \in [Slots -> {STATUS_DEAD, STATUS_ALIVE, STATUS_SLEEP}]
    BY <1>3 DEF HandleTimer, TickedStatus
  <2> QED BY <1>3, <2>1, <2>2, NextSlotValue DEF HandleTimer, ScanFrom, locals
<1>4. CASE HandleEcall
  <2>1. ctx' \in [Slots -> Context]
    BY <1>4 DEF HandleEcall, AfterEcall, Context, Pcs
  <2> QED BY <1>4, <2>1, NextSlotValue DEF HandleEcall, ScanFrom, csrs, locals
<1>5. CASE ScanSkip \/ ScanStop \/ Mret
  <2>1. CASE ScanSkip
    BY <2>1, NextSlotValue DEF ScanSkip, Scanning, csrs, slots, locals
  <2>2. CASE ScanStop
    BY <2>2 DEF ScanStop, slots, locals
  <2>3. CASE Mret
    BY <2>3 DEF Mret, Returned, slots, locals
  <2> QED BY <1>5, <2>1, <2>2, <2>3
<1>6. CASE run
  <2>1. cpu' \in Context
    BY <1>6 DEF run, Context, Pcs
  <2> QED BY <1>6, <2>1 DEF run, NoTrap, slots, locals
<1>7. CASE kyield \/ disable_interrupts \/ restore_interrupts
  <2>1. cpu' \in Context
    BY <1>7, GotoPc DEF kyield, disable_interrupts, restore_interrupts, Pcs
  <2>2. MIE' \in BOOLEAN /\ saved_mstatus' \in BOOLEAN
    BY <1>7 DEF kyield, disable_interrupts, restore_interrupts
  <2> QED BY <1>7, <2>1, <2>2
          DEF kyield, disable_interrupts, restore_interrupts, NoTrap, slots, locals
<1>8. ASSUME NEW ticks \in 1 .. MaxSleep, ksleep(ticks)
      PROVE  TypeOK'
  <2>1. cpu' \in Context
    BY <1>8, GotoPc DEF ksleep, Pcs
  <2>2. sleep_sys_ticks' \in [Slots -> 0 .. TICKS_MAX]
    BY <1>8 DEF ksleep
  <2> QED BY <1>8, <2>1, <2>2 DEF ksleep, NoTrap, locals
<1>9. CASE ksleep_status \/ kexit
  <2>1. cpu' \in Context
    BY <1>9, GotoPc DEF ksleep_status, kexit, Pcs
  <2>2. status' \in [Slots -> {STATUS_DEAD, STATUS_ALIVE, STATUS_SLEEP}]
    BY <1>9 DEF ksleep_status, kexit
  <2> QED BY <1>9, <2>1, <2>2 DEF ksleep_status, kexit, NoTrap, locals
<1>10. CASE create_thread
  <2>1. cpu' \in Context
    BY <1>10, GotoPc DEF create_thread, Pcs, CreatePcs
  <2> QED BY <1>10, <2>1 DEF create_thread, NoTrap, slots
<1>11. CASE create_scan
  <2>1. cpu' \in Context
    BY <1>11, GotoPc DEF create_scan, Pcs, CreatePcs
  <2>2. slot' \in Slots
    BY <1>11, NextSlotValue DEF create_scan
  <2>3. checked' \in 0 .. MAX_THREADS
    BY <1>11, CreatorIsBoot
    DEF create_scan, At, Creating, ThreadPc, CreatePcs
  <2> QED BY <1>11, <2>1, <2>2, <2>3 DEF create_scan, NoTrap, slots
<1>12. CASE create_stack
  <2>1. cpu' \in Context
    BY <1>12, GotoPc DEF create_stack, Pcs, CreatePcs
  <2>2. stack' \in [Slots -> {"none", "boot", "heap", "null"}]
    BY <1>12 DEF create_stack
  <2>3. hart' \in {"thread", "wild"}
    BY <1>12 DEF create_stack, At
  <2> QED BY <1>12, <2>1, <2>2, <2>3 DEF create_stack, csrs, locals
<1>13. CASE create_fill
  <2>1. cpu' \in Context
    BY <1>13, GotoPc DEF create_fill, Pcs, CreatePcs
  <2>2. Entry(slot) \in Context
    BY DEF Entry, Context, Pcs
  <2>3. ctx' \in [Slots -> Context]
    BY <1>13, <2>2 DEF create_fill
  <2>4. /\ status' \in [Slots -> {STATUS_DEAD, STATUS_ALIVE, STATUS_SLEEP}]
        /\ sleep_sys_ticks' \in [Slots -> 0 .. TICKS_MAX]
    BY <1>13 DEF create_fill
  <2> QED BY <1>13, <2>1, <2>3, <2>4 DEF create_fill, NoTrap, locals
<1>14. CASE create_publish
  <2>1. cpu' \in Context
    BY <1>14, GotoPc DEF create_publish, Pcs, CreatePcs
  <2>2. status' \in [Slots -> {STATUS_DEAD, STATUS_ALIVE, STATUS_SLEEP}]
    BY <1>14 DEF create_publish
  <2> QED BY <1>14, <2>1, <2>2 DEF create_publish, NoTrap, locals
<1>15. CASE create_ticks
  <2>1. cpu' \in Context
    BY <1>15, GotoPc DEF create_ticks, Pcs, CreatePcs
  <2>2. sleep_sys_ticks' \in [Slots -> 0 .. TICKS_MAX]
    BY <1>15 DEF create_ticks
  <2>3. overwritten' \subseteq Slots
    BY <1>15 DEF create_ticks, NoteOverwrite
  <2> QED BY <1>15, <2>1, <2>2, <2>3 DEF create_ticks, NoTrap
<1>16. CASE create_a0
  <2>1. cpu' \in Context
    BY <1>16, GotoPc DEF create_a0, Pcs
  <2>2. ctx' \in [Slots -> Context]
    BY <1>16 DEF create_a0, Context
  <2>3. overwritten' \subseteq Slots
    BY <1>16 DEF create_a0, NoteOverwrite
  <2> QED BY <1>16, <2>1, <2>2, <2>3 DEF create_a0, NoTrap
<1>17. CASE Stuck
  BY <1>17 DEF Stuck, vars, csrs, slots, locals
<1> QED
  BY <1>1, <1>2, <1>3, <1>4, <1>5, <1>6, <1>7, <1>8, <1>9, <1>10, <1>11, <1>12,
     <1>13, <1>14, <1>15, <1>16, <1>17
  DEF Next, Handler, Api, Create

-----------------------------------------------------------------------------
(* The traps and the handler. *)

LEMMA TimerFiresStep ==
  ASSUME IInv, TimerFires
  PROVE  Parts'
BY DEF IInv, Parts, TimerFires, slots, locals, SleepersCanWake, SleepIsBounded,
       CreatedSlotIsDead, Bookkeeping, ContextOf, PcOf, Counted, Interrupts,
       Creating, Passed, ThreadPc, OnHart

LEMMA TrappedStep ==
  ASSUME IInv, Trapped
  PROVE  Parts'
<1>1. /\ hart = "thread" /\ TrapEntry /\ hart' \in {"timer", "ecall", "halted"}
      /\ hart' = "timer" => MIE
      /\ hart' = "ecall" => cpu.pc \in {"ecall", "exit_ecall"}
  BY DEF Trapped, TakeTimer, TakeEcall, TakeException, At, Deliverable
<1>2. /\ current_i \in Slots /\ cpu.job = current_i
      /\ tf' = current_i /\ ctx'[current_i] = cpu
      /\ \A i \in Slots : i # current_i => ctx'[i] = ctx[i]
      /\ \A i \in Slots : ThreadPc(i)' = ThreadPc(i)
      /\ \A i \in Slots : ~OnHart(i)'
  BY <1>1, TrapEntrySaves
<1>3. UNCHANGED <<status, sleep_sys_ticks, current_i, slot, checked, overwritten,
                  timer_enabled>>
      /\ MPIE' = MIE
  BY <1>1 DEF TrapEntry, locals
<1>4. PcOf(current_i) /\ OnHart(current_i) /\ ThreadPc(current_i) = cpu.pc
  BY <1>1, <1>2 DEF IInv, Parts, OnHart, ThreadPc
<1>5. Bookkeeping'
  BY <1>1, <1>2, <1>3, <1>4
  DEF IInv, Parts, TypeOK, Bookkeeping, PcOf, STATUS_DEAD, STATUS_ALIVE, STATUS_SLEEP
<1>6. ASSUME NEW i \in Slots
      PROVE  ContextOf(i)' /\ PcOf(i)' /\ Counted(i)'
  BY <1>1, <1>2, <1>3 DEF IInv, Parts, ContextOf, PcOf, Counted, OnHart
<1>7. Interrupts'
  BY <1>1, <1>2, <1>3 DEF IInv, Parts, Interrupts, Stages
<1>8. Creating'
  <2>1. ThreadPc(0) = "c_publish" => slot \in Slots /\ slot # current_i
    BY <1>1, <1>2 DEF IInv, Parts, TypeOK, Creating, OnHart
  <2> QED BY <1>1, <1>2, <1>3, <2>1, ZeroIsSlot
          DEF IInv, Parts, TypeOK, Creating, CreatePcs, Entry
<1>9. Passed'
  BY <1>1 DEF Passed
<1>10. SleepersCanWake' /\ CreatedSlotIsDead'
  BY <1>2, <1>3, ZeroIsSlot
  DEF IInv, Parts, SleepersCanWake, SleepIsBounded, CreatedSlotIsDead
<1> QED BY <1>5, <1>6, <1>7, <1>8, <1>9, <1>10 DEF Parts

(* No thread is on the hart while handle_trap runs. *)
LEMMA OffHart ==
  ASSUME hart # "thread", NEW i \in Slots
  PROVE  ~OnHart(i) /\ ThreadPc(i) = ctx[i].pc
BY DEF OnHart, ThreadPc

LEMMA HandleTimerStep ==
  ASSUME IInv, HandleTimer
  PROVE  Parts'
<1> USE DEF STATUS_DEAD, STATUS_ALIVE, STATUS_SLEEP
<1>1. /\ hart = "timer" /\ hart' = "timer_scan" /\ tf = current_i
      /\ tf \in Slots /\ current_i' = NextSlot(tf)
      /\ UNCHANGED <<ctx, tf, MPIE, slot, checked, overwritten>>
  BY DEF IInv, Parts, TypeOK, HandleTimer, ScanFrom, Bookkeeping, locals
<1>2. \A i \in Slots : /\ ThreadPc(i)' = ThreadPc(i)
                       /\ ~OnHart(i) /\ ~OnHart(i)'
  BY <1>1 DEF ThreadPc, OnHart
<1>3. ASSUME NEW i \in Slots
      PROVE  /\ status[i] # STATUS_SLEEP =>
                  status'[i] = status[i] /\ sleep_sys_ticks'[i] = sleep_sys_ticks[i]
             /\ status[i] = STATUS_SLEEP =>
                  \/ status'[i] = STATUS_ALIVE
                  \/ /\ status'[i] = STATUS_SLEEP
                     /\ sleep_sys_ticks[i] > 1 =>
                          sleep_sys_ticks'[i] = sleep_sys_ticks[i] - 1
                     /\ sleep_sys_ticks[i] # 1
  BY <1>3
  DEF IInv, TypeOK, HandleTimer, TickedStatus, TickedSleep, Decremented, Sleepers
<1>4. Bookkeeping'
  BY <1>1, <1>3, ZeroIsSlot DEF IInv, Parts, Bookkeeping
<1>5. ASSUME NEW i \in Slots
      PROVE  ContextOf(i)' /\ PcOf(i)' /\ Counted(i)'
  <2>1. ContextOf(i) /\ PcOf(i) /\ Counted(i)
    BY <1>1 DEF IInv, Parts
  <2>2. ContextOf(i)'
    BY <1>1, <1>2, <1>3, <2>1 DEF ContextOf
  <2>3. PcOf(i)'
    BY <1>2, <1>3, <2>1 DEF PcOf, IInv, TypeOK
  <2>4. Counted(i)'
    BY <1>1, <1>2, <1>3, <2>1 DEF Counted, PcOf
  <2> QED BY <2>2, <2>3, <2>4
<1>6. Interrupts'
  BY <1>1 DEF IInv, Parts, Interrupts, Stages
<1>7. Creating'
  BY <1>1, <1>2, <1>3, ZeroIsSlot DEF IInv, Parts, TypeOK, Creating
<1>8. Passed'
  BY <1>1, BetweenNext DEF Passed
<1>9. SleepersCanWake'
  BY <1>1, <1>3, TrapAssumption
  DEF IInv, Parts, TypeOK, SleepersCanWake, SleepIsBounded
<1>10. CreatedSlotIsDead'
  BY <1>1, <1>2, <1>3, ZeroIsSlot DEF IInv, Parts, TypeOK, CreatedSlotIsDead
<1> QED BY <1>4, <1>5, <1>6, <1>7, <1>8, <1>9, <1>10 DEF Parts

LEMMA HandleEcallStep ==
  ASSUME IInv, HandleEcall
  PROVE  Parts'
<1> USE DEF STATUS_DEAD, STATUS_ALIVE, STATUS_SLEEP
<1>1. /\ hart = "ecall" /\ hart' = "ecall_scan" /\ tf = current_i
      /\ tf \in Slots /\ current_i' = NextSlot(tf)
      /\ UNCHANGED <<tf, status, sleep_sys_ticks, MPIE, timer_enabled, slot,
                     checked, overwritten>>
  BY DEF IInv, Parts, TypeOK, HandleEcall, ScanFrom, Bookkeeping, csrs, locals
<1>2. /\ ctx'[tf].job = ctx[tf].job /\ ctx'[tf].pc = AfterEcall(ctx[tf].pc)
      /\ \A i \in Slots : i # tf => ctx'[i] = ctx[i]
  BY <1>1 DEF IInv, TypeOK, HandleEcall, Context
<1>3. /\ \A i \in Slots : ~OnHart(i) /\ ~OnHart(i)'
      /\ \A i \in Slots : ThreadPc(i) = ctx[i].pc /\ ThreadPc(i)' = ctx'[i].pc
  BY <1>1 DEF ThreadPc, OnHart
<1>4. \/ ctx[tf].pc = "ecall" /\ ctx'[tf].pc = "user" /\ status[tf] # STATUS_DEAD
      \/ ctx[tf].pc = "exit_ecall" /\ ctx'[tf].pc = "exit_return"
         /\ status[tf] = STATUS_DEAD
  BY <1>1, <1>2 DEF IInv, Parts, Bookkeeping, AfterEcall
<1>5. Bookkeeping'
  BY <1>1 DEF IInv, Parts, Bookkeeping
<1>6. ASSUME NEW i \in Slots
      PROVE  ContextOf(i)' /\ PcOf(i)' /\ Counted(i)'
  <2>1. ContextOf(i) /\ PcOf(i) /\ Counted(i)
    BY <1>1 DEF IInv, Parts
  <2>2. CASE i # tf
    BY <1>1, <1>2, <1>3, <2>1, <2>2 DEF ContextOf, PcOf, Counted
  <2>3. CASE i = tf
    BY <1>1, <1>2, <1>3, <1>4, <2>1, <2>3
    DEF IInv, TypeOK, ContextOf, PcOf, Counted, CreatePcs
  <2> QED BY <2>2, <2>3
<1>7. Interrupts'
  BY <1>1, <1>2, <1>4 DEF IInv, Parts, Interrupts, Stages
<1>8. Creating'
  <2>1. ThreadPc(0)' \in CreatePcs => tf # 0
    BY <1>1, <1>2, <1>3, <1>4, ZeroIsSlot DEF CreatePcs
  <2>2. ThreadPc(0)' = "c_publish" => ctx[slot].pc = "entry" /\ slot \in Slots
    BY <1>1, <1>2, <1>3, <2>1, ZeroIsSlot
    DEF IInv, Parts, TypeOK, Creating, CreatePcs, Entry
  <2> QED BY <1>1, <1>2, <1>3, <1>4, <2>1, <2>2, ZeroIsSlot
          DEF IInv, Parts, TypeOK, Creating, CreatePcs, Entry
<1>9. Passed'
  BY <1>1, BetweenNext DEF Passed
<1>10. SleepersCanWake' /\ CreatedSlotIsDead'
  BY <1>1, <1>2, <1>3, <1>4, ZeroIsSlot
  DEF IInv, Parts, SleepersCanWake, SleepIsBounded, CreatedSlotIsDead
<1> QED BY <1>5, <1>6, <1>7, <1>8, <1>9, <1>10 DEF Parts

LEMMA ScanSkipStep ==
  ASSUME IInv, ScanSkip
  PROVE  Parts'
<1>1. /\ hart \in {"timer_scan", "ecall_scan"} /\ tf \in Slots
      /\ current_i \in Slots /\ current_i' = NextSlot(current_i)
      /\ status[current_i] # STATUS_ALIVE
      /\ UNCHANGED <<hart, tf, cpu, status, sleep_sys_ticks, ctx, MIE, MPIE,
                     timer_enabled, saved_mstatus, slot, checked, overwritten>>
  BY DEF IInv, TypeOK, ScanSkip, Scanning, Runnable, csrs, slots, locals
<1>2. Passed'
  BY <1>1, BetweenNext DEF IInv, Parts, Passed, Stages
<1>3. Bookkeeping'
  BY <1>1 DEF IInv, Parts, Bookkeeping
<1> QED
  BY <1>1, <1>2, <1>3
  DEF IInv, Parts, SleepersCanWake, SleepIsBounded, CreatedSlotIsDead, ContextOf,
      PcOf, Counted, Interrupts, Creating, ThreadPc, OnHart

LEMMA ScanStopStep ==
  ASSUME IInv, ScanStop
  PROVE  Parts'
<1>1. /\ hart \in {"timer_scan", "ecall_scan"} /\ hart' = "mret"
      /\ status[current_i] = STATUS_ALIVE
      /\ timer_enabled' = (timer_enabled \/ hart = "timer_scan")
      /\ UNCHANGED <<tf, cpu, current_i, status, sleep_sys_ticks, ctx, MIE, MPIE,
                     saved_mstatus, slot, checked, overwritten>>
  BY DEF ScanStop, Scanning, Runnable, slots, locals
<1>2. \A i \in Slots : ThreadPc(i)' = ThreadPc(i) /\ ~OnHart(i) /\ ~OnHart(i)'
  BY <1>1 DEF ThreadPc, OnHart
<1>3. Passed'
  BY <1>1 DEF IInv, Parts, Passed
<1>4. Bookkeeping' /\ Interrupts'
  BY <1>1 DEF IInv, Parts, Bookkeeping, Interrupts, Stages
<1>5. Creating'
  BY <1>1, <1>2, ZeroIsSlot DEF IInv, Parts, TypeOK, Creating
<1> QED
  BY <1>1, <1>2, <1>3, <1>4, <1>5, ZeroIsSlot
  DEF IInv, Parts, SleepersCanWake, SleepIsBounded, CreatedSlotIsDead, ContextOf,
      PcOf, Counted

(* mret resumes a live thread with the registers that are its own. *)
LEMMA MretStep ==
  ASSUME IInv, Mret
  PROVE  Parts'
<1> USE DEF STATUS_DEAD, STATUS_ALIVE, STATUS_SLEEP
<1>1. /\ hart = "mret" /\ hart' = "thread" /\ current_i \in Slots
      /\ cpu' = ctx[current_i] /\ mscratch' = current_i /\ MIE' = MPIE
      /\ UNCHANGED <<tf, current_i, status, sleep_sys_ticks, ctx, timer_enabled,
                     slot, checked, overwritten>>
  BY DEF IInv, TypeOK, Mret, Returned, slots, locals
<1>2. /\ status[current_i] = STATUS_ALIVE /\ cpu'.job = current_i
      /\ ThreadPc(current_i) = cpu'.pc
  BY <1>1, OffHart DEF IInv, Parts, Bookkeeping, ContextOf
<1>3. /\ \A i \in Slots : ThreadPc(i)' = ThreadPc(i)
      /\ \A i \in Slots : OnHart(i)' <=> i = current_i
  BY <1>1, <1>2, OffHart DEF ThreadPc, OnHart
<1>4. Bookkeeping'
  BY <1>1, <1>2 DEF IInv, Parts, Bookkeeping
<1>5. ASSUME NEW i \in Slots
      PROVE  ContextOf(i)' /\ PcOf(i)' /\ Counted(i)'
  BY <1>1, <1>2, <1>3, OffHart DEF IInv, Parts, ContextOf, PcOf, Counted
<1>6. Interrupts'
  BY <1>1 DEF IInv, Parts, Interrupts, Stages
<1>7. Creating'
  BY <1>1, <1>2, <1>3, ZeroIsSlot, OffHart DEF IInv, Parts, TypeOK, Creating
<1>8. SleepersCanWake' /\ CreatedSlotIsDead'
  BY <1>1, <1>3, ZeroIsSlot
  DEF IInv, Parts, SleepersCanWake, SleepIsBounded, CreatedSlotIsDead
<1>9. Passed'
  BY <1>1 DEF Passed
<1> QED BY <1>4, <1>5, <1>6, <1>7, <1>8, <1>9 DEF Parts

-----------------------------------------------------------------------------
(* The steps of threads. *)

(***************************************************************************)
(* What every step of the running thread has in common: it stays on the    *)
(* hart, and the others stay where they are.                               *)
(***************************************************************************)
ThreadMoves ==
  /\ hart = "thread" /\ hart' = "thread"
  /\ cpu' \in Context /\ cpu'.job = cpu.job
  /\ UNCHANGED <<tf, current_i, mscratch, timer_enabled>>

LEMMA ThreadMovesAlone ==
  ASSUME IInv, ThreadMoves
  PROVE  /\ current_i \in Slots /\ cpu.job = current_i /\ current_i' = current_i
         /\ ThreadPc(current_i) = cpu.pc /\ ThreadPc(current_i)' = cpu'.pc
         /\ \A i \in Slots : (OnHart(i) <=> i = current_i)
                             /\ (OnHart(i)' <=> i = current_i)
         /\ \A i \in Slots : i # current_i =>
              ThreadPc(i) = ctx[i].pc /\ ThreadPc(i)' = ctx'[i].pc
         /\ Bookkeeping /\ Interrupts /\ Creating
         /\ \A i \in Slots : ContextOf(i) /\ PcOf(i) /\ Counted(i)
         /\ SleepersCanWake /\ CreatedSlotIsDead
         /\ Passed'
BY DEF IInv, Parts, TypeOK, ThreadMoves, Bookkeeping, ThreadPc, OnHart, Passed

(* Steps that touch no slot: they only move the pc, mstatus or locals. *)
LEMMA QuietStep ==
  ASSUME IInv, ThreadMoves, UNCHANGED <<status, sleep_sys_ticks, ctx, overwritten>>,
         cpu.pc \in {"entry", "user", "crit", "c_scan"},
         cpu'.pc \in {"user", "ecall", "crit", "c_scan", "c_stack"},
         cpu'.pc \in CreatePcs => cpu.job = 0,
         cpu'.pc = "c_scan" => checked' < MAX_THREADS,
         cpu'.pc = "c_stack" => slot' \in Slots /\ status[slot'] = STATUS_DEAD,
         current_i # 0 => UNCHANGED <<slot, checked>>,
         MIE' <=> cpu'.pc # "crit",
         cpu'.pc = "crit" => saved_mstatus'
  PROVE  Parts'
<1> USE ThreadMovesAlone, ZeroIsSlot DEF STATUS_DEAD, STATUS_ALIVE, STATUS_SLEEP
<1>1. status[current_i] = STATUS_ALIVE
  BY DEF PcOf, IInv, TypeOK
<1>2. Bookkeeping'
  BY DEF Bookkeeping, ThreadMoves
<1>3. ASSUME NEW i \in Slots
      PROVE  ContextOf(i)' /\ PcOf(i)' /\ Counted(i)'
  BY <1>1 DEF ContextOf, PcOf, Counted, CreatePcs
<1>4. Interrupts'
  BY DEF Interrupts, ThreadMoves, Stages
<1>5. Creating'
  <2>1. CASE current_i = 0
    BY <2>1, <1>1 DEF Creating, CreatePcs, IInv, TypeOK
  <2>2. CASE current_i # 0
    BY <2>2 DEF Creating, CreatePcs, IInv, TypeOK
  <2> QED BY <2>1, <2>2
<1>6. SleepersCanWake'
  BY DEF SleepersCanWake, SleepIsBounded
<1>7. CreatedSlotIsDead'
  BY <1>5 DEF Creating, CreatedSlotIsDead, CreatePcs
<1> QED BY <1>2, <1>3, <1>4, <1>5, <1>6, <1>7 DEF Parts

LEMMA QuietActions ==
  ASSUME IInv,
         run \/ kyield \/ disable_interrupts \/ restore_interrupts \/ create_thread
             \/ create_scan
  PROVE  Parts'
<1> USE TrapAssumption DEF At, NoTrap, slots
<1>1. hart = "thread" /\ hart' = "thread"
      /\ UNCHANGED <<tf, current_i, mscratch, timer_enabled, status,
                     sleep_sys_ticks, ctx, overwritten>>
  BY DEF run, kyield, disable_interrupts, restore_interrupts, create_thread,
         create_scan, locals
<1>2. /\ cpu \in Context /\ (MIE <=> cpu.pc # "crit") /\ MIE \in BOOLEAN
      /\ (cpu.pc = "crit" => saved_mstatus) /\ Bookkeeping /\ slot \in Slots
      /\ cpu.pc = "c_scan" => cpu.job = 0 /\ checked < MAX_THREADS
  BY <1>1, CreatorIsBoot DEF IInv, Parts, TypeOK, Interrupts, Creating, CreatePcs
<1>3. CASE run
  <2>1. cpu' \in Context /\ cpu'.job = cpu.job /\ cpu'.pc = "user"
    <3>1. PICK v \in {0, 1} : cpu' = [cpu EXCEPT !.pc = "user", !.a0 = v]
      BY <1>3 DEF run
    <3>2. cpu' = [job |-> cpu.job, pc |-> "user", a0 |-> v]
      BY <1>2, <3>1 DEF Context
    <3> QED BY <1>2, <3>2 DEF Context, Pcs
  <2> QED BY <1>1, <1>2, <1>3, <2>1, QuietStep DEF run, ThreadMoves, CreatePcs, locals
<1>4. CASE kyield
  <2>1. cpu' \in Context /\ cpu'.job = cpu.job /\ cpu'.pc = "ecall"
    BY <1>2, <1>4, GotoPc DEF kyield, Pcs
  <2> QED BY <1>1, <1>2, <1>4, <2>1, QuietStep DEF kyield, ThreadMoves, CreatePcs, locals
<1>5. CASE disable_interrupts
  <2>1. cpu' \in Context /\ cpu'.job = cpu.job /\ cpu'.pc = "crit"
    BY <1>2, <1>5, GotoPc DEF disable_interrupts, Pcs
  <2> QED BY <1>1, <1>2, <1>5, <2>1, QuietStep
          DEF disable_interrupts, ThreadMoves, CreatePcs, locals
<1>6. CASE restore_interrupts
  <2>1. cpu' \in Context /\ cpu'.job = cpu.job /\ cpu'.pc = "user"
    BY <1>2, <1>6, GotoPc DEF restore_interrupts, Pcs
  <2> QED BY <1>1, <1>2, <1>6, <2>1, QuietStep
          DEF restore_interrupts, ThreadMoves, CreatePcs, locals
<1>7. CASE create_thread
  <2>1. cpu' \in Context /\ cpu'.job = cpu.job /\ cpu'.pc = "c_scan"
    BY <1>2, <1>7, GotoPc DEF create_thread, Pcs, CreatePcs
  <2> QED BY <1>1, <1>2, <1>7, <2>1, QuietStep
          DEF create_thread, ThreadMoves, CreatePcs, Bookkeeping
<1>8. CASE create_scan
  <2>1. CASE Unused(slot) /\ Goto("c_stack") /\ UNCHANGED <<slot, checked>>
    <3>1. cpu' \in Context /\ cpu'.job = cpu.job /\ cpu'.pc = "c_stack"
      BY <1>2, <2>1, GotoPc DEF Pcs, CreatePcs
    <3> QED BY <1>1, <1>2, <1>8, <2>1, <3>1, QuietStep
            DEF create_scan, Unused, ThreadMoves, CreatePcs, Bookkeeping
  <2>2. CASE checked' >= MAX_THREADS /\ Goto("user")
    <3>1. cpu' \in Context /\ cpu'.job = cpu.job /\ cpu'.pc = "user"
      BY <1>2, <2>2, GotoPc DEF Pcs
    <3> QED BY <1>1, <1>2, <1>8, <2>2, <3>1, QuietStep
            DEF create_scan, ThreadMoves, CreatePcs, Bookkeeping
  <2>3. CASE checked' = checked + 1 /\ ~(checked' >= MAX_THREADS) /\ UNCHANGED cpu
    BY <1>1, <1>2, <1>8, <2>3, QuietStep
    DEF create_scan, ThreadMoves, CreatePcs, Bookkeeping, IInv, TypeOK
  <2> QED BY <1>8, <2>1, <2>2, <2>3 DEF create_scan
<1> QED BY <1>3, <1>4, <1>5, <1>6, <1>7, <1>8

(***************************************************************************)
(* Steps that change the status or the count of one slot.                  *)
(***************************************************************************)
LEMMA ksleepStep ==
  ASSUME IInv, NEW ticks \in 1 .. MaxSleep, ksleep(ticks)
  PROVE  Parts'
<1> USE DEF STATUS_DEAD, STATUS_ALIVE, STATUS_SLEEP
<1>1. /\ ThreadMoves /\ cpu.pc = "user" /\ cpu'.pc = "sleep_status" /\ cpu.job # 0
      /\ UNCHANGED <<MIE, status, ctx, slot, checked, overwritten>>
      /\ sleep_sys_ticks' = [sleep_sys_ticks EXCEPT ![current_i] = ticks]
  BY GotoPc
  DEF ksleep, At, NoTrap, ThreadMoves, locals, IInv, TypeOK, Pcs
<1> USE <1>1, ThreadMovesAlone, ZeroIsSlot
<1>2. status[current_i] = STATUS_ALIVE
  BY DEF PcOf, IInv, TypeOK
<1>3. /\ sleep_sys_ticks'[current_i] = ticks
      /\ \A i \in Slots : i # current_i => sleep_sys_ticks'[i] = sleep_sys_ticks[i]
  BY DEF IInv, TypeOK
<1>4. Bookkeeping' /\ Interrupts'
  BY DEF Bookkeeping, Interrupts, ThreadMoves, Stages
<1>5. ASSUME NEW i \in Slots
      PROVE  ContextOf(i)' /\ PcOf(i)' /\ Counted(i)'
  BY <1>2, <1>3 DEF ContextOf, PcOf, Counted, CreatePcs
<1>6. Creating' /\ CreatedSlotIsDead'
  BY DEF Creating, CreatedSlotIsDead, CreatePcs, IInv, TypeOK
<1>7. SleepersCanWake'
  BY <1>2, <1>3 DEF SleepersCanWake, SleepIsBounded
<1> QED BY <1>4, <1>5, <1>6, <1>7 DEF Parts

LEMMA StatusStep ==
  ASSUME IInv, ksleep_status \/ kexit
  PROVE  Parts'
<1> USE DEF STATUS_DEAD, STATUS_ALIVE, STATUS_SLEEP
<1>1. /\ ThreadMoves /\ current_i \in Slots
      /\ UNCHANGED <<MIE, sleep_sys_ticks, ctx, slot, checked, overwritten>>
      /\ \/ /\ cpu.pc = "sleep_status" /\ cpu'.pc = "ecall"
            /\ status'[current_i] = STATUS_SLEEP
         \/ /\ cpu.pc = "user" /\ cpu'.pc = "exit_ecall" /\ cpu.job # 0
            /\ status'[current_i] = STATUS_DEAD
      /\ \A i \in Slots : i # current_i => status'[i] = status[i]
  BY GotoPc
  DEF ksleep_status, kexit, At, NoTrap, ThreadMoves, locals, IInv, TypeOK, Pcs
<1> USE <1>1, ThreadMovesAlone, ZeroIsSlot
<1>2. status[current_i] = STATUS_ALIVE
  BY DEF PcOf, IInv, TypeOK
<1>3. current_i # 0
  BY DEF Creating
<1>4. Bookkeeping' /\ Interrupts'
  BY <1>3 DEF Bookkeeping, Interrupts, ThreadMoves, Stages
<1>5. ASSUME NEW i \in Slots
      PROVE  ContextOf(i)' /\ PcOf(i)' /\ Counted(i)'
  BY <1>2 DEF ContextOf, PcOf, Counted, CreatePcs
<1>6. Creating' /\ CreatedSlotIsDead'
  BY <1>3 DEF Creating, CreatedSlotIsDead, CreatePcs, IInv, TypeOK
<1>7. SleepersCanWake'
  BY DEF SleepersCanWake, SleepIsBounded, Counted
<1> QED BY <1>4, <1>5, <1>6, <1>7 DEF Parts

-----------------------------------------------------------------------------
(* create_thread, from the slot it has found to the stores after line 190. *)

LEMMA CreateStackStep ==
  ASSUME IInv, create_stack
  PROVE  Parts'
<1>1. /\ hart = "thread" /\ cpu.pc = "c_stack"
      /\ UNCHANGED <<status, slot, overwritten, sleep_sys_ticks>>
  BY DEF create_stack, At, locals
<1>2. cpu.job = 0 /\ ThreadPc(0) = "c_stack" /\ Creating /\ SleepersCanWake
  BY <1>1, CreatorIsBoot DEF IInv, Parts, CreatePcs
<1>3. SleepersCanWake'
  BY <1>1, <1>2 DEF SleepersCanWake, SleepIsBounded
<1>4. CreatedSlotIsDead'
  BY <1>1, <1>2 DEF Creating, CreatedSlotIsDead, CreatePcs
<1>5. CASE hart' = "wild"
  BY <1>3, <1>4, <1>5 DEF Parts
<1>6. CASE hart' # "wild"
  <2>1. /\ ThreadMoves /\ cpu'.pc = "c_fill"
        /\ UNCHANGED <<MIE, ctx, checked>>
    BY <1>1, <1>6, GotoPc
    DEF create_stack, ThreadMoves, csrs, locals, IInv, TypeOK, Pcs, CreatePcs
  <2> USE <1>1, <1>2, <2>1, ThreadMovesAlone, ZeroIsSlot
  <2>2. Bookkeeping' /\ Interrupts'
    BY DEF Bookkeeping, Interrupts, ThreadMoves, Stages
  <2>3. ASSUME NEW i \in Slots
        PROVE  ContextOf(i)' /\ PcOf(i)' /\ Counted(i)'
    BY DEF ContextOf, PcOf, Counted, CreatePcs, STATUS_DEAD, STATUS_ALIVE, STATUS_SLEEP
  <2>4. Creating'
    BY DEF Creating, CreatePcs, IInv, TypeOK
  <2> QED BY <1>3, <1>4, <2>2, <2>3, <2>4 DEF Parts
<1> QED BY <1>5, <1>6

LEMMA CreateFillStep ==
  ASSUME IInv, create_fill
  PROVE  Parts'
<1> USE DEF STATUS_DEAD, STATUS_ALIVE, STATUS_SLEEP
<1>1. /\ ThreadMoves /\ cpu.pc = "c_fill" /\ cpu'.pc = "c_publish"
      /\ UNCHANGED <<MIE, slot, checked, overwritten>>
  BY GotoPc
  DEF create_fill, At, NoTrap, ThreadMoves, locals, IInv, TypeOK, Pcs, CreatePcs
<1> USE <1>1, ThreadMovesAlone, ZeroIsSlot
<1>2. /\ cpu.job = 0 /\ current_i = 0 /\ slot \in Slots /\ slot # 0
      /\ status[slot] = STATUS_DEAD
  BY CreatorIsBoot DEF ThreadMoves, Creating, CreatePcs, IInv, TypeOK
<1>3. /\ UNCHANGED status
      /\ ctx'[slot] = Entry(slot)
      /\ \A i \in Slots : i # slot => ctx'[i] = ctx[i]
                                      /\ sleep_sys_ticks'[i] = sleep_sys_ticks[i]
  BY <1>2 DEF create_fill, IInv, TypeOK
<1>4. Bookkeeping' /\ Interrupts'
  BY <1>2, <1>3 DEF Bookkeeping, Interrupts, ThreadMoves, Stages, Entry
<1>5. ASSUME NEW i \in Slots
      PROVE  ContextOf(i)' /\ PcOf(i)' /\ Counted(i)'
  BY <1>2, <1>3 DEF ContextOf, PcOf, Counted, CreatePcs, Entry
<1>6. Creating' /\ CreatedSlotIsDead'
  BY <1>2, <1>3 DEF Creating, CreatedSlotIsDead, CreatePcs
<1>7. SleepersCanWake'
  BY <1>2, <1>3 DEF SleepersCanWake, SleepIsBounded
<1> QED BY <1>4, <1>5, <1>6, <1>7 DEF Parts

LEMMA CreatePublishStep ==
  ASSUME IInv, create_publish
  PROVE  Parts'
<1> USE DEF STATUS_DEAD, STATUS_ALIVE, STATUS_SLEEP
<1>1. /\ ThreadMoves /\ cpu.pc = "c_publish" /\ cpu'.pc = "c_ticks"
      /\ UNCHANGED <<MIE, sleep_sys_ticks, ctx, slot, checked, overwritten>>
  BY GotoPc
  DEF create_publish, At, NoTrap, ThreadMoves, locals, IInv, TypeOK, Pcs, CreatePcs
<1> USE <1>1, ThreadMovesAlone, ZeroIsSlot
<1>2. /\ cpu.job = 0 /\ current_i = 0 /\ slot \in Slots /\ slot # 0
      /\ ctx[slot].job = slot /\ ctx[slot].pc = "entry"
  BY CreatorIsBoot DEF ThreadMoves, Creating, CreatePcs, Entry, IInv, TypeOK
<1>3. /\ status'[slot] = STATUS_ALIVE
      /\ \A i \in Slots : i # slot => status'[i] = status[i]
  BY <1>2 DEF create_publish, IInv, TypeOK
<1>4. Bookkeeping' /\ Interrupts'
  BY <1>2, <1>3 DEF Bookkeeping, Interrupts, ThreadMoves, Stages
<1>5. ASSUME NEW i \in Slots
      PROVE  ContextOf(i)' /\ PcOf(i)' /\ Counted(i)'
  <2>1. CASE i = slot
    BY <1>2, <1>3, <2>1 DEF ContextOf, PcOf, Counted, CreatePcs
  <2>2. CASE i # slot
    BY <1>2, <1>3, <2>2 DEF ContextOf, PcOf, Counted, CreatePcs
  <2> QED BY <2>1, <2>2
<1>6. Creating' /\ CreatedSlotIsDead'
  BY <1>2, <1>3 DEF Creating, CreatedSlotIsDead, CreatePcs
<1>7. SleepersCanWake'
  BY <1>2, <1>3 DEF SleepersCanWake, SleepIsBounded
<1> QED BY <1>4, <1>5, <1>6, <1>7 DEF Parts

(* A thread whose context is not the one create_fill made is exempt below.  *)
LEMMA CreateTicksStep ==
  ASSUME IInv, create_ticks
  PROVE  Parts'
<1> USE DEF STATUS_DEAD, STATUS_ALIVE, STATUS_SLEEP
<1>1. /\ ThreadMoves /\ cpu.pc = "c_ticks" /\ cpu'.pc = "c_a0"
      /\ UNCHANGED <<MIE, status, ctx, slot, checked>>
  BY GotoPc
  DEF create_ticks, At, NoTrap, ThreadMoves, locals, IInv, TypeOK, Pcs, CreatePcs
<1> USE <1>1, ThreadMovesAlone, ZeroIsSlot
<1>2. cpu.job = 0 /\ current_i = 0 /\ slot \in Slots /\ slot # 0
  BY CreatorIsBoot DEF ThreadMoves, Creating, CreatePcs, IInv, TypeOK
<1>3. /\ overwritten \subseteq overwritten'
      /\ slot \notin overwritten' => ctx[slot] = Entry(slot)
      /\ \A i \in Slots : i # slot => sleep_sys_ticks'[i] = sleep_sys_ticks[i]
  BY <1>2 DEF create_ticks, NoteOverwrite, IInv, TypeOK
<1>4. slot \notin overwritten' =>
        ThreadPc(slot) = "entry" /\ status[slot] # STATUS_SLEEP
  BY <1>2, <1>3 DEF Entry, PcOf
<1>5. Bookkeeping' /\ Interrupts'
  BY <1>2 DEF Bookkeeping, Interrupts, ThreadMoves, Stages
<1>6. ASSUME NEW i \in Slots
      PROVE  ContextOf(i)' /\ PcOf(i)' /\ Counted(i)'
  BY <1>2, <1>3, <1>4 DEF ContextOf, PcOf, Counted, CreatePcs
<1>7. Creating' /\ CreatedSlotIsDead'
  BY <1>2 DEF Creating, CreatedSlotIsDead, CreatePcs
<1>8. SleepersCanWake'
  BY <1>2, <1>3, <1>4 DEF SleepersCanWake, SleepIsBounded
<1> QED BY <1>5, <1>6, <1>7, <1>8 DEF Parts

LEMMA CreateA0Step ==
  ASSUME IInv, create_a0
  PROVE  Parts'
<1> USE DEF STATUS_DEAD, STATUS_ALIVE, STATUS_SLEEP
<1>1. /\ ThreadMoves /\ cpu.pc = "c_a0" /\ cpu'.pc = "user"
      /\ UNCHANGED <<MIE, status, sleep_sys_ticks, slot, checked>>
  BY GotoPc
  DEF create_a0, At, NoTrap, ThreadMoves, locals, IInv, TypeOK, Pcs, CreatePcs
<1> USE <1>1, ThreadMovesAlone, ZeroIsSlot
<1>2. cpu.job = 0 /\ current_i = 0 /\ slot \in Slots /\ slot # 0
  BY CreatorIsBoot DEF ThreadMoves, Creating, CreatePcs, IInv, TypeOK
<1>3. /\ overwritten \subseteq overwritten'
      /\ \A i \in Slots : ctx'[i].job = ctx[i].job /\ ctx'[i].pc = ctx[i].pc
  BY <1>2 DEF create_a0, NoteOverwrite, IInv, TypeOK, Context
<1>4. Bookkeeping' /\ Interrupts'
  BY <1>2, <1>3 DEF Bookkeeping, Interrupts, ThreadMoves, Stages
<1>5. ASSUME NEW i \in Slots
      PROVE  ContextOf(i)' /\ PcOf(i)' /\ Counted(i)'
  BY <1>2, <1>3 DEF ContextOf, PcOf, Counted, CreatePcs
<1>6. Creating' /\ CreatedSlotIsDead'
  BY <1>2 DEF Creating, CreatedSlotIsDead, CreatePcs
<1>7. SleepersCanWake'
  BY <1>3 DEF SleepersCanWake, SleepIsBounded
<1> QED BY <1>4, <1>5, <1>6, <1>7 DEF Parts

-----------------------------------------------------------------------------
(* The invariant and the theorems. *)

LEMMA InitIInv == Init => IInv
<1> USE TrapAssumption, ZeroIsSlot
        DEF Init, Slots, STATUS_DEAD, STATUS_ALIVE, STATUS_SLEEP
<1>1. ASSUME Init
      PROVE  TypeOK
  <2>1. cpu \in Context /\ Blank \in Context /\ \A i \in Slots : Entry(i) \in Context
    BY <1>1 DEF Context, Pcs, Nobody, Blank, Entry
  <2>2. ctx \in [Slots -> Context]
    BY <1>1, <2>1
  <2>3. stack \in [Slots -> {"none", "boot", "heap", "null"}]
    BY <1>1
  <2>4. sleep_sys_ticks \in [Slots -> 0 .. TICKS_MAX]
    BY <1>1
  <2>5. status \in [Slots -> {STATUS_DEAD, STATUS_ALIVE, STATUS_SLEEP}]
    BY <1>1
  <2>6. 0 \in 0 .. MAX_THREADS /\ 0 \in 0 .. MaxCreate
    OBVIOUS
  <2>7. mscratch \in Slots /\ tf \in Slots /\ current_i \in Slots /\ slot \in Slots
    BY <1>1
  <2> HIDE DEF Slots, STATUS_DEAD, STATUS_ALIVE, STATUS_SLEEP
  <2> QED BY <1>1, <2>1, <2>2, <2>3, <2>4, <2>5, <2>6, <2>7 DEF TypeOK
<1>2. Init => SleepersCanWake /\ CreatedSlotIsDead
  BY DEF SleepersCanWake, SleepIsBounded, CreatedSlotIsDead, ThreadPc
<1>3. Init => Bookkeeping /\ Interrupts /\ Creating /\ Passed
  BY DEF Bookkeeping, Interrupts, Stages, Creating, Passed, ThreadPc, CreatePcs,
         Blank, Entry
<1>4. ASSUME Init, NEW i \in Slots
      PROVE  ContextOf(i) /\ PcOf(i) /\ Counted(i)
  BY <1>4 DEF ContextOf, PcOf, Counted, ThreadPc, OnHart, CreatePcs, Blank, Entry
<1> QED BY <1>1, <1>2, <1>3, <1>4 DEF IInv, Parts

LEMMA StutterIInv ==
  ASSUME IInv, UNCHANGED vars
  PROVE  IInv'
BY DEF IInv, Parts, TypeOK, vars, csrs, slots, locals, SleepersCanWake,
       SleepIsBounded, CreatedSlotIsDead, Bookkeeping, ContextOf, PcOf, Counted,
       Interrupts, Creating, Passed, ThreadPc, OnHart

LEMMA NextIInv ==
  ASSUME IInv, [Next]_vars
  PROVE  IInv'
<1>1. CASE UNCHANGED vars
  BY <1>1, StutterIInv
<1>2. CASE Next
  <2>1. TypeOK'
    BY <1>2, TypeStep
  <2>2. CASE TimerFires \/ Trapped \/ Handler
    BY <2>1, <2>2, TimerFiresStep, TrappedStep, HandleTimerStep, HandleEcallStep,
       ScanSkipStep, ScanStopStep, MretStep
    DEF Handler, IInv
  <2>3. CASE Api
    BY <2>1, <2>3, QuietActions, ksleepStep, StatusStep DEF Api, IInv
  <2>4. CASE Create
    BY <2>1, <2>4, QuietActions, CreateStackStep, CreateFillStep,
       CreatePublishStep, CreateTicksStep, CreateA0Step
    DEF Create, IInv
  <2>5. CASE Stuck
    BY <2>5, StutterIInv DEF Stuck
  <2> QED BY <1>2, <2>2, <2>3, <2>4, <2>5 DEF Next
<1> QED BY <1>1, <1>2

LEMMA Invariance == Spec => []IInv
  BY InitIInv, NextIInv, PTL DEF Spec

(* Every variable stays in its type, whatever the bounds. *)
THEOREM TypeCorrect == Spec => []TypeOK
<1>1. IInv => TypeOK
  BY DEF IInv
<1> QED BY <1>1, Invariance, PTL

(***************************************************************************)
(* Whenever a thread executes, current_i and mscratch name its own slot:   *)
(* ksleep, kexit and the next trap write to the caller's slot.             *)
(***************************************************************************)
THEOREM CurrentRuns == Spec => []CurrentIsRunning
<1>1. IInv => CurrentIsRunning
  BY DEF IInv, Parts, Bookkeeping, CurrentIsRunning
<1> QED BY <1>1, Invariance, PTL

(***************************************************************************)
(* Only live threads execute; one that sleeps or has exited is at its      *)
(* ecall, and kexit does not return.                                       *)
(***************************************************************************)
THEOREM OnlyLiveRun == Spec => []OnlyLiveThreadsRun
<1>1. ASSUME IInv
      PROVE  OnlyLiveThreadsRun
  <2>1. ASSUME hart = "thread"
        PROVE  /\ cpu.job \in Slots /\ PcOf(cpu.job)
               /\ ThreadPc(cpu.job) = cpu.pc /\ OnHart(cpu.job)
               /\ status[cpu.job] \in {STATUS_DEAD, STATUS_ALIVE, STATUS_SLEEP}
    BY <1>1, <2>1 DEF IInv, Parts, TypeOK, Bookkeeping, ThreadPc, OnHart
  <2> QED BY <2>1
          DEF OnlyLiveThreadsRun, PcOf, STATUS_DEAD, STATUS_ALIVE, STATUS_SLEEP
<1> QED BY <1>1, Invariance, PTL

(***************************************************************************)
(* A thread executes with interrupts off only inside fkprintf, and always  *)
(* with the timer interrupt enabled in mie.                                *)
(***************************************************************************)
THEOREM InterruptsRestored == Spec => []InterruptsAreRestored
<1>1. IInv => InterruptsAreRestored
  BY DEF IInv, Parts, Interrupts, InterruptsAreRestored
<1> QED BY <1>1, Invariance, PTL

(* scheduler_tick ends at the first ALIVE slot after the one it left. *)
THEOREM NobodySkipped == Spec => []NoThreadSkipped
<1>1. IInv => NoThreadSkipped
  BY DEF IInv, Parts, Bookkeeping, Passed, NoThreadSkipped
<1> QED BY <1>1, Invariance, PTL

(***************************************************************************)
(* The count of a sleeper is between one and what it asked for, unless     *)
(* create_thread wrote to its slot after it had run.                       *)
(***************************************************************************)
THEOREM SleepersWakeable == Spec => []SleepersCanWake
<1>1. IInv => SleepersCanWake
  BY DEF IInv, Parts
<1> QED BY <1>1, Invariance, PTL

(* create_thread works on a dead slot, not its own, until it makes it ALIVE. *)
THEOREM CreatedDead == Spec => []CreatedSlotIsDead
<1>1. IInv => CreatedSlotIsDead
  BY DEF IInv, Parts
<1> QED BY <1>1, Invariance, PTL

(***************************************************************************)
(* The saved registers of a thread are written by its own traps only, as   *)
(* long as it is not dead: with the two stores of create_thread that come  *)
(* after line 190 exempted, switching is invisible to threads.             *)
(***************************************************************************)
THEOREM ContextsAreOwn == Spec => ContextIsOwn
<1> DEFINE Own == \A i \in Slots : i \in overwritten' \/ OwnContextStep(i)
<1>1. ASSUME IInv, [Next]_vars
      PROVE  [Own]_vars
  <2>1. CASE Trapped
    <3>1. hart = "thread" /\ TrapEntry /\ hart' # "thread"
      BY <2>1 DEF Trapped, TakeTimer, TakeEcall, TakeException, At
    <3> QED BY <1>1, <3>1, TrapEntrySaves DEF OwnContextStep
  <2>2. CASE HandleEcall
    BY <1>1, <2>2 DEF HandleEcall, OwnContextStep, IInv, TypeOK
  <2>3. CASE create_fill
    <3>1. status[slot] = STATUS_DEAD
      BY <1>1, <2>3, CreatorIsBoot
      DEF create_fill, At, IInv, Parts, Creating, CreatePcs
    <3> QED BY <1>1, <2>3, <3>1 DEF create_fill, OwnContextStep, IInv, TypeOK
  <2>4. CASE create_a0
    <3>1. ctx' = [ctx EXCEPT ![slot].a0 = 0]
      BY <2>4 DEF create_a0
    <3>2. ASSUME ctx[slot] = Entry(slot), NEW i \in Slots
          PROVE  ctx'[i] = ctx[i]
      BY <1>1, <3>1, <3>2 DEF IInv, TypeOK, Entry
    <3>3. \A i \in Slots : i # slot => ctx'[i] = ctx[i]
      BY <1>1, <3>1 DEF IInv, TypeOK
    <3>4. ctx[slot] # Entry(slot) => slot \in overwritten'
      BY <2>4 DEF create_a0, NoteOverwrite
    <3> QED BY <3>2, <3>3, <3>4 DEF OwnContextStep
  <2>5. CASE UNCHANGED ctx
    BY <2>5 DEF OwnContextStep
  <2>6. [Next]_vars => Trapped \/ HandleEcall \/ create_fill \/ create_a0
                       \/ UNCHANGED ctx
    BY DEF Next, Handler, Api, Create, vars, slots, Stuck, TimerFires,
           HandleTimer, ScanSkip, ScanStop, Mret, run, kyield, kexit,
           disable_interrupts, restore_interrupts, ksleep, ksleep_status,
           create_thread, create_scan, create_stack, create_publish, create_ticks
  <2> QED BY <1>1, <2>1, <2>2, <2>3, <2>4, <2>5, <2>6
<1> QED BY <1>1, Invariance, PTL DEF Spec, ContextIsOwn

-----------------------------------------------------------------------------
(* The kernel implements the scheduler of Threads: what a trap does on its  *)
(* way from one thread to the next is invisible, and the rest are steps of  *)
(* the scheduler.                                                           *)

(* The refinement mapping, named. *)
Naps == [i \in Slots |-> IF status[i] = STATUS_SLEEP THEN sleep_sys_ticks[i] ELSE 0]

Running == IF hart = "thread" THEN cpu.job ELSE tf

Seen == <<status, Naps, Running>>

LEMMA SeenIsMapping == Scheduler!tvars = Seen /\ Scheduler!Ids = Slots
BY DEF Scheduler!tvars, Scheduler!Ids, Seen, Naps, Running, Slots

(* A step that leaves every status alone and the count of every sleeper    *)
(* leaves every nap alone.                                                 *)
LEMMA NapsKept ==
  ASSUME status' = status,
         \A i \in Slots : status[i] = STATUS_SLEEP =>
                             sleep_sys_ticks'[i] = sleep_sys_ticks[i]
  PROVE  Naps' = Naps
BY DEF Naps

(* A thread at a step of its own has a status that lets it take the step. *)
LEMMA AwakeAt ==
  ASSUME IInv, hart = "thread", cpu.pc \in {"user", "sleep_status"}
  PROVE  /\ current_i \in Slots /\ cpu.job = current_i
         /\ status[current_i] = STATUS_ALIVE
         /\ ThreadPc(current_i) = cpu.pc
<1>1. /\ current_i \in Slots /\ cpu.job = current_i
      /\ OnHart(current_i) /\ ThreadPc(current_i) = cpu.pc
      /\ PcOf(current_i)
      /\ status[current_i] \in {STATUS_DEAD, STATUS_ALIVE, STATUS_SLEEP}
  BY DEF IInv, Parts, TypeOK, Bookkeeping, OnHart, ThreadPc
<1> QED  BY <1>1 DEF PcOf

(* Entering a trap, the hart stays with the thread it has interrupted. *)
LEMMA TrapIsInvisible ==
  ASSUME IInv, Trapped
  PROVE  UNCHANGED Seen
<1>1. hart = "thread" /\ TrapEntry /\ hart' # "thread"
  BY DEF Trapped, TakeTimer, TakeEcall, TakeException, At
<1>2. cpu.job = current_i /\ tf' = current_i
  BY <1>1, TrapEntrySaves
<1>3. UNCHANGED <<status, sleep_sys_ticks>>
  BY <1>1 DEF TrapEntry
<1> QED  BY <1>1, <1>2, <1>3, NapsKept DEF Seen, Running

(* Every sleeper has a tick left, so counting down is the scheduler's tick. *)
LEMMA TimerTicks ==
  ASSUME IInv, overwritten = {}, HandleTimer
  PROVE  Scheduler!Tick
<1> USE DEF STATUS_DEAD, STATUS_ALIVE, STATUS_SLEEP
<1>1. /\ hart = "timer" /\ hart' = "timer_scan" /\ tf' = tf
      /\ sleep_sys_ticks' = [i \in Slots |-> TickedSleep(i)]
      /\ status' = [i \in Slots |-> TickedStatus(i)]
  BY DEF HandleTimer
<1>2. \A i \in Slots : status[i] = STATUS_SLEEP => sleep_sys_ticks[i] \in 1 .. MaxSleep
  BY DEF IInv, Parts, SleepersCanWake, SleepIsBounded
<1>3. ASSUME NEW i \in Slots
      PROVE  /\ TickedStatus(i) = IF status[i] = "sleep" /\ Naps[i] = 1
                                  THEN "alive" ELSE status[i]
             /\ Naps'[i] = IF status[i] = "sleep" THEN Naps[i] - 1 ELSE Naps[i]
  <2>1. status'[i] = TickedStatus(i) /\ sleep_sys_ticks'[i] = TickedSleep(i)
    BY <1>1
  <2>2. /\ Naps[i] = IF status[i] = "sleep" THEN sleep_sys_ticks[i] ELSE 0
        /\ Naps'[i] = IF TickedStatus(i) = "sleep" THEN TickedSleep(i) ELSE 0
    BY <2>1 DEF Naps
  <2>3. CASE status[i] = "sleep"
    <3>1. i \in Sleepers /\ sleep_sys_ticks[i] \in 1 .. MaxSleep
      BY <1>2, <2>3 DEF Sleepers
    <3>2. TickedSleep(i) = sleep_sys_ticks[i] - 1
      BY <3>1, TrapAssumption DEF TickedSleep, Decremented
    <3>3. TickedStatus(i) = IF sleep_sys_ticks[i] = 1 THEN "alive" ELSE "sleep"
      BY <2>3, <3>1, <3>2, TrapAssumption DEF TickedStatus
    <3> QED  BY <2>2, <2>3, <3>1, <3>2, <3>3, TrapAssumption
  <2>4. CASE status[i] # "sleep"
    <3>1. i \notin Sleepers
      BY <2>4 DEF Sleepers
    <3> QED  BY <2>2, <2>4, <3>1 DEF TickedStatus
  <2> QED  BY <2>3, <2>4
<1>4. Naps' = [i \in Slots |-> IF status[i] = "sleep" THEN Naps[i] - 1 ELSE Naps[i]]
  BY <1>3 DEF Naps
<1>5. status' = [i \in Slots |-> IF status[i] = "sleep" /\ Naps[i] = 1
                                THEN "alive" ELSE status[i]]
  BY <1>1, <1>3
<1>6. Running' = Running
  BY <1>1 DEF Running
<1> QED  BY <1>4, <1>5, <1>6, SeenIsMapping DEF Scheduler!Tick, Naps, Running

(* What is passed over on the way round is what is nearer. *)
LEMMA NearerIsBetween ==
  ASSUME NEW i \in Slots, NEW j \in Slots, NEW k \in Slots,
         (IF k > i THEN k - i ELSE k - i + MAX_THREADS)
           < (IF j > i THEN j - i ELSE j - i + MAX_THREADS)
  PROVE  k \in Between(i, j)
BY TrapAssumption DEF Between, Slots

(* mret gives the hart to the next thread that is ready. *)
LEMMA MretSwitches ==
  ASSUME IInv, Mret
  PROVE  Scheduler!Switch
<1>1. /\ hart = "mret" /\ hart' = "thread" /\ cpu' = ctx[current_i]
      /\ UNCHANGED <<status, sleep_sys_ticks>>
  BY DEF Mret, Returned, slots
<1>2. /\ current_i \in Slots /\ tf \in Slots /\ status[current_i] = STATUS_ALIVE
      /\ \A i \in Between(tf, current_i) : status[i] # STATUS_ALIVE
      /\ ContextOf(current_i)
  BY <1>1 DEF IInv, Parts, TypeOK, Bookkeeping, Passed
<1>3. ctx[current_i].job = current_i
  BY <1>1, <1>2 DEF ContextOf, OnHart, STATUS_ALIVE, STATUS_DEAD
<1>4. Running = tf /\ Running' = current_i
  BY <1>1, <1>3 DEF Running
<1> DEFINE Far(j) == IF j > tf THEN j - tf ELSE j - tf + MAX_THREADS
<1>5. ASSUME NEW k \in Slots, status[k] = "alive"
      PROVE  Far(current_i) <= Far(k)
  <2>1. ~(Far(k) < Far(current_i))
    BY <1>2, <1>5, NearerIsBetween DEF STATUS_ALIVE
  <2>2. Far(k) \in Int /\ Far(current_i) \in Int
    BY <1>2, TrapAssumption DEF Slots
  <2> HIDE DEF Far
  <2> QED  BY <2>1, <2>2
<1>6. \A j \in Slots : Scheduler!Ahead(j) = Far(j)
  BY <1>1 DEF Scheduler!Ahead
<1>7. Naps' = Naps
  BY <1>1, NapsKept
<1> HIDE DEF Far
<1> QED  BY <1>1, <1>2, <1>4, <1>5, <1>6, <1>7, SeenIsMapping
         DEF Scheduler!Switch, Naps, Running, STATUS_ALIVE

(* The store that puts a thread to sleep starts its nap. *)
LEMMA StatusNaps ==
  ASSUME IInv, overwritten = {}, ksleep_status
  PROVE  Scheduler!Nap
<1> USE DEF STATUS_DEAD, STATUS_ALIVE, STATUS_SLEEP
<1>1. /\ hart = "thread" /\ hart' = "thread" /\ cpu.pc = "sleep_status"
      /\ cpu'.job = cpu.job /\ sleep_sys_ticks' = sleep_sys_ticks
      /\ status' = [status EXCEPT ![current_i] = STATUS_SLEEP]
  BY DEF ksleep_status, At, NoTrap, Goto, IInv, TypeOK, Context
<1>2. /\ current_i \in Slots /\ cpu.job = current_i /\ status[current_i] = "alive"
      /\ ThreadPc(current_i) = "sleep_status" /\ status \in [Slots -> {"dead", "alive", "sleep"}]
  BY <1>1, AwakeAt DEF IInv, TypeOK
<1>3. sleep_sys_ticks[current_i] \in 1 .. MaxSleep
  BY <1>1, <1>2 DEF IInv, Parts, Counted
<1>4. Running = current_i /\ Running' = current_i
  BY <1>1, <1>2 DEF Running
<1>5. Naps' = [Naps EXCEPT ![current_i] = sleep_sys_ticks[current_i]]
  BY <1>1, <1>2 DEF Naps
<1> QED  BY <1>1, <1>2, <1>3, <1>4, <1>5 DEF Scheduler!Nap, Naps, Running

LEMMA KexitExits ==
  ASSUME IInv, kexit
  PROVE  Scheduler!Exit
<1> USE DEF STATUS_DEAD, STATUS_ALIVE, STATUS_SLEEP
<1>1. /\ hart = "thread" /\ hart' = "thread" /\ cpu.pc = "user"
      /\ cpu'.job = cpu.job /\ sleep_sys_ticks' = sleep_sys_ticks
      /\ status' = [status EXCEPT ![current_i] = STATUS_DEAD]
  BY DEF kexit, At, NoTrap, Goto, IInv, TypeOK, Context
<1>2. /\ current_i \in Slots /\ cpu.job = current_i /\ status[current_i] = "alive"
      /\ status \in [Slots -> {"dead", "alive", "sleep"}]
  BY <1>1, AwakeAt DEF IInv, TypeOK
<1>3. Running = current_i /\ Running' = current_i
  BY <1>1, <1>2 DEF Running
<1>4. Naps' = Naps
  BY <1>1, <1>2 DEF Naps
<1> QED  BY <1>1, <1>2, <1>3, <1>4 DEF Scheduler!Exit, Naps, Running

(* A step of the thread's own code keeps the hart. *)
LEMMA StaysRunning ==
  ASSUME IInv, hart = "thread", hart' = "thread", cpu'.job = cpu.job
  PROVE  Running' = Running
BY DEF Running

(* ksleep's count is set while its thread is still awake. *)
LEMMA KsleepIsInvisible ==
  ASSUME IInv, NEW ticks \in 1 .. MaxSleep, ksleep(ticks)
  PROVE  UNCHANGED Seen
<1>1. /\ hart = "thread" /\ hart' = "thread" /\ cpu.pc = "user" /\ cpu'.job = cpu.job
      /\ status' = status
      /\ sleep_sys_ticks' = [sleep_sys_ticks EXCEPT ![current_i] = ticks]
  BY DEF ksleep, At, NoTrap, Goto, IInv, TypeOK, Context
<1>2. status[current_i] = STATUS_ALIVE
  BY <1>1, AwakeAt
<1>3. \A i \in Slots : status[i] = STATUS_SLEEP => sleep_sys_ticks'[i] = sleep_sys_ticks[i]
  BY <1>1, <1>2 DEF IInv, TypeOK, STATUS_ALIVE, STATUS_SLEEP
<1> QED  BY <1>1, <1>3, NapsKept, StaysRunning DEF Seen

(* The slot create_thread fills is dead, and stays dead until it publishes *)
(* it; its last stores meet a thread that has not run, or are remembered.  *)
LEMMA CreateIsInvisible ==
  ASSUME IInv, Create, hart' # "wild", overwritten' = {}
  PROVE  create_publish \/ UNCHANGED Seen
<1> USE DEF STATUS_DEAD, STATUS_ALIVE, STATUS_SLEEP
<1>1. CASE create_thread \/ create_scan \/ create_stack \/ create_a0
  <2>1. /\ hart = "thread" /\ hart' = "thread" /\ cpu'.job = cpu.job
        /\ UNCHANGED <<status, sleep_sys_ticks>>
    BY <1>1 DEF create_thread, create_scan, create_stack, create_a0, At, NoTrap, Goto,
                slots, IInv, TypeOK, Context
  <2> QED  BY <2>1, NapsKept, StaysRunning DEF Seen
<1>2. CASE create_fill
  <2>1. /\ hart = "thread" /\ hart' = "thread" /\ cpu.pc = "c_fill" /\ cpu'.job = cpu.job
        /\ status' = [status EXCEPT ![slot] = STATUS_DEAD]
        /\ sleep_sys_ticks' = [sleep_sys_ticks EXCEPT ![slot] = 0]
    BY <1>2 DEF create_fill, At, NoTrap, Goto, IInv, TypeOK, Context
  <2>2. slot \in Slots /\ status[slot] = STATUS_DEAD
    BY <2>1, CreatorIsBoot DEF IInv, Parts, TypeOK, Creating, CreatePcs
  <2>3. status' = status
    BY <2>1, <2>2 DEF IInv, TypeOK
  <2>4. \A i \in Slots : status[i] = STATUS_SLEEP => sleep_sys_ticks'[i] = sleep_sys_ticks[i]
    BY <2>1, <2>2 DEF IInv, TypeOK
  <2> QED  BY <2>1, <2>3, <2>4, NapsKept, StaysRunning DEF Seen
<1>3. CASE create_ticks
  <2>1. /\ hart = "thread" /\ hart' = "thread" /\ cpu.pc = "c_ticks" /\ cpu'.job = cpu.job
        /\ status' = status
        /\ sleep_sys_ticks' = [sleep_sys_ticks EXCEPT ![slot] = 0]
        /\ ctx[slot] = Entry(slot)
    BY <1>3 DEF create_ticks, NoteOverwrite, At, NoTrap, Goto, IInv, TypeOK, Context
  <2>2. slot \in Slots /\ slot # 0 /\ cpu.job = 0
    BY <2>1, CreatorIsBoot DEF IInv, Parts, TypeOK, Creating, CreatePcs
  <2>3. ThreadPc(slot) = "entry"
    BY <2>1, <2>2 DEF ThreadPc, Entry
  <2>4. status[slot] # STATUS_SLEEP
    BY <2>1, <2>2, <2>3 DEF IInv, Parts, PcOf
  <2>5. \A i \in Slots : status[i] = STATUS_SLEEP => sleep_sys_ticks'[i] = sleep_sys_ticks[i]
    BY <2>1, <2>4 DEF IInv, TypeOK
  <2> QED  BY <2>1, <2>5, NapsKept, StaysRunning DEF Seen
<1> QED  BY <1>1, <1>2, <1>3 DEF Create

(***************************************************************************)
(* One step of the kernel is one of the scheduler's, the store that        *)
(* publishes a new thread, or invisible to threads.                        *)
(***************************************************************************)
LEMMA SchedulerStep ==
  ASSUME IInv, [Next]_vars, hart' # "wild", overwritten = {}, overwritten' = {}
  PROVE  Scheduler!TNext \/ create_publish \/ UNCHANGED Seen
<1>1. CASE TimerFires
  BY <1>1, NapsKept DEF TimerFires, slots, Seen, Running
<1>2. CASE Trapped  BY <1>2, TrapIsInvisible
<1>3. CASE HandleTimer  BY <1>3, TimerTicks DEF Scheduler!TNext
<1>4. CASE HandleEcall \/ ScanSkip \/ ScanStop
  <2>1. /\ hart # "thread" /\ hart' # "thread"
        /\ UNCHANGED <<tf, status, sleep_sys_ticks>>
    BY <1>4 DEF HandleEcall, ScanSkip, ScanStop, Scanning, slots
  <2> QED  BY <2>1, NapsKept DEF Seen, Running
<1>5. CASE Mret  BY <1>5, MretSwitches DEF Scheduler!TNext
<1>6. CASE run \/ kyield \/ disable_interrupts \/ restore_interrupts
  <2>1. /\ hart = "thread" /\ hart' = "thread" /\ cpu'.job = cpu.job
        /\ UNCHANGED <<status, sleep_sys_ticks>>
    BY <1>6 DEF run, kyield, disable_interrupts, restore_interrupts, At, NoTrap, Goto,
                slots, IInv, TypeOK, Context
  <2> QED  BY <2>1, NapsKept, StaysRunning DEF Seen
<1>7. CASE kexit  BY <1>7, KexitExits DEF Scheduler!TNext
<1>8. ASSUME NEW ticks \in 1 .. MaxSleep, ksleep(ticks) PROVE UNCHANGED Seen
  BY <1>8, KsleepIsInvisible
<1>9. CASE ksleep_status  BY <1>9, StatusNaps DEF Scheduler!TNext
<1>10. CASE Create  BY <1>10, CreateIsInvisible
<1>11. CASE Stuck \/ UNCHANGED vars
  BY <1>11 DEF Stuck, vars, slots, Seen, Naps, Running
<1> QED
  BY <1>1, <1>2, <1>3, <1>4, <1>5, <1>6, <1>7, <1>8, <1>9, <1>10, <1>11
  DEF Next, Handler, Api

(***************************************************************************)
(* Whoever calls create_thread, and however often: as long as it has not   *)
(* written to a thread that had run, nor freed what is no stack, threads   *)
(* see the scheduler's steps and new threads appearing, and nothing else.  *)
(***************************************************************************)
THEOREM ThreadsAreScheduled ==
  Spec => [][ \/ hart' = "wild" \/ overwritten \cup overwritten' # {}
              \/ create_publish \/ Scheduler!TNext ]_Seen
<1> DEFINE A == \/ hart' = "wild" \/ overwritten \cup overwritten' # {}
                \/ create_publish \/ Scheduler!TNext
<1>1. IInv /\ [Next]_vars => [A]_Seen
  BY SchedulerStep
<1> QED  BY <1>1, Invariance, PTL DEF Spec

(* Without create_thread nothing of it happens. *)
NoCreation ==
  /\ created = 0 /\ overwritten = {} /\ hart # "wild"
  /\ cpu.pc \notin CreatePcs
  /\ \A i \in Slots : ctx[i].pc \notin CreatePcs

LEMMA InitNoCreation == Init => NoCreation
BY DEF Init, NoCreation, CreatePcs, Entry, Blank

LEMMA NextNoCreation ==
  ASSUME MaxCreate = 0, IInv, NoCreation, [Next]_vars
  PROVE  NoCreation' /\ ~create_publish
<1>1. ~Create
  BY DEF NoCreation, Create, create_thread, create_scan, create_stack, create_fill,
         create_publish, create_ticks, create_a0, At, CreatePcs
<1>2. UNCHANGED <<created, overwritten>> /\ hart' # "wild"
  BY <1>1 DEF NoCreation, Next, vars, TimerFires, Trapped, TakeTimer, TakeEcall,
              TakeException, TrapEntry, Handler, HandleTimer, HandleEcall, ScanSkip,
              ScanStop, Mret, Api, run, kyield, kexit, disable_interrupts, At,
              restore_interrupts, ksleep, ksleep_status, Stuck, NoTrap, locals
<1>3. CASE Trapped
  <2>1. hart = "thread" /\ TrapEntry /\ hart' # "thread"
    BY <1>3 DEF Trapped, TakeTimer, TakeEcall, TakeException, At
  <2>2. cpu' = cpu /\ \A i \in Slots : ctx'[i] \in {ctx[i], cpu}
    BY <2>1, TrapEntrySaves DEF TrapEntry
  <2> QED  BY <1>1, <1>2, <2>2 DEF NoCreation, Create
<1>4. CASE HandleEcall
  <2>1. cpu' = cpu /\ \A i \in Slots : ctx'[i].pc \in {ctx[i].pc, "exit_return", "user"}
    BY <1>4 DEF HandleEcall, AfterEcall, IInv, TypeOK, Context
  <2> QED  BY <1>1, <1>2, <2>1 DEF NoCreation, Create, CreatePcs
<1>5. CASE Mret
  BY <1>1, <1>2, <1>5 DEF Mret, Returned, slots, NoCreation, Create, IInv, TypeOK
<1>6. CASE Api
  <2>1. ctx' = ctx /\ cpu'.pc \in {"user", "ecall", "crit", "exit_ecall", "sleep_status"}
    BY <1>6 DEF Api, run, kyield, kexit, disable_interrupts, restore_interrupts, ksleep,
                ksleep_status, Goto, slots, IInv, TypeOK, Context
  <2> QED  BY <1>1, <1>2, <2>1 DEF NoCreation, Create, CreatePcs
<1>7. CASE UNCHANGED <<cpu, ctx>>
  BY <1>1, <1>2, <1>7 DEF NoCreation, Create
<1> QED
  BY <1>1, <1>3, <1>4, <1>5, <1>6, <1>7
  DEF Next, Handler, TimerFires, HandleTimer, ScanSkip, ScanStop, Stuck, vars, slots

(***************************************************************************)
(* Once its threads exist, the kernel is the scheduler of Threads: ticks,  *)
(* naps, exits and a hart that goes round the ready threads in turn.       *)
(***************************************************************************)
THEOREM TrapImplementsThreads ==
  ASSUME MaxCreate = 0
  PROVE  Spec => ImplementsThreads
<1>1. Init => Scheduler!TInit
  <2>1. ASSUME Init
        PROVE  /\ status \in [Slots -> {"alive", "dead"}] /\ status[0] = "alive"
               /\ Naps = [i \in Slots |-> 0] /\ Running = 0
    BY <2>1, ZeroIsSlot DEF Init, Naps, Running, STATUS_ALIVE, STATUS_DEAD, STATUS_SLEEP
  <2> QED  BY <2>1, SeenIsMapping DEF Scheduler!TInit, Naps, Running
<1>2. Spec => []NoCreation
  <2>1. IInv /\ NoCreation /\ [Next]_vars => NoCreation'
    BY NextNoCreation
  <2> QED  BY <2>1, InitNoCreation, Invariance, PTL DEF Spec
<1>3. IInv /\ NoCreation /\ NoCreation' /\ [Next]_vars => [Scheduler!TNext]_(Scheduler!tvars)
  <2> SUFFICES ASSUME IInv, NoCreation, NoCreation', [Next]_vars
               PROVE  Scheduler!TNext \/ UNCHANGED Scheduler!tvars
    OBVIOUS
  <2>1. Scheduler!TNext \/ UNCHANGED Seen
    BY SchedulerStep, NextNoCreation DEF NoCreation
  <2> QED  BY <2>1 DEF Scheduler!tvars, Seen, Naps, Running
<1> QED  BY <1>1, <1>2, <1>3, Invariance, PTL DEF Spec, ImplementsThreads, Scheduler!TSpec

=============================================================================
