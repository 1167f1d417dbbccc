# A verification of mqos

mqos is a small bare-metal kernel for 64-bit RISC-V: one hart, machine mode, a
first-fit heap, preemptive threads, a framebuffer with a text console, and a
driver for QEMU's fw_cfg device. This directory holds TLA+ models of it, the
TLC configurations that check them, and proofs of their main invariants that
TLAPS checks.

- [Inventory](#inventory): the parts of the program and what makes each correct
- [Plan](#plan): the modules, and the order they were written in
- [Malloc](#malloc), [Trap](#trap), [FwCfg](#fwcfg), [Screen](#screen),
  [Console](#console), [Paint](#paint), [Format](#format), [Qoi](#qoi),
  [Boot](#boot): how each model corresponds to the code
- [Runs](#runs): what each run checks, its bounds, and why they suffice
- [Fairness](#fairness)
- [Proofs](#proofs)
- [Findings](#findings)
- [Not modelled](#not-modelled)

## Inventory

| Part | State | Operations | Talks to |
|---|---|---|---|
| Heap, `src/malloc.c` | `free_list_head`, `busy_mem_size`, the block headers in memory | `heap_init`, `kmalloc`, `kfree`, `get_busy_mem_size`, `kmemset`, `kmemcpy` | called by threads, screen, QOI decoder, `kernel_main` |
| Threads and traps, `src/trap.c`, `src/trap.s` | `threads[]` (registers, status, tick count, stack), `current_i`, `mscratch`, `mie`, `mstatus`, `mtimecmp` | `init_traps`, `handle_trap`, `scheduler_tick`, `create_thread`, `kyield`, `ksleep`, `kexit` | heap (stacks), serial console (panics) |
| Screen, `src/fb.c` | `back_buffer`, `fb`, the cursor `term_cx`, `term_cy`, `term_start_x`, `term_scale` | `ramfb_setup`, `flush`, `fill_rect`, `display_qoi_image`, `fkprintf`, `fkprintf_set_cursor` | heap, fw_cfg, interrupts, QOI |
| fw_cfg, `src/qemu_dma.c` | the `access` record shared with the device, its selector and offset | `check_fw_cfg_dma`, `qemu_cfg_find_file`, `qemu_cfg_write_entry` | the device |
| Serial console, `src/serial.c` | none but the UART | `kprint`, `kprint_ui`, `uitoa`, `kprintf` | the UART |
| Boot, `src/boot.s`, `src/kernel.c`, `linker.ld` | the boot stack | `kernel_main`, `thread_a`, `thread_b` | everything |
| QOI, `include/qoi.h` | none of its own | `qoi_decode`, `qoi_encode` (no caller) | heap |
| Font, `include/ascii_font.h` | none | 128 bitmaps | drawn by the screen |

How they interact: `kernel_main` sets up device, heap, screen and traps in that
order, creates two threads, exercises the heap, draws, and then only waits for
interrupts. From `init_traps` on, the machine timer may preempt it, and the
threads, between any two instructions at which `mstatus.MIE` is set. There are
no locks: the only mutual exclusion is the pair `disable_interrupts` and
`restore_interrupts` around `fkprintf`. Everything else relies on there being
one caller (the heap), on the handler running with interrupts off (the
scheduler), or on nothing (the slot that `create_thread` is filling, `flush`).

What is hard, and what makes each part correct:

- **Heap.** Long legal sequences of splits and joins must keep three redundant
  views of memory (addresses, sizes, links) consistent. Correct means: blocks
  tile the heap; no caller's memory overlaps another's or a header; freeing
  undoes allocating; NULL means there was no room; every call returns; the
  busy count is exact.
- **Threads.** Preemption anywhere, three places that hold "who runs"
  (`current_i`, `mscratch`, the registers), and unsigned counters that wrap.
  Correct means: the three agree whenever a thread runs; no dead or sleeping
  thread runs; a thread's registers are its own; nobody ready starves; every
  sleeper wakes; interrupts come back on; a thread under creation is nobody
  else's.
- **Screen.** `flush` is preemptible and unlocked; the cursor arithmetic must
  keep every glyph on the screen; blending must stay within eight bits.
- **fw_cfg.** The device answers late, or with an error the driver ignores.
- **Serial, QOI.** Pure functions: `uitoa` against positional notation, the
  format interpreter against what it should print, the decoder's bounds.
- **Boot.** Each step that may fail, and what the kernel does then.

`PROJECT.json` lists the hazards at their lines, with the properties that watch
them.

## Plan

Done, the core and seven parts around it:

1. `Malloc`, with `Allocator`, the abstract allocator it implements, and
   `MallocProofs`.
2. `Trap`, with `Threads`, the abstract scheduler it implements, and
   `TrapProofs`.
3. `FwCfg`, with `FwCfgProofs`: the DMA driver with a device that answers late
   or in error.
4. `Screen`: `back_buffer`, framebuffer, and the byte copy of `flush`, by
   threads that preempt each other.
5. `Console`, with `ConsoleProofs`: the cursor, and the stores of
   `fkprintf_set_cursor` with other threads printing in between.
6. `Format`, with `FormatProofs`: the format interpreters and `uitoa`.
7. `Qoi`: encoder and decoder of the image format; and `Paint`, which extends
   it: what `display_qoi_image` and `fill_rect` make of the decoder's output in
   `back_buffer`, with a thread printing at any moment.
8. `Boot`, which composes `Malloc` and `FwCfg`: `kernel_main` at its real sizes,
   the device answering beside it, and the two threads; with `BootProofs`, which
   carries the theorems of the two over to the composition and proves the safety
   of the boot itself.

`ScreenProofs` and `PaintProofs` (which begins with the theorems about `Qoi`)
prove the safety of those three. Both refinements, of `Allocator` and of `Threads`,
are proved as well as checked, and so is every safety property of the passing runs. A third refinement, of an abstract table by the search of `FwCfg`, was left
out: `FindsFile` already compares the result with the whole directory.

## Malloc

`Malloc.tla` has the headers in `mem`, a function from the addresses at which a
header lies to its four fields; `free_list_head` and `busy_mem_size` are the
variables of the code. `owned` records the pointers callers hold and how much
they asked for. `heap_init` and `kfree` are one action each. `kmalloc` is its
call (`kmalloc_enter`), one action per iteration (`kmalloc_next`) and its two
returns (`kmalloc_take`, `kmalloc_null`); its locals `size` and `current` are
variables that are cleared when its frame goes.

`kmalloc(0)`, `kfree(NULL)` and a `heap_init` that finds no room change nothing;
the last is an alternative of the action because `kmalloc` then runs with an
empty list. The list surgery is written once per operation and applied to a
header map: `Split` (lines 61-73), `Join` (lines 96-100 and 104-108, which do
the same to different blocks), `CoalesceNext`, `CoalescePrev`. A header that
`Join` has absorbed leaves `mem`: nothing reads those bytes as a header again,
which is one of the things `WellLinked` shows.

What the model assumes, as `HeapAssumption`: the linker script aligns
`_stack_top`, and nobody asks for a size within eight of 2^64. There is one
caller: only the boot thread calls the allocator.

`Allocator.tla` is the promise in `include/malloc.h` without a list: a grant is
any stretch of the arena that meets no live block, and a refusal is legal only
when there is none. `ImplementsAllocator` is the refinement; a block's length
is the one its header holds, `pending` the size of the call under way.

## Trap

`Trap.tla` has one hart. `cpu` holds its registers, abstracted to whose control
flow they are (`job`), `pc`, and one register, `a0`, that code changes freely.
`hart` is what it executes: `"thread"`, or a stage of a trap.

| Model | Code |
|---|---|
| `TimerFires` | the CLINT, when `mtime` reaches `mtimecmp` |
| `TakeTimer`, `TakeEcall`, `TakeException` | trap entry and `trap.s` lines 1-46: all registers to `*mscratch` |
| `HandleTimer`, `HandleEcall` | the cases of `handle_trap`, up to the first test of the scheduler's loop |
| `ScanSkip`, `ScanStop` | `scheduler_tick`, an action per test |
| `Mret` | `trap.s` lines 46-87 |
| `run`, `kyield`, `ksleep`, `ksleep_status`, `kexit`, `disable_interrupts`, `restore_interrupts` | what threads do; each store to a shared variable is a step |
| `create_thread`, `create_scan`, `create_stack`, `create_fill`, `create_publish`, `create_ticks`, `create_a0` | `create_thread`, each store to the slot a step but that of `gp` |

Between any two of those steps of a thread the timer may be delivered, when
`MIE` and `timer_enabled` (`mie.MTIE`) allow. The handler itself runs with
`MIE` clear and cannot be.

Where the model abstracts: `sepc`, `sp` and the stack's address are one `pc`
label and whether the saved `sp` is still the top of the stack (`Depth`); the
stack itself is `"none"`, `"boot"`, `"heap"`, or `"null"` when `kmalloc` failed.
A thread without a stack faults at its first access, or, if the timer comes
first, in the handler, twice; both halt the hart. `kfree` of an address
`kmalloc` never returned is undefined, and the model stops following there
(`"wild"`). `system_ticks` is never read and is left out. So is `gp`: a thread
dispatched before line 192 runs with the 0 that `kmemset` put there, but nothing
in this build addresses by `gp`, and `_start` does not set it either.

Slot 0 is `kernel_main` from the moment `init_traps` returns. It is the only
creator, and it neither sleeps nor exits; without that `scheduler_tick` could
spin for ever with interrupts off. `overwritten` is a history variable: the
slots `create_thread` stored to after their threads had run. Properties that
those stores break are stated twice, with and without the exemption.

`Threads.tla` is the scheduler with no traps in it: threads nap, exit, ticks
count naps down, and the hart moves to the next ready thread round the circle.
`ImplementsThreads` is the refinement, with `running` the thread on the hart or
the one a trap interrupted, until `mret`.

## FwCfg

`FwCfg.tla` follows `ramfb_setup` from the directory search to the configuration
it writes. The driver hands the device the address of a record on its stack and
spins (`Waits`) until the device has cleared the record's control word. The
driver is one group of actions, one per transfer (`read_count`, `got_count`,
`got_entry`, `write_config`, `config_written`), the device another: it moves the
data (`DeviceMoves`) and answers (`DeviceAnswers`), or gives up (`DeviceFails`).
The device is external; it is modelled as the driver relies on it: a selection
rewinds an item, successive reads advance in it, a failed transfer leaves the
buffer alone.

The directory is a sequence of names and selectors; the first word is its
length. Both are big-endian, so `bswap` is really applied, with two bytes in
place of four. What the driver's locals hold before they are written is any of
`Leftovers`, and after an error it is used. `DirectoryAssumption` says what QEMU
ensures: names and selectors are unique, no selector is zero.

## Screen

`Screen.tla` has threads that draw and flush for ever. `fkprintf` masks
interrupts and is one step, which changes any bytes. `flush` is `kmemcpy` with a
load and a store per byte, and nothing keeps other threads out between them. A
byte is the number of the draw that wrote it: that is what tells an old byte
from a new one. `torn` is a history variable: the bytes which a late store has
set back, until a later one shows the current value again.

## Console

`Console.tla` has the cursor, its four variables, and who may move it when.
`fkprintf` gives its thread the console until it returns; a text is any series of
line feeds, carriage returns and glyphs. `fkprintf_set_cursor` is four stores of
the boot thread with others printing in between. `drawn` is the glyph the last
step drew, with the cursor and scale it was drawn with.

`ConsoleAssumption` is what the code relies on and does not check: every cursor
set leaves room for a glyph, `x` too when taken as a row (line 237 of `fb.c`
restarts the console at row `term_start_x`), and the scale is never changed. The
one call in `kernel.c`, `(60, 60, 1)`, meets it.

## Paint

`Paint.tla` extends `Qoi`: once the decoder has returned, an image of
`Wallpapers` is drawn as the boot thread does, one action per iteration. It is copied (`image_pixel`, `image_row`), then a rectangle is laid over
it (`rect_solid`; `rect_read` and `rect_blend` where it is translucent;
`rect_row`). A pixel is its four bytes, so that the reordering from what the
decoder stores to what the screen shows is a real one. Threads print between any
two of these steps; `draw_font_char` is one step, since `fkprintf` masks
interrupts, and there is at most one in a behaviour, which keeps `Picture`
readable. `texts` is a history variable: where the character was drawn, and
whether `fill_rect` had still to come to that place (`"under"`), had been there
(`"over"`), or was between reading and writing it (`"lost"`). `Picture` goes back
to the image that went into the encoder, so that `PictureIsRight` speaks of the
whole way from there to the screen.

Writing behind the buffer would add a place to the domain of `back_buffer`;
`InsideBuffer` says this does not happen. The width of an image and all edges of
a rectangle are cut off, the height of an image is not: `PaintAssumption` says
that images are not higher than the screen.

## Format

`Format.tla` is `kprintf`, conversion by conversion, and `uitoa` with `reverse`,
digit by digit and swap by swap. `fkprintf` has the same interpreter, and its own
output is the subject of `Console`. The branch of `uitoa` for zero (lines 41-46) is
the first round of its loop in `uitoa_digit`, which does the same. A character is a
string of length one, or its name. A call is made
of pieces, each a part of a format, the arguments it takes and the text that is
meant; `Meant` is their concatenation. What each piece means is stated apart from
the interpreter, in `Piece`: plain text, a lone character behind `%` that is no
conversion, and the conversions, of which those of numbers refer to `Positional`,
the definition of positional notation that a reader would give. `CallsAssumption`
says that every call is made of such pieces, so the texts given in `MCFormat` are
checked against it too. Words have 16 bits in place of 64 in the run. The font is
there as far as its bitmaps are equal: the 33 of the control characters are the same
box, only that of space is empty, and the others all differ (`ascii_font`). So what
is printed can be read (`Legible`) if it is one of those, or a line feed. A piece is
given with a format, a character or a text that can; that the digits, `0x` and
`(null)` can, and that nothing else is ever printed, is what `PrintsWhatIsMeant`
says. The assumption
excludes a format that ends in a lone `%`: there the code (line 114 of `serial.c`,
317 of `fb.c`) steps over the terminator and reads on.

## Qoi

`Qoi.tla` is the codec, one action per iteration of either loop. `bytes` is what
the encoder wrote; the decoder is handed all of it or less, with 0, 3 or 4 for
its `channels`. Channel arithmetic wraps as in the code, in `unsigned char` when
added (`U8`) and in `signed char` when subtracted (`S8`). The kernel only
decodes; the encoder, which is compiled in with the rest of the header, says
what the decoder should undo. `starved` is a history variable: the decoder has
no more chunks and repeats the last pixel. What lies behind the data is not
known to the model, so `StaysInside` has to hold for the other properties to
mean anything.

## Boot

`Boot.tla` composes `kernel_main` with `Malloc` and with `FwCfg`: a call of
`kmalloc` is `Malloc`'s call, walk and return (by `INSTANCE`, its `pc` and
`request` being `walk` and `asked` here), and `ramfb_setup` runs `FwCfg`'s driver,
step by step, with the device working beside it. `Script` is `kernel_main` with
what it calls, as a sequence (in four parts) of the operations that matter to the heap and the
screen, and `ip` is how far it is; an operation is performed by the action of its
name. The signature or the DMA interface may be missing, the directory may lack
the file, any transfer may fail. An access to address 0 ends in the panic of
`handle_trap`. Sizes are the real ones; addresses count from
the start of RAM, so that they fit TLC's integers.

The threads run as soon as `create_thread` has published them (line 190), a round
(print, flush, `ksleep`) at a time; its last stores (lines 191-193) are a step of
their own, `late_stores`. A thread that has run by then may have lost the sleep count
it had just stored, or its `a0` (the first of the [findings](#findings)):
`AfterLateStores` leaves it as it is or makes it `"struck"` in its round, or
`"overslept"`, asleep without a count. A struck thread may access address 0, or come
to a `ksleep` that does not end; an overslept one would wake after 2^64 ticks, and
has no further step here.

## Runs

| Run | Checks | Instance |
|---|---|---|
| `malloc` | safety of the heap, `KmallocReturns`, `ImplementsAllocator` | a heap of 224 bytes and one of 24; requests of 0, 8, 20, 48, 188, 193 |
| `trap_create` | safety of the scheduler during creation, `SleepersWake` | 3 slots, 2 creations, stacks that may be missing, slot 1 may fault |
| `trap_fair` | `ImplementsThreads`, `NoStarvation` | 3 started threads, naps of 1 or 2 ticks |
| `trap_sleep_count`, `trap_reuse` | two findings, each a violation | as `trap_create`, one creation |
| `screen` | `QuietIsCurrent`, `DrawnIsShown` | 2 threads, 3 bytes, 3 draws |
| `screen_torn` | a finding | the same |
| `console` | `GlyphsOnScreen` | the real screen and font, cursors (10, 10) and (60, 60), texts of any length |
| `wallpaper` | `StaysInside`, `RoundTrip`, `InsideBuffer`, `PictureIsRight` | every image of four pixels over eight colors, runs around 62 and 124, images that are refused, up to 30 bytes cut off; three images painted on a screen of 3 by 2, with rectangles that stick out on each side, miss the screen, are solid, translucent or invisible, and one character |
| `format` | `PrintsWhatIsMeant`, `StopsAtTerminator` | all calls of up to three of 14 pieces, and the calls in the kernel |
| `boot` | the driver, the heap during boot, `KernelGoesOn` | the real kernel; six directories, in which the file is missing, alone, first, second or third, mostly with another whose name begins alike; two contents of the stack; any transfer may fail |
| `boot_message` | a finding | the same |

Why these bounds. 224 bytes hold up to five blocks, so a block can have a free
or a held neighbour on either side, and the ends of the list, all combinations
of coalescing and a walk of any of those lengths occur. 8 leaves a rest that can
be split and one that cannot, 20 is rounded up, 188 is
rounded up to 192, which with its header is exactly the whole heap, and 193 never
fits; 24 is less than a header. `SIZE_MOD` is 1024, well above
every address, as 2^64 is. For threads, three slots give the creator, the
created and a third party, dead slots between live ones and a scan that wraps;
two creations fill the table and a nap of two ticks shows a tick that does not
wake. `TICKS_MAX` is 7, far above `MaxSleep`: a wrapped count is told from a
legal one. `MaxCreate` bounds the calls of `create_thread`. The six
directories put etc/ramfb before and behind the file whose name begins alike, behind
two others, or nowhere, with that file there and without; the proofs are for all of
fewer than 256 files. Three bytes give a
flush a first, a middle and a last byte; three draws (`MaxDraws`) let a flush be
overtaken twice. In `wallpaper` a place can lie in or out of image and rectangle, in
the first or a later column and row. The colors of its images differ by what each kind
of chunk can express, wrap, and share a hash. The proofs hold without any of these bounds.

What each property is for:

- `TypeOK` of `Malloc` includes that sizes stay natural numbers: a split whose
  rest cannot hold a header makes one negative.
- `WellLinked`, `Tiled`, `Coalesced`: the three views of the heap agree.
- `OwnedIsUsable`, `AllFreedIsWhole`, `NullMeansFull`, `BusyIsExact`: what
  callers get from it.
- `KmallocReturns`: the walk ends.
- `CurrentIsRunning`: `current_i`, `mscratch` and the hart agree, wherever the
  timer interrupts, so `ksleep` and `kexit` act on their caller.
- `OnlyLiveThreadsRun`: not ALIVE means on the way to the `ecall`; `kexit`
  does not return.
- `InterruptsAreRestored`: `mstatus` is not part of a thread's saved state, so
  the critical section of `fkprintf` must never cross a switch.
- `NoThreadSkipped`, `NoStarvation`: the round is fair.
- `SleepersCanWake`, `SleepersWake`: the count of a sleeper neither wraps nor
  is missed by a tick, whether its thread was there from the start or has been
  created since. Exempt are the slots that `create_thread` has stored to after
  their threads had run (`overwritten`), and for the second a hart that has stopped.
- `ContextIsOwn`: an action property; saved registers change only in the
  thread's own trap, or while its slot is dead.
- `CreatedSlotIsDead`: between finding the slot and publishing it nobody else
  uses it.

- `FrameOutlivesTransfer`: the device never writes to a frame that is gone.
- `FindsFile`: unless a transfer failed, the right file is found and written.
- `QuietIsCurrent`, `DrawnIsShown`: what `flush` achieves without a lock.
- `GlyphsOnScreen`: the two tests of `fkputc` keep every glyph inside
  `back_buffer`, which `put_pixel` does not check.

- `PictureIsRight`: blending reads, computes and writes with interrupts on, and
  loses nothing but the one pixel in its hands.
- `PrintsWhatIsMeant`: each conversion takes its argument and no other; digits
  come out in order, zero included; nothing is printed that cannot
  be told from something else on the screen.
- `RoundTrip`: the decoder's index is not the encoder's, and yet they agree.
  `StaysInside`: the two bounds that qoi.h checks once, outside its loops, are
  enough.
- `PanicsOnlyWithoutScreen`, `HeapIsBalanced`, `FrameIsApart`: 64 MB are enough
  for a boot that checks no result of `kmalloc`, the exercise of the heap gives
  back what it takes, and the frame buffer behind the heap is nobody else's. The
  first is about heap and device; a thread that `create_thread` has struck may
  panic too, and the property names it.
- `KernelGoesOn`: whatever the device answers, boot and threads share the hart
  and all come to their ends; `thread_b` has none. It promises nothing of a thread
  that `create_thread` has struck, but all of the rest.

Each property of a passing run has a mutant in `PROJECT.json`: an operator in
the same module, marked `mutant`, that changes one mapped definition as a
plausible slip would, and under which TLC finds the property violated.

Deadlock is checked in every run. The kernel never stops of itself: a panic is
`while(1)`, `kernel_main` ends in a loop around `wfi`, and `_start` in `j .`. `Stuck` of `Trap` and
`Stopped` of `Boot` stand for them; `AllAsleep`, `Over` and `Done` are the ends of
what the other modules follow, not of the kernel.

## Fairness

`Malloc`: weak fairness of the three steps of the walk. Once called, `kmalloc`
is executed; nothing obliges anybody to call it.

`Trap`: weak fairness of `TimerFires` (`mtime` runs in hardware), of `TakeTimer`
(a deliverable interrupt is taken before the next instruction), of the handler's
steps (it runs with interrupts off) and of `restore_interrupts` (`fkprintf` is
straight-line code over a string). The threads themselves get none: each may
compute for ever, or yield at once every time, and still nobody starves.

`Screen`: weak fairness of a flush that has begun: the thread inside it is
ready, and `NoStarvation` of `Trap` says that a ready thread runs. Nobody is
obliged to draw.

`Format`: weak fairness of the interpreter, straight-line code over a string.

`Boot`: weak fairness of the boot thread (the driver's spinning is not a step, so
it is not obliged to anything while it spins); of the device: QEMU completes a
transfer, or reports an error; and of the threads, as far as `Trap` gives it. A
thread that is ready has its round, by `NoStarvation`; `NoThreadSkipped`, on which
that rests, is checked and proved with created threads too. One that is asleep wakes,
by `SleepersWake`, which the run `trap_create` checks of threads that
`create_thread` makes in the midst of ticks and sleeps. It exempts those whose slot
was stored to after they had run, and so does `Boot`: fairness is of `round` and
`wake`, steps of a thread that is `"ready"` or `"asleep"`, and there is none of
`struck_round`, and no `wake` of a thread that is `"overslept"`.

## Proofs

`tlapm` checks the eight proof modules to the last leaf. Everything holds for
all values of the constants that satisfy `HeapAssumption`, `TrapAssumption`,
`ConsoleAssumption`, `DirectoryAssumption`, `BootAssumption`, `ScreenAssumption`,
`ImageAssumption`, `PaintAssumption` and `CallsAssumption`: any heap size and any
requests, any number of slots up to 127, any naps, any screen, font and cursors, any
directory of fewer than 256 files, any content of the driver's stack, any end of the
kernel's image, any frame and any number of flushes at once, any image, any cut of
its bytes, any rectangle and any glyph, any format of any length and any word.

Two theorems need induction over data, over sets and over sequences. The library's
induction theorems are stated of an operator, which the installed provers cannot
instantiate; its theorem about well-founded relations (`WFMin`), which is stated of a
set, they can. With `FS_StrictSubsetOrderingWellFounded` it gives `Smallest`: of any
subsets of a finite set, one has no other inside it. Every induction below is from
that, by looking at the smallest counterexample, or at the least number without
(`LeastNumber`, `Induction`).

**`MallocProofs`.** None of the properties is inductive. The invariant `IInv`
has four layers. `Layout` (`Placed`, `Linked`, `Disjoint`, `Covered`) says the
blocks tile the heap and the links lead through them; `CoalescedBut(m, c)` says
no two neighbours are free, but for block `c`, which is what holds half way
through `kfree`; `Held` ties the blocks that are not free to the pointers
callers hold; `Walked` says every block behind the cursor of `kmalloc` is taken
or too small. The parts are stated of any header map, so that lemmas about
`Split`, `Join` and the `is_free` flag can be composed: `FlagValue`,
`JoinValue`, `SplitValue` say what each returns field by field, `FlagLayout`,
`JoinLayout`, `SplitLayout` that the layout survives, and `MarkFree`,
`NextAbsorbed`, `PrevAbsorbed` follow `kfree` through its three stages. From
`IInv` come `TypeCorrect`, `ListIsWhole`, `HeapIsTiled`, `AlwaysCoalesced`,
`PointersAreUsable`, `FreeingRestores` and `RefusalIsJustified`. The last is the
interesting one: a hole would start in a free block, which `Walked` says is too
small, hence reach the block behind it, which `CoalescedBut` says is held.
`MallocImplementsAllocator` is the refinement: `kmalloc_take` is a grant because
the block it cuts lay in a free one, which no live block meets; `kmalloc_null` is
a refusal by the argument of `RefusalIsJustified` (`InvNullMeansFull`); every other
step stutters but `heap_init`, `kmalloc_enter` and `kfree`, which map to their
namesakes.

`BusyIsExact` compares `busy_mem_size` with a sum over the blocks callers hold, which
the community modules define by a recursive function chosen by its equation. That
there is one such function (`SumsExist`, `SumsAgree`) and that any block may be
counted first, not only the one `CHOOSE` takes (`SumsAnyFirst`), is by induction over
finite sets; `OwnedFinite` says that the heap has room for finitely many pointers.
Then `BusyOneMore` says what one block more adds, `BusySame` that nothing else
matters, and `kmalloc` and `kfree` keep the count (`TakeKeepsCount`,
`KfreeKeepsCount`): a split gives the rest to nobody, and `kfree` subtracts the size
the block has before it grows by a join. `BusyExact` is the result.

**`TrapProofs`.** `IInv` adds to `TypeOK` what a thread's control flow looks
like wherever it is kept, on the hart or in its slot: whose it is, which `pc`
goes with which status, which slot `create_thread` is at, and where interrupts
may be off. With the stages of the trap it gives `TypeCorrect`, `CurrentRuns`,
`OnlyLiveRun`, `InterruptsRestored`, `NobodySkipped`, `SleepersWakeable`,
`CreatedDead` and, as an action property, `ContextsAreOwn`. Its steps are one
per action, in the order of `Next`. On the refinement there are two theorems.
`ThreadsAreScheduled` holds for any number of creations: what threads can see
(their status, their counts and who runs) changes only by steps of `Threads`, by
the store that publishes a new thread, or once `create_thread` has done one of the
two things of [Findings](#findings). `TrapImplementsThreads` is
`ImplementsThreads` itself, under the hypothesis `MaxCreate = 0` of the run that
checks it, since `Threads` has no creation: what the scheduler does once its
threads exist.

**`ScreenProofs`.** `QuietIsCurrent` says nothing of the states in which a flush is
under way. `LateIsCopied` does: a byte that is out of date and not in `torn` will
still be brought up to date by a flush that is before it, or that has loaded its
current value (`WillCopy`); `Versions` bounds what may be loaded. From them come
`ScreenTyped` and `ScreenIsCurrent`.

**`PaintProofs`, the codec.** Encoder and decoder are related by a chain of links (`Chain`): the
states between two chunks, from the first, each with the place in the data, the
number of pixels, the last pixel and the index. `Linked` says what chunk leads from
one to the next. The chain is a witness of `Coding`, appended to at each chunk, so
no induction over the data is needed. The encoder is at the last link
(`Encoding`); while it has chunks, the decoder is at one of them, or in the run
before it (`OnTheWay`, `Follows`). Its index may differ from the encoder's where
the encoder's is still empty (`Agree`): a run of the first, opaque pixel puts it in the decoder's index
only. No chunk refers to such a place, because a place that is empty holds
`Zero`, and the only pixel for which `Zero` would be taken has the hash 0
(`Known`). That one chunk is decoded to the pixel it stands for is
`ChunkIsDecoded`, with the wrapping of both differences. A decoder that starves
has read a place before the last link, so the data was cut. `QoiStaysInside`
follows from the place of a link: at most five bytes a pixel, or four when all
are opaque, behind the header. Together: `QoiTyped`, `QoiStaysInside`,
`QoiRoundTrip`.

**`PaintProofs`, the picture.** The codec runs inside `Paint` as it does alone
(`PaintRunsCodec`), so its theorems hold there. `PaintInv` adds that the loop
indices are on the screen and in the image or rectangle (`PlaceInImage`,
`PlaceInRect`), which gives `PaintTyped` and `PaintsInside`; that a blend of bytes
is a byte, and the mean, is `BlendIsByte`. `PictureInv` extends `PictureIsRight` to every step:
`SoFar` is what a place shows now, with `Ground` in place of the image
as far as it has been painted, and the rectangle where it does not still pend
(`Pending`). The pixel that `fill_rect` has read is the place's own, without
text that was drawn since (`Read`). The rest is one lemma per group of actions, that
the place painted changes as it should, and no other does (`PutPlace`, which needs
that two places never share an index). `PicturePainted` is the result.

**`ConsoleProofs`.** `GlyphsOnScreen` speaks of what has just been drawn;
`IInv` adds where the cursor may be so that the next glyph fits too. Each of its
four parts is kept by each store of `fkprintf_set_cursor` alone, which is why
printing between them is harmless; `LowerIsRow` is the argument for the restart.
From it come `TypeCorrect` and `GlyphsStayOnScreen`.

**`FwCfgProofs`.** `FrameOutlivesTransfer` becomes inductive with what ends a wait:
while the device has a record, the control word still has a bit other than ERROR
set (`Attended`). `FindsFile` needs to know, at each transfer, what was asked for
and, once the data has moved, what has been brought (`CountTransfer`,
`EntryTransfer`, `ConfigTransfer`), and how far the search is (`Search`): the first
`e` entries have been looked at, and `select` is what came of it. All of that is
void after an error; that counts and selectors keep their 16 bits, and an entry
that is read is one of those counted, is not. From it come `TypeCorrect`,
`FramesOutlive` and `FileIsFound`.

**`BootProofs`.** Every step of `Boot` is a step of `FwCfg` or leaves the driver
alone (`BootRunsDriver`), so `FramesOutlive` and `FileIsFound` hold of the whole
kernel. Every step is also a step of `Malloc` or leaves the heap alone
(`BootKeepsHeap`); for that no request of `Script` may wrap `ALIGN`, which
`Kmallocs` shows, so that `HeapAssumption` holds and the lemmas of
`MallocProofs` can be used with the kernel's constants. `FrameApart` combines them
with where `heap_end` and `fb_addr` can be (`Placed`): all blocks and pointers end
before `heap_end`, which is where the frame buffer starts or before.

What `Malloc` does not know is who frees what, and when. `KInv` says what
`kernel_main` has made of the heap at each place of the script: every block has a
name (`Blocks`), is where the order of the calls puts it (`Place`) and is there
from `Born` to `Dies`; `busy_mem_size` is the sum of the blocks' shares
(`Counts`). At each `kmalloc` what is held lies side by side from the start of the
heap (`Packed`), so by `Malloc`'s layout, in which no two neighbours are free, one
single free block lies behind it, and it reaches to the end of the heap
(`Frontier`, from `FrontierIsFree` of `MallocProofs`). That block is large enough:
`kmalloc` never returns `NULL` (`NeverNull`), and the pointer it returns is where
`Place` says (`TakeKeeps`). A `kfree` is always of a name with a block, and takes
just that away (`KfreeKeeps`). Steps off the heap keep all of it (`Onward`), the
jump over the setup of the screen included, which is the one way for `back_buffer`
to be `NULL` (`NoScreen`); that, or a thread that `create_thread` has struck, is what
every panic comes from (`Panics`). From `KInv` come `BootTyped`, `BootPanics` and
`HeapBalanced`, for every end of the kernel's image.

**`FormatProofs`.** Three definitions of `Format` are recursive: the concatenation of
the pieces (`FlattenSeq`), the value of a number's digits (`FoldLeft`), and the
figures themselves, which `Positional` gives by their value and not one by one. By
induction there is a function that says what the first `k` pieces amount to
(`Fronts`, `Upto`; `FlattenIs`), and one that says what the first `k` digits are
worth (`IsValues`; `ValuesExist`), of which no value but that of no digits is 0 when
the first digit is not (`PositionalValues`).

The invariant `IInv` says where a call is. In `"scan"`, between two characters of a
piece of plain text, in front of a piece, or at the end (`Scanning`); everything
before has been printed and its arguments are used up (`DoneAt`, `TextAt`). That a
`%` which the interpreter meets is the beginning of a piece, and that the character
behind it decides which (`AtConversion`, `Kinds`), is what makes each conversion take
its own argument. In `uitoa`, `Writing` relates the buffer to the figures that are
meant: the digits so far are the last figures in reverse order, and `num` is worth
the others (`DigitWritten`); so the loop ends with all figures, neither earlier nor
with a leading zero (`DigitsWritten`), and each swap of `reverse` puts two where they
belong (`SwapWritten`, `Written`). `PrintsMeant` is the result, for all formats;
`StaysInFormat` is the safety half of `StopsAtTerminator`. `BufferSuffices` says that
the 24 bytes which `kprintf` and `kprint_ui` give to `uitoa` are enough for a word of
64 bits: twenty-one digits would be worth more (`FiveDigits`, `TwentyDigits`). The
run, with its 16 bits, could not show that. `PieceSeen` says that what comes of a
piece can be seen if what is given with it can.

Only model-checked are the liveness properties `KmallocReturns`, `NoStarvation`,
`SleepersWake`, `DrawnIsShown`, `KernelGoesOn`, and of `StopsAtTerminator` that it
stops: liveness under fairness is beyond the prover. So are, by their nature, the
four runs that end in a counterexample.

## Findings

Four runs end in a counterexample, two of them in `create_thread`:

1. `trap_sleep_count`. The slot becomes ALIVE in line 190 and its
   `sleep_sys_ticks` is zeroed in line 191. A timer interrupt in between runs
   the new thread; if it calls `ksleep`, its count is lost, the next tick wraps
   it to 2^64 - 1, and it sleeps for ever. In the same window line 193 overwrites
   `a0` of a thread that was preempted in the middle of its own code; that is why
   `ContextIsOwn` exempts such slots too.
2. `trap_reuse`. Reusing the slot of a thread that has exited passes
   `sp - stack_size` to `kfree`. That is the stack's block only while `sp` is
   its top; after the thread has run, `sp` is what the last trap saved.
3. `screen_torn`. A flush preempted between loading and storing a byte undoes
   that byte of a later flush. All are asleep, and the screen is not what
   `back_buffer` holds, until somebody flushes again.
4. `boot_message`. `kernel_main` prints that the setup of ramfb was successful
   whatever became of it: when the device has no such file, after the line that
   says so, going on without a back buffer until the first pixel panics; and when
   `qemu_cfg_dma_transfer` has taken a transfer that ended in ERROR for done, with
   nothing configured.

Publishing the slot last cures the first; keeping the pointer `kmalloc` returned
cures the second. `kernel.c` itself creates two threads and reuses no slot, so it
can meet the first only if the timer fires in a window of a few instructions; `Boot`
lets it, and its properties say of which thread they then promise nothing.

## Not modelled

The shapes of the glyphs: `Format` has which of them are equal, `Paint` has two of its
own. `draw_font_string`, `qoi_encode` outside `Qoi`, and most of the accessors at
the top of `qemu_dma.c` have no caller. `qoi_read` and `qoi_write` are compiled
out. In `Screen` only `fkprintf` draws; the other drawing is `Paint`'s. `kmemset`
is a byte loop whose result is used in `create_fill` as the assignment it
performs. A second caller of the heap, or a second creator of threads, does not
exist in this kernel, and neither does a second hart. No caller asks `kmalloc` for
so much that `ALIGN` wraps, changes the scale of the console, prints a character
above 127 or copies more than an `int` can count; the assumptions of the modules
say so where it matters. Build files and scripts are
not part of the running system.
