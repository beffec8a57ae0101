# A verification project for Mik-OS

TLA+ models of the two Mik-OS kernels and the tools around them, the TLC runs that
check the models on small instances, and proofs that TLAPS checks for every instance.

The repository holds two generations of one teaching system. The older is a
64-bit machine of its own design: an emulator (`mik-emu`), an assembler
(`mik-asm`) and a kernel written with it (`mik-os`). The newer and larger is a
freestanding x86-64 kernel (`mik-os-x86/kernel`) with preemptive multitasking,
copy-on-write fork, demand paging, a console shell and a disk file system.

## The system

| Component | Source | State | Operations | Hard part |
|---|---|---|---|---|
| Scheduler | `sched.rs` | `PROCS[4]` (state, saved frame, page table, kernel stack, brk, fds), `CUR`, `SCHED_ACTIVE`, `IN_IDLE` | `schedule`, `start`, the system calls, `timer_handler`, `wake_on_input` | the idle loop runs with interrupts on inside a handler |
| Interrupt entry | `isr.S`, `pic.rs`, `seg.rs`, `idt.rs` | the frame on a kernel stack, `TSS.rsp0` | save, call the handler, resume the frame it returns | a frame is a pointer into a stack |
| Input buffer | `input.rs` | a ring of 64 bytes | `push` (from handlers), `pop` (from `sys_read`) | wrap-around, full buffer |
| Keyboard, UART | `kbd.rs`, `serial.rs` | shift flag; the UART's FIFO | IRQ1, IRQ4, `drain_rx` | an edge that is missed, two keys with one flag |
| Text console | `vga.rs` | cells, cursor | `put_byte`, `scroll` | a line that is erased or scrolled |
| Shell and programs | `user.S` | a line of 63 bytes | read, edit, echo, dispatch | three copies of one line |
| User memory | `mem.rs`, `e820.rs`, `sched.rs` | memory map, free list, page tables, TLB, `brk` | `init`, `clone_user_table`, `map_4k`, `pf_handler`, `exec_image`, `sbrk`, `switch_cr3` | two page tables and a TLB that must agree |
| Mik-FS | `fs.rs`, `ata.rs` | superblock, directory, data; cached directory, `NEXT_FREE` | `init`, `find`, `create`, `truncate`, `read_at`, `write_at`, `read_file` | several sectors per operation, power cuts, drive errors |
| Descriptors | `sched.rs` | `fds[4]` per process | `open`, `close`, `fread`, `fwrite`, `exec_file`; `fork` copies | shared files, independent cursors |
| Boot, PCI | `boot*.S`, `stage2.S`, `pci.rs` | none that outlives them, but the memory map | run once, or print only | not concurrent |
| Image builder | `mik-os-x86/src` | none | file layout | host-side |
| Mik-64 machine | `mik-emu` | registers, `epc`, mode, mask, timer, TLB, memory | instructions, `TRAP`, faults, ticks, `ERET`, `SRET` | a tick pending while masked, a stale TLB |
| Mik-64 kernel | `mik-os` | two slots, current slot, page bump pointer and free list | link, boot, dispatch, `sched_save/pick/restore`, fork, exec, exit, demand paging | every handler shares `epc` and the registers |
| Mik-64 assembler | `mik-asm` | items, labels, the output | two passes over a text | the passes must count alike |

How they interact: `kmain` initialises the parts in a fixed order, spawns three
processes and calls `start()`, which never returns. From then on everything
happens in handlers, which run with IF=0 and so exclude each other: device
handlers push bytes and wake readers; the timer drains the UART and preempts;
system calls read and write the process table, the page tables, the screen and the
disk. The exceptions to the exclusion are the idle loop of `schedule()` (a handler
that turns interrupts on) and the window `sti; nop; nop; nop; cli` of `start()`.
The Mik-64 kernel is a binary that `mik-os` emits word by word, with programs that
`mik-asm` assembled behind it; `mik-emu` runs it.

What makes each part correct:

* **Scheduler**: nobody blocked while there is input; registers (`CUR`, `rsp0`,
  CR3) always of one process; saved frames resumable; no starvation.
* **Input buffer**: first-in first-out, loses a byte only when full.
* **Console**: each Enter runs the command that was typed, and the screen shows the
  line being typed.
* **Memory**: each process has a private memory of usable RAM; the TLB never grants
  what the page table does not; a fault the kernel can repair never stops the machine.
* **Mik-FS**: files do not overlap, survive restarts, and a length never counts
  a byte that was not written; descriptors mean what they meant when opened.
* **Mik-64**: a program finds its registers and pc again after any trap, fault or
  tick; a handler's `epc` is its own; the TLB is a cache; nobody starves.
* **Mik-64 build**: a label is where its source says; the kernel finds the programs
  behind it, maps itself, and enters the program it was given.

## Modules

| Module | Models | Checked by |
|---|---|---|
| `ByteQueue` | abstract: a bounded first-in first-out queue that drops what does not fit | (`InputRing`, `Sched`) |
| `InputRing` | the ring of `input.rs`; implements `ByteQueue` | `MCConsole`, `InputRingProofs` |
| `Console` | keyboard decoder, ring, shell and screen together; extends `InputRing` | `MCConsole`, `ConsoleProofs` |
| `Sched` | scheduler, interrupts, blocking reads, idle loop, `start()`; uses `ByteQueue` for the buffer | `MCSched`, `SchedProofs` |
| `PrivateMemory` | abstract: one memory per process, fork copies it, fresh heap pages are zero | (`CowMemory`) |
| `CowMemory` | memory map, frames, page tables, COW, demand paging, exec, sbrk, TLB; implements `PrivateMemory` | `MCCowMemory`, `CowMemoryProofs` |
| `FileStore` | abstract: named byte sequences, descriptors with cursors | (`MikFs`) |
| `MikFs` | the disk, the cache, every operation of `fs.rs` and the descriptor calls; implements `FileStore` | `MCMikFs`, `MikFsProofs`, `MikFsStoreProofs` |
| `Mik64` | the Mik-64 CPU and `kernel_os` on it | `MCMik64`, `Mik64Proofs` |
| `MikIsa` | an instruction word: its encoding, its immediate, where a branch goes | (`MikAsm`, `MikLink`), `MikBootProofs` |
| `MikAsm` | `mik-asm`: both passes and their errors | (`MikBoot`), `MikBootProofs` |
| `MikLink` | the one-pass assembler of `mik-os` with its fixups, and the patched words | (`MikBoot`), `MikBootProofs` |
| `MikBoot` | assembling, linking and booting each kernel up to user mode; composes the three above | `MCMikBoot`, `MikBootProofs` |

Operators named `X_Something` next to `X` are broken versions of `X`, each a
plausible bug; replacing `X` by one must violate the property it is paired with
in `PROJECT.json`, which shows that the property says something about the code.

### Sched

One CPU; a handler is one action, except that the idle loop is cut at the points
where an interrupt can arrive. `cpu` says what the CPU executes:

| `cpu` | Code |
|---|---|
| `boot`, `latch` | `start()` before and inside its interrupt window (sched.rs:565-575) |
| `user`, `reread` | ring 3; at the `int 0x80` of a rewound `sys_read` |
| `halt`, `scan`, `rehalt` | the idle loop at its `hlt`, before and after the scan (163-166) |
| `cleared`, `switched` | after `IN_IDLE = false`, and after CR3 is loaded (167-171) |
| `dead` | "all processes dead" |
| `corrupt` | a frame inside an idle loop that no longer exists was resumed |

A saved frame is abstracted to where it resumes; page tables and kernel stacks
are names, fresh when allocated. `RxArrive` sets `irq4` or not, because the edge
may be missed (serial.rs:30-33). `Spinners` are programs that make no system
call: the deployed system has one, program B.

### Console

Bytes are ASCII codes. `KbdIrq` is the keyboard handler (decode, then push),
`DrainRx` a byte of the serial port, and a shell action is what `user.S` does from
one `sys_read` to the next: a byte dropped, stored, erased, or a line run. `PutByte`
is `put_byte` with its scrolling. What a command finds in the file system is
`MikFs`'s subject; here it prints one of a few replies. The first prompt comes behind
what the other processes printed before it. The history variables hold the shift keys
that are down, the bytes the ring took, the commands run and (`plain`) whether the
prompt began at the left edge and only the shell has written since, printable bytes.

`ScreenShowsLine` is claimed while `plain` holds. A tab or another control byte is stored
in the line and not drawn, so that erasing it takes back a character on the screen that
is still in the line. A reply or another process's output that does not end with a line
feed has the prompt begin in the middle of a row, and a full line then wraps: backspace
stops at the left edge of a row and rubs out nothing there (vga.rs:20).
`ConsoleAssumption` says what the code's constants are: the prompt and a full line fit
on a row, the commands' words are printable and hold no space, and every command has a
reply.

`RunsAsTyped` compares what was run with what was typed, without the ring, the buffer
or the comparisons of the code: `Meant` is the line a sequence of bytes means, `Means`
the command a line means, and `Named` the name and the text behind it.

`NoStuckShift` says that shift is off when every shift key is up. Its converse is not
what the code does: one flag serves two keys, and releasing one of them while the
other is held gives small letters.

### CowMemory

A page table is its leaf entries (`map`, `wr`). The TLB may fill and evict at any
time and accesses go through it, so a missing flush is visible. `PageFault`
contains the whole of `pf_handler`. Any live process may run next: who does is
`Sched`'s subject.

`Seeded` is `mem::init`: the frames wholly inside a usable entry, above 1 MiB and
outside the kernel image; `FallbackMap` is the map of a boot without BIOS. Frames are
taken from the top, as from the code's stack of free frames. The frames that hold
page tables and kernel stacks, and those of the sanity check at boot, are not counted,
so the model runs out of frames later than the code; what happens then (the panic) is
the same. `Sbrk` has the 64-bit sums: the kernel is built with overflow checks, so a
sum that wraps panics; `Sbrk_Wraps` is a build without them.

`MapAssumption` says what the code takes for granted of the firmware: usable entries do
not overlap each other and end inside the identity map of 1 GiB. The code looks for
neither: where they overlap, `init` would push a frame twice and so hand it out twice;
RAM above 1 GiB would be written by `free_frame` through an address that is not mapped.
Entries of any other kind may lie anywhere, as the reserved ones near 4 GiB do: `init`
skips them. (It does not subtract them either: `FramesAreUsable` speaks of what the
usable entries say.)

### MikFs

An operation changes the cache at once and leaves its sector writes in `todo`;
`PowerOff` may come before any of them when `Faults` contains `"power"`. A drive
error on a write leaves the sector written or not; `"absent"` is a machine without a
disk. The bytes of a file are kept by extent; `Blank` is what a sector holds that
nobody wrote. System calls are atomic (they run with IF=0), so the next one starts
when `todo` is empty. `MaxNext` bounds the extents ever handed out.

Errors while `init` runs (`"mount"`) are in the model and left out of the runs: there the
code loses files. A superblock that cannot be read counts as one without the magic, and
the directory of a good disk is overwritten, although fs.rs:180-181 says that only a
missing or wrong magic formats; a directory sector that cannot be read counts as empty.
With `"mount"` in `Faults`, TLC finds `FilesStay` violated at once.
Names that start with NUL (`NulNames`) are in the model and left out of the runs: the
entry of such a file still counts as unused, the next `create` takes it, and a
descriptor then denotes another file. No document says what such a name should do.
`find` compares as many bytes as the name it looks for has and one NUL behind them
(fs.rs:68-73), so a stored name that goes on behind a NUL is found under its beginning:
`AlsoFound` has the pairs. `fs_faults` has one; `fs_store` and the proofs about which
file a name means have none.

### Mik64

A kernel step is one labelled block of the hand-written assembly (`sched_save`,
`sched_pick`, ..., each an action of that name), a user step one instruction.
`Deliver` is the first test of `Machine::step`: it may come before any step whose
interrupts are open. The timer counts instructions, so each step says how many it
stands for: `Cost` gives the straight blocks, `LoopCosts` the possible lengths of
those that copy or walk. The invariants do not depend on these numbers except
through `MachineAssumption`: a context switch fits in an interval.

The fourteen registers are three groups: `xc` (x1, x3, x10, x11), which the
comment at `mik-os/src/lib.rs:15-18` says every trap or fault clobbers; `x2`, the
argument and result of a call; `xk`, the rest. x15 never holds anything of a program. A
fork cuts in two where its child is filled (`ForkSlot`) and where its tables are
built (`ForkBuild`). One page stands for a chain of page tables. The variable
`own` is history: what each process is entitled to find in its registers and pc.
It is written by user instructions and by faults only, from what the call or the
comment promises, and `ContextKept` compares it with what the kernel hands back.

Demand paging leaves its page-table entry in x2, which that comment and
`user/init.s:3` do not list: `ClobbersAreDocumented` states their list, and
`mik64_fault` shows it violated, the finding below. `ContextKept` is what does hold: the
list, but for x2 in an instruction that is retried after a fault (`paged`).

A program's pc is one of three addresses: `u0`, where it starts, `u1` in the same page, and
`v` in the demand page, so that an instruction fetch can fault as well (`FetchFault`),
be served, and run from a page that was handed out zeroed.

Bounds: `Calls`, `Computed`, `Touched` and `Targets` choose what programs do (every
call number, a write to x2, loads and stores to the code page, a data page, a kernel
page and one outside, where they go next); `MaxPage` is where memory ends: a demand fault
that needs a page beyond it stops the machine, a fork that does is left out; and with
`ForkWhenFull` FALSE a program forks only while the other slot is dead, as the
shipped `init` does: the code does not look, and a second fork overwrites the other
process.

### MikIsa, MikAsm, MikLink, MikBoot

From a source to user mode. `MikAsm` takes lines that are already cut into label,
mnemonic and operands, and has a step per line of each pass and every way `assemble`
fails; a word is a record with its immediate reduced to a signed span. `MikLink` is
the same for the `Asm` of `mik-os`: the calls that emit a kernel, the fixups, and the
words patched with the addresses and lengths of the programs. `MikBoot` adds the
boot code, a block per step: the bump allocator and the free list, the identity map,
the tables of the first process, the copy of the program, and the variants
`kernel_binary`, `kernel_freelist`, `kernel_user_mode`, `kernel_timer` and
`kernel_os`. A page is seen as words (a table, a free page) or as bytes (a program).
`BodyOf` says which kernels a variant emits: `kernel_os` has the four words that are
patched, the others put their program behind the last label. `handed` counts how often
a page was handed out and not freed. `IsProgram` says which lines the first pass can be
given, and that every address of a program stays below half the span of an immediate,
as the code takes for granted when it casts an address to one.

Three things the code does are in the model and not in a property. A label behind the
last item makes `mik-asm` panic (lib.rs:87), and so does a `.string` whose text is only
a comment, of which one quote is left to slice (`LoneQuote`, lib.rs:336). And a program
of no bytes makes the copy loop of `kernel_os` miss its end (`CopyOverruns`): it copies
what lies behind the program over the user page and up to USER_VA, which the kernel's
table does not map. `pf_handler`, which has no process to serve yet, takes the store for a
demand fault, writes its entry to address 0 and returns into the loop with the registers
it used: seven more bytes go over the kernel's code at `pf_alloc_ret`, the loop ends, and
boot enters user mode with bytes that are nobody's program. The model keeps of this the
pages, the page handed out and the switch to user mode, and not what later faults do in
the damaged handler. So `RunsItsProgram` is claimed for programs of at least one byte;
`BootAssumption` has MetaPage far enough below `UserPage` for the pages of a boot.

`LabelsLand` allows what the assembler does
when a `.string` whose length is no multiple of eight lies between a branch and its
label: the branch lands up to a word short of it (lib.rs:301).

## Runs

| Run | Instance | States | Shows |
|---|---|---|---|
| `console` | 6 keys, ring of 2, line of 3, 2 rows of 5, 5 bytes typed | 546 k | what is typed is what runs and what the screen shows |
| `sched_deployed` | 4 slots, 3 processes, one spinner | 86 k | the system as shipped: safety and liveness |
| `sched_idle` | 2 slots, nobody spins, 2-byte buffer and FIFO | 18 k | the idle loop, both readers blocked, slot reuse, overflow |
| `sched_idle_race` | 2 slots | small | **finding**: the idle loop's window |
| `cow_memory` | 2 slots, 1 image page, 1 heap page, a firmware map and the fallback | 1.6 M | private memories in usable RAM, fork of fork, exec, exhaustion |
| `fs_store` | 2 files of 2 bytes, 2 processes, restarts | 426 k | refinement of `FileStore` |
| `fs_faults` | 2 files of 1 byte, 2 descriptors, power cuts, read and write errors, no disk | 392 k | what survives them |
| `fs_power_create` | power cuts | small | **finding**: two files in one extent |
| `mik64` | 2 slots, interval 3, 6 pages, a 2-entry TLB | 983 k | context, TLB, separation, preemption, with slots reused |
| `mik64_fault` | the same, 4 pages | small | **finding**: a page fault takes x2 |
| `mik64_yield` | interval 100, the blocks' real lengths | 20 k | **finding**: a yield loop starves the other process |
| `mik_build` | every program of up to 3 of 13 lines, 5 kernels, tables of 6 entries | 57 k | labels, patched words, page tables, the copied program |

Why the bounds suffice. Two readers are what it takes to lose a wakeup meant for
one of them; four slots with three processes let `fork` reuse a slot while others
wait. A ring of two wraps and overflows with five bytes typed, among them Enter,
erase, both cases of a letter and a byte that is stored and not drawn; a line of three
fills up behind a command and its argument, and two rows scroll at the second Enter.
Two slots, with exit and fork again, give a page shared by three page tables
(a dead one among them), and five frames are two generations of copies and then
none; the firmware's RAM begins and ends in the middle of a frame, a reserved area lies above
what is mapped, and the kernel's
end is not on a boundary either. Two one-entry directory sectors make every
multi-sector order possible, and two-byte files have a position before, at and after
the end; with every fault at once one byte and one process with two descriptors keep
a writer, a second writer that truncates, and a file to be lost. In `mik64` the
shortest interval that a switch fits in makes a tick fall on every boundary, in
two TLB entries the code page and the kernel evict each other, and six pages are
two forks, the second into a slot whose process has exited, or one fork and two
demand pages. In `mik_build` three lines are a label, what refers to it and what lies
between, and tables of six entries have the kernel's four, the program's and one that
is empty. Where a property holds for other reasons than the bound, the proofs
below say so.

Deadlock is checked in `sched_deployed`: with a spinner the system never stops.
It is not in the others, since the code stops there: all processes may exit, the
shell may quit and the typing end, the machine may halt on a fault, a boot ends, a
corrupt frame is the end of the model. `Mik64` stops when the machine halts, and
when a program needs a page beyond `MaxPage`.

### Fairness

`Sched`'s `FairSpec` assumes the machine and nothing of the programs: the PIT ticks
and a tick is accepted (weakly fair: it is enabled in every state with IF=1, and the
states without are `boot`, which is left by `start()`, and the dead ends); the
idle loop and `start()` execute; and a process at its rewound `int 0x80` executes
it some time between two of infinitely many resumptions (strongly fair: ticks are
10 ms apart, one instruction is enough). Programs may spin, yield or exit; bytes
need never arrive, and IRQ4 need never be delivered.

`Console` is weakly fair to the shell, which `Sched`'s `ReadyRuns` justifies: a shell
with a byte to read is READY and runs again. Nothing is assumed of keys or serial
bytes.

`Mik64`'s `FairSpec` is weak fairness of `Next`: the emulator's `run` loops until
the machine halts. Which instruction a program executes is left open; the timer
is deterministic, so preemption needs no fairness of its own.

## Findings

* **sched.rs:167.** The idle loop clears `IN_IDLE` with interrupts on, four
  statements before it returns. A tick there passes the gate, and `schedule()`
  saves the idle loop's own ring-0 frame for the process it is leaving; when that
  process is dispatched, its user context is gone. `sched_idle_race` gives the
  trace: block, a key, tick. The deployed system does not meet it, because
  program B never blocks and the idle loop is never entered
  (`SpinnerProtectsFrames` proves that this is the reason). The comment at
  sched.rs:160-161 claims the gate prevents exactly this.
* **fs.rs:90-91.** `create` flushes the directory entry and then the superblock.
  A power cut in between gives the next file the same extent.
* **mik-os lib.rs:331.** A yield is served with interrupts masked while the timer
  counts, and the switch does not renew the slice. "One instruction, yield" takes
  exactly 100 steps, the interval (lib.rs:861-862): one instruction, the trap, 9 to
  dispatch and 45 to switch, then 44 to switch back, because the tick that became
  pending on the way is taken before the other process executes anything. So every
  tick of the loop falls. `Preemption` says that programs which compute instead
  of calling are preempted as documented.

* **mik-os lib.rs:375.** Demand paging builds the page-table entry in x2 and returns to
  the faulting instruction with it there. A program that holds a value in x2 when it first
  touches a page loses the value, although lib.rs:17-18 and `user/init.s:3` list only x1,
  x3, x10, x11 and x15. `mik64_fault` gives the trace. `prog1` is not hurt: it has nothing
  in x2 when it faults.

Smaller things the models show without a run of their own are listed as hazards
in `PROJECT.json`: `create` never finds the disk full (fs.rs:76-77 says it does),
`open` for writing truncates before it finds no descriptor, names that start with
NUL, the superblock or directory sectors unread at mount, the shared shift flag, bytes stored and not
drawn, `sys_fork` over a live slot.

## Proofs

All proofs are checked by TLAPS for every value of the constants that satisfies
the named assumptions of the modules (`RingAssumption`, `QueueAssumption`,
`ConsoleAssumption`, `SchedAssumption`, `MemoryAssumption`, `MapAssumption`,
`DiskAssumption`, `MachineAssumption`, `IsaAssumption`, `SourceAssumption`,
`KernelAssumption`, `BootAssumption`). What a theorem assumes beyond them is in its
statement. Every safety property of a passing run, state or action, and each of the three
refinements is the subject of one.

* **`InputRingProofs`**: `RingTypeCorrect` (no index leaves the array) and
  `RingImplementsQueue`. The mapping takes the ring to the sequence of its bytes;
  the two lemmas are that a push appends and a pop removes the first.
* **`SchedProofs`**: `TypeCorrect`; `NoWakeupIsLost`, which with types is
  inductive, since every handler that pushes also wakes; `RunningIsConsistent`,
  from the invariant `LoadInv`: while `cpu` is in ring 3 or about to return there,
  the three registers are those of one process, and a tick saves frames of that
  process only; `TablesArePrivate`, from freshness of names. Then the deployed
  system, `ASSUME Spinners # {}`: `SpinInv` says the spinner stays READY, so
  `schedule()` never idles, so no idle frame exists to be saved; from it
  `SpinnerProtectsFrames`, `SpinnerKeepsRereads`, `SpinnerKeepsRoundRobin` and
  `SpinnerKeepsRunning` (the idle loop is never entered, the machine never stops).
  `NobodyElseTouches` needs no such assumption: types are enough to see, handler by
  handler, that only the running process leaves the READY state or is saved. Neither
  does `StopsOnlyWhenEmpty`: the machine stops with an empty table or not at all.
* **`ConsoleProofs`**: `ShiftNeverSticks`, from the invariant that a set flag has a
  shift key that is down; and `ConsoleUsesQueue`: every step of the decoder, the
  serial port and the shell is one of the ring, so that `RingImplementsQueue` applies
  to the console as a whole.
  `ScreenAlwaysShowsLine`: `ScreenInv` is the property with types, the ring's and
  the line's. What the shell prints goes through `PutByte` byte by byte, so it has a
  path of screens; the lemmas follow the path by induction on its length, for text that
  stays on a row and for text that ends with a line feed and the prompt, scroll or none.
  `AlwaysRunsAsTyped`: `RunsInv` adds `TypedInv` (what was typed ends with the byte in
  hand and the bytes in the ring) and `Heard` (what the shell has dealt with, the commands
  it ran and its line agree), which is kept by each kind of byte: a byte of a line extends
  what the line means, an Enter is the next of `Ends` and gives one more command.
  `RunIsMeant` is the heart of it: what the shell's prefix comparison, its split at the
  spaces and its dispatch make of a line is what the line means. From `RunsInv` follows
  `NeverOwesAnEnter`: a shell that waits at an empty ring has run one command for each
  Enter the ring took. It is the safety half of `EnterIsAnswered`; what is left to
  fairness is that the shell gets there.
* **`CowMemoryProofs`**: the inductive invariant `MemInv` is the conjunction of
  types, `SharedIsReadOnly`, `FreeIsUnmapped`, `TlbCoherent`, `MappedBelowBrk` and
  `OnlyBadAccessHalts`, with what ties them: a frame taken from the free list is
  mapped nowhere, so a new writable mapping is private; a PTE changes only with
  a flush. Most steps are one of two shapes, "a fresh frame is mapped"
  (`RemapInv`) and "tables unchanged" (`QuietInv`). `OnlyUsableFrames` adds that a
  frame in use was seeded from the map of this boot, and that a seeded frame lies in
  usable RAM. `FaultsAreInvisible` says what one fault does. `MemoryIsPrivate` is the
  refinement of `PrivateMemory`: faults are stutters because the frame put behind a page
  holds what the page showed.
* **`MikFsProofs`**: `TypesKept` holds under every fault; with it `Quiet` says what
  may be open, pending and cached while the power is off, `init` runs or there is no
  disk. `HandlesStayNamed` and `WritersLeaveNoGap` (`ASSUME NulNames = {}`) hold under
  every fault: an entry is never unnamed while the power is on. `CountedBytesAreWritten`
  (`NulNames = {}` and no `"mount"` errors) needs more than itself: both directories
  count written bytes only, and the seeds still to be written come in order
  (`Ordered`), or a length could jump over one. `FilesAreKept` (no `"mount"` errors):
  the cache agrees with the disk on every file of the disk, and a disk without the
  magic has no file. `SyncInv`, inductive under power cuts and read errors (no
  `"mount"` and no `"write"` errors): what the disk lacks of the cache, the count and
  the magic is among the pending flushes, those of `init`'s seeding included.
  Hence `CallsAreDurable` (a call that returned is on the disk) and `CutsCostOneCall`
  (the directory on the disk is one entry behind at most, so that a cut loses
  one call's effect). `ExtentsAreDisjoint` (`Faults \subseteq {"absent", "read"}`): no
  two files of the cache share an extent; those of the disk are disjoint too,
  since by `SyncInv` they are the same files when nothing is pending.
* **`MikFsStoreProofs`**: `FileStoreImplemented` (`ASSUME NulNames = {}, AlsoFound = {},
  Faults = {}`), the refinement of `FileStore`. Its invariant is the conjunction of
  two of `MikFsProofs`' with `StoreShape`: the directory that counts (on the disk while
  the power is off, else the cache) has every name once and as many as extents are handed
  out, no process runs before `init` is done, and the seeds come in order. Each system
  call is a step of the store with the same arguments, the flush of a sector is a stutter,
  power that goes is a restart, and the seeding at the first mount is the store's own.
  Part of it holds with faults. `FilesSurviveRestarts` (no `"mount"` and no
  `"write"` errors), from `SyncInv` and the invariant of `FilesAreKept`: whatever was
  cut before, a restart between two operations shows every file with the bytes it had.
  `NamesStayUnique` (no `"mount"` errors; power cuts, write errors and any names):
  `NamesInv` adds that the seeds still to be created are not there yet (`SeedsNew`): a
  cut during seeding leaves none to a later boot, which finds the magic and mounts.
* **`Mik64Proofs`**: `MaskInv` says who runs and who may be interrupted: a handler
  is in supervisor mode, masked, and was entered from a program; with interrupts
  open the machine is in a program or before its first `SRET`, when the timer has
  not expired. It is inductive and gives `HandlersAreMasked` and, since only a way
  out of user mode writes `epc`, `EpcIsStable`. `TlbInv` adds that the TLB agrees
  with the table in PTBR; a new table is at a page no PTBR names (`NewTable`), a
  change of the current one flushes; hence `TlbNeverStale`.
  On both rest the others. `MachineTypeCorrect`: the timer's counter
  wraps within its interval whatever a handler costs. `PagesAreSeparate`: pages are
  handed out upwards, so a new table or page is none of those in use (`Separate`); a
  slot that a fork is filling counts only when its tables are built. `OtherIsUntouched`
  (`ASSUME ForkWhenFull = FALSE`): every store of a process goes through its own
  table, and a fork finds the other slot still free (`RoomToFork`). `ContextIsKept`:
  `ContextInv` says for each block of the kernel where the context of the current
  process is at that moment (registers and `epc`, the slot, or half in each), and
  that the slot of the other process holds all of its context; x2 is excepted where a
  fault has just been served.
* **`MikBootProofs`**, for every kernel, program and size of a page table.
  `PageInv` says at each block of the boot code which pages are handed out (`Bumped`:
  all up to a number, `Freed`: one of them is on the free list) and which tables hold
  what (`KernelRoot`, `KernelTables`, `UserMapped`); it gives `PagesHandedOnce` and,
  walking the two tables, `KernelAlwaysSeesItself`. `BuildInv` follows the one-pass assembler: `CodeInv`,
  `NamesInv`, `FixInv` and `SlotInv` say what the calls emitted so far have left in the
  code, the names, the fixups and the slots, `ResolvedInv` which fixups are resolved, and
  `LinkedInv` what the image is made of and what its patched words hold. From it
  `KernelLabelsAlwaysLand`, `ProgramsAlwaysFound` and `AlwaysRunsItsProgram`. `AsmInv`
  is the same for the two passes of `mik-asm`: an item has the size its line takes (`ItemsInv`),
  is placed as far behind the base as in the source (`PlaceInv`), a label is at the item
  that follows it (`LabelsInv`, `AddrsInv`), and the output is the placed items; so
  `LabelsAlwaysLand`, which rests on the two passes counting alike.

Where a definition recurses over a sequence (`Writes`, `Meant`, `Joined`, the offsets of a
program), the proofs avoid the induction theorems, which take an operator: they work
with any function that satisfies the recursion, or obtain the least counterexample in a
set of numbers (`WFMin` and `NatLessThanWellFounded`, or `FirstIsLowest`).

Some theorems state properties that no run lists, because the theorem is the stronger
check: `TablesArePrivate`, `HaltsAreDeserved`, `FreeFramesAreUnmapped`,
`PagesAreBelowBrk`, `HandlersAreMasked`, `EpcIsStable`, and, found in the course of the
proofs, `SpinnerKeepsRunning` (`NeverIdles`), `StopsOnlyWhenEmpty` (`StopsWhenEmpty`),
`NeverOwesAnEnter` (`NothingOwed`), `CallsAreDurable` (`Durable`), `CutsCostOneCall`
(`OneCallBehind`), `FilesSurviveRestarts` (`RestartsLoseNothing`) and `NamesStayUnique`
(`NamesUnique`). Their properties are stated beside them, in the proof modules.

Only model-checked: liveness (`ReadyRuns`, `UartWakes`, `EnterIsAnswered`,
`Preemption`), which is out of the prover's reach with fairness and ENABLED. The
counterexamples of the four findings are TLC's.

## Not modelled

* **x86 boot code** (`boot.S`, `boot16.S`, `stage2.S`): straight-line mode switching
  that ends before the kernel begins; what survives it is the memory map.
* **PCI scan**: prints configuration space and keeps nothing.
* **Image builder and runner** (`mik-os-x86/src`): file layout on the host, tested
  end to end by the repository.
* **`ustr_ok`**: a walk over pages that decides whether a call returns -1; pure.
* **Serial output, the attribute byte of the screen, the tables of the PIC, GDT and
  IDT**: constant, or never read back.
* **`kernel_pagefault`**, which stops at its first load, and of the emulator the
  accessed and dirty bits (no code reads them), W and NX (`kernel_os` sets every leaf
  writable and executable), programs that use `ERET`, `SRET`, `INT`, `IRET` or CSRs
  themselves, and its own errors, which end the run.
* **The parsing of numbers and names in `mik-asm`**, the wording of what is printed,
  and the contents of page-table frames of the x86-64 kernel above the leaf level.

What could be added: the parent's and the child's view of one fork as a refinement of
`Mik64` to two independent machines; the frames of page tables and kernel stacks in
`CowMemory`'s count; the refinement of `FileStore` under read errors that change nothing.
