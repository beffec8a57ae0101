------------------------------- MODULE Sched -------------------------------
(***************************************************************************)
(* kernel/src/sched.rs with the interrupt handlers that call it: the       *)
(* process table, the round-robin scheduler, blocking reads of the         *)
(* console, the idle loop, and IRQ0 (timer), IRQ1 (keyboard), IRQ4 (UART). *)
(*                                                                         *)
(* One CPU.  A handler runs with IF=0 and is one step; the exception is    *)
(* the idle loop inside schedule(), which runs with IF=1 and is cut into   *)
(* the steps between which an interrupt can arrive.  The data of a frame   *)
(* is abstracted to where it resumes:                                      *)
(*    "user"    in ring 3, past the instruction that trapped               *)
(*    "reread"  in ring 3, at the int 0x80 of a sys_read (rip rewound)     *)
(*    "idle"    in ring 0, inside the idle loop of schedule()              *)
(***************************************************************************)
EXTENDS ByteQueue, Integers

CONSTANTS
    NPROC,      \* slots of the process table
    NSpawn,     \* processes kmain spawns before start()
    Spinners,   \* slots whose program never makes a system call (prog B)
    RxCap       \* depth of the UART's receive FIFO

Slots == 0 .. NPROC - 1

ASSUME SchedAssumption ==
    /\ NPROC \in Nat
    /\ NSpawn \in 1 .. NPROC
    /\ Spinners \subseteq 0 .. NSpawn - 1
    /\ RxCap \in Nat

VARIABLES
    state,        \* procs[i].state
    frame,        \* procs[i].frame: where the saved frame resumes
    pml4,         \* procs[i].pml4: the address space
    kstack,       \* procs[i].kstack_top
    cur,          \* CUR
    inIdle,       \* IN_IDLE
    schedActive,  \* SCHED_ACTIVE
    cpu,          \* what the CPU executes between two handlers
    pick,         \* the local i of the idle loop (sched.rs:166)
    rsp0,         \* TSS.rsp0: the stack the next trap from ring 3 lands on
    cr3,          \* the address space in use
    rx,           \* bytes in the UART's receive FIFO
    irq4          \* the UART's interrupt is latched in the PIC

procVars == <<state, frame, pml4, kstack>>
cpuVars  == <<cur, inIdle, schedActive, cpu, pick, rsp0, cr3>>
vars     == <<procVars, cpuVars, rx, irq4, queueVars>>

-----------------------------------------------------------------------------
(* The CPU.  IF=1 everywhere but in "boot" (start() before its sti),       *)
(* "dead" (cli; hlt) and "corrupt" (a ring-0 frame of an abandoned idle    *)
(* loop was resumed; nothing is said about the machine from there on).     *)

Ring3       == {"user", "reread"}
IdleWaiting == {"halt", "scan", "rehalt"}       \* IN_IDLE is set
IdleLeaving == {"cleared", "switched"}          \* IN_IDLE is clear again
Enabled_IF  == {"latch"} \cup Ring3 \cup IdleWaiting \cup IdleLeaving
CpuStates   == Enabled_IF \cup {"boot", "dead", "corrupt"}

\* The frame an interrupt or a trap pushes.
Trapped == IF cpu \in Ring3 THEN cpu ELSE "idle"

\* Where the CPU is after an interrupt that resumes the frame it pushed: the
\* interrupt ends a hlt.
Resumed == IF cpu = "halt" THEN "scan" ELSE cpu

\* Names for page tables and kernel stacks: 0 is the boot one, and a new one
\* gets the lowest name no live process and no register refers to (frames
\* of dead processes leak, so a new one is always different).
Names == 1 .. NPROC + 1
Fresh(table, inUse) ==
    LET free == {n \in Names : n # inUse /\ \A p \in Slots :
                                   state[p] # "EMPTY" => table[p] # n}
    IN  {n \in free : \A m \in free : n <= m}

-----------------------------------------------------------------------------
(* schedule() *)

Ready(st) == {p \in Slots : st[p] = "READY"}

Lowest(S) == {p \in S : \A q \in S : p <= q}

\* Steps of the round-robin scan from slot c to slot p, less one: 0 for the
\* slot after c, NPROC - 1 for c itself.
Dist(c, p) == IF p > c THEN p - c - 1 ELSE p - c - 1 + NPROC

\* A broken scan, always from slot 0 (as the idle loop's is).
NextReady_FromZero(st, c) == Lowest(Ready(st))

\* The first READY slot after c, c itself last; empty when there is none.
NextReady(st, c) ==
    {n \in Ready(st) : \A m \in Ready(st) : Dist(c, n) <= Dist(c, m)}

\* Make p the running process: CUR, TSS.rsp0, CR3.
Load(p) ==
    /\ cur' = p
    /\ rsp0' = kstack[p]
    /\ cr3' = pml4[p]

\* iretq to the frame: a ring-0 one re-enters an idle loop that is gone.
Iret(f) == cpu' = IF f \in Ring3 THEN f ELSE "corrupt"

\* A broken schedule() that moves CUR before it saves the frame.
Schedule_SaveAfterSwitch(st, f) ==
    /\ state' = st
    /\ \E n \in NextReady(st, cur) :
         /\ Load(n)
         /\ frame' = [frame EXCEPT ![n] = f]
         /\ Iret(frame[n])
    /\ UNCHANGED <<pml4, kstack, schedActive, pick, inIdle>>

\* schedule(frame) with the process table the handler has made: save the
\* frame for CUR, dispatch the next READY process, else idle while somebody
\* waits for input, else stop the machine.
Schedule(st, f) ==
    LET fr == [frame EXCEPT ![cur] = f]
    IN  /\ state' = st
        /\ frame' = fr
        /\ \/ \E n \in NextReady(st, cur) :
                /\ Load(n)
                /\ Iret(fr[n])
                /\ UNCHANGED inIdle
           \/ /\ Ready(st) = {}
              /\ \E p \in Slots : st[p] = "WAITING"
              /\ inIdle' = TRUE
              /\ cpu' = "halt"
              /\ UNCHANGED <<cur, rsp0, cr3>>
           \/ /\ Ready(st) = {}
              /\ \A p \in Slots : st[p] # "WAITING"
              /\ cpu' = "dead"
              /\ UNCHANGED <<cur, rsp0, cr3, inIdle>>
        /\ UNCHANGED <<pml4, kstack, schedActive, pick>>

\* A broken wake_on_input() that wakes only the first blocked reader.
Woken_FirstOnly(st) ==
    [p \in Slots |-> IF p \in Lowest({q \in Slots : st[q] = "WAITING"})
                     THEN "READY" ELSE st[p]]

\* wake_on_input(): every blocked reader becomes READY.
Woken(st) == [p \in Slots |-> IF st[p] = "WAITING" THEN "READY" ELSE st[p]]

\* drain_rx(): every byte of the UART goes to the input buffer, and each one
\* wakes the readers, the ones the full buffer drops included.
DrainedQueue == Accept(queue, rx)
DrainedState == IF rx = <<>> THEN state ELSE Woken(state)
DrainRx ==
    /\ queue' = DrainedQueue
    /\ rx' = <<>>
    /\ UNCHANGED taken

-----------------------------------------------------------------------------
(* Interrupts *)

\* Broken ticks: one that never preempts, one that schedules before start()
\* has finished, and one that looks at the UART only when it schedules.
Tick_NoPreempt ==
    /\ cpu \in Enabled_IF
    /\ DrainRx
    /\ state' = DrainedState
    /\ cpu' = Resumed
    /\ UNCHANGED <<frame, pml4, kstack, cur, inIdle, schedActive, pick, rsp0,
                   cr3, irq4>>
Tick_NoStartGate ==
    /\ cpu \in Enabled_IF
    /\ DrainRx
    /\ ~inIdle
    /\ Schedule(DrainedState, Trapped)
    /\ UNCHANGED irq4
Tick_DrainAfterGate ==
    /\ cpu \in Enabled_IF
    /\ \/ /\ ~schedActive \/ inIdle
          /\ cpu' = Resumed
          /\ UNCHANGED <<procVars, cur, inIdle, schedActive, pick, rsp0, cr3,
                         queueVars, rx>>
       \/ /\ schedActive /\ ~inIdle
          /\ DrainRx
          /\ Schedule(DrainedState, Trapped)
    /\ UNCHANGED irq4

\* timer_handler: drain the UART, then an involuntary yield, unless the
\* scheduler is not started or the idle loop is waiting.
Tick ==
    /\ cpu \in Enabled_IF
    /\ DrainRx
    /\ \/ /\ ~schedActive \/ inIdle
          /\ state' = DrainedState
          /\ cpu' = Resumed
          /\ UNCHANGED <<frame, pml4, kstack, cur, inIdle, schedActive, pick,
                         rsp0, cr3>>
       \/ /\ schedActive /\ ~inIdle
          /\ Schedule(DrainedState, Trapped)
    /\ UNCHANGED irq4

\* kbd_handler for a scancode that decodes to b (the others change nothing).
KbdIrq(b) ==
    /\ cpu \in Enabled_IF
    /\ Put(<<b>>)
    /\ state' = Woken(state)
    /\ cpu' = Resumed
    /\ UNCHANGED <<frame, pml4, kstack, cur, inIdle, schedActive, pick, rsp0,
                   cr3, rx, irq4>>

\* uart_handler
UartIrq ==
    /\ cpu \in Enabled_IF
    /\ irq4
    /\ irq4' = FALSE
    /\ DrainRx
    /\ state' = DrainedState
    /\ cpu' = Resumed
    /\ UNCHANGED <<frame, pml4, kstack, cur, inIdle, schedActive, pick, rsp0,
                   cr3>>

\* The host sends a byte; the edge of IRQ4 may be missed (serial.rs:30-33).
RxArrive(b) ==
    /\ Len(rx) < RxCap
    /\ rx' = Append(rx, b)
    /\ irq4' \in {irq4, TRUE}
    /\ UNCHANGED <<procVars, cpuVars, queueVars>>

-----------------------------------------------------------------------------
(* System calls of the running process *)

\* A trap from ring 3.  A process resumed at its int 0x80 can only repeat
\* the read.
Calls == cpu = "user" /\ cur \notin Spinners

SysExit ==
    /\ Calls
    /\ Schedule([state EXCEPT ![cur] = "EMPTY"], Trapped)
    /\ UNCHANGED <<rx, irq4, queueVars>>

SysYield ==
    /\ Calls
    /\ Schedule(state, Trapped)
    /\ UNCHANGED <<rx, irq4, queueVars>>

\* With a full table fork returns -1 and changes nothing.
SysFork ==
    /\ Calls
    /\ \E i \in Lowest({p \in Slots : state[p] = "EMPTY"}),
          t \in Fresh(pml4, cr3), k \in Fresh(kstack, rsp0) :
         /\ state' = [state EXCEPT ![i] = "READY"]
         /\ frame' = [frame EXCEPT ![i] = "user"]
         /\ pml4' = [pml4 EXCEPT ![i] = t]
         /\ kstack' = [kstack EXCEPT ![i] = k]
    /\ cr3' = pml4[cur]
    /\ UNCHANGED <<cur, inIdle, schedActive, cpu, pick, rsp0, rx, irq4,
                   queueVars>>

\* exec and exec_file, when the image is found.
SysExec ==
    /\ Calls
    /\ \E t \in Fresh(pml4, cr3) :
         /\ pml4' = [pml4 EXCEPT ![cur] = t]
         /\ cr3' = t
    /\ UNCHANGED <<state, frame, kstack, cur, inIdle, schedActive, cpu, pick,
                   rsp0, rx, irq4, queueVars>>

\* A broken sys_read that blocks without rewinding the rip.
SysRead_NoRewind ==
    /\ cpu \in Ring3
    /\ cur \notin Spinners
    /\ \/ /\ Take
          /\ cpu' = "user"
          /\ UNCHANGED <<procVars, cur, inIdle, schedActive, pick, rsp0, cr3>>
       \/ /\ queue = <<>>
          /\ Schedule([state EXCEPT ![cur] = "WAITING"], "user")
          /\ UNCHANGED queueVars
    /\ UNCHANGED <<rx, irq4>>

\* sys_read: pop a byte, or block with the rip rewound.
SysRead ==
    /\ cpu \in Ring3
    /\ cur \notin Spinners
    /\ \/ /\ Take
          /\ cpu' = "user"
          /\ UNCHANGED <<procVars, cur, inIdle, schedActive, pick, rsp0, cr3>>
       \/ /\ queue = <<>>
          /\ Schedule([state EXCEPT ![cur] = "WAITING"], "reread")
          /\ UNCHANGED queueVars
    /\ UNCHANGED <<rx, irq4>>

-----------------------------------------------------------------------------
(* The idle loop of schedule(), sched.rs:163-173.  The first hlt follows a  *)
(* sti and cannot miss an interrupt; after it IF stays 1, so an interrupt   *)
(* can fall between the scan and the next hlt ("rehalt"), and between the   *)
(* scan and the return ("cleared", "switched").                             *)

\* A broken idle loop that waits only for the process it blocked in.
IdleScan_CurOnly ==
    /\ cpu = "scan"
    /\ \/ /\ state[cur] # "READY"
          /\ cpu' = "rehalt"
          /\ UNCHANGED <<inIdle, pick>>
       \/ /\ state[cur] = "READY"
          /\ inIdle' = FALSE
          /\ pick' = cur
          /\ cpu' = "cleared"
    /\ UNCHANGED <<procVars, cur, schedActive, rsp0, cr3, rx, irq4, queueVars>>

IdleScan ==
    /\ cpu = "scan"
    /\ \/ /\ Ready(state) = {}
          /\ cpu' = "rehalt"
          /\ UNCHANGED <<inIdle, pick>>
       \/ \E i \in Lowest(Ready(state)) :
            /\ inIdle' = FALSE
            /\ pick' = i
            /\ cpu' = "cleared"
    /\ UNCHANGED <<procVars, cur, schedActive, rsp0, cr3, rx, irq4, queueVars>>

IdleHalt ==
    /\ cpu = "rehalt"
    /\ cpu' = "halt"
    /\ UNCHANGED <<procVars, cur, inIdle, schedActive, pick, rsp0, cr3, rx,
                   irq4, queueVars>>

\* A broken idle loop that returns on the old kernel stack.
IdleSwitch_StaleRsp0 ==
    /\ cpu = "cleared"
    /\ cur' = pick
    /\ cr3' = pml4[pick]
    /\ cpu' = "switched"
    /\ UNCHANGED <<procVars, inIdle, schedActive, pick, rsp0, rx, irq4,
                   queueVars>>

IdleSwitch ==
    /\ cpu = "cleared"
    /\ Load(pick)
    /\ cpu' = "switched"
    /\ UNCHANGED <<procVars, inIdle, schedActive, pick, rx, irq4, queueVars>>

IdleReturn ==
    /\ cpu = "switched"
    /\ Iret(frame[pick])
    /\ UNCHANGED <<procVars, cur, inIdle, schedActive, pick, rsp0, cr3, rx,
                   irq4, queueVars>>

IdleStep == IdleScan \/ IdleHalt \/ IdleSwitch \/ IdleReturn

-----------------------------------------------------------------------------
(* start() *)

\* Select the first process and open the window that drains a latched IRQ0.
Start ==
    /\ cpu = "boot"
    /\ \E i \in Lowest(Ready(state)) : Load(i)
    /\ cpu' = "latch"
    /\ UNCHANGED <<procVars, inIdle, schedActive, pick, rx, irq4, queueVars>>

\* Close it, arm the scheduler and enter ring 3.
EnterUser ==
    /\ cpu = "latch"
    /\ schedActive' = TRUE
    /\ Iret(frame[cur])
    /\ UNCHANGED <<procVars, cur, inIdle, pick, rsp0, cr3, rx, irq4,
                   queueVars>>

-----------------------------------------------------------------------------

Init ==
    /\ QueueInit
    /\ state = [p \in Slots |-> IF p < NSpawn THEN "READY" ELSE "EMPTY"]
    /\ frame = [p \in Slots |-> "user"]
    /\ pml4 = [p \in Slots |-> IF p < NSpawn THEN p + 1 ELSE 0]
    /\ kstack = [p \in Slots |-> IF p < NSpawn THEN p + 1 ELSE 0]
    /\ cur = 0
    /\ inIdle = FALSE
    /\ schedActive = FALSE
    /\ cpu = "boot"
    /\ pick = 0
    /\ rsp0 = 0
    /\ cr3 = 0
    /\ rx = <<>>
    /\ irq4 = FALSE

Syscall == SysExit \/ SysYield \/ SysFork \/ SysExec \/ SysRead

Next ==
    \/ Start \/ EnterUser
    \/ Tick \/ UartIrq
    \/ \E b \in Bytes : KbdIrq(b) \/ RxArrive(b)
    \/ Syscall
    \/ IdleStep

Spec == Init /\ [][Next]_vars

\* What the machine owes a running system: the PIT ticks every 10 ms and is
\* accepted whenever IF=1; the idle loop and start() execute; and between
\* two ticks a resumed process executes at least its int 0x80.
Fairness ==
    /\ WF_vars(Tick)
    /\ WF_vars(IdleStep)
    /\ WF_vars(Start \/ EnterUser)
    /\ SF_vars(cpu = "reread" /\ SysRead)

FairSpec == Spec /\ Fairness

-----------------------------------------------------------------------------
(* Properties *)

\* Every variable keeps its type.
TypeOK ==
    /\ state \in [Slots -> {"EMPTY", "READY", "WAITING"}]
    /\ frame \in [Slots -> {"user", "reread", "idle"}]
    /\ pml4 \in [Slots -> {0} \cup Names]
    /\ kstack \in [Slots -> {0} \cup Names]
    /\ cur \in Slots
    /\ inIdle \in BOOLEAN
    /\ schedActive \in BOOLEAN
    /\ cpu \in CpuStates
    /\ pick \in Slots
    /\ rsp0 \in {0} \cup Names
    /\ cr3 \in {0} \cup Names
    /\ queue \in Seq(Bytes)
    /\ Len(queue) <= Cap
    /\ taken \in {<<>>} \cup {<<b>> : b \in Bytes}
    /\ rx \in Seq(Bytes)
    /\ irq4 \in BOOLEAN

\* No lost wakeup: nobody stays blocked in sys_read while the input buffer
\* holds a byte.  sys_read blocks only after it saw the buffer empty, and
\* every push is followed by wake_on_input before IF can be 1 again.
NoLostWakeup ==
    queue # <<>> => \A p \in Slots : state[p] # "WAITING"

\* While the CPU is in ring 3 the next trap lands on the kernel stack of the
\* process it interrupts, in that process's address space, and the process
\* is one the table says may run: CUR, TSS.rsp0 and CR3 never disagree,
\* whichever of schedule(), the idle loop, fork, exec and start() set them.
RunningConsistent ==
    cpu \in Ring3 =>
        /\ state[cur] = "READY"
        /\ rsp0 = kstack[cur]
        /\ cr3 = pml4[cur]

\* No two live processes share an address space or a kernel stack.
PrivateTables ==
    \A p, q \in Slots :
        p # q /\ state[p] # "EMPTY" /\ state[q] # "EMPTY"
            => pml4[p] # pml4[q] /\ kstack[p] # kstack[q]

\* The frame saved for a live process that is not running is one it can be
\* resumed from: a tick in the idle loop is never saved over the frame of a
\* blocked process (sched.rs:82-84, "must not be saved over a blocked
\* process's real frame, so the timer drops it").
IdleFrameNeverSaved ==
    \A p \in Slots : state[p] # "EMPTY" => frame[p] # "idle"

\* A blocked reader resumes at its int 0x80, so that it repeats the read.
BlockedRereads ==
    \A p \in Slots : state[p] = "WAITING" => frame[p] = "reread"

\* Nobody else can take a process out of the READY state or overwrite its
\* saved frame: only the running process blocks, exits or is saved.
OthersUntouched ==
    [][\A p \in Slots :
          /\ state[p] = "READY" /\ state'[p] # "READY" => p = cur /\ cpu \in Ring3
          /\ state[p] # "EMPTY" /\ frame'[p] # frame[p] => p = cur]_vars

\* Round robin: a context switch that passes over a READY process brings it
\* nearer to its turn, so at most NPROC - 1 switches precede its own.
RoundRobin ==
    [][\A p \in Slots :
          state[p] = "READY" /\ cur' # cur /\ p \notin {cur, cur'} /\ schedActive
             => Dist(cur', p) < Dist(cur, p)]_vars

Stopped == cpu \in {"dead", "corrupt"}

\* Every READY process gets the CPU: the tick takes it from a program that
\* never yields, and the idle loop ends when a reader was woken.
ReadyRuns ==
    \A p \in Slots :
        state[p] = "READY" ~> (cpu \in Ring3 /\ cur = p) \/ Stopped

\* A blocked reader is woken by a byte in the UART even when its IRQ4 was
\* missed: the tick drains the UART in every state, idle included.
UartWakes ==
    \A p \in Slots :
        state[p] = "WAITING" /\ rx # <<>> ~> state[p] # "WAITING" \/ Stopped

=============================================================================
