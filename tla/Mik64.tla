------------------------------- MODULE Mik64 -------------------------------
(***************************************************************************)
(* The Mik-64 machine of mik-emu running the two-process kernel of mik-os  *)
(* (kernel_os): the trap, fault and timer entry of the CPU, its TLB, and   *)
(* the hand-assembled handlers that save, pick, restore, fork, exec, exit  *)
(* and demand-page.                                                        *)
(*                                                                         *)
(* A kernel step is one labelled block of the assembly, a user step one    *)
(* instruction.  The timer counts the instructions of a step: Cost of a    *)
(* straight block, LoopCosts of one with a loop.  The registers are kept   *)
(* in three groups: "xc" is x1, x3, x10 and x11, which any handler may     *)
(* use, "x2" the argument and result of a call, "xk" the rest of x1..x14.  *)
(* x15 is the kernel's own.  User programs are arbitrary: any instruction  *)
(* may follow any other.                                                   *)
(***************************************************************************)
EXTENDS Naturals

CONSTANTS Vals,          \* what a program computes and stores, 0 and 1 among them
          Interval,      \* the timer interval, in steps
          TlbSize,       \* TLB_SIZE
          Cost,          \* instructions of the straight blocks of the kernel
          LoopCosts,     \* bound: instructions of the blocks that copy or walk
          MaxPage,       \* bound: the pages of memory alloc_page may hand out
          Calls,         \* bound: the trap numbers programs use, 6 for any unknown one
          Computed,      \* bound: the <<register group, value>> pairs they compute
          Touched,       \* bound: the pages programs load from and store to
          Targets,       \* bound: where programs continue after an instruction
          ForkWhenFull   \* may a program fork while the other slot is live

ASSUME MachineAssumption ==
  /\ {0, 1} \subseteq Vals /\ Vals \subseteq 0 .. 7
  /\ Cost \in [save : Nat, save_pc : Nat, pick : [0 .. 1 -> [0 .. 1 -> Nat]], restore : Nat,
               start : Nat, dispatch : [0 .. 6 -> Nat]]
  /\ Calls \subseteq 0 .. 6 /\ Touched \subseteq 0 .. 3
  /\ Targets \subseteq {"u0", "u1", "v"}
  /\ Computed \subseteq {"xc", "x2", "xk"} \X Vals
  /\ LoopCosts \subseteq Nat \ {0}
  /\ Interval \in Nat /\ TlbSize \in Nat \ {0}
  /\ MaxPage \in Nat /\ MaxPage >= 2
  \* The interval outlasts the boot window and a context switch.
  /\ Interval > Cost.start + Cost.restore
  /\ \A s, t \in 0 .. 1 :
       Interval > Cost.save + Cost.save_pc + Cost.pick[s][t] + Cost.restore
  /\ ForkWhenFull \in BOOLEAN

Slots == 0 .. 1
Other(s) == 1 - s
Regs == {"xc", "x2", "xk"}
Junk == 8                          \* a kernel address or number left in a register
Lost == 9                          \* in "own": the program may rely on nothing
UserPcs == {"u0", "u1", "v"}       \* "u0" is USER_VA, where a program starts, "u1" in
                                   \* its page, "v" in the next
KernelPcs == {"boot", "syscall_handler", "fork_build", "pf_handler", "sched_save",
              "sched_save_pc", "sched_pick", "sched_restore"}

\* User pages of the region, the code page first; a kernel page; an address outside.
UserVpns == 0 .. 1
VpnOf(q) == IF q = "v" THEN 1 ELSE 0
KernelVpn == 2
OutsideVpn == 3
Vpns == 0 .. 3
NoEntry == [vpn |-> 4, page |-> 0, user |-> FALSE]

VARIABLES
  halted, user_mode, previous_user_mode, int_enabled, pending, counter,
  pc, epc, regs, ptbr, tlb,                                 \* the machine
  x10, x11,        \* as a handler finds them, 0 once it has used them (junk in "xc")
  cur, live, saved, slot_pc, slot_ptbr,                     \* the process table
  next, table, mem,                                         \* pages
  own    \* history: the registers and pc each process is entitled to find by
         \* lib.rs:15-18, and whether it was paged in since its last instruction

cpuVars == <<halted, user_mode, previous_user_mode, int_enabled, pc, epc>>
procVars == <<cur, live, saved, slot_pc, slot_ptbr>>
pageVars == <<next, table, mem>>
vars == <<cpuVars, pending, counter, regs, x10, x11, ptbr, tlb, procVars, pageVars, own>>

Zeroed == [r \in Regs |-> 0]
NoPages == [v \in UserVpns |-> 0]
EmptyTlb == [i \in 0 .. TlbSize - 1 |-> NoEntry]

Init ==
  /\ halted = FALSE /\ user_mode = FALSE /\ previous_user_mode = FALSE
  /\ int_enabled = TRUE /\ pending = FALSE /\ counter = Interval
  /\ pc = "boot" /\ epc = "boot" /\ regs = Zeroed /\ x10 = 0 /\ x11 = 0
  /\ ptbr = 0 /\ tlb = EmptyTlb
  /\ cur = 0 /\ live = [s \in Slots |-> FALSE] /\ saved = [s \in Slots |-> Zeroed]
  /\ slot_pc = [s \in Slots |-> "u0"] /\ slot_ptbr = [s \in Slots |-> 0]
  /\ next = 1 /\ table = [p \in 0 .. MaxPage |-> NoPages]
  /\ mem = [p \in 0 .. MaxPage |-> 0]
  /\ own = [s \in Slots |-> [regs |-> Zeroed, pc |-> "u0", paged |-> FALSE]]

(***************************************************************************)
(* The timer and the entry to and exit from supervisor mode.               *)
(***************************************************************************)
Tick_NoReload(k) ==
  /\ pending' = (pending \/ k >= counter)
  /\ counter' = IF k < counter THEN counter - k ELSE 0

\* k instructions completed: the down counter wraps and a tick becomes pending.
Tick(k) ==
  /\ pending' = (pending \/ k >= counter)
  /\ counter' = IF k < counter THEN counter - k
                ELSE Interval - ((k - counter) % Interval)

\* TRAP, a page fault and an interrupt all save the pc and mask interrupts.
EnterKernel(ret, handler) ==
  /\ epc' = ret /\ int_enabled' = FALSE
  /\ previous_user_mode' = user_mode /\ user_mode' = FALSE
  /\ pc' = handler

Eret ==
  /\ pc' = epc /\ int_enabled' = TRUE /\ user_mode' = previous_user_mode
  /\ UNCHANGED <<epc, previous_user_mode>>

Sret(target) ==
  /\ pc' = target /\ int_enabled' = TRUE
  /\ previous_user_mode' = user_mode /\ user_mode' = TRUE
  /\ UNCHANGED epc

KernelJump(label) ==
  /\ pc' = label
  /\ UNCHANGED <<epc, int_enabled, user_mode, previous_user_mode>>

(***************************************************************************)
(* Address translation.  Every leaf of kernel_os is writable and           *)
(* executable, so only presence and the user bit can fault.                *)
(***************************************************************************)
Idx(v) == v % TlbSize

\* The leaf the page table at PTBR holds for v.
Walk(v) ==
  IF v = KernelVpn THEN [vpn |-> v, page |-> 0, user |-> FALSE]
  ELSE IF v \in UserVpns /\ table[ptbr][v] # 0
       THEN [vpn |-> v, page |-> table[ptbr][v], user |-> TRUE]
       ELSE NoEntry

Lookup(t, v) == IF t[Idx(v)].vpn = v THEN t[Idx(v)] ELSE Walk(v)

\* The TLB after a successful access to v.
Fill(t, v) == [t EXCEPT ![Idx(v)] = Lookup(t, v)]

\* The fault code of a user access to v, 0 when it succeeds.
FaultCode(t, v) ==
  IF Lookup(t, v) = NoEntry THEN 1 ELSE IF Lookup(t, v).user THEN 0 ELSE 5

(***************************************************************************)
(* The kernel.                                                             *)
(***************************************************************************)
Runs == ~halted /\ ~(pending /\ int_enabled)
At(label) == Runs /\ pc = label

\* A tick that is pending and not masked is taken before the next instruction.
Deliver ==
  /\ ~halted /\ pending /\ int_enabled
  /\ pending' = FALSE
  /\ EnterKernel(pc, "sched_save")
  /\ UNCHANGED <<halted, counter, regs, x10, x11, ptbr, tlb, procVars, pageVars, own>>

\* Up to the start of the timer: process 0 gets its tables and the init image.
Boot ==
  /\ At("boot")
  /\ table' = [table EXCEPT ![next] = [NoPages EXCEPT ![0] = next + 1]]
  /\ slot_ptbr' = [slot_ptbr EXCEPT ![0] = next]
  /\ next' = next + 2
  /\ live' = [live EXCEPT ![0] = TRUE]
  /\ KernelJump("sched_restore")
  /\ pending' = FALSE /\ counter' = Interval - Cost.start
  /\ tlb' = Fill(EmptyTlb, KernelVpn)
  /\ UNCHANGED <<halted, regs, x10, x11, ptbr, cur, saved, slot_pc, mem, own>>

SchedSave ==
  /\ At("sched_save")
  /\ saved' = [saved EXCEPT ![cur] = regs]
  /\ KernelJump("sched_save_pc") /\ Tick(Cost.save) /\ tlb' = Fill(tlb, KernelVpn)
  /\ UNCHANGED <<halted, regs, x10, x11, ptbr, cur, live, slot_pc, slot_ptbr, pageVars, own>>

SchedSavePc ==
  /\ At("sched_save_pc")
  /\ slot_pc' = [slot_pc EXCEPT ![cur] = epc]
  /\ KernelJump("sched_pick") /\ Tick(Cost.save_pc) /\ tlb' = Fill(tlb, KernelVpn)
  /\ UNCHANGED <<halted, regs, x10, x11, ptbr, cur, live, saved, slot_ptbr, pageVars, own>>

Picked_CurFirst == IF live[cur] THEN cur ELSE Other(cur)

\* The slot sched_pick chooses when one is live: the other one first.
Picked == IF live[Other(cur)] THEN Other(cur) ELSE cur

SchedPick ==
  /\ At("sched_pick")
  /\ \/ /\ \E s \in Slots : live[s]
        /\ cur' = Picked /\ KernelJump("sched_restore") /\ UNCHANGED halted
     \/ /\ \A s \in Slots : ~live[s]
        /\ halted' = TRUE /\ KernelJump("sched_pick") /\ UNCHANGED cur
  /\ Tick(Cost.pick[cur][Picked]) /\ tlb' = Fill(tlb, KernelVpn)
  /\ UNCHANGED <<regs, x10, x11, ptbr, live, saved, slot_pc, slot_ptbr, pageVars, own>>

SchedRestore_NoFlush ==
  /\ At("sched_restore")
  /\ ptbr' = slot_ptbr[cur] /\ tlb' = Fill(tlb, KernelVpn)
  /\ regs' = saved[cur] /\ Sret(slot_pc[cur]) /\ Tick(Cost.restore)
  /\ UNCHANGED <<halted, x10, x11, procVars, pageVars, own>>

\* Writing PTBR flushes the TLB; the kernel's own pages refill it.
SchedRestore ==
  /\ At("sched_restore")
  /\ ptbr' = slot_ptbr[cur] /\ tlb' = Fill(EmptyTlb, KernelVpn)
  /\ regs' = saved[cur] /\ Sret(slot_pc[cur]) /\ Tick(Cost.restore)
  /\ UNCHANGED <<halted, x10, x11, procVars, pageVars, own>>

\* What sys_fork does while the machine is interrupt-free: the child slot gets
\* the live registers, x2 = 0, the parent's resume address, and goes live ...
Child == Other(cur)

ForkSlot_LiveX2 ==
  /\ saved' = [saved EXCEPT ![Child] = regs]
  /\ slot_pc' = [slot_pc EXCEPT ![Child] = epc]
  /\ live' = [live EXCEPT ![Child] = TRUE]
  /\ UNCHANGED <<cur, slot_ptbr>>

ForkSlot ==
  /\ saved' = [saved EXCEPT ![Child] = [regs EXCEPT !["x2"] = 0]]
  /\ slot_pc' = [slot_pc EXCEPT ![Child] = epc]
  /\ live' = [live EXCEPT ![Child] = TRUE]
  /\ UNCHANGED <<cur, slot_ptbr>>

\* sys_exit: the slot is dead; its pages are not freed.
ExitSlot ==
  /\ live' = [live EXCEPT ![cur] = FALSE]
  /\ UNCHANGED <<cur, saved, slot_pc, slot_ptbr>>

\* The block a trap is dispatched to; 0 is halt, 1 print_char, 2 fork, 3 exec,
\* 4 yield, 5 exit, and any other number returns.
SyscallHandler ==
  /\ At("syscall_handler")
  /\ \/ x10 = 0 /\ halted' = TRUE /\ KernelJump(pc) /\ UNCHANGED procVars
     \/ x10 = 2 /\ KernelJump("fork_build") /\ ForkSlot /\ UNCHANGED halted
     \/ x10 = 4 /\ KernelJump("sched_save") /\ UNCHANGED <<halted, procVars>>
     \/ x10 = 5 /\ KernelJump("sched_pick") /\ ExitSlot /\ UNCHANGED halted
     \/ x10 \notin {0, 2, 3, 4, 5} /\ Eret /\ UNCHANGED <<halted, procVars>>
  /\ Tick(Cost.dispatch[x10]) /\ tlb' = Fill(tlb, KernelVpn)
  /\ x10' = 0 /\ UNCHANGED <<regs, x11, ptbr, pageVars, own>>

\* sys_exec: only program 1 exists; the code page of the caller is
\* overwritten through its user address, and the other registers go stale.
SysExec ==
  /\ At("syscall_handler") /\ x10 = 3
  /\ \/ /\ regs["x2"] # 1
        /\ Eret /\ Tick(Cost.dispatch[3]) /\ tlb' = Fill(tlb, KernelVpn)
        /\ UNCHANGED <<regs, mem>>
     \/ /\ regs["x2"] = 1
        /\ LET t == Fill(tlb, KernelVpn)
           IN  /\ mem' = [mem EXCEPT ![Lookup(t, 0).page] = 1]
               /\ tlb' = Fill(t, 0)
        /\ regs' = [regs EXCEPT !["x2"] = Junk]
        /\ Sret("u0") /\ \E k \in LoopCosts : Tick(k)
  /\ x10' = 0 /\ UNCHANGED <<halted, x11, ptbr, procVars, next, table, own>>

ForkBuild_SharedPage ==
  /\ At("fork_build")
  /\ LET t == Fill(tlb, KernelVpn)
     IN  /\ next' = next + 2
         /\ table' = [table EXCEPT ![next] = [NoPages EXCEPT ![0] = Lookup(t, 0).page]]
         /\ tlb' = Fill(t, 0)
  /\ slot_ptbr' = [slot_ptbr EXCEPT ![Child] = next]
  /\ regs' = [regs EXCEPT !["x2"] = IF Child = 1 THEN 1 ELSE 0]
  /\ Eret /\ \E k \in LoopCosts : Tick(k)
  /\ UNCHANGED <<halted, x10, x11, ptbr, mem, cur, live, saved, slot_pc, own>>

\* ... and then its tables (one page stands for the chain), a copy of the code
\* page, read through the parent's user address, and no other page.
ForkBuild ==
  /\ At("fork_build")
  /\ LET t == Fill(tlb, KernelVpn)
     IN  /\ next' = next + 2
         /\ table' = [table EXCEPT ![next] = [NoPages EXCEPT ![0] = next + 1]]
         /\ mem' = [mem EXCEPT ![next + 1] = mem[Lookup(t, 0).page]]
         /\ tlb' = Fill(t, 0)
  /\ slot_ptbr' = [slot_ptbr EXCEPT ![Child] = next]
  /\ regs' = [regs EXCEPT !["x2"] = IF Child = 1 THEN 1 ELSE 0]
  /\ Eret /\ \E k \in LoopCosts : Tick(k)
  /\ UNCHANGED <<halted, x10, x11, ptbr, cur, live, saved, slot_pc, own>>

PfHandler_OtherTable ==
  /\ At("pf_handler")
  /\ \/ /\ x10 = 1 /\ x11 \in UserVpns /\ next <= MaxPage
        /\ table' = [table EXCEPT ![slot_ptbr[Other(cur)]][x11] = next]
        /\ next' = next + 1
        /\ tlb' = Fill(EmptyTlb, KernelVpn)
        /\ regs' = [regs EXCEPT !["x2"] = Junk]
        /\ Eret /\ UNCHANGED halted
     \/ /\ x10 # 1 \/ x11 \notin UserVpns \/ next > MaxPage
        /\ halted' = TRUE /\ KernelJump(pc)
        /\ UNCHANGED <<table, next, tlb, regs>>
  /\ \E k \in LoopCosts : Tick(k)
  /\ x10' = 0 /\ x11' = 0
  /\ UNCHANGED <<ptbr, procVars, mem, own>>

\* A page of the user region that is not present gets a page, which was never
\* used before and so is zero; any other fault stops the machine.  So does a
\* page beyond the last: the instruction is retried and leaves memory.
PfHandler ==
  /\ At("pf_handler")
  /\ \/ /\ x10 = 1 /\ x11 \in UserVpns /\ next <= MaxPage
        /\ table' = [table EXCEPT ![slot_ptbr[cur]][x11] = next]
        /\ next' = next + 1
        /\ tlb' = Fill(EmptyTlb, KernelVpn)
        /\ regs' = [regs EXCEPT !["x2"] = Junk]
        /\ Eret /\ UNCHANGED halted
     \/ /\ x10 # 1 \/ x11 \notin UserVpns \/ next > MaxPage
        /\ halted' = TRUE /\ KernelJump(pc)
        /\ UNCHANGED <<table, next, tlb, regs>>
  /\ \E k \in LoopCosts : Tick(k)
  /\ x10' = 0 /\ x11' = 0
  /\ UNCHANGED <<ptbr, procVars, mem, own>>

(***************************************************************************)
(* User programs.  "own" records what each is entitled to find in its      *)
(* registers when it goes on.                                              *)
(***************************************************************************)
User == Runs /\ user_mode /\ FaultCode(tlb, VpnOf(pc)) = 0
Fetched == Fill(tlb, VpnOf(pc))

\* The registers rs of the group are no longer promised to the process.
Forget(ctx, rs) == [r \in Regs |-> IF r \in rs THEN Lost ELSE ctx[r]]

UserStep(rs, q) ==
  /\ regs' = rs /\ pc' = q /\ Tick(1)
  /\ own' = [own EXCEPT ![cur] = [regs |-> rs, pc |-> q, paged |-> FALSE]]
  /\ UNCHANGED <<halted, user_mode, previous_user_mode, int_enabled, epc,
                 x10, x11, ptbr, procVars, next, table>>

Compute(r, v, q) ==
  /\ User
  /\ UserStep([regs EXCEPT ![r] = v], q)
  /\ tlb' = Fetched /\ UNCHANGED mem

Load(v, q) ==
  /\ User /\ FaultCode(Fetched, v) = 0
  /\ UserStep([regs EXCEPT !["xk"] = mem[Lookup(Fetched, v).page]], q)
  /\ tlb' = Fill(Fetched, v) /\ UNCHANGED mem

Store(v, q) ==
  /\ User /\ FaultCode(Fetched, v) = 0
  /\ mem' = [mem EXCEPT ![Lookup(Fetched, v).page] = regs["xk"]]
  /\ UserStep(regs, q)
  /\ tlb' = Fill(Fetched, v)

\* A step that faults does not count for the timer.  lib.rs:17-18 takes x1, x3,
\* x10 and x11 from a program and nothing else.
PageFault(v, t) ==
  /\ EnterKernel(pc, "pf_handler")
  /\ x10' = FaultCode(t, v) /\ x11' = v
  /\ regs' = [regs EXCEPT !["xc"] = Junk]
  /\ tlb' = t
  /\ own' = [own EXCEPT ![cur].regs = Forget(@, {"xc"}), ![cur].paged = TRUE]
  /\ UNCHANGED <<halted, pending, counter, ptbr, procVars, pageVars>>

Fault(v) == User /\ FaultCode(Fetched, v) # 0 /\ PageFault(v, Fetched)

FetchFault ==
  /\ Runs /\ user_mode /\ FaultCode(tlb, VpnOf(pc)) # 0
  /\ PageFault(VpnOf(pc), tlb)

\* What a call promises: fork returns a pid to the parent and 0 to a child
\* with the parent's other registers, exec starts the program at USER_VA.
OwnAfterTrap(n, q) ==
  LET back == Forget(regs, {"xc"})
      found(ctx, at) == [regs |-> ctx, pc |-> at, paged |-> FALSE]
      mine(ctx, at) == [own EXCEPT ![cur] = found(ctx, at)]
  IN  CASE n = 2 -> [mine([back EXCEPT !["x2"] = IF Child = 1 THEN 1 ELSE 0], q)
                       EXCEPT ![Child] = found([back EXCEPT !["x2"] = 0], q)]
        [] n = 3 /\ regs["x2"] = 1 -> mine(Forget(back, {"x2"}), "u0")
        [] OTHER -> mine(back, q)

Trap(n, q) ==
  /\ User
  /\ n = 2 => next < MaxPage /\ (ForkWhenFull \/ ~live[Child])
  /\ EnterKernel(q, "syscall_handler")
  /\ x10' = n
  /\ regs' = [regs EXCEPT !["xc"] = Junk]
  /\ own' = OwnAfterTrap(n, q)
  /\ Tick(1) /\ tlb' = Fetched
  /\ UNCHANGED <<halted, x11, ptbr, procVars, pageVars>>

UserInstruction ==
  \E q \in Targets :
    \/ \E c \in Computed : Compute(c[1], c[2], q)
    \/ \E v \in Touched : Load(v, q) \/ Store(v, q)
    \/ \E n \in Calls : Trap(n, q)

Next ==
  \/ Deliver \/ Boot
  \/ SchedSave \/ SchedSavePc \/ SchedPick \/ SchedRestore
  \/ SyscallHandler \/ SysExec \/ ForkBuild \/ PfHandler
  \/ UserInstruction \/ FetchFault \/ \E v \in Touched : Fault(v)

Spec == Init /\ [][Next]_vars

\* The emulator runs until the machine halts.
FairSpec == Spec /\ WF_vars(Next)

(***************************************************************************)
(* Properties.                                                             *)
(***************************************************************************)
Values == Vals \cup {Junk}

\* Every variable has its type; the down counter never passes zero.
MikTypeOK ==
  /\ {halted, user_mode, previous_user_mode, int_enabled, pending} \subseteq BOOLEAN
  /\ counter \in 1 .. Interval
  /\ {pc, epc} \cup {slot_pc[s] : s \in Slots} \subseteq UserPcs \cup KernelPcs
  /\ regs \in [Regs -> Values] /\ saved \in [Slots -> [Regs -> Values]]
  /\ x10 \in 0 .. 6 /\ x11 \in Vpns
  /\ cur \in Slots /\ live \in [Slots -> BOOLEAN]
  /\ slot_ptbr \in [Slots -> 0 .. MaxPage] /\ ptbr \in 0 .. MaxPage
  /\ next \in 1 .. MaxPage + 1
  /\ table \in [0 .. MaxPage -> [UserVpns -> 0 .. MaxPage]]
  /\ mem \in [0 .. MaxPage -> Vals]

\* A program in user mode finds its pc and every register lib.rs:15-18 lets it
\* rely on: no tick, switch, fork, exec or page fault, in any order, changes
\* the others, except that a page fault may leave the page's entry in x2 for
\* the instruction that is retried.
ContextKept ==
  user_mode =>
    /\ pc = own[cur].pc
    /\ \A r \in Regs : \/ own[cur].regs[r] \in {Lost, regs[r]}
                       \/ r = "x2" /\ own[cur].paged

\* "x1, x3, x10, x11 are also clobbered by any trap or fault" (mik-os
\* lib.rs:17-18), and x15 is the kernel's: every other register is kept.
ClobbersAreDocumented ==
  user_mode => \A r \in Regs : own[cur].regs[r] \in {Lost, regs[r]}

\* A tick never clobbers epc while a handler runs (mik-emu lib.rs:340-342):
\* epc is written only on the way out of user mode.
EpcStable == [][epc' # epc => user_mode]_vars

\* The TLB never answers differently from the page table PTBR points to, so no
\* process sees a translation of the other across a switch.
TlbIsACache == \A i \in DOMAIN tlb : tlb[i] # NoEntry => tlb[i] = Walk(tlb[i].vpn)

\* While a program runs, the CPU is in the address space of its slot, the slot
\* is live, and no page it maps is mapped for the other live process.
RunsInItsOwnPages ==
  user_mode =>
    /\ live[cur] /\ ptbr = slot_ptbr[cur]
    /\ live[Other(cur)] =>
         \A u, v \in UserVpns :
           LET p == table[ptbr][u] IN p # 0 => p # table[slot_ptbr[Other(cur)]][v]

\* Nothing done on behalf of one process reaches the saved context, tables or
\* pages of the other live one, and only its own exit ends it.  (A slot is the
\* other process's from the end of the fork that fills it.)
OtherUntouched ==
  [][\A s \in Slots :
       LET t == slot_ptbr[s]
       IN  s # cur /\ live[s] /\ pc # "fork_build" =>
             /\ live'[s] /\ saved'[s] = saved[s] /\ slot_pc'[s] = slot_pc[s]
             /\ slot_ptbr'[s] = t /\ table'[t] = table[t]
             /\ \A v \in UserVpns : mem'[table[t][v]] = mem[table[t][v]]]_vars

Progress ==
  \A s \in Slots :
    []<>(halted \/ ~live[s] \/ (user_mode /\ cur = s /\ ~pending))

\* Preemption: a program that computes and makes no calls cannot hold the
\* machine, and every live process goes on executing instructions.
Preemption == <>[](pc # "syscall_handler") => Progress

\* The same whatever the programs call, as "timer-driven round-robin
\* scheduling" (mik-os lib.rs:790) and "two user processes alternate output
\* under the timer" (ROADMAP.md:121) promise.
AlwaysProgress == Progress
=============================================================================
