---------------------------- MODULE Mik64Proofs ----------------------------
(***************************************************************************)
(* Proofs about Mik64, for any programs, any timer interval and any number *)
(* of pages: handlers run with interrupts masked, so no tick overwrites    *)
(* epc; the TLB agrees with the page tables; and what the handlers keep,   *)
(* the types, the address spaces of the two processes and the registers    *)
(* each of them is entitled to find.                                       *)
(***************************************************************************)
EXTENDS Mik64, TLAPS

Handlers == KernelPcs \ {"boot", "sched_restore"}

\* Who runs and whether a tick can be taken.  Interrupts are open in user mode
\* and, at boot, up to the first SRET, when the timer has not yet expired.  A
\* handler was entered from a program, and will return to one.
MaskInv ==
  /\ halted \in BOOLEAN /\ cur \in Slots
  /\ slot_pc \in [Slots -> UserPcs]
  /\ user_mode \in BOOLEAN /\ int_enabled \in BOOLEAN /\ pending \in BOOLEAN
  /\ user_mode => pc \in UserPcs /\ int_enabled
  /\ ~user_mode => pc \in KernelPcs
  /\ ~user_mode /\ int_enabled => ~pending /\ pc \in {"boot", "sched_restore"}
  /\ pc \in Handlers => epc \in UserPcs
  /\ pc \in {"syscall_handler", "fork_build", "pf_handler"} => previous_user_mode = TRUE
  /\ pc \in {"boot"} => ~user_mode /\ int_enabled

\* The timer never makes "pending" anything but a truth value.
LEMMA TickPending ==
  ASSUME NEW k, pending \in BOOLEAN, Tick(k)
  PROVE  pending' \in BOOLEAN
BY DEF Tick

\* The labels of the kernel are not addresses of programs.
LEMMA Labels ==
  /\ UserPcs \cap KernelPcs = {}
  /\ Handlers \subseteq KernelPcs /\ "boot" \in KernelPcs /\ "sched_restore" \in KernelPcs
BY DEF UserPcs, KernelPcs, Handlers

\* A switch stays within the two slots.
LEMMA SlotsClosed == \A s \in Slots : Other(s) \in Slots
BY DEF Slots, Other

\* Every pc of a program is in a page of its region.
LEMMA CodePage == \A q : VpnOf(q) \in UserVpns /\ VpnOf(q) \in Vpns
BY DEF VpnOf, UserVpns, Vpns

\* An instruction that completes, and one that faults, on its own page or on
\* the page of its operand.
LEMMA Instructions ==
  ASSUME UserInstruction
  PROVE  \E q \in UserPcs :
           \/ \E c \in Computed : Compute(c[1], c[2], q)
           \/ \E v \in Touched : Load(v, q) \/ Store(v, q)
           \/ \E n \in Calls : Trap(n, q)
BY MachineAssumption DEF UserInstruction, UserPcs

Faults == FetchFault \/ \E v \in Touched : Fault(v)

LEMMA FaultsAreAlike ==
  ASSUME Faults
  PROVE  /\ Runs /\ user_mode
         /\ \E v \in Vpns : \E t \in {tlb, Fetched} : PageFault(v, t)
BY MachineAssumption, CodePage DEF Faults, FetchFault, Fault, User, Vpns

\* MaskInv holds when the binary has been loaded.
LEMMA MaskInit == Init => MaskInv
<1> SUFFICES ASSUME Init PROVE MaskInv  OBVIOUS
<1>1. slot_pc \in [Slots -> UserPcs]  BY DEF Init, UserPcs
<1>2. /\ halted = FALSE /\ user_mode = FALSE /\ int_enabled = TRUE /\ pending = FALSE
      /\ pc = "boot" /\ cur \in Slots
  BY DEF Init, Slots
<1> QED  BY <1>1, <1>2 DEF MaskInv, KernelPcs, Handlers

\* Every step of the machine preserves MaskInv, and writes epc only when it
\* leaves user mode.
LEMMA MaskNext ==
  ASSUME MaskInv, [Next]_vars
  PROVE  MaskInv' /\ (epc' # epc => user_mode)
<1> USE DEF Slots, UserPcs, KernelPcs, Handlers
<1>1. CASE Deliver
  BY <1>1 DEF Deliver, EnterKernel, MaskInv, procVars
<1>2. CASE Boot
  BY <1>2 DEF Boot, At, Runs, KernelJump, MaskInv
<1>3. CASE SchedSave
  <2>1. pending' \in BOOLEAN  BY <1>3, TickPending DEF SchedSave, MaskInv
  <2> QED  BY <1>3, <2>1 DEF SchedSave, At, Runs, KernelJump, MaskInv
<1>4. CASE SchedSavePc
  <2>1. pending' \in BOOLEAN  BY <1>4, TickPending DEF SchedSavePc, MaskInv
  <2> QED  BY <1>4, <2>1 DEF SchedSavePc, At, Runs, KernelJump, MaskInv
<1>5. CASE SchedPick
  <2>1. pending' \in BOOLEAN  BY <1>5, TickPending DEF SchedPick, MaskInv
  <2>2. Picked \in Slots  BY SlotsClosed DEF MaskInv, Picked
  <2>3. /\ pc = "sched_pick" /\ user_mode' = user_mode /\ int_enabled' = int_enabled
        /\ epc' = epc /\ slot_pc' = slot_pc
        /\ cur' \in Slots /\ halted' \in BOOLEAN /\ pc' \in {"sched_pick", "sched_restore"}
    BY <1>5, <2>2 DEF SchedPick, At, KernelJump, MaskInv
  <2> QED  BY <2>1, <2>3 DEF MaskInv
<1>6. CASE SchedRestore
  <2>1. pending' \in BOOLEAN  BY <1>6, TickPending DEF SchedRestore, MaskInv
  <2> QED  BY <1>6, <2>1 DEF SchedRestore, Sret, At, Runs, MaskInv, procVars
<1>7. CASE SyscallHandler
  <2>1. pending' \in BOOLEAN  BY <1>7, TickPending DEF SyscallHandler, MaskInv
  <2>2. pc = "syscall_handler" /\ ~halted  BY <1>7 DEF SyscallHandler, At, Runs
  <2>3. ~user_mode /\ ~int_enabled /\ previous_user_mode = TRUE /\ epc \in UserPcs
    BY <2>2 DEF MaskInv
  <2>8. /\ halted' = TRUE \/ halted' = halted
        /\ UNCHANGED procVars \/ ForkSlot \/ ExitSlot
    BY <1>7 DEF SyscallHandler
  <2>4. slot_pc' \in [Slots -> UserPcs] /\ cur' = cur /\ halted' \in BOOLEAN
    <3>1. halted' \in BOOLEAN  BY <2>8 DEF MaskInv
    <3>2. slot_pc \in [Slots -> UserPcs]  BY DEF MaskInv
    <3>3. cur' = cur  BY <2>8 DEF ForkSlot, ExitSlot, procVars
    <3>4. slot_pc' = slot_pc \/ slot_pc' = [slot_pc EXCEPT ![Child] = epc]
      BY <2>8 DEF ForkSlot, ExitSlot, procVars
    <3>5. slot_pc' \in [Slots -> UserPcs]  BY <2>3, <3>2, <3>4
    <3> QED  BY <3>1, <3>3, <3>5
  <2>5. \/ Eret
        \/ \E l \in {"syscall_handler", "fork_build", "sched_save", "sched_pick"} : KernelJump(l)
    BY <1>7, <2>2 DEF SyscallHandler
  <2>6. CASE Eret
    BY <2>1, <2>3, <2>4, <2>6 DEF Eret, MaskInv
  <2>7. CASE \E l \in {"syscall_handler", "fork_build", "sched_save", "sched_pick"} : KernelJump(l)
    BY <2>1, <2>3, <2>4, <2>7 DEF KernelJump, MaskInv
  <2> QED  BY <2>5, <2>6, <2>7
<1>8. CASE SysExec
  <2>1. pending' \in BOOLEAN  BY <1>8, TickPending DEF SysExec, MaskInv
  <2>2. pc = "syscall_handler"  BY <1>8 DEF SysExec, At
  <2>3. /\ ~user_mode /\ previous_user_mode = TRUE /\ epc \in UserPcs
        /\ slot_pc' = slot_pc /\ cur' = cur /\ halted' = halted
    BY <1>8, <2>2 DEF SysExec, MaskInv, procVars
  <2>4. CASE Eret  BY <2>1, <2>3, <2>4 DEF Eret, MaskInv
  <2>5. CASE Sret("u0")  BY <2>1, <2>3, <2>5 DEF Sret, MaskInv
  <2> QED  BY <1>8, <2>4, <2>5 DEF SysExec
<1>9. CASE ForkBuild
  <2>1. pending' \in BOOLEAN  BY <1>9, TickPending DEF ForkBuild, MaskInv
  <2>2. pc = "fork_build"  BY <1>9 DEF ForkBuild, At
  <2> QED  BY <1>9, <2>1, <2>2 DEF ForkBuild, Eret, MaskInv
<1>10. CASE PfHandler
  <2>1. pending' \in BOOLEAN  BY <1>10, TickPending DEF PfHandler, MaskInv
  <2>2. pc = "pf_handler"  BY <1>10 DEF PfHandler, At
  <2>3. /\ ~user_mode /\ ~int_enabled /\ previous_user_mode = TRUE /\ epc \in UserPcs
        /\ slot_pc' = slot_pc /\ cur' = cur
    BY <1>10, <2>2 DEF PfHandler, MaskInv, procVars
  <2>4. CASE Eret /\ UNCHANGED halted  BY <2>1, <2>3, <2>4 DEF Eret, MaskInv
  <2>5. CASE halted' = TRUE /\ KernelJump(pc)  BY <2>1, <2>2, <2>3, <2>5 DEF KernelJump, MaskInv
  <2> QED  BY <1>10, <2>4, <2>5 DEF PfHandler
<1>11. ASSUME NEW rs, NEW q \in UserPcs, User, UserStep(rs, q)  PROVE MaskInv' /\ epc' = epc
  <2>1. pending' \in BOOLEAN  BY <1>11, TickPending DEF UserStep, MaskInv
  <2> QED  BY <1>11, <2>1 DEF User, UserStep, MaskInv, procVars
<1>12. CASE UserInstruction
  <2>1. PICK q \in UserPcs : \/ \E c \in Computed : Compute(c[1], c[2], q)
                             \/ \E v \in Touched : Load(v, q) \/ Store(v, q)
                             \/ \E n \in Calls : Trap(n, q)
    BY <1>12, Instructions
  <2>2. CASE \E n \in Calls : Trap(n, q)
    <3>1. PICK n \in Calls : Trap(n, q)  BY <2>2
    <3>2. pending' \in BOOLEAN  BY <3>1, TickPending DEF Trap, MaskInv
    <3> QED  BY <3>1, <3>2 DEF Trap, User, EnterKernel, MaskInv, procVars
  <2>3. CASE \E v \in Touched : Load(v, q) \/ Store(v, q)
    BY <2>3, <1>11 DEF Load, Store
  <2>4. CASE \E c \in Computed : Compute(c[1], c[2], q)
    BY <2>4, <1>11 DEF Compute
  <2> QED  BY <2>1, <2>2, <2>3, <2>4
<1>13. CASE Faults
  <2>1. PICK v \in Vpns, t \in {tlb, Fetched} : PageFault(v, t)  BY <1>13, FaultsAreAlike
  <2> QED  BY <1>13, <2>1, FaultsAreAlike DEF PageFault, EnterKernel, MaskInv, procVars
<1>14. CASE UNCHANGED vars
  BY <1>14 DEF vars, cpuVars, procVars, MaskInv
<1> QED
  BY <1>1, <1>2, <1>3, <1>4, <1>5, <1>6, <1>7, <1>8, <1>9, <1>10, <1>12, <1>13, <1>14
     DEF Next, Faults

\* The invariant holds throughout.
THEOREM HandlersAreMasked == Spec => []MaskInv
<1>1. MaskInv /\ [Next]_vars => MaskInv'  BY MaskNext
<1> QED  BY MaskInit, <1>1, PTL DEF Spec

\* No tick, trap or fault overwrites the return address of a running handler.
THEOREM EpcIsStable == Spec => EpcStable
<1>1. MaskInv /\ [Next]_vars => [epc' # epc => user_mode]_vars  BY MaskNext
<1> QED  BY HandlersAreMasked, <1>1, PTL DEF Spec, EpcStable

\* The TLB: entries are leaves some walk answered, and agree with today's walk.
IsTlb(t) == DOMAIN t = 0 .. TlbSize - 1 /\ t = [i \in 0 .. TlbSize - 1 |-> t[i]]
Agrees(t) == \A i \in DOMAIN t : t[i] # NoEntry => t[i] = Walk(t[i].vpn)

\* The tables of the running process and of both slots were allocated, so a
\* new table is none of them; and the TLB agrees with the current one.
TlbInv ==
  /\ next \in Nat /\ ptbr \in Nat /\ ptbr < next
  /\ slot_ptbr \in [Slots -> Nat] /\ \A s \in Slots : slot_ptbr[s] < next
  /\ IsTlb(tlb) /\ Agrees(tlb)

\* Every page number has its place in the TLB.
LEMMA IdxInRange == \A v \in Vpns : Idx(v) \in 0 .. TlbSize - 1
BY MachineAssumption DEF Vpns, Idx

\* The walk of a leaf's own page number finds that leaf again.
LEMMA WalkOfWalk ==
  ASSUME NEW v \in Vpns
  PROVE  Walk(v) = NoEntry \/ Walk(v) = Walk(Walk(v).vpn)
<1>1. CASE v = KernelVpn
  BY <1>1 DEF Walk
<1>2. CASE v # KernelVpn /\ v \in UserVpns /\ table[ptbr][v] # 0
  <2>1. Walk(v) = [vpn |-> v, page |-> table[ptbr][v], user |-> TRUE]  BY <1>2 DEF Walk
  <2> QED  BY <2>1
<1>3. CASE v # KernelVpn /\ ~(v \in UserVpns /\ table[ptbr][v] # 0)
  BY <1>3 DEF Walk
<1> QED  BY <1>1, <1>2, <1>3

\* An access keeps the TLB in agreement: it adds the leaf of the walk, if any.
LEMMA FillAgrees ==
  ASSUME NEW t, IsTlb(t), Agrees(t), NEW v \in Vpns
  PROVE  IsTlb(Fill(t, v)) /\ Agrees(Fill(t, v))
<1>1. Idx(v) \in 0 .. TlbSize - 1  BY IdxInRange
<1>2. Fill(t, v) = [i \in 0 .. TlbSize - 1 |-> IF i = Idx(v) THEN Lookup(t, v) ELSE t[i]]
  BY DEF Fill, IsTlb
<1>3. Lookup(t, v) = NoEntry \/ Lookup(t, v) = Walk(Lookup(t, v).vpn)
  <2>1. t[Idx(v)] = NoEntry \/ t[Idx(v)] = Walk(t[Idx(v)].vpn)  BY <1>1 DEF IsTlb, Agrees
  <2> QED  BY <2>1, WalkOfWalk DEF Lookup
<1>4. ASSUME NEW i \in 0 .. TlbSize - 1
      PROVE  Fill(t, v)[i] # NoEntry => Fill(t, v)[i] = Walk(Fill(t, v)[i].vpn)
  <2>1. CASE i = Idx(v)
    <3>1. Fill(t, v)[i] = Lookup(t, v)  BY <1>2, <2>1
    <3> QED  BY <3>1, <1>3
  <2>2. CASE i # Idx(v)
    <3>1. Fill(t, v)[i] = t[i]  BY <1>2, <2>2
    <3> QED  BY <3>1 DEF IsTlb, Agrees
  <2> QED  BY <2>1, <2>2
<1>5. DOMAIN Fill(t, v) = 0 .. TlbSize - 1  BY <1>2
<1> QED  BY <1>2, <1>4, <1>5 DEF IsTlb, Agrees

\* After a flush the TLB holds at most the kernel's leaf, which is the same in
\* every address space.
LEMMA FlushAgrees ==
  ASSUME tlb' = Fill(EmptyTlb, KernelVpn)
  PROVE  IsTlb(tlb)' /\ Agrees(tlb)'
<1> DEFINE k == [vpn |-> KernelVpn, page |-> 0, user |-> FALSE]
<1>1. Walk(KernelVpn) = k /\ Walk(KernelVpn)' = k  BY DEF Walk
<1>2. KernelVpn \in Vpns /\ NoEntry.vpn # KernelVpn  BY DEF KernelVpn, Vpns, NoEntry
<1>3. Idx(KernelVpn) \in 0 .. TlbSize - 1  BY <1>2, IdxInRange
<1>4. Lookup(EmptyTlb, KernelVpn) = k  BY <1>1, <1>2, <1>3 DEF Lookup, EmptyTlb
<1>5. tlb' = [i \in 0 .. TlbSize - 1 |-> IF i = Idx(KernelVpn) THEN k ELSE NoEntry]
  BY <1>3, <1>4 DEF Fill, EmptyTlb
<1>6. IsTlb(tlb')  BY <1>5 DEF IsTlb
<1>7. ASSUME NEW i \in 0 .. TlbSize - 1, tlb'[i] # NoEntry
      PROVE  (tlb[i] = Walk(tlb[i].vpn))'
  <2>1. tlb'[i] = k  BY <1>5, <1>7
  <2>2. k.vpn = KernelVpn  OBVIOUS
  <2> QED  BY <2>1, <2>2, <1>1
<1> QED  BY <1>5, <1>6, <1>7 DEF IsTlb, Agrees

\* While the table at PTBR stands, so do its walks.
LEMMA SameWalks ==
  ASSUME ptbr' = ptbr, table'[ptbr] = table[ptbr], IsTlb(tlb'), Agrees(tlb')
  PROVE  Agrees(tlb)'
<1>1. \A v : Walk(v)' = Walk(v)  BY DEF Walk
<1> QED  BY <1>1 DEF Agrees

\* A new table is none of those in use.
LEMMA NewTable ==
  ASSUME NEW p, p \in Nat, next \in Nat, p < next, NEW x, NEW f,
         f = [table EXCEPT ![next] = x]
  PROVE  f[p] = table[p]
OBVIOUS

\* TlbInv holds at the start, when paging is off and the TLB is empty.
LEMMA TlbInit == Init => TlbInv
<1> SUFFICES ASSUME Init PROVE TlbInv  OBVIOUS
<1>1. next = 1 /\ ptbr = 0 /\ slot_ptbr = [s \in Slots |-> 0] /\ tlb = EmptyTlb
  BY DEF Init
<1>2. IsTlb(tlb) /\ Agrees(tlb)  BY <1>1 DEF IsTlb, Agrees, EmptyTlb
<1> QED  BY <1>1, <1>2 DEF TlbInv

\* A step that touches no page table and fills at most one page, or two.
LEMMA FillStep ==
  ASSUME TlbInv, NEW u \in Vpns, NEW v \in Vpns,
         tlb' \in {Fill(tlb, u), Fill(Fill(tlb, u), v)},
         UNCHANGED <<ptbr, next, table, slot_ptbr>>
  PROVE  TlbInv'
<1>1. IsTlb(Fill(tlb, u)) /\ Agrees(Fill(tlb, u))  BY FillAgrees DEF TlbInv
<1>2. IsTlb(Fill(Fill(tlb, u), v)) /\ Agrees(Fill(Fill(tlb, u), v))  BY <1>1, FillAgrees
<1>3. IsTlb(tlb') /\ Agrees(tlb')  BY <1>1, <1>2
<1>4. Agrees(tlb)'  BY <1>3, SameWalks
<1> QED  BY <1>3, <1>4 DEF TlbInv

\* Every step keeps the TLB in agreement: the tables of kernel_os change at a
\* new page, or in pf_handler, which flushes, and PTBR changes with a flush.
LEMMA TlbNext ==
  ASSUME MaskInv, TlbInv, [Next]_vars
  PROVE  TlbInv'
<1> USE DEF Vpns, KernelVpn
<1>1. CASE Deliver
  <2>1. UNCHANGED <<ptbr, tlb, table, next, slot_ptbr>>  BY <1>1 DEF Deliver, procVars, pageVars
  <2>2. Agrees(tlb')  BY <2>1 DEF TlbInv
  <2> QED  BY <2>1, <2>2, SameWalks DEF TlbInv
<1>2. CASE Boot
  <2>1. tlb' = Fill(EmptyTlb, KernelVpn) /\ ptbr' = ptbr /\ next' = next + 2
        /\ slot_ptbr' = [slot_ptbr EXCEPT ![0] = next]
    BY <1>2 DEF Boot
  <2>2. IsTlb(tlb)' /\ Agrees(tlb)'  BY <2>1, FlushAgrees
  <2>3. next' \in Nat /\ ptbr' \in Nat /\ ptbr' < next'  BY <2>1 DEF TlbInv
  <2>4. slot_ptbr' \in [Slots -> Nat]  BY <2>1 DEF TlbInv
  <2>5. \A s \in Slots : slot_ptbr'[s] < next'  BY <2>1 DEF TlbInv
  <2> QED  BY <2>2, <2>3, <2>4, <2>5 DEF TlbInv
<1>3. CASE SchedSave
  <2>1. tlb' = Fill(tlb, KernelVpn) /\ UNCHANGED <<ptbr, next, table, slot_ptbr>>
    BY <1>3 DEF SchedSave, pageVars
  <2> QED  BY <2>1, FillStep
<1>4. CASE SchedSavePc
  <2>1. tlb' = Fill(tlb, KernelVpn) /\ UNCHANGED <<ptbr, next, table, slot_ptbr>>
    BY <1>4 DEF SchedSavePc, pageVars
  <2> QED  BY <2>1, FillStep
<1>5. CASE SchedPick
  <2>1. tlb' = Fill(tlb, KernelVpn) /\ UNCHANGED <<ptbr, next, table, slot_ptbr>>
    BY <1>5 DEF SchedPick, pageVars
  <2> QED  BY <2>1, FillStep
<1>6. CASE SchedRestore
  <2>1. tlb' = Fill(EmptyTlb, KernelVpn) /\ ptbr' = slot_ptbr[cur]
        /\ UNCHANGED <<next, table, slot_ptbr>>
    BY <1>6 DEF SchedRestore, procVars, pageVars
  <2>2. IsTlb(tlb)' /\ Agrees(tlb)'  BY <2>1, FlushAgrees
  <2> QED  BY <2>1, <2>2 DEF TlbInv, MaskInv
<1>7. CASE SyscallHandler
  <2>1. tlb' = Fill(tlb, KernelVpn) /\ UNCHANGED <<ptbr, next, table, slot_ptbr>>
    BY <1>7 DEF SyscallHandler, ForkSlot, ExitSlot, procVars, pageVars
  <2> QED  BY <2>1, FillStep
<1>8. CASE SysExec
  <2>1. tlb' \in {Fill(tlb, KernelVpn), Fill(Fill(tlb, KernelVpn), 0)}
        /\ UNCHANGED <<ptbr, next, table, slot_ptbr>>
    BY <1>8 DEF SysExec, procVars
  <2> QED  BY <2>1, FillStep
<1>9. CASE ForkBuild
  <2>1. /\ tlb' = Fill(Fill(tlb, KernelVpn), 0) /\ ptbr' = ptbr /\ next' = next + 2
        /\ table' = [table EXCEPT ![next] = [NoPages EXCEPT ![0] = next + 1]]
        /\ slot_ptbr' = [slot_ptbr EXCEPT ![Child] = next]
    BY <1>9 DEF ForkBuild
  <2>2. IsTlb(Fill(tlb, KernelVpn)) /\ Agrees(Fill(tlb, KernelVpn))  BY FillAgrees DEF TlbInv
  <2>3. IsTlb(tlb') /\ Agrees(tlb')  BY <2>1, <2>2, FillAgrees
  <2>4. table'[ptbr] = table[ptbr]  BY <2>1, NewTable DEF TlbInv
  <2>5. Agrees(tlb)'  BY <2>1, <2>3, <2>4, SameWalks
  <2>6. Child \in Slots  BY SlotsClosed DEF Child, MaskInv
  <2> QED  BY <2>1, <2>3, <2>5, <2>6 DEF TlbInv
<1>10. CASE PfHandler
  <2>1. CASE tlb' = Fill(EmptyTlb, KernelVpn) /\ next' = next + 1
    <3>1. IsTlb(tlb)' /\ Agrees(tlb)'  BY <2>1, FlushAgrees
    <3>2. ptbr' = ptbr /\ slot_ptbr' = slot_ptbr  BY <1>10 DEF PfHandler, procVars
    <3>3. next' \in Nat /\ ptbr' \in Nat /\ ptbr' < next'  BY <2>1, <3>2 DEF TlbInv
    <3>4. slot_ptbr' \in [Slots -> Nat] /\ \A s \in Slots : slot_ptbr'[s] < next'
      BY <2>1, <3>2 DEF TlbInv
    <3> QED  BY <3>1, <3>3, <3>4 DEF TlbInv
  <2>2. CASE UNCHANGED <<table, next, tlb>>
    <3>1. ptbr' = ptbr /\ slot_ptbr' = slot_ptbr  BY <1>10 DEF PfHandler, procVars
    <3>2. Agrees(tlb')  BY <2>2 DEF TlbInv
    <3>3. Agrees(tlb)'  BY <2>2, <3>1, <3>2, SameWalks DEF TlbInv
    <3> QED  BY <2>2, <3>1, <3>3 DEF TlbInv
  <2> QED  BY <1>10, <2>1, <2>2 DEF PfHandler
<1>11. CASE UserInstruction
  <2>1. UNCHANGED <<ptbr, next, table, slot_ptbr>>
    BY <1>11 DEF UserInstruction, Compute, Load, Store, Trap, UserStep, procVars, pageVars
  <2>2. \E v \in Vpns : tlb' \in {Fetched, Fill(Fetched, v)}
    <3>1. Touched \subseteq Vpns /\ 0 \in Vpns  BY MachineAssumption
    <3>2. PICK q \in UserPcs :
            \/ \E c \in Computed : Compute(c[1], c[2], q)
            \/ \E v \in Touched : Load(v, q) \/ Store(v, q)
            \/ \E n \in Calls : Trap(n, q)
      BY <1>11, Instructions
    <3> QED  BY <3>1, <3>2 DEF Compute, Load, Store, Trap
  <2> QED  BY <2>1, <2>2, CodePage, FillStep DEF Fetched
<1>13. CASE Faults
  <2>1. PICK v \in Vpns, t \in {tlb, Fetched} : PageFault(v, t)  BY <1>13, FaultsAreAlike
  <2>2. UNCHANGED <<ptbr, next, table, slot_ptbr>> /\ tlb' = t
    BY <2>1 DEF PageFault, procVars, pageVars
  <2>3. CASE t = tlb
    <3>1. Agrees(tlb')  BY <2>2, <2>3 DEF TlbInv
    <3> QED  BY <2>2, <2>3, <3>1, SameWalks DEF TlbInv
  <2>4. CASE t = Fetched
    BY <2>2, <2>4, CodePage, FillStep DEF Fetched
  <2> QED  BY <2>3, <2>4
<1>12. CASE UNCHANGED vars
  <2>1. UNCHANGED <<ptbr, tlb, table, next, slot_ptbr>>  BY <1>12 DEF vars, procVars, pageVars
  <2>2. Agrees(tlb')  BY <2>1 DEF TlbInv
  <2> QED  BY <2>1, <2>2, SameWalks DEF TlbInv
<1> QED
  BY <1>1, <1>2, <1>3, <1>4, <1>5, <1>6, <1>7, <1>8, <1>9, <1>10, <1>11, <1>12, <1>13
     DEF Next, Faults

\* The TLB is a cache of the page table in use, whatever the processes do.
THEOREM TlbNeverStale == Spec => []TlbIsACache
<1>1. TlbInv => TlbIsACache  BY DEF TlbInv, Agrees, TlbIsACache
<1>2. MaskInv /\ TlbInv /\ [Next]_vars => TlbInv'  BY TlbNext
<1>3. Spec => []TlbInv  BY TlbInit, <1>2, HandlersAreMasked, PTL DEF Spec
<1> QED  BY <1>1, <1>3, PTL


-----------------------------------------------------------------------------
(* Types *)

\* The down counter stays above zero, however long a step took.
LEMMA TickType ==
  ASSUME NEW k \in Nat, counter \in 1 .. Interval, pending \in BOOLEAN, Tick(k)
  PROVE  counter' \in 1 .. Interval /\ pending' \in BOOLEAN
<1>1. Interval \in Nat \ {0}  BY MachineAssumption
<1>2. CASE k < counter  BY <1>1, <1>2, TickPending DEF Tick
<1>3. CASE ~(k < counter)
  <2>1. k - counter \in Nat  BY <1>3
  <2>2. (k - counter) % Interval \in 0 .. Interval - 1  BY <1>1, <2>1
  <2>3. counter' = Interval - ((k - counter) % Interval)  BY <1>3 DEF Tick
  <2> QED  BY <1>1, <2>2, <2>3, TickPending
<1> QED  BY <1>2, <1>3

\* The instruction counts of the blocks.
LEMMA CostFacts ==
  /\ Cost.save \in Nat /\ Cost.save_pc \in Nat /\ Cost.restore \in Nat /\ Cost.start \in Nat
  /\ \A s, t \in Slots : Cost.pick[s][t] \in Nat
  /\ \A n \in 0 .. 6 : Cost.dispatch[n] \in Nat
  /\ LoopCosts \subseteq Nat /\ 1 \in Nat
  /\ Interval - Cost.start \in 1 .. Interval
BY MachineAssumption DEF Slots

\* In a TLB that agrees with the page table a lookup is a walk.
LEMMA LookupIsWalk ==
  ASSUME NEW t, IsTlb(t), Agrees(t), NEW v \in Vpns
  PROVE  Lookup(t, v) = Walk(v)
<1>1. Idx(v) \in DOMAIN t  BY IdxInRange DEF IsTlb
<1>2. CASE t[Idx(v)].vpn = v
  <2>1. t[Idx(v)] # NoEntry  BY <1>2 DEF NoEntry, Vpns
  <2> QED  BY <1>1, <1>2, <2>1 DEF Agrees, Lookup
<1>3. CASE t[Idx(v)].vpn # v  BY <1>3 DEF Lookup
<1> QED  BY <1>2, <1>3

\* The page a walk finds is one the table holds, or none.
LEMMA WalkPage ==
  ASSUME NEW v \in Vpns
  PROVE  /\ Walk(v).page = IF v \in UserVpns THEN table[ptbr][v] ELSE 0
         /\ Walk(v) # NoEntry /\ Walk(v).user => v \in UserVpns /\ table[ptbr][v] # 0
<1>1. CASE v = KernelVpn
  <2>1. Walk(v) = [vpn |-> v, page |-> 0, user |-> FALSE]  BY <1>1 DEF Walk
  <2> QED  BY <1>1, <2>1 DEF KernelVpn, UserVpns
<1>2. CASE v # KernelVpn /\ v \in UserVpns /\ table[ptbr][v] # 0
  <2>1. Walk(v) = [vpn |-> v, page |-> table[ptbr][v], user |-> TRUE]  BY <1>2 DEF Walk
  <2> QED  BY <1>2, <2>1
<1>3. CASE v # KernelVpn /\ ~(v \in UserVpns /\ table[ptbr][v] # 0)
  <2>1. Walk(v) = NoEntry  BY <1>3 DEF Walk
  <2> QED  BY <1>3, <2>1 DEF NoEntry
<1> QED  BY <1>1, <1>2, <1>3

\* The page number a step reads or writes, once the kernel's page and the
\* program's code are in the TLB.
LEMMA Translations ==
  ASSUME TlbInv, NEW u \in Vpns, NEW v \in Vpns
  PROVE  /\ Lookup(tlb, v) = Walk(v) /\ Lookup(Fill(tlb, u), v) = Walk(v)
         /\ FaultCode(tlb, v) = 0 \/ FaultCode(Fill(tlb, u), v) = 0 =>
              v \in UserVpns /\ table[ptbr][v] # 0
<1>1. IsTlb(Fill(tlb, u)) /\ Agrees(Fill(tlb, u))  BY FillAgrees DEF TlbInv
<1>2. Lookup(tlb, v) = Walk(v) /\ Lookup(Fill(tlb, u), v) = Walk(v)
  BY <1>1, LookupIsWalk DEF TlbInv
<1> QED  BY <1>2, WalkPage DEF FaultCode

PageNumbers == 0 .. MaxPage

\* Types, with the room that a fork finds when it is served, and the group xk,
\* which no handler fills with junk.
TypeInv ==
  /\ counter \in 1 .. Interval
  /\ previous_user_mode \in BOOLEAN
  /\ pc \in UserPcs \cup KernelPcs /\ epc \in UserPcs \cup KernelPcs
  /\ regs \in [Regs -> Values] /\ regs["xk"] \in Vals
  /\ saved \in [Slots -> [Regs -> Values]] /\ \A s \in Slots : saved[s]["xk"] \in Vals
  /\ x10 \in 0 .. 6 /\ x11 \in Vpns
  /\ live \in [Slots -> BOOLEAN]
  /\ slot_ptbr \in [Slots -> PageNumbers] /\ ptbr \in PageNumbers
  /\ next \in 1 .. MaxPage + 1
  /\ table \in [PageNumbers -> [UserVpns -> PageNumbers]]
  /\ mem \in [PageNumbers -> Vals]
  /\ pc = "boot" => next = 1
  /\ pc = "syscall_handler" /\ x10 = 2 => next < MaxPage
  /\ pc = "fork_build" => next < MaxPage

LEMMA ConstantFacts ==
  /\ MaxPage \in Nat /\ MaxPage >= 2
  /\ Vals \subseteq Values /\ Junk \in Values /\ 0 \in Vals /\ 1 \in Vals
  /\ Calls \subseteq 0 .. 6 /\ Touched \subseteq Vpns
  /\ \A c \in Computed : c[1] \in Regs /\ c[2] \in Vals
  /\ UserVpns \subseteq Vpns /\ 0 \in UserVpns /\ KernelVpn \in Vpns
  /\ "xc" \in Regs /\ "x2" \in Regs /\ "xk" \in Regs
BY MachineAssumption DEF Values, Vpns, UserVpns, KernelVpn, Regs

LEMMA InitTypeInv ==
  ASSUME Init
  PROVE  TypeInv
<1>1. Interval \in Nat \ {0} /\ Zeroed \in [Regs -> Values] /\ Zeroed["xk"] \in Vals
  BY MachineAssumption, ConstantFacts DEF Zeroed
<1>2. NoPages \in [UserVpns -> PageNumbers] /\ 0 \in PageNumbers /\ 0 \in Vpns
  BY ConstantFacts DEF NoPages, PageNumbers, UserVpns
<1>3. "boot" \in KernelPcs /\ 1 \in 1 .. MaxPage + 1  BY ConstantFacts DEF KernelPcs
<1>4. counter = Interval /\ previous_user_mode \in BOOLEAN  BY DEF Init
<1>5. /\ pc \in UserPcs \cup KernelPcs /\ epc \in UserPcs \cup KernelPcs
      /\ pc = "boot" /\ next = 1
  BY <1>3 DEF Init
<1>6. /\ regs \in [Regs -> Values] /\ regs["xk"] \in Vals
      /\ saved \in [Slots -> [Regs -> Values]]
      /\ \A s \in Slots : saved[s]["xk"] \in Vals
  BY <1>1 DEF Init
<1>7. /\ slot_ptbr \in [Slots -> PageNumbers] /\ ptbr \in PageNumbers
      /\ table \in [PageNumbers -> [UserVpns -> PageNumbers]]
      /\ mem \in [PageNumbers -> Vals]
  BY <1>2, ConstantFacts DEF Init, PageNumbers
<1>8. live \in [Slots -> BOOLEAN]  BY DEF Init
<1>9. x10 \in 0 .. 6 /\ x11 \in Vpns  BY <1>2 DEF Init
<1> QED  BY <1>1, <1>3, <1>4, <1>5, <1>6, <1>7, <1>8, <1>9 DEF TypeInv

\* What a set of registers is when one group is replaced.
LEMMA RegsType ==
  ASSUME NEW c \in [Regs -> Values], c["xk"] \in Vals, NEW x \in Values
  PROVE  /\ [c EXCEPT !["xc"] = x] \in [Regs -> Values]
         /\ [c EXCEPT !["xc"] = x]["xk"] \in Vals
         /\ [c EXCEPT !["x2"] = x] \in [Regs -> Values]
         /\ [c EXCEPT !["x2"] = x]["xk"] \in Vals
BY DEF Regs


\* A step of a program: only its registers, its pc, and one word of memory.
LEMMA UserStepType ==
  ASSUME MaskInv, TypeInv, User, NEW rs \in [Regs -> Values], rs["xk"] \in Vals,
         NEW q \in UserPcs, UserStep(rs, q), mem' \in [PageNumbers -> Vals]
  PROVE  TypeInv'
<1>1. counter' \in 1 .. Interval
  BY TickType, CostFacts DEF UserStep, TypeInv, MaskInv
<1>2. UNCHANGED <<previous_user_mode, epc, x10, x11, ptbr, live, saved, slot_ptbr, next, table>>
  BY DEF UserStep, procVars
<1>3. regs' = rs /\ pc' = q  BY DEF UserStep
<1>4. q \notin {"boot", "pf_handler", "syscall_handler", "fork_build"}  BY DEF UserPcs
<1> QED  BY <1>1, <1>2, <1>3, <1>4 DEF TypeInv

LEMMA ProgramType ==
  ASSUME MaskInv, TlbInv, TypeInv, UserInstruction
  PROVE  TypeInv'
<1>1. PICK q \in UserPcs : \/ \E c \in Computed : Compute(c[1], c[2], q)
                           \/ \E v \in Touched : Load(v, q) \/ Store(v, q)
                           \/ \E n \in Calls : Trap(n, q)
  BY Instructions
<1>0. /\ regs \in [Regs -> Values] /\ regs["xk"] \in Vals /\ mem \in [PageNumbers -> Vals]
      /\ ptbr \in PageNumbers /\ table \in [PageNumbers -> [UserVpns -> PageNumbers]]
  BY DEF TypeInv
<1>2. ASSUME NEW c \in Computed, Compute(c[1], c[2], q) PROVE TypeInv'
  <2> DEFINE rs == [regs EXCEPT ![c[1]] = c[2]]
  <2>1. rs \in [Regs -> Values] /\ rs["xk"] \in Vals  BY <1>0, ConstantFacts
  <2>2. User /\ UserStep(rs, q) /\ mem' = mem  BY <1>2 DEF Compute
  <2> HIDE DEF rs
  <2> QED  BY <1>0, <2>1, <2>2, UserStepType
<1>3. ASSUME NEW v \in Touched, Load(v, q) PROVE TypeInv'
  <2> DEFINE pg == Lookup(Fetched, v).page
             rs == [regs EXCEPT !["xk"] = mem[pg]]
  <2>1. v \in Vpns /\ VpnOf(pc) \in Vpns /\ FaultCode(Fetched, v) = 0
    BY <1>3, CodePage, ConstantFacts DEF Load
  <2>2. v \in UserVpns /\ pg = table[ptbr][v]
    BY <2>1, Translations, WalkPage DEF Fetched
  <2>3. mem[pg] \in Vals  BY <1>0, <2>2
  <2>4. rs \in [Regs -> Values] /\ rs["xk"] \in Vals  BY <1>0, <2>3, ConstantFacts
  <2>5. User /\ UserStep(rs, q) /\ mem' = mem  BY <1>3 DEF Load
  <2> HIDE DEF rs
  <2> QED  BY <1>0, <2>4, <2>5, UserStepType
<1>4. ASSUME NEW v \in Touched, Store(v, q) PROVE TypeInv'
  <2>1. User /\ UserStep(regs, q)  BY <1>4 DEF Store
  <2>2. mem' \in [PageNumbers -> Vals]  BY <1>0, <1>4 DEF Store
  <2> QED  BY <1>0, <2>1, <2>2, UserStepType
<1>5. ASSUME NEW n \in Calls, Trap(n, q) PROVE TypeInv'
  <2>1. counter' \in 1 .. Interval  BY <1>5, TickType, CostFacts DEF Trap, TypeInv, MaskInv
  <2>2. regs' \in [Regs -> Values] /\ regs'["xk"] \in Vals
    BY <1>0, <1>5, RegsType, ConstantFacts DEF Trap
  <2>3. /\ previous_user_mode' \in BOOLEAN /\ epc' = q /\ pc' = "syscall_handler" /\ x10' = n
        /\ n \in 0 .. 6 /\ (n = 2 => next < MaxPage)
        /\ UNCHANGED <<x11, ptbr, live, saved, slot_ptbr, next, table, mem>>
    BY <1>5, ConstantFacts DEF Trap, EnterKernel, procVars, pageVars, MaskInv
  <2>4. "syscall_handler" \in KernelPcs  BY DEF KernelPcs
  <2> QED  BY <2>1, <2>2, <2>3, <2>4 DEF TypeInv
<1> QED  BY <1>1, <1>2, <1>3, <1>4, <1>5

LEMMA FaultType ==
  ASSUME MaskInv, TypeInv, Faults
  PROVE  TypeInv'
<1>0. PICK v \in Vpns, t \in {tlb, Fetched} : PageFault(v, t)  BY FaultsAreAlike
<1>1. regs' \in [Regs -> Values] /\ regs'["xk"] \in Vals
  BY <1>0, RegsType, ConstantFacts DEF PageFault, TypeInv
<1>2. /\ previous_user_mode' \in BOOLEAN /\ epc' = pc /\ pc' = "pf_handler" /\ x11' = v
      /\ UNCHANGED <<counter, ptbr, live, saved, slot_ptbr, next, table, mem>>
  BY <1>0 DEF PageFault, EnterKernel, procVars, pageVars, MaskInv
<1>3. x10' \in 0 .. 6  BY <1>0 DEF PageFault, FaultCode
<1>4. "pf_handler" \in KernelPcs  BY DEF KernelPcs
<1> QED  BY <1>1, <1>2, <1>3, <1>4 DEF TypeInv

\* The blocks of a context switch.
LEMMA SwitchType ==
  ASSUME MaskInv, TypeInv,
         Deliver \/ Boot \/ SchedSave \/ SchedSavePc \/ SchedPick \/ SchedRestore
  PROVE  TypeInv'
<1> DEFINE Quiet == pc' \notin {"boot", "pf_handler", "syscall_handler", "fork_build"}
<1>0. {"sched_save", "sched_save_pc", "sched_pick", "sched_restore"} \subseteq KernelPcs
  BY DEF KernelPcs
<1>1. CASE Deliver
  BY <1>0, <1>1 DEF Deliver, EnterKernel, procVars, pageVars, TypeInv, MaskInv
<1>2. CASE Boot
  <2>1. next = 1 /\ next + 1 \in PageNumbers /\ next \in PageNumbers /\ next' = 3
    BY <1>2, ConstantFacts DEF Boot, At, TypeInv, PageNumbers
  <2>2. [NoPages EXCEPT ![0] = next + 1] \in [UserVpns -> PageNumbers]
    BY <2>1, ConstantFacts DEF NoPages, PageNumbers
  <2>3. table' \in [PageNumbers -> [UserVpns -> PageNumbers]]
    BY <1>2, <2>1, <2>2 DEF Boot, TypeInv
  <2>4. slot_ptbr' \in [Slots -> PageNumbers]  BY <1>2, <2>1 DEF Boot, TypeInv
  <2>5. live' \in [Slots -> BOOLEAN]  BY <1>2 DEF Boot, TypeInv
  <2>6. counter' \in 1 .. Interval  BY <1>2, CostFacts DEF Boot
  <2>7. next' \in 1 .. MaxPage + 1  BY <2>1, ConstantFacts
  <2>8. /\ pc' = "sched_restore"
        /\ UNCHANGED <<previous_user_mode, epc, regs, x10, x11, ptbr, saved, mem>>
    BY <1>2 DEF Boot, KernelJump
  <2> QED  BY <1>0, <2>3, <2>4, <2>5, <2>6, <2>7, <2>8 DEF TypeInv
<1>3. CASE SchedSave
  <2>1. counter' \in 1 .. Interval
    BY <1>3, TickType, CostFacts DEF SchedSave, TypeInv, MaskInv
  <2>2. /\ saved' \in [Slots -> [Regs -> Values]]
        /\ \A s \in Slots : saved'[s]["xk"] \in Vals
    BY <1>3 DEF SchedSave, TypeInv, MaskInv
  <2>3. /\ pc' = "sched_save_pc"
        /\ UNCHANGED <<previous_user_mode, epc, regs, x10, x11, ptbr, live, slot_ptbr,
                       next, table, mem>>
    BY <1>3 DEF SchedSave, KernelJump, pageVars
  <2> QED  BY <1>0, <2>1, <2>2, <2>3 DEF TypeInv
<1>4. CASE SchedSavePc
  <2>1. counter' \in 1 .. Interval
    BY <1>4, TickType, CostFacts DEF SchedSavePc, TypeInv, MaskInv
  <2>2. /\ pc' = "sched_pick"
        /\ UNCHANGED <<previous_user_mode, epc, regs, x10, x11, ptbr, live, saved, slot_ptbr,
                       next, table, mem>>
    BY <1>4 DEF SchedSavePc, KernelJump, pageVars
  <2> QED  BY <1>0, <2>1, <2>2 DEF TypeInv
<1>5. CASE SchedPick
  <2>1. cur \in Slots /\ Picked \in Slots  BY SlotsClosed DEF MaskInv, Picked
  <2>2. counter' \in 1 .. Interval
    BY <1>5, <2>1, TickType, CostFacts DEF SchedPick, TypeInv, MaskInv
  <2>3. /\ pc' \in {"sched_pick", "sched_restore"}
        /\ UNCHANGED <<previous_user_mode, epc, regs, x10, x11, ptbr, live, saved, slot_ptbr,
                       next, table, mem>>
    BY <1>5 DEF SchedPick, KernelJump, pageVars
  <2> QED  BY <1>0, <2>2, <2>3 DEF TypeInv
<1>6. CASE SchedRestore
  <2>1. counter' \in 1 .. Interval
    BY <1>6, TickType, CostFacts DEF SchedRestore, TypeInv, MaskInv
  <2>2. /\ ptbr' \in PageNumbers /\ regs' \in [Regs -> Values] /\ regs'["xk"] \in Vals
        /\ pc' \in UserPcs
    BY <1>6 DEF SchedRestore, Sret, TypeInv, MaskInv
  <2>3. /\ previous_user_mode' \in BOOLEAN
        /\ UNCHANGED <<epc, x10, x11, live, saved, slot_ptbr, next, table, mem>>
    BY <1>6 DEF SchedRestore, Sret, procVars, pageVars, MaskInv
  <2>4. pc' \notin {"boot", "pf_handler", "syscall_handler", "fork_build"}
    BY <2>2 DEF UserPcs
  <2> QED  BY <2>1, <2>2, <2>3, <2>4 DEF TypeInv
<1> QED  BY <1>1, <1>2, <1>3, <1>4, <1>5, <1>6

\* The handler either serves a page fault or stops the machine.
LEMMA Served ==
  ASSUME TypeInv, PfHandler
  PROVE  IF x10 = 1 /\ x11 \in UserVpns /\ next <= MaxPage
         THEN /\ table' = [table EXCEPT ![slot_ptbr[cur]][x11] = next] /\ next' = next + 1
              /\ regs' = [regs EXCEPT !["x2"] = Junk] /\ Eret
         ELSE UNCHANGED <<table, next, regs>> /\ KernelJump(pc)
<1>1. next <= MaxPage <=> ~(next > MaxPage)
  <2>1. next \in Nat /\ MaxPage \in Nat  BY ConstantFacts DEF TypeInv
  <2> QED  BY <2>1
<1> QED  BY <1>1 DEF PfHandler

\* The handlers of a trap and of a page fault.
LEMMA HandlerType ==
  ASSUME MaskInv, TlbInv, TypeInv, SyscallHandler \/ SysExec \/ ForkBuild \/ PfHandler
  PROVE  TypeInv'
<1>0. /\ regs \in [Regs -> Values] /\ regs["xk"] \in Vals
      /\ saved \in [Slots -> [Regs -> Values]] /\ cur \in Slots /\ Child \in Slots
      /\ ptbr \in PageNumbers /\ x10 \in 0 .. 6
      /\ next \in 1 .. MaxPage + 1 /\ mem \in [PageNumbers -> Vals]
      /\ table \in [PageNumbers -> [UserVpns -> PageNumbers]]
      /\ slot_ptbr \in [Slots -> PageNumbers] /\ live \in [Slots -> BOOLEAN]
  BY SlotsClosed DEF TypeInv, MaskInv, Child
<1>1. /\ {"syscall_handler", "fork_build", "pf_handler", "sched_save", "sched_pick"}
           \subseteq KernelPcs
      /\ {"syscall_handler", "fork_build", "pf_handler"} \subseteq Handlers
      /\ "u0" \in UserPcs
      /\ \A q \in UserPcs : q \notin {"boot", "pf_handler", "syscall_handler", "fork_build"}
  BY DEF KernelPcs, Handlers, UserPcs
<1>2. CASE SyscallHandler
  <2>1. counter' \in 1 .. Interval
    BY <1>0, <1>2, TickType, CostFacts DEF SyscallHandler, TypeInv, MaskInv
  <2>2. /\ pc = "syscall_handler" /\ epc \in UserPcs /\ previous_user_mode = TRUE
        /\ x10' = 0 /\ 0 \in 0 .. 6
        /\ UNCHANGED <<regs, x11, ptbr, next, table, mem>>
    BY <1>1, <1>2 DEF SyscallHandler, At, MaskInv, pageVars
  <2>3. \/ Eret
        \/ \E l \in {"syscall_handler", "fork_build", "sched_save", "sched_pick"} :
             KernelJump(l) /\ (l = "fork_build" => x10 = 2)
    BY <1>2, <2>2 DEF SyscallHandler
  <2>5. /\ pc' \in {"syscall_handler", "fork_build", "sched_save", "sched_pick"} \cup UserPcs
        /\ pc' = "fork_build" => x10 = 2
        /\ previous_user_mode' = previous_user_mode /\ epc' = epc
    <3>1. CASE Eret  BY <1>1, <2>2, <3>1 DEF Eret
    <3>2. CASE \E l \in {"syscall_handler", "fork_build", "sched_save", "sched_pick"} :
                 KernelJump(l) /\ (l = "fork_build" => x10 = 2)
      BY <3>2 DEF KernelJump
    <3> QED  BY <2>3, <3>1, <3>2
  <2>4. /\ live' \in [Slots -> BOOLEAN] /\ slot_ptbr' = slot_ptbr
        /\ saved' \in [Slots -> [Regs -> Values]] /\ \A s \in Slots : saved'[s]["xk"] \in Vals
    <3>1. CASE UNCHANGED <<live, saved, slot_ptbr>>  BY <1>0, <3>1 DEF TypeInv
    <3>2. CASE ExitSlot  BY <1>0, <3>2 DEF ExitSlot, TypeInv
    <3>3. CASE ForkSlot
      <4>1. [regs EXCEPT !["x2"] = 0] \in [Regs -> Values]
            /\ [regs EXCEPT !["x2"] = 0]["xk"] \in Vals
        BY <1>0, RegsType, ConstantFacts
      <4> QED  BY <1>0, <3>3, <4>1 DEF ForkSlot, TypeInv
    <3> QED  BY <1>2, <3>1, <3>2, <3>3 DEF SyscallHandler, procVars
  <2> QED  BY <1>1, <2>1, <2>2, <2>5, <2>4 DEF TypeInv
<1>3. CASE SysExec
  <2>1. counter' \in 1 .. Interval
    BY <1>3, TickType, CostFacts DEF SysExec, TypeInv, MaskInv
  <2>2. regs' \in [Regs -> Values] /\ regs'["xk"] \in Vals
    <3>1. /\ [regs EXCEPT !["x2"] = Junk] \in [Regs -> Values]
          /\ [regs EXCEPT !["x2"] = Junk]["xk"] \in Vals
      BY <1>0, RegsType, ConstantFacts
    <3>2. regs' = regs \/ regs' = [regs EXCEPT !["x2"] = Junk]  BY <1>3 DEF SysExec
    <3> QED  BY <1>0, <3>1, <3>2
  <2>3. mem' \in [PageNumbers -> Vals]  BY <1>0, <1>3, ConstantFacts DEF SysExec
  <2>4. /\ pc = "syscall_handler" /\ epc \in UserPcs /\ x10' = 0 /\ 0 \in 0 .. 6
        /\ UNCHANGED <<x11, ptbr, next, table, live, saved, slot_ptbr>>
    BY <1>1, <1>3 DEF SysExec, At, MaskInv, procVars
  <2>5. pc' \in UserPcs /\ epc' = epc /\ previous_user_mode' \in BOOLEAN
    BY <1>1, <1>3, <2>4 DEF SysExec, Eret, Sret, MaskInv, TypeInv
  <2> QED  BY <1>1, <2>1, <2>2, <2>3, <2>4, <2>5 DEF TypeInv
<1>4. CASE ForkBuild
  <2>0. /\ pc = "fork_build" /\ epc \in UserPcs /\ next < MaxPage
        /\ next \in PageNumbers /\ next + 1 \in PageNumbers /\ next + 2 \in 1 .. MaxPage + 1
    BY <1>0, <1>1, <1>4, ConstantFacts DEF ForkBuild, At, MaskInv, TypeInv, PageNumbers
  <2>1. counter' \in 1 .. Interval
    BY <1>4, TickType, CostFacts DEF ForkBuild, TypeInv, MaskInv
  <2>2. regs' \in [Regs -> Values] /\ regs'["xk"] \in Vals
    BY <1>0, <1>4, RegsType, ConstantFacts DEF ForkBuild
  <2>3. /\ table' \in [PageNumbers -> [UserVpns -> PageNumbers]]
        /\ slot_ptbr' \in [Slots -> PageNumbers] /\ next' \in 1 .. MaxPage + 1
    <3>1. [NoPages EXCEPT ![0] = next + 1] \in [UserVpns -> PageNumbers]
      BY <2>0, ConstantFacts DEF NoPages, PageNumbers
    <3> QED  BY <1>0, <1>4, <2>0, <3>1 DEF ForkBuild
  <2>4. mem' \in [PageNumbers -> Vals]
    <3> DEFINE pg == Lookup(Fill(tlb, KernelVpn), 0).page
    <3>1. pg = table[ptbr][0]
      <4>1. 0 \in Vpns /\ 0 \in UserVpns /\ KernelVpn \in Vpns  BY ConstantFacts
      <4> QED  BY <4>1, Translations, WalkPage
    <3>2. mem[pg] \in Vals  BY <1>0, <3>1, ConstantFacts
    <3> QED  BY <1>0, <1>4, <2>0, <3>2 DEF ForkBuild
  <2>5. /\ pc' = epc /\ epc' = epc /\ previous_user_mode' = previous_user_mode
        /\ UNCHANGED <<x10, x11, ptbr, live, saved>>
    BY <1>4 DEF ForkBuild, Eret
  <2> QED  BY <1>1, <2>0, <2>1, <2>2, <2>3, <2>4, <2>5 DEF TypeInv
<1>5. CASE PfHandler
  <2>0. pc = "pf_handler" /\ epc \in UserPcs
    BY <1>1, <1>5 DEF PfHandler, At, MaskInv
  <2>1. counter' \in 1 .. Interval
    BY <1>5, TickType, CostFacts DEF PfHandler, TypeInv, MaskInv
  <2>2. regs' \in [Regs -> Values] /\ regs'["xk"] \in Vals
    <3>1. /\ [regs EXCEPT !["x2"] = Junk] \in [Regs -> Values]
          /\ [regs EXCEPT !["x2"] = Junk]["xk"] \in Vals
      BY <1>0, RegsType, ConstantFacts
    <3>2. regs' = regs \/ regs' = [regs EXCEPT !["x2"] = Junk]  BY <1>5 DEF PfHandler
    <3> QED  BY <1>0, <3>1, <3>2
  <2>3. table' \in [PageNumbers -> [UserVpns -> PageNumbers]] /\ next' \in 1 .. MaxPage + 1
    <3>1. CASE x10 = 1 /\ x11 \in UserVpns /\ next <= MaxPage
      <4>1. next \in PageNumbers /\ next + 1 \in 1 .. MaxPage + 1
        BY <1>0, <2>0, <3>1, ConstantFacts DEF TypeInv, PageNumbers
      <4>2. slot_ptbr[cur] \in PageNumbers  BY <1>0
      <4>3. /\ table' = [table EXCEPT ![slot_ptbr[cur]][x11] = next] /\ next' = next + 1
        BY <1>5, <3>1, Served
      <4> QED  BY <1>0, <3>1, <4>1, <4>2, <4>3
    <3>2. CASE ~(x10 = 1 /\ x11 \in UserVpns /\ next <= MaxPage)
      BY <1>0, <1>5, <3>2, Served
    <3> QED  BY <3>1, <3>2
  <2>4. /\ x10' = 0 /\ x11' = 0 /\ 0 \in 0 .. 6 /\ 0 \in Vpns
        /\ UNCHANGED <<ptbr, live, saved, slot_ptbr, mem>>
    BY <1>5, ConstantFacts DEF PfHandler, procVars
  <2>5. pc' \in {"pf_handler"} \cup UserPcs /\ epc' = epc
        /\ previous_user_mode' = previous_user_mode
    BY <1>5, <2>0 DEF PfHandler, Eret, KernelJump
  <2> QED  BY <1>1, <2>0, <2>1, <2>2, <2>3, <2>4, <2>5 DEF TypeInv
<1> QED  BY <1>2, <1>3, <1>4, <1>5

LEMMA NextTypeInv ==
  ASSUME MaskInv, TlbInv, TypeInv, [Next]_vars
  PROVE  TypeInv'
<1>1. CASE UNCHANGED vars
  BY <1>1 DEF vars, cpuVars, procVars, pageVars, TypeInv
<1>2. CASE Next
  BY <1>2, ProgramType, FaultType, SwitchType, HandlerType DEF Next, Faults
<1> QED  BY <1>1, <1>2

\* Every variable keeps its type, and the down counter stays between one and
\* the interval however many instructions a handler takes (tick, mik-emu).
THEOREM MachineTypeCorrect == Spec => []MikTypeOK
<1>1. MaskInv /\ TypeInv => MikTypeOK
  <2> SUFFICES ASSUME MaskInv, TypeInv PROVE MikTypeOK  OBVIOUS
  <2>1. {halted, user_mode, previous_user_mode, int_enabled, pending} \subseteq BOOLEAN
    BY DEF MaskInv, TypeInv
  <2>2. {pc, epc} \cup {slot_pc[s] : s \in Slots} \subseteq UserPcs \cup KernelPcs
    BY DEF MaskInv, TypeInv
  <2> QED  BY <2>1, <2>2 DEF MaskInv, TypeInv, MikTypeOK, PageNumbers
<1>2. MaskInv /\ TlbInv /\ [Next]_vars => TlbInv'  BY TlbNext
<1>3. MaskInv /\ TlbInv /\ TypeInv /\ [Next]_vars => TypeInv'  BY NextTypeInv
<1>4. Init => TypeInv  BY InitTypeInv
<1>5. Spec => [](TlbInv /\ TypeInv)
  BY TlbInit, <1>2, <1>3, <1>4, HandlersAreMasked, PTL DEF Spec
<1> QED  BY <1>1, <1>5, HandlersAreMasked, PTL

-----------------------------------------------------------------------------
(* Address spaces *)

\* The other slot is the only other one.
LEMMA TwoSlots ==
  ASSUME NEW s \in Slots
  PROVE  Other(s) \in Slots /\ Other(s) # s /\ \A t \in Slots : t = s \/ t = Other(s)
BY DEF Slots, Other

\* The slots whose tables are built: not the one a fork is filling.
InUse(s) == live[s] /\ ~(pc = "fork_build" /\ s = Child)

\* Pages are handed out in order, and each to one place: a built table and a
\* page it maps are below next, and no two built tables share any.
Separate ==
  /\ \A p \in PageNumbers : \A v \in UserVpns : table[p][v] < next
  /\ \A s \in Slots : InUse(s) =>
       0 < slot_ptbr[s] /\ slot_ptbr[s] < next /\ table[slot_ptbr[s]][0] # 0
  /\ \A s, t \in Slots : s # t /\ InUse(s) /\ InUse(t) =>
       /\ slot_ptbr[s] # slot_ptbr[t]
       /\ \A u, v \in UserVpns :
            table[slot_ptbr[s]][u] # 0 => table[slot_ptbr[s]][u] # table[slot_ptbr[t]][v]

\* Which process the CPU runs: a live one, in its own address space, from the
\* end of a switch to its exit.
Placed ==
  /\ pc = "boot" => cur = 0 /\ \A s \in Slots : ~live[s]
  /\ pc \notin {"boot", "sched_pick"} => live[cur]
  /\ user_mode \/ pc \in {"syscall_handler", "fork_build", "pf_handler"} =>
       ptbr = slot_ptbr[cur]

PageInv == Separate /\ Placed

\* An entry of a table is a page number.
LEMMA Entries ==
  ASSUME TypeInv, NEW p \in PageNumbers, NEW v \in UserVpns
  PROVE  table[p][v] \in PageNumbers /\ table[p][v] \in Nat
<1>1. table[p][v] \in PageNumbers  BY DEF TypeInv
<1> QED  BY <1>1 DEF PageNumbers

\* A step that allots nothing and starts or ends no process.
LEMMA SameTables ==
  ASSUME Separate, pc # "fork_build", pc' # "fork_build",
         UNCHANGED <<live, slot_ptbr, next, table>>
  PROVE  Separate'
BY DEF Separate, InUse

LEMMA InitPages ==
  ASSUME Init
  PROVE  PageInv
<1>1. \A p \in PageNumbers : \A v \in UserVpns : table[p][v] = 0
  BY DEF Init, NoPages, PageNumbers
<1>2. next = 1 /\ pc = "boot" /\ cur = 0 /\ user_mode = FALSE
      /\ \A s \in Slots : ~live[s]
  BY DEF Init
<1> QED  BY <1>1, <1>2 DEF PageInv, Separate, Placed, InUse

\* The boot code, the fork and the demand fault are the three that allot pages.
LEMMA BootPages ==
  ASSUME MaskInv, TypeInv, PageInv, Boot
  PROVE  PageInv'
<1>0. /\ pc = "boot" /\ pc' = "sched_restore" /\ user_mode' = user_mode /\ cur' = cur
      /\ live' = [live EXCEPT ![0] = TRUE] /\ slot_ptbr' = [slot_ptbr EXCEPT ![0] = next]
      /\ next' = next + 2 /\ 0 \in Slots
  BY DEF Boot, At, KernelJump, Slots
<1>1. /\ next = 1 /\ next' = 3 /\ 1 \in PageNumbers /\ cur = 0
      /\ \A s \in Slots : live'[s] <=> s = 0
      /\ slot_ptbr'[0] = 1
  BY <1>0, ConstantFacts DEF TypeInv, PageInv, Placed, PageNumbers
<1>2. /\ \A p \in PageNumbers : \A v \in UserVpns : table'[p][v] < 3
      /\ table'[1][0] = 2
  <2>1. table' = [table EXCEPT ![1] = [NoPages EXCEPT ![0] = 2]]  BY <1>1 DEF Boot
  <2>2. \A v \in UserVpns : [NoPages EXCEPT ![0] = 2][v] = IF v = 0 THEN 2 ELSE 0
    BY DEF NoPages
  <2>3. \A p \in PageNumbers : \A v \in UserVpns : table[p][v] < 1
    BY <1>1 DEF PageInv, Separate
  <2>4. \A p \in PageNumbers : \A v \in UserVpns : table[p][v] \in Nat
    BY Entries
  <2> QED  BY <1>1, <2>1, <2>2, <2>3, <2>4, ConstantFacts DEF TypeInv
<1>3. ~user_mode'
  BY <1>0, Labels DEF MaskInv
<1>4. Separate'
  <2>1. \A s \in Slots : InUse(s)' => s = 0  BY <1>1 DEF InUse
  <2>2. 0 < slot_ptbr'[0] /\ slot_ptbr'[0] < next' /\ table'[slot_ptbr'[0]][0] # 0
    BY <1>1, <1>2
  <2>3. \A p \in PageNumbers : \A v \in UserVpns : table'[p][v] < next'  BY <1>1, <1>2
  <2>4. \A s \in Slots : InUse(s)' =>
          0 < slot_ptbr'[s] /\ slot_ptbr'[s] < next' /\ table'[slot_ptbr'[s]][0] # 0
    BY <2>1, <2>2
  <2>5. \A s, t \in Slots : ~(s # t /\ InUse(s)' /\ InUse(t)')  BY <2>1
  <2> QED  BY <2>3, <2>4, <2>5 DEF Separate
<1>5. Placed'
  <2>1. live'[cur']  BY <1>0, <1>1
  <2> QED  BY <1>0, <1>3, <2>1 DEF Placed
<1> QED  BY <1>4, <1>5 DEF PageInv

LEMMA ForkPages ==
  ASSUME MaskInv, TypeInv, PageInv, ForkBuild
  PROVE  PageInv'
<1>1. /\ pc = "fork_build" /\ cur \in Slots /\ Child \in Slots /\ Child # cur
      /\ \A s \in Slots : s = cur \/ s = Child
      /\ next \in PageNumbers /\ next + 1 <= MaxPage /\ next > 0
  <2>1. pc = "fork_build" /\ cur \in Slots  BY DEF ForkBuild, At, MaskInv
  <2>2. next \in 1 .. MaxPage + 1 /\ next < MaxPage  BY <2>1 DEF TypeInv
  <2>3. next \in PageNumbers /\ next + 1 <= MaxPage /\ next > 0
    BY <2>2, ConstantFacts DEF PageNumbers
  <2> QED  BY <2>1, <2>3, TwoSlots DEF Child
<1>2. /\ UNCHANGED <<cur, live, ptbr>> /\ next' = next + 2 /\ pc' = epc /\ epc \in UserPcs
      /\ pc' \notin {"boot", "sched_pick", "fork_build"}
  BY DEF ForkBuild, At, Eret, MaskInv, Handlers, KernelPcs, UserPcs
<1>3. slot_ptbr' = [slot_ptbr EXCEPT ![Child] = next]  BY DEF ForkBuild
<1>4. table' = [table EXCEPT ![next] = [NoPages EXCEPT ![0] = next + 1]]  BY DEF ForkBuild
<1>5. InUse(cur) /\ live[cur] /\ ptbr = slot_ptbr[cur]
  BY <1>1 DEF InUse, PageInv, Placed
<1>6. slot_ptbr'[cur] = slot_ptbr[cur] /\ slot_ptbr'[Child] = next
  BY <1>1, <1>3 DEF TypeInv
<1>7. 0 < slot_ptbr[cur] /\ slot_ptbr[cur] < next /\ table[slot_ptbr[cur]][0] # 0
  BY <1>1, <1>5 DEF PageInv, Separate
<1>8. /\ slot_ptbr[cur] \in PageNumbers /\ table'[slot_ptbr[cur]] = table[slot_ptbr[cur]]
      /\ \A v \in UserVpns : table'[next][v] = IF v = 0 THEN next + 1 ELSE 0
      /\ \A p \in PageNumbers : p # next => table'[p] = table[p]
  BY <1>1, <1>4, <1>7 DEF TypeInv, NoPages
<1>9. \A p \in PageNumbers : \A v \in UserVpns : table[p][v] < next /\ table[p][v] \in Nat
  BY Entries DEF PageInv, Separate
<1>10. \A p \in PageNumbers : \A v \in UserVpns : table'[p][v] < next + 2
  BY <1>1, <1>8, <1>9 DEF PageNumbers
<1>11. \A u, v \in UserVpns :
         /\ table'[slot_ptbr[cur]][u] # 0 => table'[slot_ptbr[cur]][u] # table'[next][v]
         /\ table'[next][v] # 0 => table'[next][v] # table'[slot_ptbr[cur]][u]
  BY <1>1, <1>8, <1>9 DEF PageNumbers
<1>12. Separate'
  <2>1. \A s \in Slots : /\ 0 < slot_ptbr'[s] /\ slot_ptbr'[s] < next'
                         /\ table'[slot_ptbr'[s]][0] # 0
    BY <1>1, <1>2, <1>6, <1>7, <1>8, ConstantFacts DEF PageNumbers
  <2>2. \A s, t \in Slots : s # t =>
          /\ slot_ptbr'[s] # slot_ptbr'[t]
          /\ \A u, v \in UserVpns :
               table'[slot_ptbr'[s]][u] # 0 => table'[slot_ptbr'[s]][u] # table'[slot_ptbr'[t]][v]
    <3>1. slot_ptbr'[cur] # slot_ptbr'[Child]
      BY <1>1, <1>6, <1>7, <1>8 DEF PageNumbers
    <3> QED  BY <1>1, <1>6, <1>11, <3>1
  <2> QED  BY <1>2, <1>10, <2>1, <2>2 DEF Separate
<1>13. Placed'  BY <1>2, <1>5, <1>6 DEF Placed
<1> QED  BY <1>12, <1>13 DEF PageInv

\* A demand fault maps a fresh page for the current slot and no other.
LEMMA DemandFault ==
  ASSUME MaskInv, TypeInv, PageInv, PfHandler
  PROVE  /\ PageInv'
         /\ \A s \in Slots : s # cur /\ live[s] =>
              table'[slot_ptbr[s]] = table[slot_ptbr[s]]
<1>1. /\ pc = "pf_handler" /\ cur \in Slots /\ epc \in UserPcs
      /\ UNCHANGED <<cur, live, slot_ptbr, ptbr>>
  BY DEF PfHandler, At, MaskInv, Handlers, KernelPcs, procVars
<1>2. \A q \in UserPcs : q \notin {"boot", "sched_pick", "fork_build"}  BY DEF UserPcs
<1>3. pc' \in {"pf_handler"} \cup UserPcs
  BY <1>1 DEF PfHandler, Eret, KernelJump
<1>4. Placed'
  BY <1>1, <1>2, <1>3 DEF PageInv, Placed
<1>5. CASE x10 = 1 /\ x11 \in UserVpns /\ next <= MaxPage
  <2> DEFINE t == slot_ptbr[cur]
  <2>1. table' = [table EXCEPT ![t][x11] = next] /\ next' = next + 1
    BY <1>5, Served
  <2>2. /\ next \in PageNumbers /\ next > 0 /\ t \in PageNumbers
        /\ \A s \in Slots : slot_ptbr[s] \in PageNumbers
    BY <1>1, <1>5 DEF TypeInv, PageNumbers
  <2>3. /\ \A s \in Slots : (InUse(s) <=> live[s]) /\ (InUse(s)' <=> live[s])
        /\ live[cur]
    BY <1>1, <1>2, <1>3 DEF InUse, PageInv, Placed
  <2>4. \A p \in PageNumbers : \A v \in UserVpns :
          /\ table[p][v] < next /\ table[p][v] \in Nat
          /\ table'[p][v] = IF p = t /\ v = x11 THEN next ELSE table[p][v]
    BY <1>5, <2>1, <2>2, Entries DEF PageInv, Separate, TypeInv
  <2>5. \A p \in PageNumbers : p # t => table'[p] = table[p]
    BY <2>1, <2>2 DEF TypeInv
  <2>6. \A s \in Slots : s # cur /\ live[s] => slot_ptbr[s] # t
    BY <1>1, <2>3 DEF PageInv, Separate
  <2>7. \A p \in PageNumbers : \A v \in UserVpns : table'[p][v] < next'
    BY <2>1, <2>2, <2>4 DEF PageNumbers
  <2>8. \A s \in Slots : live[s] =>
          0 < slot_ptbr[s] /\ slot_ptbr[s] < next' /\ table'[slot_ptbr[s]][0] # 0
    BY <2>1, <2>2, <2>3, <2>4, ConstantFacts DEF PageInv, Separate, PageNumbers
  <2>9. \A a, b \in Slots : a # b /\ live[a] /\ live[b] =>
          /\ slot_ptbr[a] # slot_ptbr[b]
          /\ \A u, v \in UserVpns :
               table'[slot_ptbr[a]][u] # 0 => table'[slot_ptbr[a]][u] # table'[slot_ptbr[b]][v]
    <3> SUFFICES ASSUME NEW a \in Slots, NEW b \in Slots, a # b, live[a], live[b]
                 PROVE  /\ slot_ptbr[a] # slot_ptbr[b]
                        /\ \A u, v \in UserVpns : table'[slot_ptbr[a]][u] # 0 =>
                             table'[slot_ptbr[a]][u] # table'[slot_ptbr[b]][v]
      OBVIOUS
    <3>1. /\ slot_ptbr[a] # slot_ptbr[b]
          /\ \A u, v \in UserVpns : table[slot_ptbr[a]][u] # 0 =>
               table[slot_ptbr[a]][u] # table[slot_ptbr[b]][v]
      BY <2>3 DEF PageInv, Separate
    <3>2. \A u, v \in UserVpns : /\ table[slot_ptbr[a]][u] # next
                                 /\ table[slot_ptbr[b]][v] # next
      BY <2>2, <2>4 DEF PageNumbers
    <3>3. next # 0  BY <2>2
    <3> QED  BY <2>2, <2>4, <3>1, <3>2, <3>3
  <2>10. Separate'
    BY <1>1, <2>3, <2>7, <2>8, <2>9 DEF Separate
  <2> QED  BY <1>4, <2>2, <2>5, <2>6, <2>10 DEF PageInv
<1>6. CASE ~(x10 = 1 /\ x11 \in UserVpns /\ next <= MaxPage)
  <2>1. UNCHANGED <<table, next>>  BY <1>6, Served
  <2> QED  BY <1>1, <1>2, <1>3, <1>4, <2>1, SameTables DEF PageInv
<1> QED  BY <1>5, <1>6

\* A trap: a fork's child is not in use yet, and exit puts a slot out of use.
LEMMA TrapPages ==
  ASSUME MaskInv, TypeInv, PageInv, SyscallHandler
  PROVE  PageInv'
<1>1. /\ pc = "syscall_handler" /\ cur \in Slots /\ epc \in UserPcs /\ live[cur]
      /\ ptbr = slot_ptbr[cur] /\ ~user_mode
  BY Labels DEF SyscallHandler, At, MaskInv, Handlers, KernelPcs, PageInv, Placed
<1>2. UNCHANGED <<cur, slot_ptbr, ptbr, next, table>>
  BY DEF SyscallHandler, ForkSlot, ExitSlot, procVars, pageVars
<1>3. \A q \in UserPcs : q \notin {"boot", "sched_pick", "fork_build"}  BY DEF UserPcs
<1>4. CASE x10 = 2
  <2>1. pc' = "fork_build" /\ live' = [live EXCEPT ![Child] = TRUE] /\ user_mode' = user_mode
    BY <1>4 DEF SyscallHandler, KernelJump, ForkSlot
  <2>2. Child' = Child  BY <1>2 DEF Child
  <2>3. \A s \in Slots : InUse(s)' => InUse(s)
    BY <1>1, <2>1, <2>2, TwoSlots DEF InUse, Child, TypeInv
  <2>4. live'[cur']  BY <1>1, <1>2, <2>1, TwoSlots DEF Child, TypeInv
  <2>5. Separate'  BY <1>2, <2>3 DEF PageInv, Separate
  <2>6. Placed'  BY <1>1, <1>2, <2>1, <2>4 DEF Placed
  <2> QED  BY <2>5, <2>6 DEF PageInv
<1>5. CASE x10 = 5
  <2>1. pc' = "sched_pick" /\ live' = [live EXCEPT ![cur] = FALSE] /\ user_mode' = user_mode
    BY <1>5 DEF SyscallHandler, KernelJump, ExitSlot
  <2>2. \A s \in Slots : InUse(s)' => InUse(s)
    BY <1>1, <2>1 DEF InUse, TypeInv
  <2>3. Separate'  BY <1>2, <2>2 DEF PageInv, Separate
  <2>4. Placed'  BY <1>1, <1>2, <2>1 DEF Placed
  <2> QED  BY <2>3, <2>4 DEF PageInv
<1>6. CASE x10 \notin {2, 5}
  <2>1. live' = live  BY <1>6 DEF SyscallHandler, procVars
  <2>2. \/ Eret
        \/ \E l \in {"syscall_handler", "sched_save"} : KernelJump(l)
    BY <1>1, <1>6 DEF SyscallHandler
  <2>3. pc' \in {"syscall_handler", "sched_save"} \cup UserPcs
    BY <1>1, <2>2 DEF Eret, KernelJump
  <2>4. pc' \notin {"boot", "sched_pick", "fork_build"}  BY <1>3, <2>3
  <2>5. Separate'  BY <1>1, <1>2, <2>1, <2>4, SameTables DEF PageInv
  <2>6. Placed'  BY <1>1, <1>2, <2>1, <2>4 DEF Placed
  <2> QED  BY <2>5, <2>6 DEF PageInv
<1> QED  BY <1>4, <1>5, <1>6

\* The steps that neither allot a page nor start or end a process.
LEMMA PlainPages ==
  ASSUME MaskInv, TypeInv, PageInv,
         \/ Deliver \/ SchedSave \/ SchedSavePc \/ SchedPick \/ SchedRestore
         \/ SysExec \/ UserInstruction \/ Faults
  PROVE  PageInv'
<1>0. \A q \in UserPcs : q \notin {"boot", "sched_pick", "fork_build"}  BY DEF UserPcs
<1>1. CASE Deliver
  <2>1. user_mode /\ pc \in UserPcs
    BY <1>1, Labels DEF Deliver, MaskInv
  <2>2. /\ UNCHANGED <<live, slot_ptbr, next, table, cur, ptbr>>
        /\ pc' = "sched_save" /\ user_mode' = FALSE
    BY <1>1 DEF Deliver, EnterKernel, procVars, pageVars
  <2>3. Separate'  BY <1>0, <2>1, <2>2, SameTables DEF PageInv
  <2> QED  BY <1>0, <2>1, <2>2, <2>3 DEF PageInv, Placed
<1>2. CASE SchedSave \/ SchedSavePc
  <2>1. /\ UNCHANGED <<live, slot_ptbr, next, table, cur, ptbr, user_mode>>
        /\ pc \in {"sched_save", "sched_save_pc"} /\ pc' \in {"sched_save_pc", "sched_pick"}
    BY <1>2 DEF SchedSave, SchedSavePc, At, KernelJump, pageVars
  <2>2. ~user_mode  BY <2>1 DEF MaskInv, UserPcs
  <2>3. Separate'  BY <2>1, SameTables DEF PageInv
  <2> QED  BY <2>1, <2>2, <2>3 DEF PageInv, Placed
<1>3. CASE SchedPick
  <2>1. /\ UNCHANGED <<live, slot_ptbr, next, table, ptbr, user_mode>>
        /\ pc = "sched_pick" /\ pc' \in {"sched_pick", "sched_restore"}
        /\ pc' = "sched_restore" => cur' = Picked /\ \E s \in Slots : live[s]
    BY <1>3 DEF SchedPick, At, KernelJump, pageVars
  <2>2. ~user_mode  BY <2>1 DEF MaskInv, UserPcs
  <2>3. cur \in Slots  BY DEF MaskInv
  <2>4. pc' = "sched_restore" => live[cur']
    BY <2>1, <2>3, TwoSlots DEF Picked
  <2>5. Separate'  BY <2>1, SameTables DEF PageInv
  <2> QED  BY <2>1, <2>2, <2>4, <2>5 DEF PageInv, Placed
<1>4. CASE SchedRestore
  <2>1. /\ UNCHANGED <<live, slot_ptbr, next, table, cur>> /\ ptbr' = slot_ptbr[cur]
        /\ pc = "sched_restore" /\ pc' \in UserPcs
    BY <1>4 DEF SchedRestore, At, Sret, procVars, pageVars, MaskInv
  <2>2. Separate'  BY <1>0, <2>1, SameTables DEF PageInv
  <2> QED  BY <1>0, <2>1, <2>2 DEF PageInv, Placed
<1>5. CASE SysExec
  <2>1. /\ UNCHANGED <<live, slot_ptbr, next, table, cur, ptbr>>
        /\ pc = "syscall_handler" /\ epc \in UserPcs
    BY <1>5 DEF SysExec, At, procVars, MaskInv, Handlers, KernelPcs
  <2>2. pc' \in UserPcs  BY <1>5, <2>1 DEF SysExec, Eret, Sret, UserPcs
  <2>3. Separate'  BY <1>0, <2>1, <2>2, SameTables DEF PageInv
  <2> QED  BY <1>0, <2>1, <2>2, <2>3 DEF PageInv, Placed
<1>6. CASE UserInstruction \/ Faults
  <2>1. /\ UNCHANGED <<live, slot_ptbr, next, table, cur, ptbr>>
        /\ user_mode /\ pc' \in {"syscall_handler", "pf_handler"} \cup UserPcs
    <3>1. CASE UserInstruction
      BY <3>1, Instructions DEF Compute, Load, Store, Trap, User, UserStep, EnterKernel,
                                procVars, pageVars
    <3>2. CASE Faults
      BY <3>2, FaultsAreAlike DEF PageFault, EnterKernel, procVars, pageVars
    <3> QED  BY <1>6, <3>1, <3>2
  <2>2. pc \in UserPcs  BY <2>1 DEF MaskInv
  <2>3. Separate'  BY <1>0, <2>1, <2>2, SameTables DEF PageInv
  <2> QED  BY <1>0, <2>1, <2>2, <2>3 DEF PageInv, Placed
<1> QED  BY <1>1, <1>2, <1>3, <1>4, <1>5, <1>6

LEMMA NextPages ==
  ASSUME MaskInv, TypeInv, PageInv, [Next]_vars
  PROVE  PageInv'
<1>1. CASE UNCHANGED vars
  <2>1. UNCHANGED <<pc, cur, user_mode, ptbr, live, slot_ptbr, next, table>>
    BY <1>1 DEF vars, cpuVars, procVars, pageVars
  <2>2. \A s \in Slots : InUse(s)' <=> InUse(s)  BY <2>1 DEF InUse, Child
  <2> QED  BY <2>1, <2>2 DEF PageInv, Separate, Placed
<1>2. CASE Next
  BY <1>2, BootPages, ForkPages, DemandFault, TrapPages, PlainPages DEF Next, Faults
<1> QED  BY <1>1, <1>2

\* Everything shown so far holds together.
MachineInv == MaskInv /\ TlbInv /\ TypeInv /\ PageInv

LEMMA MachineHolds == Spec => []MachineInv
<1>1. Init => MachineInv  BY MaskInit, TlbInit, InitTypeInv, InitPages DEF MachineInv
<1>2. MachineInv /\ [Next]_vars => MachineInv'
  BY MaskNext, TlbNext, NextTypeInv, NextPages DEF MachineInv
<1> QED  BY <1>1, <1>2, PTL DEF Spec

\* A program in user mode runs in the address space of its own live slot, which
\* shares no page with the other live one (alloc_bump, sys_fork, pf_handler).
THEOREM PagesAreSeparate == Spec => []RunsInItsOwnPages
<1>1. MachineInv => RunsInItsOwnPages
  <2> SUFFICES ASSUME MachineInv, user_mode PROVE RunsInItsOwnPages
    BY DEF RunsInItsOwnPages
  <2>1. pc \in UserPcs /\ cur \in Slots  BY DEF MachineInv, MaskInv
  <2>2. pc \notin {"boot", "sched_pick", "fork_build"}  BY <2>1 DEF UserPcs
  <2>3. live[cur] /\ ptbr = slot_ptbr[cur]
    BY <2>2 DEF MachineInv, PageInv, Placed
  <2>4. live[Other(cur)] =>
          \A u, v \in UserVpns :
            table[ptbr][u] # 0 => table[ptbr][u] # table[slot_ptbr[Other(cur)]][v]
    BY <2>1, <2>2, <2>3, TwoSlots DEF MachineInv, PageInv, Separate, InUse
  <2> QED  BY <2>3, <2>4 DEF RunsInItsOwnPages
<1> QED  BY <1>1, MachineHolds, PTL

-----------------------------------------------------------------------------
(* What a process does to the other *)

\* With programs that fork only while the other slot is free, it still is when
\* the fork is served.
RoomToFork ==
  ForkWhenFull = FALSE /\ pc = "syscall_handler" /\ x10 = 2 => ~live[Child]

LEMMA NextRoom ==
  ASSUME MachineInv, RoomToFork, [Next]_vars
  PROVE  RoomToFork'
<1> SUFFICES ASSUME ForkWhenFull = FALSE, pc' = "syscall_handler", x10' = 2
             PROVE  ~live'[Child']
  BY DEF RoomToFork
<1>0. /\ \A q \in UserPcs : q # "syscall_handler"
      /\ epc \in UserPcs \/ pc \notin {"syscall_handler", "pf_handler", "fork_build"}
      /\ slot_pc \in [Slots -> UserPcs] /\ cur \in Slots
  BY DEF UserPcs, MachineInv, MaskInv, Handlers, KernelPcs
<1>1. CASE UNCHANGED vars
  BY <1>1 DEF vars, cpuVars, procVars, RoomToFork, Child
<1>2. CASE Deliver \/ Boot \/ SchedSave \/ SchedSavePc \/ SchedPick
  BY <1>2 DEF Deliver, EnterKernel, Boot, SchedSave, SchedSavePc, SchedPick, KernelJump
<1>3. CASE SchedRestore  BY <1>0, <1>3 DEF SchedRestore, Sret
<1>4. CASE SyscallHandler \/ SysExec \/ PfHandler
  BY <1>4 DEF SyscallHandler, SysExec, PfHandler
<1>5. CASE ForkBuild  BY <1>0, <1>5 DEF ForkBuild, At, Eret
<1>6. CASE Faults
  BY <1>6, FaultsAreAlike DEF PageFault, EnterKernel
<1>7. CASE UserInstruction
  <2>1. PICK q \in UserPcs : \/ \E c \in Computed : Compute(c[1], c[2], q)
                             \/ \E v \in Touched : Load(v, q) \/ Store(v, q)
                             \/ \E n \in Calls : Trap(n, q)
    BY <1>7, Instructions
  <2>2. PICK n \in Calls : Trap(n, q)
    BY <1>0, <2>1 DEF Compute, Load, Store, UserStep
  <2>3. x10' = n /\ (n = 2 => ForkWhenFull \/ ~live[Child]) /\ live' = live /\ cur' = cur
    BY <2>2 DEF Trap, procVars
  <2> QED  BY <2>3 DEF Child
<1> QED  BY <1>1, <1>2, <1>3, <1>4, <1>5, <1>6, <1>7 DEF Next, Faults

\* One step, seen from the other live slot s.
OtherKept(s) ==
  LET t == slot_ptbr[s]
  IN  /\ live'[s] /\ saved'[s] = saved[s] /\ slot_pc'[s] = slot_pc[s]
      /\ slot_ptbr'[s] = t /\ table'[t] = table[t]
      /\ \A v \in UserVpns : mem'[table[t][v]] = mem[table[t][v]]

\* The code page of the running process is mapped, and no page it maps is one
\* the other live slot maps.
LEMMA OwnPage ==
  ASSUME MachineInv, user_mode \/ pc = "syscall_handler",
         NEW s \in Slots, s # cur, live[s], NEW v \in UserVpns, table[ptbr][v] # 0
  PROVE  \A u \in UserVpns : table[ptbr][v] # table[slot_ptbr[s]][u]
<1>1. cur \in Slots /\ pc \notin {"boot", "sched_pick", "fork_build"}
  BY DEF MachineInv, MaskInv, UserPcs
<1>2. live[cur] /\ ptbr = slot_ptbr[cur]  BY <1>1 DEF MachineInv, PageInv, Placed
<1> QED  BY <1>1, <1>2 DEF MachineInv, PageInv, Separate, InUse

LEMMA OtherNext ==
  ASSUME MachineInv, RoomToFork, ForkWhenFull = FALSE, Next, pc # "fork_build",
         NEW s \in Slots, s # cur, live[s]
  PROVE  OtherKept(s)
<1>0. /\ cur \in Slots /\ s = Other(cur)
      /\ saved \in [Slots -> [Regs -> Values]] /\ slot_pc \in [Slots -> UserPcs]
      /\ live \in [Slots -> BOOLEAN] /\ mem \in [PageNumbers -> Vals]
  BY TwoSlots DEF MachineInv, MaskInv, TypeInv
<1>1. CASE \/ Deliver \/ SchedPick \/ SchedRestore \/ Faults
  <2>1. UNCHANGED <<live, saved, slot_pc, slot_ptbr, table, mem>>
    BY <1>1, FaultsAreAlike DEF Deliver, SchedPick, SchedRestore, PageFault, procVars, pageVars
  <2> QED  BY <2>1 DEF OtherKept
<1>2. CASE Boot
  BY <1>2 DEF Boot, At, MachineInv, PageInv, Placed
<1>3. CASE SchedSave
  BY <1>0, <1>3 DEF SchedSave, pageVars, OtherKept
<1>4. CASE SchedSavePc
  BY <1>0, <1>4 DEF SchedSavePc, pageVars, OtherKept
<1>5. CASE SyscallHandler
  <2>1. UNCHANGED <<slot_ptbr, table, mem>> /\ pc = "syscall_handler" /\ x10 # 2
    BY <1>0, <1>5 DEF SyscallHandler, At, ForkSlot, ExitSlot, procVars, pageVars, RoomToFork, Child
  <2>2. ExitSlot \/ UNCHANGED procVars  BY <1>5, <2>1 DEF SyscallHandler
  <2>3. live'[s] /\ saved'[s] = saved[s] /\ slot_pc'[s] = slot_pc[s]
    BY <1>0, <2>2 DEF ExitSlot, procVars
  <2> QED  BY <2>1, <2>3 DEF OtherKept
<1>6. CASE SysExec
  <2>1. UNCHANGED <<live, saved, slot_pc, slot_ptbr, table>> /\ pc = "syscall_handler"
    BY <1>6 DEF SysExec, At, procVars
  <2>2. table[ptbr][0] # 0
    BY <1>0, <2>1 DEF MachineInv, PageInv, Placed, Separate, InUse
  <2>3. \A u \in UserVpns : table[ptbr][0] # table[slot_ptbr[s]][u]
    BY <2>1, <2>2, OwnPage, ConstantFacts
  <2>4. Lookup(Fill(tlb, KernelVpn), 0).page = table[ptbr][0]
    BY Translations, WalkPage, ConstantFacts DEF MachineInv
  <2>5. \/ mem' = mem
        \/ mem' = [mem EXCEPT ![Lookup(Fill(tlb, KernelVpn), 0).page] = 1]
    BY <1>6 DEF SysExec
  <2>6. \A v \in UserVpns : mem'[table[slot_ptbr[s]][v]] = mem[table[slot_ptbr[s]][v]]
    <3>1. mem' = mem \/ mem' = [mem EXCEPT ![table[ptbr][0]] = 1]  BY <2>4, <2>5
    <3>2. CASE mem' = [mem EXCEPT ![table[ptbr][0]] = 1]  BY <2>3, <3>2
    <3> QED  BY <3>1, <3>2
  <2> QED  BY <2>1, <2>6 DEF OtherKept
<1>7. CASE ForkBuild  BY <1>7 DEF ForkBuild, At
<1>8. CASE PfHandler
  <2>1. UNCHANGED <<live, saved, slot_pc, slot_ptbr, mem>>
    BY <1>8 DEF PfHandler, procVars
  <2>2. table'[slot_ptbr[s]] = table[slot_ptbr[s]]
    BY <1>8, DemandFault DEF MachineInv
  <2> QED  BY <2>1, <2>2 DEF OtherKept
<1>9. CASE UserInstruction
  <2>1. PICK q \in UserPcs : \/ \E c \in Computed : Compute(c[1], c[2], q)
                             \/ \E v \in Touched : Load(v, q) \/ Store(v, q)
                             \/ \E n \in Calls : Trap(n, q)
    BY <1>9, Instructions
  <2>2. UNCHANGED <<live, saved, slot_pc, slot_ptbr, table>> /\ user_mode
    BY <2>1 DEF Compute, Load, Store, Trap, User, UserStep, procVars, pageVars
  <2>3. ASSUME NEW v \in Touched, Store(v, q)
        PROVE  \A u \in UserVpns : mem'[table[slot_ptbr[s]][u]] = mem[table[slot_ptbr[s]][u]]
    <3>1. v \in Vpns /\ VpnOf(pc) \in Vpns /\ FaultCode(Fetched, v) = 0
      BY <2>3, CodePage, ConstantFacts DEF Store
    <3>2. v \in UserVpns /\ table[ptbr][v] # 0 /\ Lookup(Fetched, v).page = table[ptbr][v]
      BY <3>1, Translations, WalkPage DEF Fetched, MachineInv
    <3>3. \A u \in UserVpns : table[ptbr][v] # table[slot_ptbr[s]][u]
      BY <2>2, <3>2, OwnPage
    <3>4. mem' = [mem EXCEPT ![table[ptbr][v]] = regs["xk"]]  BY <2>3, <3>2 DEF Store
    <3> QED  BY <3>3, <3>4
  <2>4. \/ mem' = mem
        \/ \E v \in Touched : Store(v, q)
    BY <2>1 DEF Compute, Load, Trap, pageVars
  <2> QED  BY <2>2, <2>3, <2>4 DEF OtherKept
<1> QED  BY <1>1, <1>2, <1>3, <1>4, <1>5, <1>6, <1>7, <1>8, <1>9 DEF Next, Faults

\* Nothing done for one process reaches the context, the tables or the pages of
\* the other, as long as no program forks over a live slot (sys_fork does not
\* look: mik-os lib.rs).
THEOREM OtherIsUntouched ==
    ASSUME ForkWhenFull = FALSE
    PROVE  Spec => OtherUntouched
<1>1. Init => RoomToFork  BY DEF Init, RoomToFork
<1>2. MachineInv /\ RoomToFork /\ [Next]_vars => RoomToFork'  BY NextRoom
<1>3. Spec => []RoomToFork  BY <1>1, <1>2, MachineHolds, PTL DEF Spec
<1>4. MachineInv /\ RoomToFork /\ [Next]_vars =>
        [\A s \in Slots :
           LET t == slot_ptbr[s]
           IN  s # cur /\ live[s] /\ pc # "fork_build" =>
                 /\ live'[s] /\ saved'[s] = saved[s] /\ slot_pc'[s] = slot_pc[s]
                 /\ slot_ptbr'[s] = t /\ table'[t] = table[t]
                 /\ \A v \in UserVpns : mem'[table[t][v]] = mem[table[t][v]]]_vars
  BY OtherNext DEF OtherKept
<1> QED  BY <1>3, <1>4, MachineHolds, PTL DEF Spec, OtherUntouched

-----------------------------------------------------------------------------
(* The registers a process is entitled to *)

Kept == Values \cup {Lost}
Promise == [regs : [Regs -> Kept], pc : UserPcs, paged : BOOLEAN]

\* The registers c answer to what slot s is entitled to.
Good(c, s) ==
  \A r \in Regs : own[s].regs[r] \in {Lost, c[r]} \/ (r = "x2" /\ own[s].paged)

\* Only xk is promised, and as it is in regs.
KeepsXk == own[cur].regs["xc"] = Lost /\ own[cur].regs["xk"] \in {Lost, regs["xk"]}

\* The pid a fork returns to the parent.
Pid == IF Child = 1 THEN 1 ELSE 0

\* The slot of s holds what s is entitled to.
SlotGood(s) == Good(saved[s], s) /\ slot_pc[s] = own[s].pc

\* A slot a fork is about to fill holds nothing yet.
Waiting(s) == s # cur /\ live[s] /\ ~(pc = "syscall_handler" /\ x10 = 2)

\* Where the context of the current process is, while it is not on the CPU.
ContextInv ==
  /\ own \in [Slots -> Promise]
  /\ \A s \in Slots : Waiting(s) => SlotGood(s)
  /\ user_mode => Good(regs, cur) /\ pc = own[cur].pc
  /\ pc = "boot" => cur = 0 /\ SlotGood(0)
  /\ pc = "sched_save" => Good(regs, cur) /\ epc = own[cur].pc
  /\ pc = "sched_save_pc" => Good(saved[cur], cur) /\ epc = own[cur].pc
  /\ pc \in {"sched_pick", "sched_restore"} /\ live[cur] => SlotGood(cur)
  /\ pc = "syscall_handler" =>
       CASE x10 = 2 ->
              /\ KeepsXk /\ own[cur].regs["x2"] = Pid /\ own[cur].pc = epc
              /\ own[Child].regs["xc"] = Lost /\ own[Child].regs["x2"] = 0
              /\ own[Child].regs["xk"] \in {Lost, regs["xk"]} /\ own[Child].pc = epc
         [] x10 = 3 /\ regs["x2"] = 1 ->
              KeepsXk /\ own[cur].regs["x2"] = Lost /\ own[cur].pc = "u0"
         [] OTHER -> Good(regs, cur) /\ own[cur].pc = epc
  /\ pc = "fork_build" => KeepsXk /\ own[cur].regs["x2"] = Pid /\ own[cur].pc = epc
  /\ pc = "pf_handler" => KeepsXk /\ own[cur].paged /\ own[cur].pc = epc

LEMMA InitContext ==
  ASSUME Init
  PROVE  ContextInv
<1>1. /\ own = [s \in Slots |-> [regs |-> Zeroed, pc |-> "u0", paged |-> FALSE]]
      /\ saved = [s \in Slots |-> Zeroed] /\ slot_pc = [s \in Slots |-> "u0"]
      /\ pc = "boot" /\ user_mode = FALSE /\ cur = 0 /\ 0 \in Slots
      /\ \A s \in Slots : ~live[s]
  BY DEF Init, Slots
<1>2. Zeroed \in [Regs -> Kept] /\ "u0" \in UserPcs
  BY ConstantFacts DEF Zeroed, Kept, Values, UserPcs
<1>3. own \in [Slots -> Promise]  BY <1>1, <1>2 DEF Promise
<1>4. SlotGood(0)  BY <1>1 DEF SlotGood, Good
<1> QED  BY <1>1, <1>3, <1>4 DEF ContextInv, Waiting

\* A step that leaves a slot and what it is entitled to alone.
LEMMA SameSlot ==
  ASSUME NEW s \in Slots, own'[s] = own[s], saved'[s] = saved[s], slot_pc'[s] = slot_pc[s]
  PROVE  SlotGood(s)' <=> SlotGood(s)
BY DEF SlotGood, Good

\* A switch moves the context of the current process to its slot and back.
LEMMA SwitchContext ==
  ASSUME MachineInv, ContextInv,
         Deliver \/ Boot \/ SchedSave \/ SchedSavePc \/ SchedPick \/ SchedRestore
  PROVE  ContextInv'
<1>0. /\ cur \in Slots /\ own' = own
      /\ \A q \in UserPcs : q \notin KernelPcs
      /\ saved \in [Slots -> [Regs -> Values]] /\ slot_pc \in [Slots -> UserPcs]
      /\ live \in [Slots -> BOOLEAN]
  BY Labels DEF Deliver, Boot, SchedSave, SchedSavePc, SchedPick, SchedRestore,
                MachineInv, MaskInv, TypeInv
<1>7. pc \in {"sched_save", "sched_save_pc", "sched_pick"} => ~user_mode
  BY DEF MachineInv, MaskInv, UserPcs
<1>1. CASE Deliver
  <2>1. user_mode /\ pc \in UserPcs
    BY <1>1, Labels DEF Deliver, MachineInv, MaskInv
  <2>2. /\ pc' = "sched_save" /\ epc' = pc /\ user_mode' = FALSE
        /\ UNCHANGED <<regs, cur, live, saved, slot_pc, own>>
    BY <1>0, <1>1 DEF Deliver, EnterKernel, procVars
  <2>3. pc # "syscall_handler"  BY <2>1 DEF UserPcs
  <2>4. \A s \in Slots : Waiting(s)' => SlotGood(s)'
    BY <2>2, <2>3, SameSlot DEF ContextInv, Waiting
  <2>5. Good(regs, cur)' /\ epc' = own'[cur'].pc
    BY <2>1, <2>2 DEF ContextInv, Good
  <2> QED  BY <1>0, <2>2, <2>4, <2>5 DEF ContextInv
<1>2. CASE Boot
  <2>1. /\ pc = "boot" /\ pc' = "sched_restore" /\ cur = 0
        /\ live' = [live EXCEPT ![0] = TRUE] /\ ~user_mode'
        /\ UNCHANGED <<cur, saved, slot_pc, own>>
    BY <1>0, <1>2, Labels DEF Boot, At, KernelJump, ContextInv, MachineInv, MaskInv
  <2>2. \A s \in Slots : ~Waiting(s)'
    BY <1>0, <2>1 DEF Waiting, MachineInv, PageInv, Placed
  <2>3. SlotGood(cur)'  BY <1>0, <2>1, SameSlot DEF ContextInv, SlotGood, Good
  <2> QED  BY <1>0, <2>1, <2>2, <2>3 DEF ContextInv
<1>3. CASE SchedSave
  <2>1. /\ pc = "sched_save" /\ pc' = "sched_save_pc" /\ ~user_mode'
        /\ saved' = [saved EXCEPT ![cur] = regs]
        /\ UNCHANGED <<cur, live, slot_pc, own, epc>>
    BY <1>3, <1>7 DEF SchedSave, At, KernelJump
  <2>2. \A s \in Slots : Waiting(s)' => SlotGood(s)'
    BY <1>0, <2>1, SameSlot DEF ContextInv, Waiting
  <2>3. Good(saved[cur], cur)' /\ epc' = own'[cur'].pc
    BY <1>0, <2>1 DEF ContextInv, Good
  <2> QED  BY <1>0, <2>1, <2>2, <2>3 DEF ContextInv
<1>4. CASE SchedSavePc
  <2>1. /\ pc = "sched_save_pc" /\ pc' = "sched_pick" /\ ~user_mode'
        /\ slot_pc' = [slot_pc EXCEPT ![cur] = epc]
        /\ UNCHANGED <<cur, live, saved, own>>
    BY <1>4, <1>7 DEF SchedSavePc, At, KernelJump
  <2>2. \A s \in Slots : Waiting(s)' => SlotGood(s)'
    BY <1>0, <2>1, SameSlot DEF ContextInv, Waiting
  <2>3. SlotGood(cur)'
    BY <1>0, <2>1 DEF ContextInv, SlotGood, Good
  <2> QED  BY <1>0, <2>1, <2>2, <2>3 DEF ContextInv
<1>5. CASE SchedPick
  <2>1. /\ pc = "sched_pick" /\ pc' \in {"sched_pick", "sched_restore"} /\ ~user_mode'
        /\ cur' \in Slots /\ UNCHANGED <<live, saved, slot_pc, own>>
    BY <1>0, <1>5, <1>7, TwoSlots DEF SchedPick, At, KernelJump, Picked
  <2>2. \A s \in Slots : live[s] => SlotGood(s)
    BY <2>1 DEF ContextInv, Waiting
  <2>3. \A s \in Slots : live'[s] => SlotGood(s)'  BY <2>1, <2>2, SameSlot
  <2> QED  BY <1>0, <2>1, <2>3 DEF ContextInv, Waiting
<1>6. CASE SchedRestore
  <2>1. /\ pc = "sched_restore" /\ pc' = slot_pc[cur] /\ regs' = saved[cur]
        /\ UNCHANGED <<cur, live, saved, slot_pc, own>>
    BY <1>0, <1>6 DEF SchedRestore, At, Sret, procVars
  <2>2. SlotGood(cur)
    BY <2>1 DEF ContextInv, MachineInv, PageInv, Placed
  <2>3. \A s \in Slots : Waiting(s)' => SlotGood(s)'
    BY <2>1, SameSlot DEF ContextInv, Waiting
  <2>4. Good(regs, cur)' /\ pc' = own'[cur'].pc
    BY <1>0, <2>1, <2>2 DEF SlotGood, Good
  <2>5. pc' \notin KernelPcs  BY <1>0, <2>1
  <2> QED  BY <1>0, <2>3, <2>4, <2>5 DEF ContextInv, KernelPcs
<1> QED  BY <1>1, <1>2, <1>3, <1>4, <1>5, <1>6

\* A call: what it promised is what the slots and the registers hold after it.
LEMMA TrapContext ==
  ASSUME MachineInv, ContextInv, SyscallHandler
  PROVE  ContextInv'
<1>1. /\ pc = "syscall_handler" /\ cur \in Slots /\ epc \in UserPcs /\ previous_user_mode = TRUE
      /\ ~user_mode /\ x10' = 0 /\ UNCHANGED <<cur, regs, own>>
      /\ regs \in [Regs -> Values] /\ saved \in [Slots -> [Regs -> Values]]
      /\ slot_pc \in [Slots -> UserPcs] /\ live \in [Slots -> BOOLEAN]
  BY Labels DEF SyscallHandler, At, ForkSlot, ExitSlot, procVars, pageVars,
                MachineInv, MaskInv, TypeInv, Handlers, KernelPcs
<1>2. \A q \in UserPcs : q \notin KernelPcs  BY Labels
<1>3. own' \in [Slots -> Promise]  BY <1>1 DEF ContextInv
<1>4. CASE x10 = 2
  <2>1. /\ pc' = "fork_build" /\ user_mode' = user_mode /\ epc' = epc
        /\ saved' = [saved EXCEPT ![Child] = [regs EXCEPT !["x2"] = 0]]
        /\ slot_pc' = [slot_pc EXCEPT ![Child] = epc]
    BY <1>4 DEF SyscallHandler, KernelJump, ForkSlot
  <2>2. /\ KeepsXk /\ own[cur].regs["x2"] = Pid /\ own[cur].pc = epc
        /\ own[Child].regs["xc"] = Lost /\ own[Child].regs["x2"] = 0
        /\ own[Child].regs["xk"] \in {Lost, regs["xk"]} /\ own[Child].pc = epc
    BY <1>1, <1>4 DEF ContextInv
  <2>3. /\ Child \in Slots /\ \A s \in Slots : s = cur \/ s = Child
    BY <1>1, TwoSlots DEF Child
  <2>4. /\ saved'[Child]["x2"] = 0 /\ saved'[Child]["xk"] = regs["xk"]
        /\ slot_pc'[Child] = epc
    BY <1>1, <2>1, <2>3 DEF Regs
  <2>5. \A r \in Regs : own'[Child].regs[r] \in {Lost, saved'[Child][r]}
    BY <1>1, <2>2, <2>4 DEF Regs
  <2>6. SlotGood(Child)'
    <3>1. Child' = Child  BY <1>1 DEF Child
    <3> QED  BY <1>1, <2>2, <2>4, <2>5, <3>1 DEF SlotGood, Good
  <2>7. \A s \in Slots : Waiting(s)' => SlotGood(s)'
    <3>1. Child' = Child  BY <1>1 DEF Child
    <3> QED  BY <1>1, <2>3, <2>6, <3>1 DEF Waiting
  <2>8. (KeepsXk /\ own[cur].regs["x2"] = Pid /\ own[cur].pc = epc)'
    BY <1>1, <2>1, <2>2 DEF KeepsXk, Pid, Child
  <2> QED  BY <1>1, <1>3, <2>1, <2>7, <2>8 DEF ContextInv
<1>5. CASE x10 # 2
  <2>0. UNCHANGED <<saved, slot_pc>> /\ epc' = epc
    BY <1>5 DEF SyscallHandler, ExitSlot, procVars, KernelJump, Eret
  <2>1. \A s \in Slots : s # cur /\ live[s] => SlotGood(s)'
    BY <1>1, <1>5, <2>0, SameSlot DEF ContextInv, Waiting
  <2>2. \A s \in Slots : live'[s] => live[s]
    BY <1>1, <1>5 DEF SyscallHandler, ExitSlot, procVars
  <2>3. \A s \in Slots : Waiting(s)' => SlotGood(s)'  BY <1>1, <2>1, <2>2 DEF Waiting
  <2>4. CASE x10 = 5
    <3>1. pc' = "sched_pick" /\ user_mode' = user_mode /\ ~live'[cur]
      BY <1>1, <2>4 DEF SyscallHandler, KernelJump, ExitSlot
    <3> QED  BY <1>1, <1>3, <2>3, <3>1 DEF ContextInv
  <2>5. CASE x10 \notin {2, 3, 5}
    <3>1. Good(regs, cur) /\ own[cur].pc = epc  BY <1>1, <2>5 DEF ContextInv
    <3>2. (Good(regs, cur) /\ own[cur].pc = epc)'  BY <1>1, <2>0, <3>1 DEF Good
    <3>3. \/ Eret
          \/ \E l \in {"syscall_handler", "sched_save"} : KernelJump(l)
      BY <1>1, <2>5 DEF SyscallHandler
    <3>4. CASE Eret
      <4>1. pc' = epc /\ pc' \notin KernelPcs  BY <1>1, <1>2, <3>4 DEF Eret
      <4> QED  BY <1>1, <1>3, <2>3, <3>1, <3>2, <4>1 DEF ContextInv, KernelPcs
    <3>5. CASE \E l \in {"syscall_handler", "sched_save"} : KernelJump(l)
      <4>1. pc' \in {"syscall_handler", "sched_save"} /\ user_mode' = user_mode
        BY <3>5 DEF KernelJump
      <4> QED  BY <1>1, <1>3, <2>3, <3>2, <4>1 DEF ContextInv
    <3> QED  BY <3>3, <3>4, <3>5
  <2>6. CASE x10 = 3  BY <2>6 DEF SyscallHandler
  <2> QED  BY <1>5, <2>4, <2>5, <2>6
<1> QED  BY <1>4, <1>5

\* The three handlers that end by going back to the program.
LEMMA ReturnContext ==
  ASSUME MachineInv, ContextInv, SysExec \/ ForkBuild \/ PfHandler
  PROVE  ContextInv'
<1>1. /\ cur \in Slots /\ regs \in [Regs -> Values] /\ UNCHANGED <<cur, live, own>>
      /\ UNCHANGED <<saved, slot_pc>>
      /\ pc \in {"syscall_handler", "fork_build", "pf_handler"} /\ epc \in UserPcs
  BY DEF SysExec, ForkBuild, PfHandler, At, procVars, MachineInv, MaskInv, TypeInv,
         Handlers, KernelPcs
<1>2. \A q \in UserPcs : q \notin KernelPcs  BY Labels
<1>3. own' \in [Slots -> Promise]  BY <1>1 DEF ContextInv
<1>4. ~(pc = "syscall_handler" /\ x10 = 2)  BY DEF SysExec, ForkBuild, PfHandler, At
<1>5. \A s \in Slots : Waiting(s)' => SlotGood(s)'
  BY <1>1, <1>4, SameSlot DEF ContextInv, Waiting
<1>6. ASSUME pc' \in UserPcs, Good(regs, cur)', pc' = own'[cur'].pc
      PROVE  ContextInv'
  BY <1>2, <1>3, <1>5, <1>6 DEF ContextInv, KernelPcs
<1>7. ASSUME own[cur].regs["xc"] = Lost, own[cur].regs["xk"] \in {Lost, regs["xk"]},
             NEW x, regs' = [regs EXCEPT !["x2"] = x], own[cur].regs["x2"] \in {Lost, x} \/ own[cur].paged
      PROVE  Good(regs, cur)'
  <2>1. regs'["xk"] = regs["xk"] /\ regs'["x2"] = x  BY <1>1, <1>7 DEF Regs
  <2>2. \A r \in Regs : \/ own'[cur].regs[r] \in {Lost, regs'[r]}
                        \/ r = "x2" /\ own'[cur].paged
    BY <1>1, <1>7, <2>1 DEF Regs
  <2> QED  BY <1>1, <2>2 DEF Good
<1>8. CASE SysExec
  <2>1. pc = "syscall_handler" /\ x10 = 3  BY <1>8 DEF SysExec, At
  <2>2. CASE regs["x2"] # 1
    <3>1. regs' = regs /\ pc' = epc  BY <1>8, <2>2 DEF SysExec, Eret
    <3>2. Good(regs, cur) /\ own[cur].pc = epc  BY <2>1, <2>2 DEF ContextInv
    <3> QED  BY <1>1, <1>6, <3>1, <3>2 DEF Good
  <2>3. CASE regs["x2"] = 1
    <3>1. regs' = [regs EXCEPT !["x2"] = Junk] /\ pc' = "u0" /\ "u0" \in UserPcs
      BY <1>8, <2>3 DEF SysExec, Sret, UserPcs
    <3>2. KeepsXk /\ own[cur].regs["x2"] = Lost /\ own[cur].pc = "u0"
      BY <2>1, <2>3 DEF ContextInv
    <3>3. Good(regs, cur)'  BY <1>7, <3>1, <3>2 DEF KeepsXk
    <3> QED  BY <1>1, <1>6, <3>1, <3>2, <3>3
  <2> QED  BY <2>2, <2>3
<1>9. CASE ForkBuild
  <2>1. regs' = [regs EXCEPT !["x2"] = Pid] /\ pc' = epc /\ pc = "fork_build"
    BY <1>9 DEF ForkBuild, At, Eret, Pid
  <2>2. KeepsXk /\ own[cur].regs["x2"] = Pid /\ own[cur].pc = epc
    BY <2>1 DEF ContextInv
  <2>3. Good(regs, cur)'  BY <1>7, <2>1, <2>2 DEF KeepsXk
  <2> QED  BY <1>1, <1>6, <2>1, <2>2, <2>3
<1>10. CASE PfHandler
  <2>1. pc = "pf_handler"  BY <1>10 DEF PfHandler, At
  <2>2. KeepsXk /\ own[cur].paged /\ own[cur].pc = epc
    BY <2>1 DEF ContextInv
  <2>3. CASE x10 = 1 /\ x11 \in UserVpns /\ next <= MaxPage
    <3>1. regs' = [regs EXCEPT !["x2"] = Junk] /\ pc' = epc
      BY <1>10, <2>3, Served DEF MachineInv, Eret
    <3>2. Good(regs, cur)'  BY <1>7, <2>2, <3>1 DEF KeepsXk
    <3> QED  BY <1>1, <1>6, <2>2, <3>1, <3>2
  <2>4. CASE ~(x10 = 1 /\ x11 \in UserVpns /\ next <= MaxPage)
    <3>1. regs' = regs /\ pc' = pc /\ epc' = epc /\ user_mode' = user_mode
      BY <1>10, <2>4, Served DEF MachineInv, KernelJump
    <3>2. ~user_mode  BY <2>1 DEF MachineInv, MaskInv, UserPcs
    <3>3. (KeepsXk /\ own[cur].paged /\ own[cur].pc = epc)'
      BY <1>1, <2>2, <3>1 DEF KeepsXk
    <3> QED  BY <1>3, <1>5, <2>1, <3>1, <3>2, <3>3 DEF ContextInv
  <2> QED  BY <2>3, <2>4
<1> QED  BY <1>8, <1>9, <1>10

\* What is left of a promise when some groups are no longer covered by it.
LEMMA Forgotten ==
  ASSUME NEW c \in [Regs -> Kept], NEW rs, NEW x \in Kept
  PROVE  /\ Forget(c, rs) \in [Regs -> Kept]
         /\ \A r \in Regs : Forget(c, rs)[r] = IF r \in rs THEN Lost ELSE c[r]
         /\ [Forget(c, rs) EXCEPT !["x2"] = x] \in [Regs -> Kept]
         /\ \A r \in Regs : [Forget(c, rs) EXCEPT !["x2"] = x][r] =
              IF r = "x2" THEN x ELSE IF r \in rs THEN Lost ELSE c[r]
<1>1. Lost \in Kept  BY DEF Kept
<1>2. Forget(c, rs) = [r \in Regs |-> IF r \in rs THEN Lost ELSE c[r]]  BY DEF Forget
<1> HIDE DEF Forget
<1> QED  BY <1>1, <1>2

\* An instruction other than a trap: the process expects what it has computed.
LEMMA StepContext ==
  ASSUME MachineInv, ContextInv, TypeInv', user_mode, NEW rs, NEW q \in UserPcs, UserStep(rs, q)
  PROVE  ContextInv'
<1>1. /\ cur \in Slots /\ pc \in UserPcs /\ regs' = rs /\ pc' = q
      /\ own' = [own EXCEPT ![cur] = [regs |-> rs, pc |-> q, paged |-> FALSE]]
      /\ UNCHANGED <<cur, live, saved, slot_pc>>
  BY DEF UserStep, procVars, MachineInv, MaskInv
<1>2. q \notin KernelPcs /\ pc # "syscall_handler"  BY <1>1, Labels DEF UserPcs
<1>3. rs \in [Regs -> Kept]  BY <1>1 DEF TypeInv, Kept
<1>4. own' \in [Slots -> Promise]
  BY <1>1, <1>3 DEF ContextInv, Promise
<1>5. own'[cur] = [regs |-> rs, pc |-> q, paged |-> FALSE] /\ \A s \in Slots : s # cur => own'[s] = own[s]
  BY <1>1 DEF ContextInv
<1>6. \A s \in Slots : Waiting(s)' => SlotGood(s)'
  BY <1>1, <1>2, <1>5, SameSlot DEF ContextInv, Waiting
<1>7. Good(regs, cur)' /\ pc' = own'[cur'].pc  BY <1>1, <1>5 DEF Good
<1> QED  BY <1>1, <1>2, <1>4, <1>6, <1>7 DEF ContextInv, KernelPcs

\* The promise a call makes.
LEMMA CallContext ==
  ASSUME MachineInv, ContextInv, NEW n \in Calls, NEW q \in UserPcs, Trap(n, q)
  PROVE  ContextInv'
<1> DEFINE back == Forget(regs, {"xc"})
<1>1. /\ cur \in Slots /\ pc \in UserPcs /\ pc' = "syscall_handler" /\ epc' = q /\ x10' = n
      /\ ~user_mode' /\ regs \in [Regs -> Values] /\ regs' = [regs EXCEPT !["xc"] = Junk]
      /\ own' = OwnAfterTrap(n, q)
      /\ UNCHANGED <<cur, live, saved, slot_pc>>
  BY DEF Trap, User, EnterKernel, procVars, MachineInv, MaskInv, TypeInv
<1>2. /\ Child \in Slots /\ Child # cur /\ \A s \in Slots : s = cur \/ s = Child
      /\ Child' = Child
  BY <1>1, TwoSlots DEF Child
<1>3. regs'["x2"] = regs["x2"] /\ regs'["xk"] = regs["xk"]  BY <1>1 DEF Regs
<1>4. regs \in [Regs -> Kept] /\ 0 \in Kept /\ Pid \in Kept /\ Lost \in Kept /\ "u0" \in UserPcs
  BY <1>1, ConstantFacts DEF Kept, Values, Pid, UserPcs
<1>5. pc # "syscall_handler"  BY <1>1 DEF UserPcs
<1>6. \A s \in Slots : s # cur /\ live[s] => SlotGood(s)
  BY <1>5 DEF ContextInv, Waiting
<1>7. \A x \in Kept : /\ back \in [Regs -> Kept] /\ [back EXCEPT !["x2"] = x] \in [Regs -> Kept]
                      /\ back["xc"] = Lost /\ back["x2"] = regs["x2"] /\ back["xk"] = regs["xk"]
                      /\ [back EXCEPT !["x2"] = x]["xc"] = Lost
                      /\ [back EXCEPT !["x2"] = x]["x2"] = x
                      /\ [back EXCEPT !["x2"] = x]["xk"] = regs["xk"]
  <2> SUFFICES ASSUME NEW x \in Kept
               PROVE  /\ back \in [Regs -> Kept] /\ [back EXCEPT !["x2"] = x] \in [Regs -> Kept]
                      /\ back["xc"] = Lost /\ back["x2"] = regs["x2"] /\ back["xk"] = regs["xk"]
                      /\ [back EXCEPT !["x2"] = x]["xc"] = Lost
                      /\ [back EXCEPT !["x2"] = x]["x2"] = x
                      /\ [back EXCEPT !["x2"] = x]["xk"] = regs["xk"]
    OBVIOUS
  <2>1. "xc" \in Regs /\ "x2" \in Regs /\ "xk" \in Regs  BY ConstantFacts
  <2> HIDE DEF back
  <2> QED  BY <1>4, <2>1, Forgotten DEF back
<1> HIDE DEF back
<1>8. CASE n = 2
  <2> DEFINE mine == [back EXCEPT !["x2"] = Pid]
             childs == [back EXCEPT !["x2"] = 0]
  <2>1. own' = [[own EXCEPT ![cur] = [regs |-> mine, pc |-> q, paged |-> FALSE]]
                  EXCEPT ![Child] = [regs |-> childs, pc |-> q, paged |-> FALSE]]
    BY <1>1, <1>8 DEF OwnAfterTrap, Pid, back
  <2>2. /\ own'[cur] = [regs |-> mine, pc |-> q, paged |-> FALSE]
        /\ own'[Child] = [regs |-> childs, pc |-> q, paged |-> FALSE]
    BY <1>1, <1>2, <2>1 DEF ContextInv
  <2>3. mine \in [Regs -> Kept] /\ childs \in [Regs -> Kept]  BY <1>4, <1>7
  <2>4. own' \in [Slots -> Promise]
    <3> DEFINE f == [own EXCEPT ![cur] = [regs |-> mine, pc |-> q, paged |-> FALSE]]
               r == [regs |-> childs, pc |-> q, paged |-> FALSE]
    <3>1. f \in [Slots -> Promise] /\ r \in Promise  BY <1>1, <2>3 DEF ContextInv, Promise
    <3> HIDE DEF f, r
    <3>2. [f EXCEPT ![Child] = r] \in [Slots -> Promise]  BY <1>2, <3>1
    <3> QED  BY <2>1, <3>2 DEF f, r
  <2>5. /\ mine["xc"] = Lost /\ mine["x2"] = Pid /\ mine["xk"] = regs["xk"]
        /\ childs["xc"] = Lost /\ childs["x2"] = 0 /\ childs["xk"] = regs["xk"]
    BY <1>4, <1>7
  <2> HIDE DEF mine, childs
  <2>6. /\ (KeepsXk /\ own[cur].regs["x2"] = Pid /\ own[cur].pc = epc)'
        /\ own'[Child'].regs["xc"] = Lost /\ own'[Child'].regs["x2"] = 0
        /\ own'[Child'].regs["xk"] \in {Lost, regs'["xk"]} /\ own'[Child'].pc = epc'
    BY <1>1, <1>2, <1>3, <2>2, <2>5 DEF KeepsXk, Pid
  <2>7. \A s \in Slots : ~Waiting(s)'  BY <1>1, <1>8 DEF Waiting
  <2> QED  BY <1>1, <1>8, <2>4, <2>6, <2>7 DEF ContextInv
<1>9. CASE n # 2
  <2> DEFINE c == IF n = 3 /\ regs["x2"] = 1 THEN Forget(back, {"x2"}) ELSE back
             at == IF n = 3 /\ regs["x2"] = 1 THEN "u0" ELSE q
  <2>1. own' = [own EXCEPT ![cur] = [regs |-> c, pc |-> at, paged |-> FALSE]]
    BY <1>1, <1>9 DEF OwnAfterTrap, back
  <2>2. c \in [Regs -> Kept] /\ at \in UserPcs
    BY <1>4, <1>7, Forgotten
  <2>3. /\ own' \in [Slots -> Promise]
        /\ own'[cur] = [regs |-> c, pc |-> at, paged |-> FALSE]
        /\ \A s \in Slots : s # cur => own'[s] = own[s]
    BY <1>1, <2>1, <2>2 DEF ContextInv, Promise
  <2>4. /\ c["xc"] = Lost /\ c["xk"] = regs["xk"]
        /\ n = 3 /\ regs["x2"] = 1 => c["x2"] = Lost
        /\ ~(n = 3 /\ regs["x2"] = 1) => c["x2"] = regs["x2"]
    <3>1. /\ Forget(back, {"x2"})["xc"] = back["xc"] /\ Forget(back, {"x2"})["xk"] = back["xk"]
          /\ Forget(back, {"x2"})["x2"] = Lost
      BY <1>4, <1>7, ConstantFacts, Forgotten
    <3> QED  BY <1>4, <1>7, <3>1
  <2>5. n = 3 /\ regs["x2"] = 1 => at = "u0"  OBVIOUS
  <2>6. ~(n = 3 /\ regs["x2"] = 1) => at = q  OBVIOUS
  <2> HIDE DEF c, at
  <2>7. \A s \in Slots : Waiting(s)' => SlotGood(s)'
    BY <1>1, <1>6, <2>3, SameSlot DEF Waiting
  <2>8. CASE n = 3 /\ regs["x2"] = 1
    <3>1. (KeepsXk /\ own[cur].regs["x2"] = Lost /\ own[cur].pc = "u0")'
      BY <1>1, <1>3, <2>3, <2>4, <2>5, <2>8 DEF KeepsXk
    <3> QED  BY <1>1, <1>3, <1>9, <2>3, <2>7, <2>8, <3>1 DEF ContextInv
  <2>9. CASE ~(n = 3 /\ regs["x2"] = 1)
    <3>1. \A r \in Regs : own'[cur].regs[r] \in {Lost, regs'[r]}
      BY <1>3, <2>3, <2>4, <2>9 DEF Regs
    <3>2. (Good(regs, cur) /\ own[cur].pc = epc)'
      BY <1>1, <2>3, <2>6, <2>9, <3>1 DEF Good
    <3> QED  BY <1>1, <1>3, <1>9, <2>3, <2>7, <2>9, <3>2 DEF ContextInv
  <2> QED  BY <2>8, <2>9
<1> QED  BY <1>8, <1>9

\* A fault: the program is warned off the group xc, and x2 may change.
LEMMA FaultContext ==
  ASSUME MachineInv, ContextInv, Faults
  PROVE  ContextInv'
<1> DEFINE c == Forget(own[cur].regs, {"xc"})
<1>0. PICK v \in Vpns, t \in {tlb, Fetched} : PageFault(v, t)  BY FaultsAreAlike
<1>1. /\ cur \in Slots /\ pc \in UserPcs /\ pc' = "pf_handler" /\ epc' = pc /\ user_mode
      /\ ~user_mode' /\ regs \in [Regs -> Values] /\ regs' = [regs EXCEPT !["xc"] = Junk]
      /\ own' = [own EXCEPT ![cur].regs = c, ![cur].paged = TRUE]
      /\ UNCHANGED <<cur, live, saved, slot_pc>>
  BY <1>0, FaultsAreAlike DEF PageFault, EnterKernel, procVars, MachineInv, MaskInv, TypeInv
<1>2. pc # "syscall_handler"  BY <1>1 DEF UserPcs
<1>3. Good(regs, cur) /\ pc = own[cur].pc /\ own \in [Slots -> Promise]
  BY <1>1 DEF ContextInv
<1>4. own[cur] \in Promise /\ own[cur].regs \in [Regs -> Kept]
  BY <1>1, <1>3 DEF Promise
<1>5. c \in [Regs -> Kept] /\ c["xc"] = Lost /\ c["xk"] = own[cur].regs["xk"]
  BY <1>4, ConstantFacts, Forgotten DEF Kept
<1> HIDE DEF c
<1>6. /\ own'[cur] = [own[cur] EXCEPT !.regs = c, !.paged = TRUE]
      /\ own' \in [Slots -> Promise]
      /\ \A s \in Slots : s # cur => own'[s] = own[s]
  <2> DEFINE f == [own[cur] EXCEPT !.regs = c, !.paged = TRUE]
  <2>1. f \in Promise  BY <1>4, <1>5 DEF Promise
  <2>2. own' = [own EXCEPT ![cur] = f]  BY <1>1, <1>3
  <2> QED  BY <1>1, <1>3, <2>1, <2>2
<1>7. own'[cur].regs = c /\ own'[cur].pc = own[cur].pc /\ own'[cur].paged
  BY <1>4, <1>6 DEF Promise
<1>8. regs'["xk"] = regs["xk"] /\ own[cur].regs["xk"] \in {Lost, regs["xk"]}
  BY <1>1, <1>3 DEF Good, Regs
<1>9. (KeepsXk /\ own[cur].paged /\ own[cur].pc = epc)'
  BY <1>1, <1>3, <1>5, <1>7, <1>8 DEF KeepsXk
<1>10. \A s \in Slots : Waiting(s)' => SlotGood(s)'
  BY <1>1, <1>2, <1>6, SameSlot DEF ContextInv, Waiting
<1> QED  BY <1>1, <1>6, <1>9, <1>10 DEF ContextInv

LEMMA NextContext ==
  ASSUME MachineInv, ContextInv, [Next]_vars
  PROVE  ContextInv'
<1>1. CASE UNCHANGED vars
  BY <1>1 DEF vars, cpuVars, procVars, ContextInv, Waiting, SlotGood, Good, KeepsXk, Pid, Child
<1>2. CASE UserInstruction
  <2>1. PICK q \in UserPcs : \/ \E c \in Computed : Compute(c[1], c[2], q)
                             \/ \E v \in Touched : Load(v, q) \/ Store(v, q)
                             \/ \E n \in Calls : Trap(n, q)
    BY <1>2, Instructions
  <2>2. TypeInv'  BY <1>2, ProgramType DEF MachineInv
  <2>3. user_mode  BY <2>1 DEF Compute, Load, Store, Trap, User
  <2>4. (\E rs : UserStep(rs, q)) \/ \E n \in Calls : Trap(n, q)
    BY <2>1 DEF Compute, Load, Store
  <2> QED  BY <2>2, <2>3, <2>4, StepContext, CallContext
<1> QED  BY <1>1, <1>2, SwitchContext, TrapContext, ReturnContext, FaultContext
     DEF Next, Faults

\* A program finds its pc and every register it was promised, whatever ticks,
\* switches, calls and faults came between (sched_save to sched_restore,
\* sys_fork, sys_exec, pf_handler).
THEOREM ContextIsKept == Spec => []ContextKept
<1>1. ContextInv => ContextKept  BY DEF ContextInv, ContextKept, Good
<1>2. Init => ContextInv  BY InitContext
<1>3. MachineInv /\ ContextInv /\ [Next]_vars => ContextInv'  BY NextContext
<1>4. Spec => []ContextInv  BY <1>2, <1>3, MachineHolds, PTL DEF Spec
<1> QED  BY <1>1, <1>4, PTL

=============================================================================
