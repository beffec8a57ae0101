---------------------------- MODULE SchedProofs ----------------------------
(***************************************************************************)
(* Theorems about Sched, for every size of the process table, every buffer *)
(* capacity and every set of spinning programs.                            *)
(***************************************************************************)
EXTENDS Sched, SequenceTheorems, TLAPS

ProcTables == [Slots -> {"EMPTY", "READY", "WAITING"}]

-----------------------------------------------------------------------------
(* Lemmas about the helpers *)

\* Pushing bytes onto a queue that fits gives a queue of bytes that fits.
LEMMA AcceptType ==
    ASSUME NEW q \in Seq(Bytes), NEW s \in Seq(Bytes)
    PROVE  Accept(q, s) \in Seq(Bytes) /\ Len(Accept(q, s)) <= Cap
<1>1. Cap \in Nat /\ Cap >= 1  BY QueueAssumption
<1>2. q \o s \in Seq(Bytes)  OBVIOUS
<1>3. CASE Len(q \o s) <= Cap  BY <1>2, <1>3 DEF Accept
<1>4. CASE ~(Len(q \o s) <= Cap)
  <2>1. Len(q \o s) \in Nat  BY <1>2
  <2>2. SubSeq(q \o s, 1, Cap) \in Seq(Bytes) /\ Len(SubSeq(q \o s, 1, Cap)) = Cap
    BY <1>1, <1>2, <1>4, <2>1, SubSeqProperties
  <2> QED  BY <1>1, <1>4, <2>2 DEF Accept
<1> QED  BY <1>3, <1>4

\* The process schedule() finds is a READY one.
LEMMA NextReadyIsReady ==
    ASSUME NEW st, NEW c, NEW n \in NextReady(st, c)
    PROVE  n \in Slots /\ st[n] = "READY"
BY DEF NextReady, Ready

\* Waking the readers keeps the types, leaves nobody blocked, and neither
\* frees a slot nor stops a READY process.
LEMMA WokenType ==
    ASSUME NEW st \in ProcTables
    PROVE  /\ Woken(st) \in ProcTables
           /\ \A p \in Slots : Woken(st)[p] # "WAITING"
           /\ \A p \in Slots : st[p] = "READY" => Woken(st)[p] = "READY"
           /\ \A p \in Slots : (st[p] = "EMPTY") <=> (Woken(st)[p] = "EMPTY")
BY DEF Woken, ProcTables

\* What drain_rx leaves in the process table and in the buffer is typed.
LEMMA DrainedType ==
    ASSUME TypeOK
    PROVE  /\ DrainedState \in ProcTables
           /\ DrainedQueue \in Seq(Bytes)
           /\ Len(DrainedQueue) <= Cap
<1>1. state \in ProcTables /\ queue \in Seq(Bytes) /\ rx \in Seq(Bytes)
  BY DEF TypeOK, ProcTables
<1> QED  BY <1>1, WokenType, AcceptType DEF DrainedState, DrainedQueue

\* schedule() keeps the types of everything it changes.
LEMMA ScheduleType ==
    ASSUME TypeOK, NEW st \in ProcTables, NEW f \in {"user", "reread", "idle"},
           Schedule(st, f)
    PROVE  /\ state' \in ProcTables
           /\ frame' \in [Slots -> {"user", "reread", "idle"}]
           /\ pml4' \in [Slots -> {0} \cup Names]
           /\ kstack' \in [Slots -> {0} \cup Names]
           /\ cur' \in Slots
           /\ inIdle' \in BOOLEAN
           /\ schedActive' \in BOOLEAN
           /\ cpu' \in CpuStates
           /\ pick' \in Slots
           /\ rsp0' \in {0} \cup Names
           /\ cr3' \in {0} \cup Names
<1> DEFINE fr == [frame EXCEPT ![cur] = f]
<1>1. fr \in [Slots -> {"user", "reread", "idle"}]  BY DEF TypeOK
<1>2. /\ state' = st /\ frame' = fr
      /\ UNCHANGED <<pml4, kstack, schedActive, pick>>
  BY DEF Schedule
<1>3. CASE \E n \in NextReady(st, cur) : Load(n) /\ Iret(fr[n]) /\ UNCHANGED inIdle
  <2>1. PICK n \in NextReady(st, cur) : Load(n) /\ Iret(fr[n]) /\ UNCHANGED inIdle
    BY <1>3
  <2>2. n \in Slots  BY NextReadyIsReady
  <2>3. cpu' \in CpuStates
    BY <2>1 DEF Iret, CpuStates, Enabled_IF, Ring3
  <2> QED  BY <1>1, <1>2, <2>1, <2>2, <2>3 DEF TypeOK, Load
<1>4. CASE inIdle' = TRUE /\ cpu' = "halt" /\ UNCHANGED <<cur, rsp0, cr3>>
  BY <1>1, <1>2, <1>4 DEF TypeOK, CpuStates, Enabled_IF, IdleWaiting
<1>5. CASE cpu' = "dead" /\ UNCHANGED <<cur, rsp0, cr3, inIdle>>
  BY <1>1, <1>2, <1>5 DEF TypeOK, CpuStates
<1> QED  BY <1>3, <1>4, <1>5 DEF Schedule

-----------------------------------------------------------------------------
(* Type correctness *)

\* The initial state is typed.
LEMMA TypeInit ==
    ASSUME Init
    PROVE  TypeOK
<1>1. 0 \in Slots /\ Cap \in Nat  BY SchedAssumption, QueueAssumption DEF Slots
<1>2. \A p \in Slots : p < NSpawn => p + 1 \in Names
  BY SchedAssumption DEF Slots, Names
<1>3. state \in [Slots -> {"EMPTY", "READY", "WAITING"}]
  BY DEF Init
<1>4. pml4 \in [Slots -> {0} \cup Names] /\ kstack \in [Slots -> {0} \cup Names]
  BY <1>2 DEF Init
<1>5. queue \in Seq(Bytes) /\ Len(queue) <= Cap /\ taken = <<>> /\ rx \in Seq(Bytes)
  BY <1>1 DEF Init, QueueInit
<1> QED  BY <1>1, <1>3, <1>4, <1>5 DEF Init, TypeOK, CpuStates

\* Trapped is a frame, and Resumed a state of the CPU.
LEMMA TrapTypes ==
    ASSUME TypeOK
    PROVE  Trapped \in {"user", "reread", "idle"} /\ Resumed \in CpuStates
BY DEF TypeOK, Trapped, Resumed, Ring3, CpuStates, Enabled_IF, IdleWaiting

\* Every step keeps the types.
LEMMA TypeStep ==
    ASSUME TypeOK, [Next]_vars
    PROVE  TypeOK'
<1> USE DEF ProcTables
<1>0. Cap \in Nat /\ \A b \in Bytes : <<b>> \in Seq(Bytes)
  BY QueueAssumption
<1>1. CASE Start
  <2>1. PICK i \in Lowest(Ready(state)) : Load(i)  BY <1>1 DEF Start
  <2>2. i \in Slots  BY DEF Lowest, Ready
  <2> QED
    BY <1>1, <2>1, <2>2
       DEF Start, TypeOK, Load, CpuStates, Enabled_IF, procVars, queueVars
<1>2. CASE EnterUser
  <2>1. cpu' \in CpuStates
    BY <1>2 DEF EnterUser, Iret, CpuStates, Enabled_IF, Ring3
  <2> QED  BY <1>2, <2>1 DEF EnterUser, TypeOK, procVars, queueVars
<1>3. CASE Tick
  <2>1. /\ queue' \in Seq(Bytes) /\ Len(queue') <= Cap
        /\ rx' \in Seq(Bytes) /\ taken' = taken /\ irq4' = irq4
    BY <1>3, DrainedType DEF Tick, DrainRx
  <2>2. CASE ~schedActive \/ inIdle
    BY <1>3, <2>1, <2>2, DrainedType, TrapTypes DEF Tick, TypeOK, Schedule
  <2>3. CASE schedActive /\ ~inIdle
    <3>1. Schedule(DrainedState, Trapped)  BY <1>3, <2>3 DEF Tick
    <3> HIDE DEF ProcTables
    <3>2. DrainedState \in ProcTables /\ Trapped \in {"user", "reread", "idle"}
      BY DrainedType, TrapTypes
    <3> QED  BY <2>1, <3>1, <3>2, ScheduleType DEF TypeOK, ProcTables
  <2> QED  BY <2>2, <2>3 DEF TypeOK
<1>4. CASE UartIrq
  <2>1. /\ queue' \in Seq(Bytes) /\ Len(queue') <= Cap
        /\ rx' \in Seq(Bytes) /\ taken' = taken
    BY <1>4, DrainedType DEF UartIrq, DrainRx
  <2>2. state' \in ProcTables /\ cpu' \in CpuStates
    BY <1>4, DrainedType, TrapTypes DEF UartIrq
  <2>3. irq4' = FALSE  BY <1>4 DEF UartIrq
  <2>4. UNCHANGED <<frame, pml4, kstack, cur, inIdle, schedActive, pick, rsp0,
                    cr3>>
    BY <1>4 DEF UartIrq
  <2> QED  BY <2>1, <2>2, <2>3, <2>4 DEF TypeOK
<1>5. ASSUME NEW b \in Bytes, KbdIrq(b)
      PROVE  TypeOK'
  <2>1. queue' \in Seq(Bytes) /\ Len(queue') <= Cap
    BY <1>0, <1>5, AcceptType DEF KbdIrq, Put, TypeOK
  <2>2. Woken(state) \in ProcTables  BY WokenType DEF TypeOK
  <2> QED  BY <1>5, <2>1, <2>2, TrapTypes DEF KbdIrq, Put, TypeOK
<1>6. ASSUME NEW b \in Bytes, RxArrive(b)
      PROVE  TypeOK'
  <2>1. rx' \in Seq(Bytes)  BY <1>6 DEF RxArrive, TypeOK
  <2>2. irq4' \in BOOLEAN  BY <1>6 DEF RxArrive, TypeOK
  <2> QED  BY <1>6, <2>1, <2>2 DEF RxArrive, TypeOK, procVars, cpuVars, queueVars
<1>7. CASE SysExit
  <2>1. [state EXCEPT ![cur] = "EMPTY"] \in ProcTables  BY DEF TypeOK
  <2> HIDE DEF ProcTables
  <2> QED
    BY <1>7, <2>1, TrapTypes, ScheduleType
       DEF SysExit, TypeOK, queueVars, ProcTables
<1>8. CASE SysYield
  <2>1. state \in ProcTables  BY DEF TypeOK
  <2> HIDE DEF ProcTables
  <2> QED
    BY <1>8, <2>1, TrapTypes, ScheduleType
       DEF SysYield, TypeOK, queueVars, ProcTables
<1>9. CASE SysFork
  <2>1. PICK i \in Slots, t \in Names, k \in Names :
           /\ state' = [state EXCEPT ![i] = "READY"]
           /\ frame' = [frame EXCEPT ![i] = "user"]
           /\ pml4' = [pml4 EXCEPT ![i] = t]
           /\ kstack' = [kstack EXCEPT ![i] = k]
    BY <1>9 DEF SysFork, Lowest, Fresh
  <2>2. /\ state' \in ProcTables
        /\ frame' \in [Slots -> {"user", "reread", "idle"}]
        /\ pml4' \in [Slots -> {0} \cup Names]
        /\ kstack' \in [Slots -> {0} \cup Names]
    BY <2>1 DEF TypeOK
  <2>3. cr3' \in {0} \cup Names  BY <1>9 DEF SysFork, TypeOK
  <2> QED  BY <1>9, <2>2, <2>3 DEF SysFork, TypeOK, queueVars
<1>10. CASE SysExec
  <2>1. PICK t \in Names : pml4' = [pml4 EXCEPT ![cur] = t] /\ cr3' = t
    BY <1>10 DEF SysExec, Fresh
  <2>2. pml4' \in [Slots -> {0} \cup Names]  BY <2>1 DEF TypeOK
  <2> QED  BY <1>10, <2>1, <2>2 DEF SysExec, TypeOK, queueVars
<1>11. CASE SysRead
  <2>1. CASE Take /\ cpu' = "user"
              /\ UNCHANGED <<procVars, cur, inIdle, schedActive, pick, rsp0, cr3>>
    <3>1. /\ queue' \in Seq(Bytes) /\ Len(queue') <= Cap
          /\ taken' \in {<<b>> : b \in Bytes}
      BY <2>1, <1>0 DEF Take, TypeOK
    <3> QED
      BY <1>11, <2>1, <3>1
         DEF SysRead, TypeOK, procVars, CpuStates, Enabled_IF, Ring3
  <2>2. CASE Schedule([state EXCEPT ![cur] = "WAITING"], "reread")
              /\ UNCHANGED queueVars
    <3>1. [state EXCEPT ![cur] = "WAITING"] \in ProcTables  BY DEF TypeOK
    <3> HIDE DEF ProcTables
    <3> QED
      BY <1>11, <2>2, <3>1, ScheduleType
         DEF SysRead, TypeOK, queueVars, ProcTables
  <2> QED  BY <1>11, <2>1, <2>2 DEF SysRead
<1>12. CASE IdleStep
  <2>1. CASE IdleScan
    <3>1. pick' \in Slots /\ inIdle' \in BOOLEAN /\ cpu' \in CpuStates
      BY <2>1 DEF IdleScan, TypeOK, Lowest, Ready, CpuStates, Enabled_IF,
                  IdleWaiting, IdleLeaving
    <3> QED  BY <2>1, <3>1 DEF IdleScan, TypeOK, procVars, queueVars
  <2>2. CASE IdleHalt
    BY <2>2 DEF IdleHalt, TypeOK, procVars, queueVars, CpuStates, Enabled_IF,
                IdleWaiting
  <2>3. CASE IdleSwitch
    BY <2>3 DEF IdleSwitch, Load, TypeOK, procVars, queueVars, CpuStates,
                Enabled_IF, IdleLeaving
  <2>4. CASE IdleReturn
    BY <2>4 DEF IdleReturn, Iret, TypeOK, procVars, queueVars, CpuStates,
                Enabled_IF, Ring3
  <2> QED  BY <1>12, <2>1, <2>2, <2>3, <2>4 DEF IdleStep
<1>13. CASE UNCHANGED vars
  BY <1>13 DEF vars, TypeOK, procVars, cpuVars, queueVars
<1> QED
  BY <1>1, <1>2, <1>3, <1>4, <1>5, <1>6, <1>7, <1>8, <1>9, <1>10, <1>11,
     <1>12, <1>13 DEF Next, Syscall

\* Every variable of the kernel keeps its type in every reachable state.
THEOREM TypeCorrect == Spec => []TypeOK
<1>1. Init => TypeOK  BY TypeInit
<1>2. TypeOK /\ [Next]_vars => TypeOK'  BY TypeStep
<1> QED  BY <1>1, <1>2, PTL DEF Spec

-----------------------------------------------------------------------------
(* No lost wakeup *)

\* What drain_rx does to the readers and the buffer together.
LEMMA DrainWakes ==
    ASSUME TypeOK, NoLostWakeup, DrainedQueue # <<>>
    PROVE  \A p \in Slots : DrainedState[p] # "WAITING"
<1>1. state \in ProcTables  BY DEF TypeOK, ProcTables
<1>2. CASE rx = <<>>
  <2>1. queue \o rx = queue /\ Len(queue) <= Cap
    BY <1>2, ConcatEmptySeq DEF TypeOK
  <2>2. DrainedQueue = queue  BY <2>1 DEF DrainedQueue, Accept
  <2> QED  BY <1>2, <2>2 DEF NoLostWakeup, DrainedState
<1>3. CASE rx # <<>>
  BY <1>1, <1>3, WokenType DEF DrainedState
<1> QED  BY <1>2, <1>3

\* Every step keeps the buffer empty while somebody is blocked.
LEMMA WakeupStep ==
    ASSUME TypeOK, NoLostWakeup, [Next]_vars
    PROVE  NoLostWakeup'
<1>1. CASE Start \/ EnterUser
  BY <1>1 DEF Start, EnterUser, NoLostWakeup, procVars, queueVars
<1>2. CASE Tick \/ UartIrq
  <2>1. state' = DrainedState /\ queue' = DrainedQueue
    BY <1>2 DEF Tick, UartIrq, DrainRx, Schedule
  <2> QED  BY <2>1, DrainWakes DEF NoLostWakeup
<1>3. ASSUME NEW b \in Bytes, KbdIrq(b)
      PROVE  NoLostWakeup'
  <2>1. state \in ProcTables /\ state' = Woken(state)
    BY <1>3 DEF KbdIrq, TypeOK, ProcTables
  <2> QED  BY <2>1, WokenType DEF NoLostWakeup
<1>4. ASSUME NEW b \in Bytes, RxArrive(b)
      PROVE  NoLostWakeup'
  BY <1>4 DEF RxArrive, NoLostWakeup, procVars, queueVars
<1>5. CASE SysExit \/ SysYield \/ SysFork \/ SysExec
  <2>1. queue' = queue
    BY <1>5 DEF SysExit, SysYield, SysFork, SysExec, queueVars
  <2>2. \A p \in Slots : state'[p] = "WAITING" => state[p] = "WAITING"
    BY <1>5 DEF SysExit, SysYield, SysFork, SysExec, Schedule, TypeOK
  <2> QED  BY <2>1, <2>2 DEF NoLostWakeup
<1>6. CASE SysRead
  <2>1. CASE Take /\ state' = state
    BY <2>1 DEF Take, NoLostWakeup
  <2>2. CASE queue = <<>> /\ queue' = queue
    BY <2>2 DEF NoLostWakeup
  <2> QED  BY <1>6, <2>1, <2>2 DEF SysRead, procVars, queueVars
<1>7. CASE IdleStep
  BY <1>7 DEF IdleStep, IdleScan, IdleHalt, IdleSwitch, IdleReturn,
              NoLostWakeup, procVars, queueVars
<1>8. CASE UNCHANGED vars
  BY <1>8 DEF vars, NoLostWakeup, procVars, queueVars
<1> QED
  BY <1>1, <1>2, <1>3, <1>4, <1>5, <1>6, <1>7, <1>8 DEF Next, Syscall

\* However interrupts, reads and the idle loop interleave, nobody is blocked
\* in sys_read while the input buffer holds a byte.
THEOREM NoWakeupIsLost == Spec => []NoLostWakeup
<1>1. Init => NoLostWakeup  BY DEF Init, QueueInit, NoLostWakeup
<1>2. TypeOK /\ NoLostWakeup /\ [Next]_vars => NoLostWakeup'  BY WakeupStep
<1> QED  BY <1>1, <1>2, TypeCorrect, PTL DEF Spec

-----------------------------------------------------------------------------
(* The registers and the process table agree *)

Loaded ==
    /\ state[cur] = "READY"
    /\ rsp0 = kstack[cur]
    /\ cr3 = pml4[cur]

\* RunningConsistent with what start() and the idle loop have established on
\* their way to ring 3.
LoadInv ==
    /\ cpu \in Ring3 \cup {"latch", "switched"} => Loaded
    /\ cpu = "cleared" => state[pick] = "READY"
    /\ cpu = "switched" => cur = pick

\* schedule() loads the process it resumes.
LEMMA ScheduleLoads ==
    ASSUME TypeOK, NEW st \in ProcTables, NEW f, Schedule(st, f)
    PROVE  LoadInv'
<1> DEFINE fr == [frame EXCEPT ![cur] = f]
<1>1. CASE \E n \in NextReady(st, cur) : Load(n) /\ Iret(fr[n])
  <2>1. PICK n \in NextReady(st, cur) : Load(n) /\ Iret(fr[n])  BY <1>1
  <2>2. Loaded'
    BY <2>1, NextReadyIsReady DEF Schedule, Load, Loaded
  <2>3. cpu' \notin {"cleared", "switched"}  BY <2>1 DEF Iret, Ring3
  <2> QED  BY <2>2, <2>3 DEF LoadInv
<1>2. CASE cpu' \in {"halt", "dead"}
  BY <1>2 DEF LoadInv, Ring3
<1> QED  BY <1>1, <1>2 DEF Schedule

\* An interrupt that resumes what it interrupted keeps the registers right.
LEMMA ResumeKeepsLoaded ==
    ASSUME TypeOK, LoadInv, cpu' = Resumed,
           \A p \in Slots : state[p] = "READY" => state'[p] = "READY",
           UNCHANGED <<pml4, kstack, cur, pick, rsp0, cr3>>
    PROVE  LoadInv'
BY DEF LoadInv, Loaded, Resumed, Ring3, TypeOK

\* Every step keeps CUR, TSS.rsp0 and CR3 agreeing.
LEMMA LoadStep ==
    ASSUME TypeOK, LoadInv, [Next]_vars
    PROVE  LoadInv'
<1>0. /\ state \in ProcTables /\ DrainedState \in ProcTables
      /\ \A p \in Slots : state[p] = "READY" => /\ DrainedState[p] = "READY"
                                               /\ Woken(state)[p] = "READY"
  BY WokenType, DrainedType DEF TypeOK, ProcTables, DrainedState
<1>1. CASE Start
  <2>1. PICK i \in Slots : Load(i) /\ state[i] = "READY"
    BY <1>1 DEF Start, Lowest, Ready
  <2> QED  BY <1>1, <2>1 DEF Start, Load, LoadInv, Loaded, procVars, Ring3
<1>2. CASE EnterUser
  BY <1>2 DEF EnterUser, Iret, LoadInv, Loaded, procVars, Ring3
<1>3. CASE Tick
  <2>1. CASE ~schedActive \/ inIdle
    BY <1>0, <1>3, <2>1, ResumeKeepsLoaded DEF Tick, Schedule
  <2>2. CASE schedActive /\ ~inIdle
    BY <1>0, <1>3, <2>2, ScheduleLoads DEF Tick
  <2> QED  BY <2>1, <2>2 DEF TypeOK
<1>4. CASE UartIrq
  BY <1>0, <1>4, ResumeKeepsLoaded DEF UartIrq
<1>5. ASSUME NEW b \in Bytes, KbdIrq(b)
      PROVE  LoadInv'
  BY <1>0, <1>5, ResumeKeepsLoaded DEF KbdIrq
<1>6. ASSUME NEW b \in Bytes, RxArrive(b)
      PROVE  LoadInv'
  BY <1>6 DEF RxArrive, LoadInv, Loaded, procVars, cpuVars, Ring3
<1>7. CASE SysExit \/ SysYield
  <2>1. [state EXCEPT ![cur] = "EMPTY"] \in ProcTables  BY DEF TypeOK, ProcTables
  <2> QED  BY <1>0, <1>7, <2>1, ScheduleLoads DEF SysExit, SysYield
<1>8. CASE SysFork
  <2>1. cpu = "user" /\ Loaded  BY <1>8 DEF SysFork, Calls, LoadInv, Ring3
  <2>2. PICK i \in Slots, t \in Names, k \in Names :
           /\ state[i] = "EMPTY"
           /\ state' = [state EXCEPT ![i] = "READY"]
           /\ pml4' = [pml4 EXCEPT ![i] = t]
           /\ kstack' = [kstack EXCEPT ![i] = k]
    BY <1>8 DEF SysFork, Lowest, Fresh
  <2>3. i # cur  BY <2>1, <2>2 DEF Loaded
  <2>4. Loaded'
    BY <1>8, <2>1, <2>2, <2>3 DEF SysFork, Loaded, TypeOK
  <2> QED  BY <1>8, <2>1, <2>4 DEF SysFork, LoadInv, Ring3
<1>9. CASE SysExec
  <2>1. cpu = "user" /\ Loaded  BY <1>9 DEF SysExec, Calls, LoadInv, Ring3
  <2>2. Loaded'  BY <1>9, <2>1 DEF SysExec, Loaded, TypeOK
  <2> QED  BY <1>9, <2>1, <2>2 DEF SysExec, LoadInv, Ring3
<1>10. CASE SysRead
  <2>1. [state EXCEPT ![cur] = "WAITING"] \in ProcTables  BY DEF TypeOK, ProcTables
  <2>2. CASE Schedule([state EXCEPT ![cur] = "WAITING"], "reread")
    BY <2>1, <2>2, ScheduleLoads
  <2>3. CASE cpu' = "user" /\ UNCHANGED <<procVars, cur, pick, rsp0, cr3>>
    BY <1>10, <2>3 DEF SysRead, LoadInv, Loaded, procVars, Ring3
  <2> QED  BY <1>10, <2>2, <2>3 DEF SysRead
<1>11. CASE IdleStep
  <2>1. CASE IdleScan
    BY <2>1 DEF IdleScan, Lowest, Ready, LoadInv, procVars, Ring3
  <2>2. CASE IdleHalt
    BY <2>2 DEF IdleHalt, LoadInv, Ring3
  <2>3. CASE IdleSwitch
    BY <2>3 DEF IdleSwitch, Load, LoadInv, Loaded, procVars, Ring3
  <2>4. CASE IdleReturn
    BY <2>4 DEF IdleReturn, Iret, LoadInv, Loaded, procVars, Ring3
  <2> QED  BY <1>11, <2>1, <2>2, <2>3, <2>4 DEF IdleStep
<1>12. CASE UNCHANGED vars
  BY <1>12 DEF vars, LoadInv, Loaded, procVars, cpuVars, Ring3
<1> QED
  BY <1>1, <1>2, <1>3, <1>4, <1>5, <1>6, <1>7, <1>8, <1>9, <1>10, <1>11,
     <1>12 DEF Next, Syscall

\* LoadInv is inductive.
LEMMA LoadInvariant == Spec => []LoadInv
<1>1. Init => LoadInv  BY DEF Init, LoadInv, Ring3
<1>2. TypeOK /\ LoadInv /\ [Next]_vars => LoadInv'  BY LoadStep
<1> QED  BY <1>1, <1>2, TypeCorrect, PTL DEF Spec

\* In ring 3 the process table, TSS.rsp0 and CR3 always agree.
THEOREM RunningIsConsistent == Spec => []RunningConsistent
<1>1. LoadInv => RunningConsistent  BY DEF LoadInv, Loaded, RunningConsistent
<1> QED  BY <1>1, LoadInvariant, PTL

-----------------------------------------------------------------------------
(* Address spaces and kernel stacks *)

\* schedule() leaves the tables of the live processes alone when the handler
\* has revived no slot.
LEMMA SchedulePrivate ==
    ASSUME PrivateTables, NEW st, NEW f, Schedule(st, f),
           \A p \in Slots : st[p] # "EMPTY" => state[p] # "EMPTY"
    PROVE  PrivateTables'
BY DEF Schedule, PrivateTables

\* Every step keeps page tables and kernel stacks private.
LEMMA PrivateStep ==
    ASSUME TypeOK, LoadInv, PrivateTables, [Next]_vars
    PROVE  PrivateTables'
<1>0. /\ state \in ProcTables
      /\ \A p \in Slots : /\ DrainedState[p] # "EMPTY" => state[p] # "EMPTY"
                          /\ Woken(state)[p] # "EMPTY" => state[p] # "EMPTY"
  BY WokenType DEF TypeOK, ProcTables, DrainedState
<1>1. CASE Tick \/ UartIrq
  <2>1. state' = DrainedState /\ UNCHANGED <<pml4, kstack>>
    BY <1>1 DEF Tick, UartIrq, Schedule
  <2> QED  BY <1>0, <2>1 DEF PrivateTables
<1>2. ASSUME NEW b \in Bytes, KbdIrq(b)
      PROVE  PrivateTables'
  BY <1>0, <1>2 DEF KbdIrq, PrivateTables
<1>3. CASE SysExit \/ SysYield
  <2>1. \A p \in Slots : [state EXCEPT ![cur] = "EMPTY"][p] # "EMPTY"
                         => state[p] # "EMPTY"
    BY DEF TypeOK
  <2>2. CASE Schedule([state EXCEPT ![cur] = "EMPTY"], Trapped)
    BY <2>1, <2>2, SchedulePrivate
  <2>3. CASE Schedule(state, Trapped)
    BY <2>3, SchedulePrivate
  <2> QED  BY <1>3, <2>2, <2>3 DEF SysExit, SysYield
<1>4. CASE SysFork
  <2> DEFINE free == Lowest({p \in Slots : state[p] = "EMPTY"})
  <2>4. free \subseteq Slots  BY DEF Lowest
  <2>1. PICK i \in free, t \in Fresh(pml4, cr3), k \in Fresh(kstack, rsp0) :
           /\ state' = [state EXCEPT ![i] = "READY"]
           /\ frame' = [frame EXCEPT ![i] = "user"]
           /\ pml4' = [pml4 EXCEPT ![i] = t]
           /\ kstack' = [kstack EXCEPT ![i] = k]
    BY <1>4 DEF SysFork
  <2> HIDE DEF free
  <2>2. \A p \in Slots : state[p] # "EMPTY" => pml4[p] # t /\ kstack[p] # k
    BY <2>1 DEF Fresh
  <2> QED  BY <2>1, <2>2, <2>4 DEF PrivateTables, TypeOK
<1>5. CASE SysExec
  <2>1. PICK t \in Fresh(pml4, cr3) : pml4' = [pml4 EXCEPT ![cur] = t]
    BY <1>5 DEF SysExec
  <2>2. \A p \in Slots : state[p] # "EMPTY" => pml4[p] # t
    BY <2>1 DEF Fresh
  <2> QED  BY <1>5, <2>1, <2>2 DEF SysExec, PrivateTables, TypeOK
<1>6. CASE SysRead
  <2>1. CASE Schedule([state EXCEPT ![cur] = "WAITING"], "reread")
    <3>1. state[cur] = "READY"  BY <1>6 DEF SysRead, LoadInv, Loaded
    <3>2. \A p \in Slots : [state EXCEPT ![cur] = "WAITING"][p] # "EMPTY"
                           => state[p] # "EMPTY"
      BY <3>1 DEF TypeOK
    <3> QED  BY <2>1, <3>2, SchedulePrivate
  <2>2. CASE UNCHANGED procVars
    BY <2>2 DEF procVars, PrivateTables
  <2> QED  BY <1>6, <2>1, <2>2 DEF SysRead
<1>7. CASE UNCHANGED procVars
  BY <1>7 DEF procVars, PrivateTables
<1>8. Start \/ EnterUser \/ IdleStep \/ (\E b \in Bytes : RxArrive(b)) \/ UNCHANGED vars
         => UNCHANGED procVars
  BY DEF Start, EnterUser, IdleStep, IdleScan, IdleHalt, IdleSwitch, IdleReturn,
         RxArrive, vars
<1> QED
  BY <1>1, <1>2, <1>3, <1>4, <1>5, <1>6, <1>7, <1>8 DEF Next, Syscall

\* No two live processes ever share an address space or a kernel stack.
THEOREM TablesArePrivate == Spec => []PrivateTables
<1>1. Init => PrivateTables
  BY SchedAssumption DEF Init, PrivateTables, Slots
<1>2. TypeOK /\ LoadInv /\ PrivateTables /\ [Next]_vars => PrivateTables'
  BY PrivateStep
<1> QED  BY <1>1, <1>2, TypeCorrect, LoadInvariant, PTL DEF Spec

-----------------------------------------------------------------------------
(* A system with a program that never blocks *)

\* With a spinning program the CPU never leaves ring 3 but through a handler,
\* and every live process has a frame it can be resumed from.
SpinInv ==
    /\ \A s \in Spinners : state[s] = "READY"
    /\ cpu \in {"boot", "latch"} \cup Ring3
    /\ inIdle = FALSE
    /\ schedActive = (cpu \in Ring3)
    /\ IdleFrameNeverSaved
    /\ BlockedRereads

\* schedule() always finds a process to resume, and a frame of ring 3.
LEMMA ScheduleSpins ==
    ASSUME TypeOK, SpinInv, Spinners # {},
           NEW st \in ProcTables, NEW f \in Ring3, Schedule(st, f),
           \A s \in Spinners : st[s] = "READY",
           schedActive,
           \A p \in Slots \ {cur} :
              \/ st[p] = state[p]
              \/ st[p] = "READY" /\ state[p] = "WAITING",
           st[cur] = "WAITING" => f = "reread"
    PROVE  SpinInv'
<1> DEFINE fr == [frame EXCEPT ![cur] = f]
<1>0. Spinners \subseteq Slots /\ cur \in Slots
  BY SchedAssumption DEF Slots, TypeOK
<1>1. Ready(st) # {}  BY <1>0 DEF Ready
<1>2. PICK n \in NextReady(st, cur) : Load(n) /\ Iret(fr[n]) /\ UNCHANGED inIdle
  BY <1>1 DEF Schedule
<1>3. state' = st /\ frame' = fr /\ schedActive' = schedActive
  BY DEF Schedule
<1>4. \A p \in Slots : st[p] # "EMPTY" => fr[p] # "idle"
  BY <1>0 DEF SpinInv, IdleFrameNeverSaved, Ring3, TypeOK
<1>5. \A p \in Slots : st[p] = "WAITING" => fr[p] = "reread"
  BY <1>0 DEF SpinInv, BlockedRereads, TypeOK
<1>6. fr[n] \in Ring3
  BY <1>0, <1>4, NextReadyIsReady DEF TypeOK, Ring3
<1>7. cpu' \in Ring3  BY <1>2, <1>6 DEF Iret
<1>8. IdleFrameNeverSaved' /\ BlockedRereads'
  BY <1>3, <1>4, <1>5 DEF IdleFrameNeverSaved, BlockedRereads
<1>9. inIdle' = FALSE  BY <1>2 DEF SpinInv
<1>10. schedActive' = TRUE  BY <1>3 DEF TypeOK
<1> QED  BY <1>3, <1>7, <1>8, <1>9, <1>10 DEF SpinInv

\* An interrupt that resumes what it interrupted keeps SpinInv.
LEMMA ResumeSpins ==
    ASSUME TypeOK, SpinInv, cpu' = Resumed,
           \A p \in Slots :
              \/ state'[p] = state[p]
              \/ state'[p] = "READY" /\ state[p] = "WAITING",
           UNCHANGED <<frame, inIdle, schedActive>>
    PROVE  SpinInv'
<1>1. cpu' = cpu  BY DEF SpinInv, Resumed, Ring3
<1>2. Spinners \subseteq Slots  BY SchedAssumption DEF Slots
<1>3. IdleFrameNeverSaved' /\ BlockedRereads'
  BY DEF SpinInv, IdleFrameNeverSaved, BlockedRereads
<1>4. \A s \in Spinners : state'[s] = "READY"  BY <1>2 DEF SpinInv
<1> QED  BY <1>1, <1>3, <1>4 DEF SpinInv

\* With a program that never blocks, the idle loop is never entered.
LEMMA SpinStep ==
    ASSUME TypeOK, LoadInv, SpinInv, Spinners # {}, [Next]_vars
    PROVE  SpinInv'
<1>1. /\ state \in ProcTables /\ DrainedState \in ProcTables
      /\ cur \in Slots
      /\ Spinners \subseteq Slots
  BY WokenType, DrainedType, SchedAssumption DEF TypeOK, ProcTables, Slots
<1>2. \A p \in Slots :
         /\ \/ Woken(state)[p] = state[p]
            \/ Woken(state)[p] = "READY" /\ state[p] = "WAITING"
         /\ \/ DrainedState[p] = state[p]
            \/ DrainedState[p] = "READY" /\ state[p] = "WAITING"
  BY DEF Woken, DrainedState
<1>3. cpu \in Ring3 => Trapped = cpu /\ state[cur] = "READY" /\ schedActive
  BY DEF Trapped, LoadInv, Loaded, SpinInv
<1>4. CASE Start
  BY <1>4 DEF Start, SpinInv, IdleFrameNeverSaved, BlockedRereads, procVars, Ring3
<1>5. CASE EnterUser
  <2>1. state[cur] = "READY"  BY <1>5 DEF EnterUser, LoadInv, Loaded
  <2>2. frame[cur] \in Ring3
    BY <1>1, <2>1 DEF SpinInv, IdleFrameNeverSaved, TypeOK, Ring3
  <2>3. cpu' \in Ring3  BY <1>5, <2>2 DEF EnterUser, Iret
  <2>4. schedActive' = TRUE /\ UNCHANGED <<state, frame, inIdle>>
    BY <1>5 DEF EnterUser, procVars
  <2> QED  BY <2>3, <2>4 DEF SpinInv, IdleFrameNeverSaved, BlockedRereads
<1>6. CASE Tick
  <2>1. CASE ~schedActive \/ inIdle
    <3>1. /\ state' = DrainedState /\ cpu' = Resumed
          /\ UNCHANGED <<frame, inIdle, schedActive>>
      BY <1>6, <2>1 DEF Tick
    <3> QED  BY <1>2, <3>1, ResumeSpins
  <2>2. CASE schedActive /\ ~inIdle
    <3>1. Schedule(DrainedState, Trapped)  BY <1>6, <2>2 DEF Tick
    <3>2. cpu \in Ring3  BY <2>2 DEF SpinInv
    <3>3. \A s \in Spinners : DrainedState[s] = "READY"
      BY <1>1, <1>2 DEF SpinInv
    <3>4. DrainedState[cur] # "WAITING"  BY <1>1, <1>2, <1>3, <3>2
    <3> QED  BY <1>1, <1>2, <1>3, <2>2, <3>1, <3>2, <3>3, <3>4, ScheduleSpins
  <2> QED  BY <2>1, <2>2
<1>7. CASE UartIrq
  <2>1. /\ state' = DrainedState /\ cpu' = Resumed
        /\ UNCHANGED <<frame, inIdle, schedActive>>
    BY <1>7 DEF UartIrq
  <2> QED  BY <1>2, <2>1, ResumeSpins
<1>8. ASSUME NEW b \in Bytes, KbdIrq(b)
      PROVE  SpinInv'
  BY <1>2, <1>8, ResumeSpins DEF KbdIrq
<1>9. ASSUME NEW b \in Bytes, RxArrive(b)
      PROVE  SpinInv'
  BY <1>9 DEF RxArrive, SpinInv, IdleFrameNeverSaved, BlockedRereads, procVars,
              cpuVars
<1>10. CASE SysExit
  <2>1. cpu \in Ring3 /\ cpu = "user" /\ cur \notin Spinners
    BY <1>10 DEF SysExit, Calls, Ring3
  <2>2. [state EXCEPT ![cur] = "EMPTY"] \in ProcTables  BY <1>1 DEF ProcTables
  <2>3. \A s \in Spinners : [state EXCEPT ![cur] = "EMPTY"][s] = "READY"
    BY <1>1, <2>1 DEF SpinInv, ProcTables
  <2>4. Schedule([state EXCEPT ![cur] = "EMPTY"], cpu)
    BY <1>3, <1>10, <2>1 DEF SysExit
  <2>5. \A p \in Slots : p # cur
                           => [state EXCEPT ![cur] = "EMPTY"][p] = state[p]
    BY <1>1 DEF ProcTables
  <2>6. [state EXCEPT ![cur] = "EMPTY"][cur] # "WAITING"
    BY <1>1 DEF ProcTables
  <2> QED  BY <1>3, <2>1, <2>2, <2>3, <2>4, <2>5, <2>6, ScheduleSpins
<1>11. CASE SysYield
  <2>1. cpu \in Ring3 /\ state[cur] # "WAITING" /\ Schedule(state, cpu)
    BY <1>3, <1>11 DEF SysYield, Calls, Ring3
  <2>2. \A s \in Spinners : state[s] = "READY"  BY DEF SpinInv
  <2> QED  BY <1>1, <1>3, <2>1, <2>2, ScheduleSpins
<1>12. CASE SysFork
  <2>1. PICK i \in Slots :
           /\ state[i] = "EMPTY"
           /\ state' = [state EXCEPT ![i] = "READY"]
           /\ frame' = [frame EXCEPT ![i] = "user"]
    BY <1>12 DEF SysFork, Lowest
  <2>2. /\ \A s \in Spinners : state'[s] = "READY"
        /\ IdleFrameNeverSaved' /\ BlockedRereads'
    BY <1>1, <2>1 DEF SpinInv, IdleFrameNeverSaved, BlockedRereads, TypeOK
  <2> QED  BY <1>12, <2>2 DEF SysFork, SpinInv
<1>13. CASE SysExec
  BY <1>13 DEF SysExec, SpinInv, IdleFrameNeverSaved, BlockedRereads
<1>14. CASE SysRead
  <2>1. cpu \in Ring3 /\ cur \notin Spinners  BY <1>14 DEF SysRead
  <2>2. CASE Schedule([state EXCEPT ![cur] = "WAITING"], "reread")
    <3>1. [state EXCEPT ![cur] = "WAITING"] \in ProcTables  BY <1>1 DEF ProcTables
    <3>2. \A s \in Spinners : [state EXCEPT ![cur] = "WAITING"][s] = "READY"
      BY <1>1, <2>1 DEF SpinInv, ProcTables
    <3>3. \A p \in Slots : p # cur
                           => [state EXCEPT ![cur] = "WAITING"][p] = state[p]
      BY <1>1 DEF ProcTables
    <3>4. "reread" \in Ring3  BY DEF Ring3
    <3> QED  BY <1>3, <2>1, <2>2, <3>1, <3>2, <3>3, <3>4, ScheduleSpins
  <2>3. CASE cpu' = "user" /\ UNCHANGED <<procVars, inIdle, schedActive>>
    <3>1. cpu' \in Ring3  BY <2>3 DEF Ring3
    <3> QED  BY <1>3, <2>1, <2>3, <3>1
         DEF SpinInv, IdleFrameNeverSaved, BlockedRereads, procVars
  <2> QED  BY <1>14, <2>2, <2>3 DEF SysRead
<1>15. CASE IdleStep
  BY <1>15 DEF IdleStep, IdleScan, IdleHalt, IdleSwitch, IdleReturn, SpinInv, Ring3
<1>16. CASE UNCHANGED vars
  BY <1>16 DEF vars, SpinInv, IdleFrameNeverSaved, BlockedRereads, procVars, cpuVars
<1> QED
  BY <1>4, <1>5, <1>6, <1>7, <1>8, <1>9, <1>10, <1>11, <1>12, <1>13, <1>14,
     <1>15, <1>16 DEF Next, Syscall

\* The inductive invariant of a system with a spinner.
LEMMA SpinInvariant ==
    ASSUME Spinners # {}
    PROVE  Spec => []SpinInv
<1>1. Init => SpinInv
  BY SchedAssumption
     DEF Init, SpinInv, IdleFrameNeverSaved, BlockedRereads, Slots, Ring3
<1>2. TypeOK /\ LoadInv /\ SpinInv /\ [Next]_vars => SpinInv'  BY SpinStep
<1> QED  BY <1>1, <1>2, TypeCorrect, LoadInvariant, PTL DEF Spec

\* As long as one program spins, as prog B does in the system as built, no
\* idle-loop frame is ever saved over a process's frame.
THEOREM SpinnerProtectsFrames ==
    ASSUME Spinners # {}
    PROVE  Spec => []IdleFrameNeverSaved
<1>1. SpinInv => IdleFrameNeverSaved  BY DEF SpinInv
<1> QED  BY <1>1, SpinInvariant, PTL

\* Under the same condition every blocked reader repeats its read.
THEOREM SpinnerKeepsRereads ==
    ASSUME Spinners # {}
    PROVE  Spec => []BlockedRereads
<1>1. SpinInv => BlockedRereads  BY DEF SpinInv
<1> QED  BY <1>1, SpinInvariant, PTL

\* The processor is in start() or in a program, outside of the handlers.
NeverIdles == cpu \in {"boot", "latch"} \cup Ring3 /\ ~inIdle

\* As long as one program spins, schedule() always finds a process: the idle
\* loop (sched.rs:163-173) is never entered, and the machine neither stops nor
\* resumes a frame of an idle loop that is gone.
THEOREM SpinnerKeepsRunning ==
    ASSUME Spinners # {}
    PROVE  Spec => []NeverIdles
<1>1. SpinInv => NeverIdles  BY DEF SpinInv, NeverIdles
<1> QED  BY <1>1, SpinInvariant, PTL

-----------------------------------------------------------------------------
(* Where the machine stops *)

\* The last loop of schedule() (sched.rs:175-180) is entered when every process
\* has exited, and at no other time.
StopsWhenEmpty == cpu = "dead" => \A p \in Slots : state[p] = "EMPTY"

\* A call of schedule() stops the machine only with an empty table.
LEMMA ScheduleStops ==
    ASSUME NEW st \in ProcTables, NEW f, Schedule(st, f)
    PROVE  StopsWhenEmpty'
<1>1. state' = st  BY DEF Schedule
<1>2. CASE \E n \in NextReady(st, cur) : Iret([frame EXCEPT ![cur] = f][n])
  <2>1. cpu' # "dead"  BY <1>2 DEF Iret, Ring3
  <2> QED  BY <2>1 DEF StopsWhenEmpty
<1>3. CASE cpu' = "halt"  BY <1>3 DEF StopsWhenEmpty
<1>4. CASE Ready(st) = {} /\ \A p \in Slots : st[p] # "WAITING"
  <2>1. \A p \in Slots : st[p] \in {"EMPTY", "READY", "WAITING"}  BY DEF ProcTables
  <2>2. \A p \in Slots : st[p] # "READY"  BY <1>4 DEF Ready
  <2> QED  BY <1>1, <1>4, <2>1, <2>2 DEF StopsWhenEmpty
<1> QED  BY <1>2, <1>3, <1>4 DEF Schedule

\* The machine stops only when there is nobody left to run or to wait for, the
\* idle loop, the interrupts in it and a full table included.
THEOREM StopsOnlyWhenEmpty == Spec => []StopsWhenEmpty
<1>1. Init => StopsWhenEmpty  BY DEF Init, StopsWhenEmpty
<1>2. TypeOK /\ StopsWhenEmpty /\ [Next]_vars => StopsWhenEmpty'
  <2> SUFFICES ASSUME TypeOK, StopsWhenEmpty, [Next]_vars
               PROVE  StopsWhenEmpty'
    OBVIOUS
  <2>a. state \in ProcTables  BY DEF TypeOK, ProcTables
  <2>b. DrainedState \in ProcTables  BY DrainedType
  <2>0. /\ state \in ProcTables /\ DrainedState \in ProcTables
        /\ [state EXCEPT ![cur] = "EMPTY"] \in ProcTables
        /\ [state EXCEPT ![cur] = "WAITING"] \in ProcTables
    BY <2>a, <2>b DEF ProcTables
  <2>1. ASSUME cpu' = Resumed, cpu \in Enabled_IF PROVE StopsWhenEmpty'
    <3>2. cpu # "dead"  BY <2>1 DEF Enabled_IF, Ring3, IdleWaiting, IdleLeaving
    <3>3. cpu' = "scan" \/ cpu' = cpu  BY <2>1 DEF Resumed
    <3>1. cpu' # "dead"  BY <3>2, <3>3
    <3> QED  BY <3>1 DEF StopsWhenEmpty
  <2>2. CASE Tick  BY <2>0, <2>1, <2>2, ScheduleStops DEF Tick
  <2>3. CASE UartIrq  BY <2>1, <2>3 DEF UartIrq
  <2>4. ASSUME NEW b \in Bytes, KbdIrq(b) PROVE StopsWhenEmpty'
    BY <2>1, <2>4 DEF KbdIrq
  <2>5. ASSUME NEW b \in Bytes, RxArrive(b) PROVE StopsWhenEmpty'
    BY <2>5 DEF RxArrive, procVars, cpuVars, StopsWhenEmpty
  <2>6. CASE SysExit  BY <2>0, <2>6, ScheduleStops DEF SysExit
  <2>7. CASE SysYield  BY <2>0, <2>7, ScheduleStops DEF SysYield
  <2>8. CASE SysFork \/ SysExec
    <3>1. cpu' = "user"  BY <2>8 DEF SysFork, SysExec, Calls
    <3> QED  BY <3>1 DEF StopsWhenEmpty
  <2>9. CASE SysRead
    <3>1. CASE cpu' = "user"  BY <3>1 DEF StopsWhenEmpty
    <3>2. CASE Schedule([state EXCEPT ![cur] = "WAITING"], "reread")
      BY <2>0, <3>2, ScheduleStops
    <3> QED  BY <2>9, <3>1, <3>2 DEF SysRead
  <2>10. CASE Start \/ EnterUser \/ IdleStep
    <3>1. cpu' # "dead"
      BY <2>10 DEF Start, EnterUser, IdleStep, IdleScan, IdleHalt, IdleSwitch,
             IdleReturn, Iret, Ring3
    <3> QED  BY <3>1 DEF StopsWhenEmpty
  <2>11. CASE UNCHANGED vars
    BY <2>11 DEF vars, procVars, cpuVars, StopsWhenEmpty
  <2> QED
    BY <2>2, <2>3, <2>4, <2>5, <2>6, <2>7, <2>8, <2>9, <2>10, <2>11
    DEF Next, Syscall
<1> QED  BY <1>1, <1>2, TypeCorrect, PTL DEF Spec

-----------------------------------------------------------------------------
(* Round robin *)

\* Passing from slot c to slot n, the READY slot nearest after c, brings every
\* other READY slot p nearer.
LEMMA DistDecreases ==
    ASSUME NEW st, NEW c \in Slots, NEW n \in NextReady(st, c),
           NEW p \in Ready(st), p # c, p # n
    PROVE  Dist(n, p) < Dist(c, p)
<1>1. n \in Slots /\ p \in Slots /\ Dist(c, n) <= Dist(c, p)
  BY DEF NextReady, Ready
<1> QED  BY <1>1, SchedAssumption DEF Dist, Slots

\* Under the same condition every context switch that passes over a READY
\* process brings it nearer to its turn.
THEOREM SpinnerKeepsRoundRobin ==
    ASSUME Spinners # {}
    PROVE  Spec => RoundRobin
<1> DEFINE Nearer == \A p \in Slots :
          state[p] = "READY" /\ cur' # cur /\ p \notin {cur, cur'} /\ schedActive
             => Dist(cur', p) < Dist(cur, p)
<1>1. ASSUME TypeOK, LoadInv, SpinInv, [Next]_vars
      PROVE  Nearer
  <2> SUFFICES ASSUME NEW p \in Slots, state[p] = "READY", cur' # cur,
                      p \notin {cur, cur'}, schedActive
               PROVE  Dist(cur', p) < Dist(cur, p)
    OBVIOUS
  <2>1. cur \in Slots  BY <1>1 DEF TypeOK
  <2>2. cpu \in Ring3  BY <1>1 DEF SpinInv
  <2>3. PICK st, f : Schedule(st, f) /\ st[p] = "READY"
    <3>1. CASE Tick
      <4>1. Schedule(DrainedState, Trapped)  BY <3>1 DEF Tick
      <4>2. DrainedState[p] = "READY"  BY DEF DrainedState, Woken
      <4> QED  BY <4>1, <4>2
    <3>2. CASE SysExit
      <4>1. Schedule([state EXCEPT ![cur] = "EMPTY"], Trapped)
        BY <3>2 DEF SysExit
      <4>2. [state EXCEPT ![cur] = "EMPTY"][p] = "READY"  BY <1>1 DEF TypeOK
      <4> QED  BY <4>1, <4>2
    <3>3. CASE SysYield
      BY <3>3 DEF SysYield
    <3>4. CASE SysRead
      <4>1. Schedule([state EXCEPT ![cur] = "WAITING"], "reread")
        BY <3>4 DEF SysRead
      <4>2. [state EXCEPT ![cur] = "WAITING"][p] = "READY"  BY <1>1 DEF TypeOK
      <4> QED  BY <4>1, <4>2
    <3>5. ~(\/ UartIrq \/ SysFork \/ SysExec \/ IdleStep \/ Start \/ EnterUser
            \/ UNCHANGED vars
            \/ \E b \in Bytes : KbdIrq(b) \/ RxArrive(b))
      BY <2>2 DEF UartIrq, SysFork, SysExec, IdleStep, IdleScan, IdleHalt,
             IdleSwitch, IdleReturn, Start, EnterUser, vars, cpuVars, KbdIrq,
             RxArrive, Ring3
    <3> QED  BY <1>1, <3>1, <3>2, <3>3, <3>4, <3>5 DEF Next, Syscall
  <2>4. PICK n \in NextReady(st, cur) : cur' = n
    BY <2>3 DEF Schedule, Load
  <2> QED  BY <2>1, <2>3, <2>4, DistDecreases DEF Ready
<1>2. TypeOK /\ LoadInv /\ SpinInv /\ [Next]_vars => [Nearer]_vars  BY <1>1
<1> QED
  BY <1>2, TypeCorrect, LoadInvariant, SpinInvariant, PTL DEF Spec, RoundRobin

-----------------------------------------------------------------------------

\* A call of schedule() takes only the running process out of the READY state,
\* and saves a frame for it only.
LEMMA ScheduleUntouched ==
    ASSUME TypeOK, NEW st, NEW f, Schedule(st, f),
           NEW p \in Slots, p # cur, state[p] = "READY" => st[p] = "READY"
    PROVE  /\ state[p] = "READY" => state'[p] = "READY"
           /\ frame'[p] = frame[p]
BY DEF Schedule, TypeOK

\* Whatever the others and the interrupts do, the idle race included, a READY
\* process stays READY and a live one keeps its saved frame while it does not
\* run itself.
THEOREM NobodyElseTouches == Spec => OthersUntouched
<1> DEFINE Untouched == \A p \in Slots :
          /\ state[p] = "READY" /\ state'[p] # "READY" => p = cur /\ cpu \in Ring3
          /\ state[p] # "EMPTY" /\ frame'[p] # frame[p] => p = cur
<1>1. ASSUME TypeOK, [Next]_vars
      PROVE  Untouched
  <2>0. /\ state \in ProcTables
        /\ \A p \in Slots : state[p] = "READY" => /\ DrainedState[p] = "READY"
                                                 /\ Woken(state)[p] = "READY"
    BY <1>1, WokenType DEF TypeOK, ProcTables, DrainedState
  <2>1. ASSUME NEW st, NEW f, Schedule(st, f),
               \A p \in Slots : p # cur /\ state[p] = "READY" => st[p] = "READY",
               cpu \in Ring3 \/ \A p \in Slots : state[p] = "READY" => st[p] = "READY"
        PROVE  Untouched
    <3>1. \A p \in Slots : p # cur => /\ state[p] = "READY" => state'[p] = "READY"
                                     /\ frame'[p] = frame[p]
      BY <1>1, <2>1, ScheduleUntouched
    <3>2. state' = st  BY <2>1 DEF Schedule
    <3> QED  BY <2>1, <3>1, <3>2
  <2>2. CASE Tick
    <3>1. CASE Schedule(DrainedState, Trapped)  BY <2>0, <2>1, <3>1
    <3>2. CASE state' = DrainedState /\ frame' = frame  BY <2>0, <3>2
    <3> QED  BY <2>2, <3>1, <3>2 DEF Tick
  <2>3. CASE UartIrq \/ \E b \in Bytes : KbdIrq(b)
    BY <2>0, <2>3 DEF UartIrq, KbdIrq
  <2>4. CASE SysExit \/ SysYield
    <3>1. cpu \in Ring3 /\ \A p \in Slots : p # cur =>
            [state EXCEPT ![cur] = "EMPTY"][p] = state[p]
      BY <1>1, <2>4 DEF SysExit, SysYield, Calls, Ring3, TypeOK
    <3>2. CASE Schedule([state EXCEPT ![cur] = "EMPTY"], Trapped)
      BY <2>1, <3>1, <3>2
    <3>3. CASE Schedule(state, Trapped)  BY <2>1, <3>3
    <3> QED  BY <2>4, <3>2, <3>3 DEF SysExit, SysYield
  <2>5. CASE SysFork
    <3>1. PICK i \in Slots : /\ state[i] = "EMPTY"
                             /\ state' = [state EXCEPT ![i] = "READY"]
                             /\ frame' = [frame EXCEPT ![i] = "user"]
      BY <2>5 DEF SysFork, Lowest
    <3> QED  BY <1>1, <3>1 DEF TypeOK
  <2>6. CASE SysRead
    <3>1. CASE Schedule([state EXCEPT ![cur] = "WAITING"], "reread")
      <4>1. cpu \in Ring3 /\ \A p \in Slots : p # cur =>
              [state EXCEPT ![cur] = "WAITING"][p] = state[p]
        BY <1>1, <2>6 DEF SysRead, TypeOK
      <4> QED  BY <2>1, <3>1, <4>1
    <3>2. CASE UNCHANGED procVars  BY <3>2 DEF procVars
    <3> QED  BY <2>6, <3>1, <3>2 DEF SysRead
  <2>7. CASE \/ Start \/ EnterUser \/ IdleStep \/ SysExec \/ UNCHANGED vars
             \/ \E b \in Bytes : RxArrive(b)
    <3>1. state' = state /\ frame' = frame
      BY <2>7 DEF Start, EnterUser, IdleStep, IdleScan, IdleHalt, IdleSwitch,
             IdleReturn, SysExec, RxArrive, vars, procVars
    <3> QED  BY <3>1
  <2> QED
    BY <1>1, <2>2, <2>3, <2>4, <2>5, <2>6, <2>7 DEF Next, Syscall
<1>2. TypeOK /\ [Next]_vars => [Untouched]_vars  BY <1>1
<1> QED  BY <1>2, TypeCorrect, PTL DEF Spec, OthersUntouched
=============================================================================
