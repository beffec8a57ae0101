-------------------------- MODULE CowMemoryProofs --------------------------
(***************************************************************************)
(* Theorems about CowMemory, for every number of processes, pages, frames  *)
(* and values: isolation, and that it implements PrivateMemory.            *)
(***************************************************************************)
EXTENDS CowMemory, TLAPS

\* The inductive invariant: types, sharing, the free list, the TLB and brk
\* constrain one another.
MemInv ==
    /\ MemTypeOK
    /\ SharedIsReadOnly
    /\ FreeIsUnmapped
    /\ TlbCoherent
    /\ MappedBelowBrk
    /\ OnlyBadAccessHalts

\* What the constants' assumption says of pages and frames.
LEMMA ConstantFacts ==
    /\ NPages \in Nat /\ NImage \in Nat \ {0} /\ NImage <= NPages
    /\ Image \subseteq Pages /\ 0 \in Image /\ 0 \in Pages
    /\ \A v \in Pages : v \in Image <=> v < NImage
    /\ NoFrame \notin Frames
<1>1. \A f \in Frames : ~(f * PageBytes < LowLimit)
  BY DEF Frames, Seeded, Excluded
<1>2. 0 * PageBytes = 0 /\ 0 < LowLimit  BY MapAssumption
<1>3. NoFrame \notin Frames  BY <1>1, <1>2 DEF NoFrame
<1> QED  BY <1>3, MemoryAssumption DEF Image, Pages

\* What the two kinds of stack pops give.
LEMMA PopFacts ==
    ASSUME NEW left
    PROVE  \A fr \in ImageFrames(left) :
             /\ fr \in [Image -> left]
             /\ \A u, v \in Image : fr[u] = fr[v] => u = v
BY DEF ImageFrames

\* The invariant holds when spawn() has made the first process.
LEMMA InitInv ==
    ASSUME Init
    PROVE  MemInv
<1>1. PICK first \in Slots, m \in Maps \cup {FallbackMap} :
        \E fr \in ImageFrames(Seeded(m)) : Spawned(first, m, fr)
  BY DEF Init
<1>2. PICK fr \in ImageFrames(Seeded(m)) : Spawned(first, m, fr)
  BY <1>1
<1>3. Seeded(m) \subseteq Frames  BY DEF Frames
<1>5. /\ fr \in [Image -> Frames]
      /\ \A u, v \in Image : fr[u] = fr[v] => u = v
      /\ e820 \in Maps \cup {FallbackMap}
      /\ free \subseteq Frames \ {fr[v] : v \in Image}
  BY <1>2, <1>3, PopFacts DEF Spawned
<1>6. \A p \in Slots, v \in Pages :
        map[p][v] = IF p = first /\ v \in Image THEN fr[v] ELSE NoFrame
  BY <1>2, <1>5 DEF Spawned
<1>7. MemTypeOK
  BY <1>2, <1>5, ConstantFacts, MemoryAssumption DEF Spawned, MemTypeOK, NoTlb
<1>8. SharedIsReadOnly  BY <1>2, <1>5, <1>6, ConstantFacts DEF Spawned, SharedIsReadOnly
<1>9. FreeIsUnmapped  BY <1>2, <1>5, <1>6, ConstantFacts DEF Spawned, FreeIsUnmapped
<1>10. TlbCoherent  BY <1>2, <1>5 DEF Spawned, TlbCoherent, NoTlb
<1>11. MappedBelowBrk  BY <1>2, <1>5, <1>6, ConstantFacts DEF Spawned, MappedBelowBrk
<1> QED  BY <1>2, <1>5, <1>7, <1>8, <1>9, <1>10, <1>11 DEF Spawned, MemInv, OnlyBadAccessHalts

-----------------------------------------------------------------------------
(* One lemma for each kind of step *)

\* Mapping a fresh frame, flushed from the TLB, keeps the invariant.
LEMMA RemapInv ==
    ASSUME MemInv, Running, NEW v \in Pages, NEW f \in free, NEW x \in Values,
           v < brk[cur], Remap(v, f, x), cr2' = v
    PROVE  MemInv'
<1>1. f \in Frames /\ f # NoFrame /\ cur \in Slots
  BY ConstantFacts DEF MemInv, MemTypeOK, Remap
<1>2. \A p \in Slots, u \in Pages :
        /\ map'[p][u] = IF p = cur /\ u = v THEN f ELSE map[p][u]
        /\ u \in wr'[p] <=> u \in wr[p] \/ (p = cur /\ u = v)
  BY DEF MemInv, MemTypeOK, Remap
<1>3. \A p \in Slots, u \in Pages : map[p][u] # f
  BY DEF MemInv, FreeIsUnmapped, Remap
<1>4. \A u \in Pages :
        /\ tlb'[u] = IF u = v THEN NoFrame ELSE tlb[u]
        /\ u \in tlbW' <=> u \in tlbW /\ u # v
  BY DEF MemInv, MemTypeOK, Remap, FlushPage
<1>5. MemTypeOK'
  BY <1>1 DEF MemInv, MemTypeOK, Remap, FlushPage
<1>6. SharedIsReadOnly'
  BY <1>1, <1>2, <1>3 DEF MemInv, SharedIsReadOnly
<1>7. FreeIsUnmapped'
  BY <1>1, <1>2, <1>3 DEF MemInv, FreeIsUnmapped, Remap
<1>8. TlbCoherent'
  BY <1>1, <1>2, <1>4 DEF MemInv, TlbCoherent, Remap
<1>9. MappedBelowBrk'
  BY <1>1, <1>2 DEF MemInv, MappedBelowBrk, Remap
<1> QED
  BY <1>5, <1>6, <1>7, <1>8, <1>9
     DEF MemInv, OnlyBadAccessHalts, Remap, Running

\* Steps that change neither tables nor the free list nor the TLB.
LEMMA QuietInv ==
    ASSUME MemInv, MemTypeOK', OnlyBadAccessHalts',
           UNCHANGED <<map, wr, brk, live, cur, tlb, tlbW, free, e820>>
    PROVE  MemInv'
BY DEF MemInv, SharedIsReadOnly, FreeIsUnmapped, TlbCoherent, MappedBelowBrk

\* A panic changes nothing but the machine's state.
LEMMA PanicInv ==
    ASSUME MemInv, Panic, cr2' \in Pages
    PROVE  MemInv'
<1>1. MemTypeOK'  BY DEF Panic, MemInv, MemTypeOK, tableVars, tlbVars
<1>2. OnlyBadAccessHalts'  BY DEF Panic, OnlyBadAccessHalts
<1> QED  BY <1>1, <1>2, QuietInv DEF Panic, tableVars, tlbVars

\* A page fault: where the three outcomes of pf_handler come from.
LEMMA PageFaultCases ==
    ASSUME MemInv, NEW v \in Pages, PageFault(v)
    PROVE  \/ Ex0E /\ v >= brk[cur]
           \/ Panic
           \/ /\ v < brk[cur]
              /\ \E f \in free, x \in Values :
                    /\ Remap(v, f, x)
                    /\ x = IF map[cur][v] = NoFrame THEN 0 ELSE content[map[cur][v]]
<1>0. cur \in Slots /\ cur \in live /\ brk[cur] \in Nat
  BY ConstantFacts DEF PageFault, Running, MemInv, MemTypeOK
<1>1. CASE NotPresent(v)
  <2>1. map[cur][v] = NoFrame  BY <1>1 DEF NotPresent
  <2>2. v \notin Image  BY <1>0, <2>1 DEF MemInv, MappedBelowBrk
  <2>3. CASE ~OnHeap(v)
    <3>1. v >= brk[cur]  BY <1>0, <2>2, <2>3 DEF OnHeap, Pages
    <3>2. Ex0E  BY <1>1, <2>3 DEF PageFault, NotPresent, WriteProtected
    <3> QED  BY <3>1, <3>2
  <2>4. CASE OnHeap(v) /\ free = {}
    BY <1>1, <2>4 DEF PageFault, NotPresent, WriteProtected
  <2>5. CASE OnHeap(v) /\ free # {}
    <3>1. DemandMap(v)
      BY <1>1, <2>5 DEF PageFault, NotPresent, WriteProtected
    <3>2. 0 \in Values  BY MemoryAssumption
    <3> QED  BY <2>1, <2>5, <3>1, <3>2 DEF DemandMap, Top, OnHeap
  <2> QED  BY <2>3, <2>4, <2>5
<1>2. CASE WriteProtected(v)
  <2>1. tlb[v] # NoFrame /\ map[cur][v] = tlb[v] /\ v \notin wr[cur]
    BY <1>2 DEF WriteProtected, MemInv, TlbCoherent
  <2>2. v < brk[cur]  BY <1>0, <2>1 DEF MemInv, MappedBelowBrk
  <2>3. CASE free = {}
    BY <1>2, <2>1, <2>3 DEF PageFault, NotPresent, WriteProtected
  <2>4. CASE free # {}
    <3>1. CowCopy(v)
      BY <1>2, <2>1, <2>4 DEF PageFault, NotPresent, WriteProtected
    <3>2. content[map[cur][v]] \in Values
      BY <1>0, <2>1 DEF MemInv, MemTypeOK
    <3> QED  BY <2>1, <2>2, <3>1, <3>2 DEF CowCopy, Top
  <2> QED  BY <2>3, <2>4
<1> QED  BY <1>1, <1>2 DEF PageFault

\* Whatever pf_handler does keeps the invariant.
LEMMA PageFaultInv ==
    ASSUME MemInv, NEW v \in Pages, PageFault(v)
    PROVE  MemInv'
<1>0. cr2' = v /\ Running  BY DEF PageFault
<1>1. CASE Ex0E /\ v >= brk[cur]
  <2>1. MemTypeOK'
    BY <1>0, <1>1 DEF Ex0E, MemInv, MemTypeOK, tableVars, tlbVars
  <2>2. OnlyBadAccessHalts'
    BY <1>0, <1>1 DEF Ex0E, OnlyBadAccessHalts, tableVars
  <2> QED  BY <1>1, <2>1, <2>2, QuietInv DEF Ex0E, tableVars, tlbVars
<1>2. CASE Panic  BY <1>0, <1>2, PanicInv
<1>3. CASE v < brk[cur] /\ \E f \in free, x \in Values : Remap(v, f, x)
  BY <1>0, <1>3, RemapInv
<1> QED  BY <1>1, <1>2, <1>3, PageFaultCases

\* The TLB caches what the table says.
LEMMA TlbInv ==
    ASSUME MemInv, NEW v \in Pages, TlbFill(v) \/ TlbEvict(v)
    PROVE  MemInv'
<1>0. cur \in Slots /\ map[cur][v] \in Frames \cup {NoFrame}
  BY DEF MemInv, MemTypeOK
<1>1. UNCHANGED <<map, wr, brk, live, cur, content, free, e820, seen, cr2, halted>>
  BY DEF TlbFill, TlbEvict, tableVars
<1>2. MemTypeOK'
  BY <1>0, <1>1 DEF TlbFill, TlbEvict, FlushPage, MemInv, MemTypeOK
<1>3. TlbCoherent'
  <2>1. CASE TlbFill(v)
    <3>1. \A u \in Pages :
            /\ tlb'[u] = IF u = v THEN map[cur][v] ELSE tlb[u]
            /\ u # v => (u \in tlbW' <=> u \in tlbW)
      BY <2>1 DEF TlbFill, MemInv, MemTypeOK
    <3>2. v \in tlbW' <=> v \in wr[cur]  BY <2>1 DEF TlbFill
    <3> QED  BY <1>1, <3>1, <3>2 DEF MemInv, TlbCoherent
  <2>2. CASE TlbEvict(v)
    BY <1>1, <2>2 DEF TlbEvict, FlushPage, MemInv, MemTypeOK, TlbCoherent
  <2> QED  BY <2>1, <2>2
<1> QED
  BY <1>1, <1>2, <1>3
     DEF MemInv, SharedIsReadOnly, FreeIsUnmapped, MappedBelowBrk,
         OnlyBadAccessHalts

\* Loads and stores keep the invariant.
LEMMA AccessInv ==
    ASSUME MemInv, NEW v \in Pages, Load(v) \/ \E x \in Values : Store(v, x)
    PROVE  MemInv'
<1>1. MemTypeOK'
  BY DEF Load, Store, MemInv, MemTypeOK, tableVars, tlbVars
<1>2. OnlyBadAccessHalts'
  BY DEF Load, Store, MemInv, OnlyBadAccessHalts, tableVars, tlbVars
<1> QED  BY <1>1, <1>2, QuietInv DEF Load, Store, tableVars, tlbVars

\* sbrk keeps the invariant: a sum that would overflow stops the machine, one
\* past BRK_MAX changes nothing.
LEMMA SbrkInv ==
    ASSUME MemInv, NEW n \in 0 .. AddressPages, Sbrk(n)
    PROVE  MemInv'
<1>1. cur \in Slots /\ n \in Nat /\ brk[cur] \in Nat /\ cr2 \in Pages
  BY ConstantFacts, MemoryAssumption DEF MemInv, MemTypeOK, Pages
<1>2. CASE Panic /\ UNCHANGED cr2  BY <1>1, <1>2, PanicInv
<1>3. CASE ~(Panic /\ UNCHANGED cr2)
  <2>1. /\ halted' = "no"
        /\ brk' = IF brk[cur] + n <= NPages THEN [brk EXCEPT ![cur] = @ + n] ELSE brk
    BY <1>3 DEF Sbrk, Running
  <2>2. brk' \in [Slots -> NImage .. NPages]
    BY <1>1, <2>1, ConstantFacts DEF MemInv, MemTypeOK
  <2>3. \A p \in Slots : brk'[p] >= brk[p]
    BY <1>1, <2>1, ConstantFacts DEF MemInv, MemTypeOK
  <2>4. UNCHANGED <<map, wr, live, cur, tlb, tlbW, content, free, e820, seen, cr2>>
    BY <1>3 DEF Sbrk, tlbVars
  <2>5. MappedBelowBrk'
    BY <2>2, <2>3, <2>4, ConstantFacts DEF MemInv, MemTypeOK, MappedBelowBrk, Pages
  <2>6. MemTypeOK'  BY <2>1, <2>2, <2>4 DEF MemInv, MemTypeOK
  <2> QED
    BY <2>1, <2>4, <2>5, <2>6
       DEF MemInv, SharedIsReadOnly, FreeIsUnmapped, TlbCoherent, OnlyBadAccessHalts
<1> QED  BY <1>2, <1>3

\* fork keeps the invariant: W is off on both sides, the TLB is empty.
LEMMA ForkInv ==
    ASSUME MemInv, NEW i \in Slots, Fork(i)
    PROVE  MemInv'
<1>0. cur \in Slots /\ i # cur /\ cur \in live  BY DEF MemInv, MemTypeOK, Fork, Running
<1>1. \A p \in Slots :
        /\ map'[p] = IF p = i THEN map[cur] ELSE map[p]
        /\ wr'[p] = IF p \in {i, cur} THEN {} ELSE wr[p]
        /\ brk'[p] = IF p = i THEN brk[cur] ELSE brk[p]
  BY <1>0 DEF Fork, MemInv, MemTypeOK
<1>2. MemTypeOK'
  BY <1>0 DEF Fork, FlushTlb, NoTlb, MemInv, MemTypeOK
<1>3. SharedIsReadOnly'
  BY <1>0, <1>1 DEF MemInv, SharedIsReadOnly
<1>4. FreeIsUnmapped'
  BY <1>0, <1>1 DEF Fork, MemInv, FreeIsUnmapped
<1>5. TlbCoherent'  BY DEF Fork, FlushTlb, NoTlb, TlbCoherent
<1>6. MappedBelowBrk'
  BY <1>0, <1>1 DEF Fork, MemInv, MappedBelowBrk
<1>7. OnlyBadAccessHalts'
  BY DEF Fork, Running, OnlyBadAccessHalts
<1> QED  BY <1>2, <1>3, <1>4, <1>5, <1>6, <1>7 DEF MemInv

\* exec keeps the invariant: its frames come from the free list.
LEMMA ExecInv ==
    ASSUME MemInv, Exec
    PROVE  MemInv'
<1>0. cur \in Slots /\ halted = "no"  BY DEF MemInv, MemTypeOK, Exec, Running
<1>1. CASE Panic /\ cr2' = cr2
  BY <1>1, PanicInv DEF MemInv, MemTypeOK
<1>2. ASSUME NEW fr \in ImageFrames(free), NewImage(cur, fr),
             brk' = [brk EXCEPT ![cur] = NImage],
             FlushTlb, UNCHANGED <<live, cur, e820, seen, cr2, halted>>
      PROVE  MemInv'
  <2>1. /\ fr \in [Image -> free]
        /\ \A u, v \in Image : fr[u] = fr[v] => u = v
        /\ free \subseteq Frames
    BY <1>2, PopFacts DEF MemInv, MemTypeOK
  <2>2. \A p \in Slots, v \in Pages :
          /\ map'[p][v] = IF p # cur THEN map[p][v]
                          ELSE IF v \in Image THEN fr[v] ELSE NoFrame
          /\ v \in wr'[p] <=> IF p # cur THEN v \in wr[p] ELSE v \in Image
    BY <1>0, <1>2 DEF NewImage, MemInv, MemTypeOK
  <2>3. \A v \in Image : fr[v] \in free /\ fr[v] # NoFrame
    BY <2>1, ConstantFacts
  <2>4. MemTypeOK'
    BY <1>0, <1>2, <2>1, ConstantFacts, MemoryAssumption
       DEF NewImage, FlushTlb, NoTlb, MemInv, MemTypeOK
  <2>5. SharedIsReadOnly'
    BY <2>1, <2>2, <2>3 DEF MemInv, SharedIsReadOnly, FreeIsUnmapped
  <2>6. FreeIsUnmapped'
    <3>1. free' = free \ {fr[v] : v \in Image}  BY <1>2 DEF NewImage
    <3>2. NoFrame \notin free  BY <2>1, ConstantFacts
    <3> QED  BY <2>2, <3>1, <3>2 DEF MemInv, FreeIsUnmapped
  <2>7. TlbCoherent'  BY <1>2 DEF FlushTlb, NoTlb, TlbCoherent
  <2>8. MappedBelowBrk'
    <3>1. \A p \in Slots : brk'[p] = IF p = cur THEN NImage ELSE brk[p]
      BY <1>2 DEF MemInv, MemTypeOK
    <3> QED  BY <1>2, <2>2, <2>3, <3>1, ConstantFacts DEF MemInv, MappedBelowBrk
  <2>9. OnlyBadAccessHalts'  BY <1>0, <1>2 DEF OnlyBadAccessHalts
  <2> QED  BY <2>4, <2>5, <2>6, <2>7, <2>8, <2>9 DEF MemInv
<1> QED  BY <1>1, <1>2 DEF Exec

\* Loading CR3 and exiting keep the invariant.
LEMMA SwitchExitInv ==
    ASSUME MemInv, Exit \/ \E q \in Slots : Switch(q)
    PROVE  MemInv'
<1>1. UNCHANGED <<map, wr, brk, content, free, e820, seen, cr2>> /\ live' \subseteq live
  BY DEF Switch, Exit
<1>2. cur' \in Slots /\ halted' \in {"no", "dead"}
  BY DEF Switch, Exit, Running, MemInv, MemTypeOK
<1>3. \/ FlushTlb
      \/ UNCHANGED <<cur, tlb, tlbW>>
  BY DEF Switch, Exit, tlbVars
<1>4. MemTypeOK'
  BY <1>1, <1>2, <1>3 DEF FlushTlb, NoTlb, MemInv, MemTypeOK
<1>5. TlbCoherent'
  BY <1>1, <1>3 DEF FlushTlb, NoTlb, MemInv, TlbCoherent
<1> QED
  BY <1>1, <1>2, <1>4, <1>5
     DEF MemInv, SharedIsReadOnly, FreeIsUnmapped, MappedBelowBrk,
         OnlyBadAccessHalts

\* Every step keeps the invariant.
LEMMA StepInv ==
    ASSUME MemInv, [Next]_vars
    PROVE  MemInv'
<1>1. ASSUME NEW v \in Pages, PageFault(v)
      PROVE  MemInv'
  BY <1>1, PageFaultInv
<1>2. ASSUME NEW v \in Pages, TlbFill(v) \/ TlbEvict(v)
      PROVE  MemInv'
  BY <1>2, TlbInv
<1>3. ASSUME NEW v \in Pages, Load(v) \/ \E x \in Values : Store(v, x)
      PROVE  MemInv'
  BY <1>3, AccessInv
<1>4. ASSUME NEW n \in 0 .. AddressPages, Sbrk(n)
      PROVE  MemInv'
  BY <1>4, SbrkInv
<1>5. ASSUME NEW i \in Slots, Fork(i)
      PROVE  MemInv'
  BY <1>5, ForkInv
<1>6. CASE Exec  BY <1>6, ExecInv
<1>7. CASE Exit \/ \E q \in Slots : Switch(q)  BY <1>7, SwitchExitInv
<1>8. CASE UNCHANGED vars
  BY <1>8 DEF vars, tableVars, tlbVars, MemInv, MemTypeOK, SharedIsReadOnly,
              FreeIsUnmapped, TlbCoherent, MappedBelowBrk, OnlyBadAccessHalts
<1> QED  BY <1>1, <1>2, <1>3, <1>4, <1>5, <1>6, <1>7, <1>8 DEF Next

\* The inductive invariant holds.
LEMMA MemInvariant == Spec => []MemInv
<1> QED  BY InitInv, StepInv, PTL DEF Spec

\* Every variable of the memory system keeps its type.
THEOREM MemTypeCorrect == Spec => []MemTypeOK
<1>1. MemInv => MemTypeOK  BY DEF MemInv
<1> QED  BY <1>1, MemInvariant, PTL

\* Frames shared by fork are writable by nobody.
THEOREM SharingIsReadOnly == Spec => []SharedIsReadOnly
<1>1. MemInv => SharedIsReadOnly  BY DEF MemInv
<1> QED  BY <1>1, MemInvariant, PTL

\* The TLB of the CPU agrees with the loaded page table.
THEOREM TlbIsCoherent == Spec => []TlbCoherent
<1>1. MemInv => TlbCoherent  BY DEF MemInv
<1> QED  BY <1>1, MemInvariant, PTL

\* Only an access outside the process's memory stops the machine with EX0E.
THEOREM HaltsAreDeserved == Spec => []OnlyBadAccessHalts
<1>1. MemInv => OnlyBadAccessHalts  BY DEF MemInv
<1> QED  BY <1>1, MemInvariant, PTL

\* A frame on the free list is mapped by no table: none is given out twice.
THEOREM FreeFramesAreUnmapped == Spec => []FreeIsUnmapped
<1>1. MemInv => FreeIsUnmapped  BY DEF MemInv
<1> QED  BY <1>1, MemInvariant, PTL

\* No page above the brk that sbrk granted is ever mapped, whatever a program
\* passes to sbrk.
THEOREM PagesAreBelowBrk == Spec => []MappedBelowBrk
<1>1. MemInv => MappedBelowBrk  BY DEF MemInv
<1> QED  BY <1>1, MemInvariant, PTL

-----------------------------------------------------------------------------
(* Where the frames come from *)

\* Division rounds down.
LEMMA Division ==
    ASSUME NEW a \in Nat, NEW p \in Nat \ {0}
    PROVE  (a \div p) \in Nat /\ (a \div p) * p <= a /\ a < ((a \div p) + 1) * p
OBVIOUS

LEMMA Scaling ==
    ASSUME NEW a \in Nat, NEW b \in Nat, NEW p \in Nat, a <= b
    PROVE  a * p <= b * p
OBVIOUS

\* Every byte of a frame that init pushed lies in RAM that nobody else uses.
LEMMA SeededIsUsable ==
    ASSUME NEW m \in Maps \cup {FallbackMap}, NEW f \in Seeded(m),
           NEW b \in (f * PageBytes) .. ((f + 1) * PageBytes - 1)
    PROVE  /\ LowLimit <= b /\ b < Mapped
           /\ ~(KernelStart <= b /\ b < BssEnd)
           /\ \E i \in DOMAIN m :
                 /\ m[i].typ = Usable
                 /\ m[i].base <= b /\ b < m[i].base + m[i].len
<1>1. PICK i \in DOMAIN m : m[i].typ = Usable /\ f \in EntryFrames(m[i])
  BY DEF Seeded
<1>2. /\ PageBytes \in Nat \ {0} /\ LowLimit \in Nat /\ BssEnd \in Nat
      /\ m[i].base \in Nat /\ m[i].len \in Nat
      /\ m[i].base + m[i].len <= Mapped
  <2> DEFINE ram == {j \in DOMAIN m : m[j].typ = Usable}
  <2>1. i \in ram  BY <1>1
  <2>2. \A j \in ram : /\ m[j].base \in Nat /\ m[j].len \in Nat
                       /\ m[j].base + m[j].len <= Mapped
    BY MapAssumption
  <2> HIDE DEF ram
  <2>3. PageBytes \in Nat \ {0} /\ LowLimit \in Nat /\ BssEnd \in Nat  BY MapAssumption
  <2> QED  BY <2>1, <2>2, <2>3
<1> DEFINE up(a) == (a + PageBytes - 1) \div PageBytes
           end == m[i].base + m[i].len
<1>3. \A a \in Nat : up(a) \in Nat /\ a <= up(a) * PageBytes
  <2> SUFFICES ASSUME NEW a \in Nat
               PROVE  up(a) \in Nat /\ a <= up(a) * PageBytes
    OBVIOUS
  <2>1. a + PageBytes - 1 \in Nat  BY <1>2
  <2>2. /\ up(a) \in Nat
        /\ a + PageBytes - 1 < (up(a) + 1) * PageBytes
    BY <1>2, <2>1, Division
  <2>3. (up(a) + 1) * PageBytes = up(a) * PageBytes + PageBytes  BY <1>2, <2>2
  <2>4. up(a) * PageBytes \in Nat  BY <1>2, <2>2
  <2> QED  BY <1>2, <2>2, <2>3, <2>4
<1>4. end \in Nat /\ end \div PageBytes \in Nat /\ (end \div PageBytes) * PageBytes <= end
  BY <1>2, Division
<1>5. /\ f \in Nat /\ up(m[i].base) <= f /\ f + 1 <= end \div PageBytes
  BY <1>1, <1>2, <1>3, <1>4 DEF EntryFrames, RoundUp
<1> HIDE DEF up, end
<1>6. /\ f * PageBytes \in Nat /\ (f + 1) * PageBytes \in Nat
      /\ (f + 1) * PageBytes = f * PageBytes + PageBytes
      /\ b \in Nat /\ f * PageBytes <= b /\ b < (f + 1) * PageBytes
  BY <1>2, <1>5
<1>7. m[i].base <= f * PageBytes
  <2>1. up(m[i].base) * PageBytes <= f * PageBytes
    BY <1>2, <1>3, <1>5, Scaling
  <2>2. up(m[i].base) * PageBytes \in Nat  BY <1>2, <1>3
  <2> QED  BY <1>2, <1>3, <1>6, <2>1, <2>2
<1>8. (f + 1) * PageBytes <= end
  <2>1. (f + 1) * PageBytes <= (end \div PageBytes) * PageBytes
    BY <1>2, <1>4, <1>5, Scaling
  <2>2. (end \div PageBytes) * PageBytes \in Nat  BY <1>2, <1>4
  <2> QED  BY <1>4, <1>6, <2>1, <2>2
<1>9. ~Excluded(f)  BY DEF Seeded
<1>10. ~(KernelStart <= b /\ b < BssEnd)
  <2>1. CASE f * PageBytes < KernelStart
    <3>1. PICK k \in Nat : KernelStart = k * PageBytes  BY MapAssumption
    <3>2. f < k
      <4>1. k <= f => k * PageBytes <= f * PageBytes  BY <1>2, <1>5, Scaling
      <4>2. k * PageBytes \in Nat  BY <1>2
      <4> QED  BY <1>5, <1>6, <2>1, <3>1, <4>1, <4>2
    <3>3. (f + 1) * PageBytes <= KernelStart
      BY <1>2, <1>5, <3>1, <3>2, Scaling
    <3>4. KernelStart \in Nat  BY <1>2, <3>1
    <3> QED  BY <1>6, <3>3, <3>4
  <2>2. CASE ~(f * PageBytes < KernelStart)
    <3>1. KernelStart \in Nat  BY <1>2, MapAssumption
    <3>2. up(BssEnd) <= f
      BY <1>2, <1>3, <1>5, <1>6, <1>9, <2>2, <3>1 DEF Excluded, RoundUp, up
    <3>3. up(BssEnd) * PageBytes <= f * PageBytes
      BY <1>2, <1>3, <1>5, <3>2, Scaling
    <3>4. up(BssEnd) * PageBytes \in Nat  BY <1>2, <1>3
    <3> QED  BY <1>2, <1>3, <1>6, <3>3, <3>4
  <2> QED  BY <2>1, <2>2
<1>11. LowLimit <= b  BY <1>2, <1>6, <1>9 DEF Excluded
<1>12. m[i].base <= b /\ b < end  BY <1>2, <1>4, <1>6, <1>7, <1>8
<1>13. b < Mapped  BY <1>2, <1>4, <1>6, <1>12, MapAssumption DEF end
<1> QED  BY <1>1, <1>10, <1>11, <1>12, <1>13 DEF end

\* The frames in use and those left.
Used == free \cup {map[p][v] : p \in Slots, v \in Pages}

\* No step brings in a frame from anywhere but the free list.
LEMMA StepUsed ==
    ASSUME MemInv, [Next]_vars
    PROVE  Used' \subseteq Used \cup {NoFrame} /\ UNCHANGED e820
<1>1. ASSUME NEW v \in Pages, PageFault(v)
      PROVE  Used' \subseteq Used \cup {NoFrame} /\ UNCHANGED e820
  <2>1. CASE Ex0E \/ Panic  BY <2>1 DEF Ex0E, Panic, Used, tableVars
  <2>2. ASSUME NEW f \in free, NEW x, Remap(v, f, x)
        PROVE  Used' \subseteq Used \cup {NoFrame} /\ UNCHANGED e820
    <3>1. \A p \in Slots, u \in Pages :
            map'[p][u] = IF p = cur /\ u = v THEN f ELSE map[p][u]
      BY <2>2 DEF MemInv, MemTypeOK, Remap
    <3> QED  BY <2>2, <3>1 DEF Remap, Used
  <2> QED  BY <1>1, <2>1, <2>2, PageFaultCases
<1>2. ASSUME NEW i \in Slots, Fork(i)
      PROVE  Used' \subseteq Used \cup {NoFrame} /\ UNCHANGED e820
  <2>1. cur \in Slots /\ \A p \in Slots : map'[p] = IF p = i THEN map[cur] ELSE map[p]
    BY <1>2 DEF Fork, Running, MemInv, MemTypeOK
  <2> QED  BY <1>2, <2>1 DEF Fork, Used
<1>3. CASE Exec
  <2>1. CASE Panic  BY <2>1 DEF Panic, Used, tableVars
  <2>2. ASSUME NEW fr \in ImageFrames(free), NewImage(cur, fr), UNCHANGED e820
        PROVE  Used' \subseteq Used \cup {NoFrame} /\ UNCHANGED e820
    <3>1. fr \in [Image -> free]  BY PopFacts
    <3>2. \A p \in Slots, v \in Pages :
            map'[p][v] = IF p # cur THEN map[p][v]
                         ELSE IF v \in Image THEN fr[v] ELSE NoFrame
      BY <2>2 DEF NewImage, MemInv, MemTypeOK
    <3> QED  BY <2>2, <3>1, <3>2 DEF NewImage, Used
  <2> QED  BY <1>3, <2>1, <2>2 DEF Exec
<1>4. ASSUME NEW n \in 0 .. AddressPages, Sbrk(n)
      PROVE  Used' \subseteq Used \cup {NoFrame} /\ UNCHANGED e820
  BY <1>4 DEF Sbrk, Panic, Used, tableVars
<1>5. ASSUME NEW v \in Pages,
             TlbFill(v) \/ TlbEvict(v) \/ Load(v) \/ \E x \in Values : Store(v, x)
      PROVE  Used' \subseteq Used \cup {NoFrame} /\ UNCHANGED e820
  BY <1>5 DEF TlbFill, TlbEvict, Load, Store, Used, tableVars
<1>6. CASE Exit \/ \E q \in Slots : Switch(q)
  BY <1>6 DEF Exit, Switch, Used
<1>7. CASE UNCHANGED vars  BY <1>7 DEF vars, tableVars, Used
<1> QED  BY <1>1, <1>2, <1>3, <1>4, <1>5, <1>6, <1>7 DEF Next

UsedIsSeeded == Used \subseteq Seeded(e820) \cup {NoFrame}

\* Only frames that init pushed are ever used.
LEMMA UsedInvariant == Spec => []UsedIsSeeded
<1>1. Init => UsedIsSeeded
  <2> SUFFICES ASSUME Init PROVE UsedIsSeeded  OBVIOUS
  <2>1. PICK first \in Slots, m \in Maps \cup {FallbackMap} :
          \E fr \in ImageFrames(Seeded(m)) : Spawned(first, m, fr)
    BY DEF Init
  <2>2. PICK fr \in ImageFrames(Seeded(m)) : Spawned(first, m, fr)  BY <2>1
  <2>3. fr \in [Image -> Seeded(m)]  BY PopFacts
  <2>4. \A p \in Slots, v \in Pages :
          map[p][v] = IF p = first /\ v \in Image THEN fr[v] ELSE NoFrame
    BY <2>2 DEF Spawned
  <2> QED  BY <2>2, <2>3, <2>4 DEF Spawned, Used, UsedIsSeeded
<1>2. MemInv /\ UsedIsSeeded /\ [Next]_vars => UsedIsSeeded'
  <2> SUFFICES ASSUME MemInv, UsedIsSeeded, [Next]_vars PROVE UsedIsSeeded'
    OBVIOUS
  <2>1. Used' \subseteq Used \cup {NoFrame} /\ e820' = e820  BY StepUsed
  <2>2. Seeded(e820)' = Seeded(e820)  BY <2>1 DEF Seeded
  <2> QED  BY <2>1, <2>2 DEF UsedIsSeeded
<1> QED  BY <1>1, <1>2, MemInvariant, PTL DEF Spec

\* Whatever map the firmware reports, no frame the kernel hands out is partly
\* outside RAM, below 1 MiB, in the kernel image or above the identity map.
THEOREM OnlyUsableFrames == Spec => []FramesAreUsable
<1>1. MemInv /\ UsedIsSeeded => FramesAreUsable
  BY SeededIsUsable DEF MemInv, MemTypeOK, UsedIsSeeded, Used, FramesAreUsable
<1> QED  BY <1>1, MemInvariant, UsedInvariant, PTL

-----------------------------------------------------------------------------
(* Refinement *)

\* What a process sees in a page.
LEMMA ViewIs ==
    ASSUME NEW p \in Slots, NEW v \in Pages
    PROVE  PrivateView[p][v] = IF map[p][v] = NoFrame THEN 0 ELSE content[map[p][v]]
BY DEF PrivateView

\* Replacing the frame behind a page by one that holds the same is invisible.
LEMMA RemapInvisible ==
    ASSUME MemInv, NEW v \in Pages, NEW f \in free,
           Remap(v, f, IF map[cur][v] = NoFrame THEN 0 ELSE content[map[cur][v]])
    PROVE  PrivateView' = PrivateView
<1> DEFINE x == IF map[cur][v] = NoFrame THEN 0 ELSE content[map[cur][v]]
<1>1. f \in Frames /\ f # NoFrame /\ cur \in Slots
  BY ConstantFacts DEF MemInv, MemTypeOK
<1>2. \A p \in Slots, u \in Pages :
        map'[p][u] = IF p = cur /\ u = v THEN f ELSE map[p][u]
  BY DEF MemInv, MemTypeOK, Remap
<1>3. \A p \in Slots, u \in Pages :
        map[p][u] # f /\ map[p][u] \in Frames \cup {NoFrame}
  BY DEF MemInv, MemTypeOK, FreeIsUnmapped, Remap
<1>4. content'[f] = x /\ \A g \in Frames : g # f => content'[g] = content[g]
  BY <1>1 DEF MemInv, MemTypeOK, Remap
<1>5. ASSUME NEW p \in Slots, NEW u \in Pages
      PROVE  (IF map'[p][u] = NoFrame THEN 0 ELSE content'[map'[p][u]])
               = (IF map[p][u] = NoFrame THEN 0 ELSE content[map[p][u]])
  BY <1>1, <1>2, <1>3, <1>4
<1> QED  BY <1>5 DEF PrivateView

\* A load or a store through the TLB is one to the private memory.
LEMMA AccessSimulates ==
    ASSUME MemInv, NEW v \in Pages, Load(v) \/ \E x \in Values : Store(v, x)
    PROVE  P!MemNext
<1>0. cur \in Slots /\ cur \in live  BY DEF Load, Store, Running, MemInv, MemTypeOK
<1>1. tlb[v] # NoFrame /\ map[cur][v] = tlb[v] /\ map[cur][v] \in Frames
  BY <1>0 DEF Load, Store, MemInv, MemTypeOK, TlbCoherent
<1>2. v < brk[cur]  BY <1>0, <1>1 DEF MemInv, MappedBelowBrk
<1>3. CASE Load(v)
  <2>1. PrivateView' = PrivateView
    BY <1>3 DEF Load, PrivateView, tableVars
  <2>2. seen' = PrivateView[cur][v]  BY <1>0, <1>1, <1>3, ViewIs DEF Load
  <2>3. P!Load(v)
    BY <1>0, <1>2, <1>3, <2>1, <2>2 DEF P!Load, P!Running, Load, tableVars
  <2> QED  BY <2>3 DEF P!MemNext, P!Pages, Pages
<1>4. ASSUME NEW x \in Values, Store(v, x)
      PROVE  P!MemNext
  <2>1. v \in wr[cur]  BY <1>1, <1>4 DEF Store, MemInv, TlbCoherent
  <2>2. \A p \in Slots, u \in Pages :
          map[p][u] = map[cur][v] => p = cur /\ u = v
    BY <1>0, <1>1, <2>1 DEF MemInv, SharedIsReadOnly
  <2>3. /\ content'[map[cur][v]] = x
        /\ \A g \in Frames : g # map[cur][v] => content'[g] = content[g]
    BY <1>1, <1>4 DEF Store, MemInv, MemTypeOK
  <2>4. \A p \in Slots, u \in Pages : map[p][u] \in Frames \cup {NoFrame}
    BY DEF MemInv, MemTypeOK
  <2>5. UNCHANGED map  BY <1>4 DEF Store, tableVars
  <2>6. ASSUME NEW p \in Slots, NEW u \in Pages
        PROVE  (IF map[p][u] = NoFrame THEN 0 ELSE content'[map[p][u]])
                 = IF p = cur /\ u = v THEN x ELSE PrivateView[p][u]
    BY <1>1, <2>2, <2>3, <2>4, ViewIs
  <2>7. PrivateView' = [p \in Slots |-> [u \in Pages |->
                           IF p = cur /\ u = v THEN x ELSE PrivateView[p][u]]]
    BY <2>5, <2>6 DEF PrivateView
  <2>8. [PrivateView EXCEPT ![cur][v] = x]
           = [p \in Slots |-> [u \in Pages |->
                 IF p = cur /\ u = v THEN x ELSE PrivateView[p][u]]]
    BY <1>0 DEF PrivateView
  <2>9. P!Store(v, x)
    BY <1>0, <1>2, <1>4, <2>7, <2>8 DEF P!Store, P!Running, Store, tableVars
  <2> QED  BY <2>9 DEF P!MemNext, P!Pages, Pages
<1> QED  BY <1>3, <1>4

\* Sharing every frame copies the memory.
LEMMA ForkSimulates ==
    ASSUME MemInv, NEW i \in Slots, Fork(i)
    PROVE  P!Fork(i)
<1>0. cur \in Slots /\ cur \in live /\ i \notin live
  BY DEF MemInv, MemTypeOK, Fork, Running
<1>1. \A p \in Slots : map'[p] = IF p = i THEN map[cur] ELSE map[p]
  BY <1>0 DEF Fork, MemInv, MemTypeOK
<1>2. UNCHANGED content  BY DEF Fork
<1>3. ASSUME NEW p \in Slots, NEW u \in Pages
      PROVE  (IF map'[p][u] = NoFrame THEN 0 ELSE content'[map'[p][u]])
               = IF p = i THEN PrivateView[cur][u] ELSE PrivateView[p][u]
  BY <1>0, <1>1, <1>2 DEF PrivateView
<1>4. PrivateView' = [p \in Slots |-> [u \in Pages |->
                         IF p = i THEN PrivateView[cur][u] ELSE PrivateView[p][u]]]
  BY <1>3 DEF PrivateView
<1>5. [PrivateView EXCEPT ![i] = PrivateView[cur]]
         = [p \in Slots |-> [u \in Pages |->
               IF p = i THEN PrivateView[cur][u] ELSE PrivateView[p][u]]]
  BY <1>0 DEF PrivateView
<1> QED  BY <1>0, <1>4, <1>5 DEF Fork, P!Fork, P!Running

\* A fresh table with fresh frames is a fresh memory.
LEMMA ExecSimulates ==
    ASSUME MemInv, NEW fr \in ImageFrames(free), Running, NewImage(cur, fr),
           brk' = [brk EXCEPT ![cur] = NImage],
           UNCHANGED <<live, cur, seen>>
    PROVE  P!Exec
<1> DEFINE image == [v \in Image |-> content'[fr[v]]]
<1>0. cur \in Slots /\ cur \in live  BY DEF MemInv, MemTypeOK, Running
<1>1. fr \in [Image -> free] /\ free \subseteq Frames
  BY PopFacts DEF MemInv, MemTypeOK
<1>2. \A v \in Image : fr[v] \in free /\ fr[v] # NoFrame /\ fr[v] \in Frames
  BY <1>1, ConstantFacts
<1>3. content' \in [Frames -> Values]
  BY <1>2, ConstantFacts, MemoryAssumption DEF NewImage, MemInv, MemTypeOK
<1>4. image \in [Image -> Values]  BY <1>2, <1>3
<1>5. \A p \in Slots, v \in Pages :
        map'[p][v] = IF p # cur THEN map[p][v]
                     ELSE IF v \in Image THEN fr[v] ELSE NoFrame
  BY <1>0 DEF NewImage, MemInv, MemTypeOK
<1>6. \A p \in Slots, v \in Pages : map[p][v] # NoFrame
                                     => content'[map[p][v]] = content[map[p][v]]
  BY <1>2, ConstantFacts DEF NewImage, MemInv, MemTypeOK, FreeIsUnmapped
<1>7. ASSUME NEW p \in Slots, NEW v \in Pages
      PROVE  (IF map'[p][v] = NoFrame THEN 0 ELSE content'[map'[p][v]])
               = IF p = cur THEN IF v \in Image THEN image[v] ELSE 0
                 ELSE PrivateView[p][v]
  BY <1>2, <1>5, <1>6, ViewIs
<1>8. PrivateView' = [p \in Slots |-> [v \in Pages |->
                         IF p = cur THEN IF v \in Image THEN image[v] ELSE 0
                         ELSE PrivateView[p][v]]]
  BY <1>7 DEF PrivateView
<1>9. [PrivateView EXCEPT ![cur] =
           [v \in Pages |-> IF v \in Image THEN image[v] ELSE 0]]
         = [p \in Slots |-> [v \in Pages |->
               IF p = cur THEN IF v \in Image THEN image[v] ELSE 0
               ELSE PrivateView[p][v]]]
  BY <1>0 DEF PrivateView
<1> HIDE DEF image
<1>10. PrivateView' = [PrivateView EXCEPT ![cur] =
                         [v \in Pages |-> IF v \in Image THEN image[v] ELSE 0]]
  BY <1>8, <1>9
<1> QED
  BY <1>0, <1>4, <1>10 DEF P!Exec, P!Running, P!Pages, P!Image, Pages, Image

\* Every step of the memory system is a step of the private memories or
\* changes nothing a process can see.
LEMMA MemSimulates ==
    ASSUME MemInv, [Next]_vars
    PROVE  [P!MemNext]_(P!memVars)
<1>0. P!Pages = Pages /\ P!Image = Image  BY DEF P!Pages, P!Image, Pages, Image
<1>1. ASSUME NEW v \in Pages, PageFault(v)
      PROVE  UNCHANGED P!memVars
  <2>1. CASE Ex0E \/ Panic
    BY <2>1 DEF Ex0E, Panic, P!memVars, PrivateView, tableVars
  <2>2. ASSUME NEW f \in free,
               Remap(v, f, IF map[cur][v] = NoFrame THEN 0
                           ELSE content[map[cur][v]])
        PROVE  UNCHANGED P!memVars
    BY <2>2, RemapInvisible DEF Remap, P!memVars
  <2> QED  BY <1>1, <2>1, <2>2, PageFaultCases
<1>2. ASSUME NEW v \in Pages, TlbFill(v) \/ TlbEvict(v)
      PROVE  UNCHANGED P!memVars
  BY <1>2 DEF TlbFill, TlbEvict, P!memVars, PrivateView, tableVars
<1>3. ASSUME NEW v \in Pages, Load(v) \/ \E x \in Values : Store(v, x)
      PROVE  P!MemNext
  BY <1>3, AccessSimulates
<1>4. ASSUME NEW n \in 0 .. AddressPages, Sbrk(n)
      PROVE  [P!MemNext]_(P!memVars)
  <2>1. cur \in Slots /\ n \in Nat /\ brk[cur] \in NImage .. NPages
    BY <1>4, MemoryAssumption DEF Sbrk, Running, MemInv, MemTypeOK
  <2>2. CASE Panic
    BY <2>2 DEF Panic, P!memVars, PrivateView, tableVars
  <2>3. CASE ~Panic /\ brk[cur] + n <= NPages
    <3>1. P!Grow(n)
      BY <1>4, <2>3 DEF Sbrk, Running, P!Grow, P!Running, PrivateView
    <3>2. n \in Pages  BY <2>1, <2>3, ConstantFacts DEF Pages
    <3> QED  BY <1>0, <3>1, <3>2 DEF P!MemNext
  <2>4. CASE ~Panic /\ ~(brk[cur] + n <= NPages)
    BY <1>4, <2>4 DEF Sbrk, P!memVars, PrivateView
  <2> QED  BY <2>2, <2>3, <2>4
<1>5. ASSUME NEW i \in Slots, Fork(i)
      PROVE  P!MemNext
  BY <1>5, ForkSimulates DEF P!MemNext
<1>6. CASE Exec
  <2>1. CASE Panic
    BY <2>1 DEF Panic, P!memVars, PrivateView, tableVars
  <2>2. ASSUME NEW fr \in ImageFrames(free), NewImage(cur, fr),
               brk' = [brk EXCEPT ![cur] = NImage],
               UNCHANGED <<live, cur, seen>>
        PROVE  P!MemNext
    BY <1>6, <2>2, ExecSimulates DEF Exec, P!MemNext
  <2> QED  BY <1>6, <2>1, <2>2 DEF Exec
<1>7. ASSUME NEW q \in Slots, Switch(q)
      PROVE  P!MemNext
  <2>1. P!Switch  BY <1>7 DEF Switch, P!Switch, PrivateView
  <2> QED  BY <2>1 DEF P!MemNext
<1>8. CASE Exit
  <2>1. P!Exit  BY <1>8 DEF Exit, Running, P!Exit, P!Running, PrivateView
  <2> QED  BY <2>1 DEF P!MemNext
<1>9. CASE UNCHANGED vars
  BY <1>9 DEF vars, tableVars, P!memVars, PrivateView
<1> QED
  BY <1>1, <1>2, <1>3, <1>4, <1>5, <1>6, <1>7, <1>8, <1>9 DEF Next

\* The first process starts with the memory the abstraction gives it.
LEMMA MemInitSimulates ==
    ASSUME Init
    PROVE  P!MemInit
<1>1. MemTypeOK  BY InitInv DEF MemInv
<1>2. /\ live \subseteq Slots /\ cur \in live /\ seen = 0
      /\ brk = [p \in Slots |-> NImage]
      /\ \A p \in Slots, v \in Pages \ Image : map[p][v] = NoFrame
  BY DEF Init, Spawned
<1>3. PrivateView \in [Slots -> [Pages -> Values]]
  BY <1>1, MemoryAssumption DEF PrivateView, MemTypeOK
<1>4. \A p \in Slots, v \in Pages \ Image : PrivateView[p][v] = 0
  BY <1>2, ViewIs
<1> QED
  BY <1>2, <1>3, <1>4 DEF P!MemInit, P!Pages, P!Image, Pages, Image

\* The memory system gives every process a memory of its own: what sharing,
\* copying and caching do can be seen by no process.
THEOREM MemoryIsPrivate == Spec => ImplementsPrivateMemory
<1> QED
  BY MemInitSimulates, MemSimulates, MemInvariant, PTL
     DEF Spec, ImplementsPrivateMemory, P!MemSpec

\* What pf_handler does to the faulting page.
LEMMA FaultRepairs ==
    ASSUME MemInv, NEW v \in Pages, PageFault(v)
    PROVE  /\ PrivateView' = PrivateView
           /\ halted' = "no" => /\ map'[cur][v] # NoFrame /\ v \in wr'[cur]
                                /\ ~(tlb'[v] # NoFrame /\ v \notin tlbW')
<1>1. CASE Ex0E \/ Panic
  BY <1>1 DEF Ex0E, Panic, PrivateView, tableVars
<1>2. ASSUME NEW f \in free,
             Remap(v, f, IF map[cur][v] = NoFrame THEN 0 ELSE content[map[cur][v]])
      PROVE  /\ PrivateView' = PrivateView
             /\ map'[cur][v] # NoFrame /\ v \in wr'[cur]
             /\ ~(tlb'[v] # NoFrame /\ v \notin tlbW')
  <2>1. cur \in Slots /\ f # NoFrame
    BY ConstantFacts DEF MemInv, MemTypeOK
  <2>2. map'[cur][v] = f /\ v \in wr'[cur] /\ tlb'[v] = NoFrame
    BY <1>2, <2>1 DEF Remap, FlushPage, MemInv, MemTypeOK
  <2> QED  BY <1>2, <2>1, <2>2, RemapInvisible
<1> QED  BY <1>1, <1>2, PageFaultCases

\* A page fault is repaired without a trace: what the programs see of memory
\* stays as it was and the access is allowed when it is retried.
THEOREM FaultsAreInvisible == Spec => FaultIsRepaired
<1>1. ASSUME MemInv, NEW v \in Pages, PageFault(v)
      PROVE  /\ PrivateView' = PrivateView
             /\ halted' = "no" => /\ map'[cur][v] # NoFrame /\ v \in wr'[cur]
                                  /\ ~WriteProtected(v)'
  BY <1>1, FaultRepairs DEF WriteProtected
<1>2. MemInv /\ [Next]_vars =>
        [\A v \in Pages : PageFault(v) =>
            /\ PrivateView' = PrivateView
            /\ halted' = "no" => /\ map'[cur][v] # NoFrame /\ v \in wr'[cur]
                                 /\ ~WriteProtected(v)']_vars
  BY <1>1
<1> QED  BY <1>2, MemInvariant, PTL DEF Spec, FaultIsRepaired
=============================================================================
