----------------------------- MODULE CowMemory -----------------------------
(***************************************************************************)
(* The x86-64 kernel's user memory: e820.rs and mem.rs (the memory map,     *)
(* frames, page tables, the fork clone) with the parts of sched.rs that    *)
(* use them (fork, exec, sbrk, exit, the page-fault handler, CR3 loads),   *)
(* on a CPU with a TLB.                                                    *)
(*                                                                         *)
(* A page table is what its leaf PTEs say: the frame a page maps to and    *)
(* whether it is writable; the frames of the tables themselves are not     *)
(* counted.  Pages 0 .. NImage-1 are the code and stack pages, the rest is *)
(* the heap [USER_DATA_VA, BRK_MAX).  A page or a frame holds one value;   *)
(* frame f is the bytes [f * PageBytes, (f + 1) * PageBytes).              *)
(* Which process runs next is Sched's business: here any live one may.     *)
(***************************************************************************)
EXTENDS Naturals, Sequences, FiniteSets

CONSTANTS
    Slots,      \* process table slots
    NImage,     \* pages of a program image
    NPages,     \* pages up to BRK_MAX
    Values,     \* page contents; a page of zeros is 0
    ImageValue, \* what exec and spawn write to the code page
    Stale,      \* what a frame no one has used yet holds
    AddressPages, \* pages of the 64-bit address space: sums reaching it overflow
    Maps,       \* what the firmware may report: sequences of E820 entries
    PageBytes,  \* the size of a frame
    LowLimit,   \* 1 MiB; nothing below it is handed out
    KernelStart, BssEnd, \* the kernel image, [KernelStart, BssEnd)
    RamEnd,     \* what the fallback map takes for the end of RAM
    Mapped      \* the end of the identity map

Pages == 0 .. NPages - 1
Image == 0 .. NImage - 1
NoFrame == 0
Usable == 1     \* the E820 type of RAM

-----------------------------------------------------------------------------
(* mem.rs init: seeding the free list from the memory map *)

\* Broken rounding: down.
RoundUp_Down(b) == b \div PageBytes

\* (b + 0xFFF) & !0xFFF, as a frame number
RoundUp(b) == (b + PageBytes - 1) \div PageBytes

\* The map of a boot without BIOS (PVH).
FallbackMap ==
    << [base |-> LowLimit, len |-> KernelStart - LowLimit, typ |-> Usable],
       [base |-> RoundUp(BssEnd) * PageBytes,
        len |-> RamEnd - RoundUp(BssEnd) * PageBytes, typ |-> Usable] >>

\* The frames that lie entirely inside entry e.
EntryFrames(e) == RoundUp(e.base) .. (((e.base + e.len) \div PageBytes) - 1)

Excluded(f) ==
    \/ f * PageBytes < LowLimit
    \/ f * PageBytes >= KernelStart /\ f < RoundUp(BssEnd)

\* The frames that init pushes on the free list.
Seeded(m) ==
    {f \in UNION {EntryFrames(m[i]) : i \in {j \in DOMAIN m : m[j].typ = Usable}} :
        ~Excluded(f)}

\* Every frame some boot hands out.
Frames == UNION {Seeded(m) : m \in Maps \cup {FallbackMap}}

ASSUME MemoryAssumption ==
    /\ NImage \in Nat \ {0}
    /\ NPages \in Nat /\ NImage <= NPages
    /\ AddressPages \in Nat /\ NPages < AddressPages
    /\ {0, ImageValue, Stale} \subseteq Values

\* The entries of RAM do not overlap and end inside the identity map (the
\* README says what the code does otherwise); init looks at no other entry.
ASSUME MapAssumption ==
    /\ PageBytes \in Nat \ {0} /\ LowLimit \in Nat \ {0} /\ Mapped \in Nat
    /\ BssEnd \in Nat /\ KernelStart \in Nat
    /\ \E k \in 0 .. KernelStart : KernelStart = k * PageBytes
    /\ \A m \in Maps \cup {FallbackMap} :
         LET ram == {i \in DOMAIN m : m[i].typ = Usable}
         IN  /\ \A i \in ram : /\ m[i].base \in Nat /\ m[i].len \in Nat
                              /\ m[i].base + m[i].len <= Mapped
             /\ \A i, j \in ram : i # j => \/ m[i].base + m[i].len <= m[j].base
                                          \/ m[j].base + m[j].len <= m[i].base

VARIABLES
    e820,       \* the memory map of this boot
    map,        \* map[p][v]: the frame of the leaf PTE, NoFrame if not present
    wr,         \* wr[p]: the pages whose PTE has W
    brk,        \* brk[p]: procs[p].brk, as a page number
    live,       \* the slots that are not EMPTY
    cur,        \* CUR, whose table CR3 points to
    tlb,        \* tlb[v]: the frame of the cached translation, or NoFrame
    tlbW,       \* the pages whose cached translation allows writes
    content,    \* content[f]: what frame f holds
    free,       \* the frames on the free list
    seen,       \* the value the last load of a process returned
    cr2,        \* the page of the last page fault
    halted      \* "no", or why the machine stopped

tableVars == <<map, wr, brk, live, cur>>
tlbVars   == <<tlb, tlbW>>
vars == <<tableVars, tlbVars, content, free, e820, seen, cr2, halted>>

NoTlb == [v \in Pages |-> NoFrame]

\* mov cr3 (mem.rs switch_cr3): no PCID, so every translation goes.
FlushTlb == tlb' = NoTlb /\ tlbW' = {}

\* invlpg
FlushPage(v) ==
    /\ tlb' = [tlb EXCEPT ![v] = NoFrame]
    /\ tlbW' = tlbW \ {v}

\* The CPU executes the program of a live process.
Running == halted = "no" /\ cur \in live

\* alloc_frame().expect(..) with an empty free list: the panic handler.
Panic ==
    /\ halted' = "panic"
    /\ UNCHANGED <<tableVars, tlbVars, content, free, e820, seen>>

-----------------------------------------------------------------------------
(* The CPU: translations, loads and stores *)

\* The TLB may cache any present translation and drop any, at any time.
TlbFill(v) ==
    /\ Running
    /\ map[cur][v] # NoFrame
    /\ tlb[v] = NoFrame
    /\ tlb' = [tlb EXCEPT ![v] = map[cur][v]]
    /\ tlbW' = IF v \in wr[cur] THEN tlbW \cup {v} ELSE tlbW \ {v}
    /\ UNCHANGED <<tableVars, content, free, e820, seen, cr2, halted>>

TlbEvict(v) ==
    /\ Running
    /\ tlb[v] # NoFrame
    /\ FlushPage(v)
    /\ UNCHANGED <<tableVars, content, free, e820, seen, cr2, halted>>

\* An access is done with the cached translation.
Load(v) ==
    /\ Running
    /\ tlb[v] # NoFrame
    /\ seen' = content[tlb[v]]
    /\ UNCHANGED <<tableVars, tlbVars, content, free, e820, cr2, halted>>

Store(v, x) ==
    /\ Running
    /\ tlb[v] # NoFrame
    /\ v \in tlbW
    /\ content' = [content EXCEPT ![tlb[v]] = x]
    /\ UNCHANGED <<tableVars, tlbVars, free, e820, seen, cr2, halted>>

-----------------------------------------------------------------------------
(* pf_handler *)

\* err bit 0: the fault is on a present translation.
NotPresent(v) == tlb[v] = NoFrame /\ map[cur][v] = NoFrame

\* A store to a page cached read-only; err bits 0 and 1 are set.
WriteProtected(v) == tlb[v] # NoFrame /\ v \notin tlbW

OnHeap(v) == v \in Pages \ Image /\ v < brk[cur]

\* alloc_frame: the free list is a stack that init filled upwards, and what
\* boot took never returns to it.
Top == {f \in free : \A g \in free : g <= f}

\* Page v of the running process becomes frame f, holding x and writable.
Remap(v, f, x) ==
    /\ free' = free \ {f}
    /\ content' = [content EXCEPT ![f] = x]
    /\ map' = [map EXCEPT ![cur][v] = f]
    /\ wr' = [wr EXCEPT ![cur] = @ \cup {v}]
    /\ FlushPage(v)
    /\ UNCHANGED <<brk, live, cur, e820, seen, halted>>

\* Broken demand paging: the frame is not zeroed.
DemandMap_NotZeroed(v) == \E f \in Top : Remap(v, f, content[f])

\* Demand paging: a zeroed frame for a heap page that was never touched.
DemandMap(v) == \E f \in Top : Remap(v, f, 0)

\* Copy-on-write: a private, writable copy of a page fork made read-only.
CowCopy(v) == \E f \in Top : Remap(v, f, content[map[cur][v]])

\* Everything else prints EX0E and stops the machine.
Ex0E ==
    /\ halted' = "fault"
    /\ UNCHANGED <<tableVars, tlbVars, content, free, e820, seen>>

\* The fault of an access to page v; the instruction is then retried.
PageFault(v) ==
    /\ Running
    /\ cr2' = v
    /\ \/ /\ NotPresent(v)
          /\ IF ~OnHeap(v) THEN Ex0E
             ELSE IF free = {} THEN Panic ELSE DemandMap(v)
       \/ /\ WriteProtected(v)
          /\ IF map[cur][v] = NoFrame \/ v \in wr[cur] THEN Ex0E
             ELSE IF free = {} THEN Panic ELSE CowCopy(v)

-----------------------------------------------------------------------------
(* System calls *)

\* Broken sbrk: the sum wraps, as in a build without overflow checks.
Sbrk_Wraps(n) ==
    /\ Running
    /\ LET sum == (brk[cur] + n) % AddressPages IN
         brk' = IF sum <= NPages THEN [brk EXCEPT ![cur] = sum] ELSE brk
    /\ UNCHANGED <<map, wr, live, cur, tlbVars, content, free, e820, seen, cr2, halted>>

\* sbrk: the heap grows by n pages unless it would pass BRK_MAX.  The sums
\* are 64-bit and checked: rounding up and adding panic when they overflow.
Sbrk(n) ==
    /\ Running
    /\ \/ /\ brk[cur] + n >= AddressPages
          /\ Panic
          /\ UNCHANGED cr2
       \/ /\ brk[cur] + n < AddressPages
          /\ brk' = IF brk[cur] + n <= NPages THEN [brk EXCEPT ![cur] = @ + n] ELSE brk
          /\ UNCHANGED <<map, wr, live, cur, tlbVars, content, free, e820, seen,
                         cr2, halted>>

\* Broken forks: the parent keeps its writable PTEs; its TLB keeps them.
Fork_ParentKeepsW(i) ==
    /\ Running
    /\ i \in Slots \ live
    /\ map' = [map EXCEPT ![i] = map[cur]]
    /\ wr' = [wr EXCEPT ![i] = {}]
    /\ brk' = [brk EXCEPT ![i] = brk[cur]]
    /\ live' = live \cup {i}
    /\ FlushTlb
    /\ UNCHANGED <<cur, content, free, e820, seen, cr2, halted>>
Fork_NoFlush(i) ==
    /\ Running
    /\ i \in Slots \ live
    /\ map' = [map EXCEPT ![i] = map[cur]]
    /\ wr' = [wr EXCEPT ![i] = {}, ![cur] = {}]
    /\ brk' = [brk EXCEPT ![i] = brk[cur]]
    /\ live' = live \cup {i}
    /\ UNCHANGED <<cur, tlbVars, content, free, e820, seen, cr2, halted>>

\* fork: the child maps the parent's frames, W is cleared on both sides, and
\* the parent's CR3 is reloaded.
Fork(i) ==
    /\ Running
    /\ i \in Slots \ live
    /\ map' = [map EXCEPT ![i] = map[cur]]
    /\ wr' = [wr EXCEPT ![i] = {}, ![cur] = {}]
    /\ brk' = [brk EXCEPT ![i] = brk[cur]]
    /\ live' = live \cup {i}
    /\ FlushTlb
    /\ UNCHANGED <<cur, content, free, e820, seen, cr2, halted>>

\* A fresh table whose image pages have the frames fr: the code page is
\* written, the stack page keeps what its frame held.
NewImage(p, fr) ==
    /\ map' = [map EXCEPT ![p] =
                  [v \in Pages |-> IF v \in Image THEN fr[v] ELSE NoFrame]]
    /\ wr' = [wr EXCEPT ![p] = Image]
    /\ content' = [content EXCEPT ![fr[0]] = ImageValue]
    /\ free' = free \ {fr[v] : v \in Image}

\* The frames left are popped one after the other, the code page's first.
ImageFrames(left) ==
    {fr \in [Image -> left] :
        /\ \A u, v \in Image : fr[u] = fr[v] => u = v
        /\ \A v \in Image : \A g \in left \ {fr[u] : u \in 0 .. v} : g < fr[v]}

\* exec: fresh table and image, brk reset, CR3 loaded.
Exec ==
    /\ Running
    /\ \/ \E fr \in ImageFrames(free) :
            /\ NewImage(cur, fr)
            /\ brk' = [brk EXCEPT ![cur] = NImage]
            /\ FlushTlb
            /\ UNCHANGED <<live, cur, e820, seen, cr2, halted>>
       \/ /\ ImageFrames(free) = {}
          /\ Panic
          /\ UNCHANGED cr2

\* schedule(): load another process's CR3, or the same one's again.
Switch(q) ==
    /\ Running
    /\ q \in live
    /\ cur' = q
    /\ FlushTlb
    /\ UNCHANGED <<map, wr, brk, live, content, free, e820, seen, cr2, halted>>

\* exit: the slot is free, its table and frames leak; schedule() takes over
\* and stops the machine when nobody is left.
Exit ==
    /\ Running
    /\ live' = live \ {cur}
    /\ \/ \E q \in live \ {cur} :
            /\ cur' = q
            /\ FlushTlb
            /\ UNCHANGED halted
       \/ /\ live = {cur}
          /\ halted' = "dead"
          /\ UNCHANGED <<cur, tlbVars>>
    /\ UNCHANGED <<map, wr, brk, content, free, e820, seen, cr2>>

-----------------------------------------------------------------------------

\* spawn() has made process first from the frames fr of the map m; the free
\* list has the other frames.
Spawned(first, m, fr) ==
    /\ e820 = m
    /\ map = [p \in Slots |-> [v \in Pages |->
                 IF p = first /\ v \in Image THEN fr[v] ELSE NoFrame]]
    /\ wr = [p \in Slots |-> IF p = first THEN Image ELSE {}]
    /\ brk = [p \in Slots |-> NImage]
    /\ live = {first}
    /\ cur = first
    /\ tlb = NoTlb
    /\ tlbW = {}
    /\ content = [f \in Frames |-> IF f = fr[0] THEN ImageValue ELSE Stale]
    /\ free = Seeded(m) \ {fr[v] : v \in Image}
    /\ seen = 0
    /\ cr2 = 0
    /\ halted = "no"

Init ==
    \E first \in Slots, m \in Maps \cup {FallbackMap} :
        \E fr \in ImageFrames(Seeded(m)) : Spawned(first, m, fr)

Next ==
    \/ \E v \in Pages :
         \/ TlbFill(v) \/ TlbEvict(v) \/ Load(v) \/ PageFault(v)
         \/ \E x \in Values : Store(v, x)
    \/ \E n \in 0 .. AddressPages : Sbrk(n)
    \/ \E i \in Slots : Fork(i) \/ Switch(i)
    \/ Exec \/ Exit

Spec == Init /\ [][Next]_vars

-----------------------------------------------------------------------------
(* Properties *)

\* Every variable keeps its type.
MemTypeOK ==
    /\ e820 \in Maps \cup {FallbackMap}
    /\ map \in [Slots -> [Pages -> Frames \cup {NoFrame}]]
    /\ wr \in [Slots -> SUBSET Pages]
    /\ brk \in [Slots -> NImage .. NPages]
    /\ live \in SUBSET Slots
    /\ cur \in Slots
    /\ tlb \in [Pages -> Frames \cup {NoFrame}]
    /\ tlbW \in SUBSET Pages
    /\ content \in [Frames -> Values]
    /\ free \in SUBSET Frames
    /\ seen \in Values
    /\ cr2 \in Pages
    /\ halted \in {"no", "fault", "panic", "dead"}

\* A frame that two PTEs map, of two processes or of one that left its table
\* behind, is writable through neither: fork takes W from both sides, and
\* only a frame fresh from the free list is mapped writable.
SharedIsReadOnly ==
    \A p, q \in Slots : \A u, v \in Pages :
        map[p][u] # NoFrame /\ map[p][u] = map[q][v] /\ (p # q \/ u # v)
            => u \notin wr[p]

\* The free list holds no frame a page table still maps.
FreeIsUnmapped ==
    \A p \in Slots, v \in Pages : map[p][v] \notin free

\* The TLB never grants more than the table it caches, nor less: every change
\* of a PTE is followed by a flush.  More would let a store reach a shared
\* frame; less would fault on a PTE pf_handler has nothing to repair in.
TlbCoherent ==
    \A v \in Pages : tlb[v] # NoFrame =>
        tlb[v] = map[cur][v] /\ (v \in tlbW <=> v \in wr[cur])

\* A process has pages only below its brk, and all its image pages.
MappedBelowBrk ==
    \A p \in Slots, v \in Pages :
        /\ map[p][v] # NoFrame => v < brk[p]
        /\ p \in live /\ v \in Image => map[p][v] # NoFrame

\* The machine stops with EX0E only for an access outside the process's
\* memory: never for a store to a page that fork had shared, a heap page not
\* touched yet, or a translation that was out of date.
OnlyBadAccessHalts == halted = "fault" => cr2 >= brk[cur]

\* A frame the kernel hands out, now or ever, is RAM from its first byte to
\* its last, neither of the BIOS nor of the kernel image, and mapped: writing
\* the link of the free list, a table or a page into it hits nothing else.
FramesAreUsable ==
    \A f \in (free \cup {map[p][v] : p \in Slots, v \in Pages}) \ {NoFrame} :
        \A b \in (f * PageBytes) .. ((f + 1) * PageBytes - 1) :
            /\ LowLimit <= b /\ b < Mapped
            /\ ~(KernelStart <= b /\ b < BssEnd)
            /\ \E i \in DOMAIN e820 :
                  /\ e820[i].typ = Usable
                  /\ e820[i].base <= b /\ b < e820[i].base + e820[i].len

\* Every process has a memory of its own.
PrivateView ==
    [p \in Slots |-> [v \in Pages |->
        IF map[p][v] = NoFrame THEN 0 ELSE content[map[p][v]]]]

\* A page fault is invisible: the memory the program sees does not change, so
\* a heap page reads zero until it is written, and when pf_handler returns the
\* access it retries is allowed (present, and writable for a protected page).
FaultIsRepaired ==
    [][\A v \in Pages : PageFault(v) =>
          /\ PrivateView' = PrivateView
          /\ halted' = "no" => /\ map'[cur][v] # NoFrame /\ v \in wr'[cur]
                               /\ ~WriteProtected(v)']_vars

P == INSTANCE PrivateMemory WITH mem <- PrivateView

\* Sharing frames, copying on write, demand paging and caching translations
\* are invisible: processes see private memories.
ImplementsPrivateMemory == P!MemSpec
=============================================================================
