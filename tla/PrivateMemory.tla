--------------------------- MODULE PrivateMemory ---------------------------
(***************************************************************************)
(* What the memory system promises to processes: every process has a       *)
(* memory of its own, which only its own writes change; fork gives the     *)
(* child a copy of the parent's, exec a new image.  There are no frames,   *)
(* page tables, TLB or page faults.  CowMemory implements this module.     *)
(***************************************************************************)
EXTENDS Naturals

CONSTANTS
    Slots,      \* process table slots
    NImage,     \* pages of a program image: code and stack
    NPages,     \* pages up to the sbrk limit; NImage .. NPages - 1 is the heap
    Values      \* what a page can hold, one value per page

Pages == 0 .. NPages - 1
Image == 0 .. NImage - 1

VARIABLES
    mem,        \* mem[p][v]: what page v of process p holds, 0 if not yet used
    brk,        \* brk[p]: the first page past the heap of p
    live,       \* the processes that exist
    cur,        \* the running process
    seen        \* the value the last load returned

memVars == <<mem, brk, live, cur, seen>>

Running == cur \in live

\* A load or store of the running process touches only its own pages.
Load(v) ==
    /\ Running /\ v < brk[cur]
    /\ seen' = mem[cur][v]
    /\ UNCHANGED <<mem, brk, live, cur>>

Store(v, x) ==
    /\ Running /\ v < brk[cur]
    /\ mem' = [mem EXCEPT ![cur][v] = x]
    /\ UNCHANGED <<brk, live, cur, seen>>

Grow(n) ==
    /\ Running
    /\ brk[cur] + n <= NPages
    /\ brk' = [brk EXCEPT ![cur] = @ + n]
    /\ UNCHANGED <<mem, live, cur, seen>>

\* The child gets a copy of everything the parent has.
Fork(i) ==
    /\ Running /\ i \notin live
    /\ mem' = [mem EXCEPT ![i] = mem[cur]]
    /\ brk' = [brk EXCEPT ![i] = brk[cur]]
    /\ live' = live \cup {i}
    /\ UNCHANGED <<cur, seen>>

\* A new image, an empty heap.
Exec ==
    /\ Running
    /\ \E image \in [Image -> Values] :
         mem' = [mem EXCEPT ![cur] =
                    [v \in Pages |-> IF v \in Image THEN image[v] ELSE 0]]
    /\ brk' = [brk EXCEPT ![cur] = NImage]
    /\ UNCHANGED <<live, cur, seen>>

Switch ==
    /\ cur' \in live
    /\ UNCHANGED <<mem, brk, live, seen>>

Exit ==
    /\ Running
    /\ live' = live \ {cur}
    /\ cur' \in live' \cup {cur}
    /\ UNCHANGED <<mem, brk, seen>>

MemInit ==
    /\ live \subseteq Slots
    /\ cur \in live
    /\ brk = [p \in Slots |-> NImage]
    /\ mem \in [Slots -> [Pages -> Values]]
    /\ \A p \in Slots, v \in Pages \ Image : mem[p][v] = 0
    /\ seen = 0

MemNext ==
    \/ \E v \in Pages : Load(v) \/ \E x \in Values : Store(v, x)
    \/ \E n \in Pages : Grow(n)
    \/ \E i \in Slots : Fork(i)
    \/ Exec \/ Switch \/ Exit

MemSpec == MemInit /\ [][MemNext]_memVars
=============================================================================
