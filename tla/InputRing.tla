----------------------------- MODULE InputRing -----------------------------
(***************************************************************************)
(* kernel/src/input.rs: the ring the device handlers push into and         *)
(* sys_read pops from.  Both run with IF=0, so each is one step.           *)
(***************************************************************************)
EXTENDS Naturals, Sequences

CONSTANTS Bytes, Cap

ASSUME RingAssumption == Cap \in Nat \ {0} /\ 0 \in Bytes

VARIABLES
    buf,        \* BUF
    head,       \* HEAD: index of the next byte to pop
    len,        \* LEN
    taken       \* the byte the last pop returned (f.rax of sys_read)

ringVars == <<buf, head, len, taken>>

Index == 0 .. Cap - 1

RingInit ==
    /\ buf = [i \in Index |-> 0]
    /\ head = 0
    /\ len = 0
    /\ taken = <<>>

\* A broken push whose write index ignores HEAD.
Push_IgnoresHead(b) ==
    /\ IF len < Cap
       THEN /\ buf' = [buf EXCEPT ![len] = b]
            /\ len' = len + 1
       ELSE UNCHANGED <<buf, len>>
    /\ UNCHANGED <<head, taken>>

\* push: a byte that finds the ring full is dropped.
Push(b) ==
    /\ IF len < Cap
       THEN /\ buf' = [buf EXCEPT ![(head + len) % Cap] = b]
            /\ len' = len + 1
       ELSE UNCHANGED <<buf, len>>
    /\ UNCHANGED <<head, taken>>

\* pop: None (the caller blocks) when the ring is empty.
Pop ==
    /\ len # 0
    /\ taken' = <<buf[head]>>
    /\ head' = (head + 1) % Cap
    /\ len' = len - 1
    /\ UNCHANGED buf

RingNext == (\E b \in Bytes : Push(b)) \/ Pop

RingSpec == RingInit /\ [][RingNext]_ringVars

-----------------------------------------------------------------------------

\* The ring's variables keep their types: HEAD never leaves the array and
\* LEN never exceeds CAP, so no index of push or pop is out of bounds.
RingTypeOK ==
    /\ buf \in [Index -> Bytes]
    /\ head \in Index
    /\ len \in 0 .. Cap
    /\ taken \in {<<>>} \cup {<<b>> : b \in Bytes}

\* The bytes in the ring, oldest first.
Contents == [k \in 1 .. len |-> buf[(head + k - 1) % Cap]]

Q == INSTANCE ByteQueue WITH queue <- Contents

\* input.rs keeps the promise of ByteQueue: wrapping around the array never
\* reorders, duplicates or loses a byte, and only a push to a full ring is
\* dropped.
ImplementsQueue == Q!QueueSpec
=============================================================================
