----------------------------- MODULE ByteQueue -----------------------------
(***************************************************************************)
(* What the console input buffer promises to its users: a first-in         *)
(* first-out queue of at most Cap bytes that loses a byte only when it is  *)
(* full.  InputRing (the ring of kernel/src/input.rs) implements this      *)
(* module; Sched (the rest of the kernel) is written against it.           *)
(***************************************************************************)
EXTENDS Naturals, Sequences

CONSTANTS
    Bytes,      \* the byte values a device can deliver
    Cap         \* input.rs CAP: the capacity of the buffer

ASSUME QueueAssumption == Cap \in Nat \ {0} /\ 0 \in Bytes

VARIABLES
    queue,      \* the bytes pushed and not yet popped, oldest first
    taken       \* <<>>, or <<b>> where b is the byte the last pop returned

queueVars == <<queue, taken>>

\* A broken push that does not look at the capacity.
Accept_Unbounded(q, s) == q \o s

\* The queue after pushing the bytes of s one by one: what does not fit any
\* more is dropped, so the longest prefix of s that fits is appended.
Accept(q, s) ==
    LET all == q \o s
    IN  IF Len(all) <= Cap THEN all ELSE SubSeq(all, 1, Cap)

Put(s) ==
    /\ queue' = Accept(queue, s)
    /\ UNCHANGED taken

Take ==
    /\ queue # <<>>
    /\ taken' = <<Head(queue)>>
    /\ queue' = Tail(queue)

QueueInit == queue = <<>> /\ taken = <<>>

QueueNext == (\E b \in Bytes : Put(<<b>>)) \/ Take

QueueSpec == QueueInit /\ [][QueueNext]_queueVars
=============================================================================
