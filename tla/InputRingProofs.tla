-------------------------- MODULE InputRingProofs --------------------------
(***************************************************************************)
(* The ring of input.rs implements ByteQueue, for every capacity.          *)
(***************************************************************************)
EXTENDS InputRing, Integers, SequenceTheorems, TLAPS

\* An index that has wrapped around at most once.
LEMMA WrapOnce ==
    ASSUME NEW C \in Nat \ {0}, NEW x \in Nat, x < 2 * C
    PROVE  x % C = IF x < C THEN x ELSE x - C
OBVIOUS

\* Two sequences of one length with the same elements are equal.
LEMMA SameElements ==
    ASSUME NEW S, NEW s \in Seq(S), NEW t \in Seq(S), Len(s) = Len(t),
           \A k \in 1 .. Len(s) : s[k] = t[k]
    PROVE  s = t
OBVIOUS

\* Push and pop keep the indices inside the array.
LEMMA RingTypeStep ==
    ASSUME RingTypeOK, [RingNext]_ringVars
    PROVE  RingTypeOK'
<1>0. Cap \in Nat \ {0}  BY RingAssumption
<1>1. ASSUME NEW b \in Bytes, Push(b)
      PROVE  RingTypeOK'
  BY <1>0, <1>1 DEF Push, RingTypeOK, Index
<1>2. CASE Pop
  <2>1. (head + 1) % Cap \in Index
    BY <1>0, WrapOnce DEF RingTypeOK, Index
  <2>2. buf[head] \in Bytes  BY DEF RingTypeOK
  <2> QED  BY <1>0, <1>2, <2>1, <2>2 DEF Pop, RingTypeOK
<1>3. CASE UNCHANGED ringVars
  BY <1>3 DEF ringVars, RingTypeOK
<1> QED  BY <1>1, <1>2, <1>3 DEF RingNext

\* No index of push or pop ever leaves the array.
THEOREM RingTypeCorrect == RingSpec => []RingTypeOK
<1>1. RingInit => RingTypeOK
  BY RingAssumption DEF RingInit, RingTypeOK, Index
<1> QED  BY <1>1, RingTypeStep, PTL DEF RingSpec

-----------------------------------------------------------------------------

\* The abstraction of a ring is a queue of bytes as long as LEN says.
ContentsFacts ==
    /\ Contents \in Seq(Bytes)
    /\ Len(Contents) = len
    /\ \A k \in 1 .. len : Contents[k] = buf[(head + k - 1) % Cap]

\* The contents of a typed ring are a sequence of len bytes.
LEMMA ContentsType == RingTypeOK => ContentsFacts
<1> SUFFICES ASSUME RingTypeOK
             PROVE  ContentsFacts
  OBVIOUS
<1>1. Cap \in Nat \ {0} /\ len \in Nat  BY RingAssumption DEF RingTypeOK
<1>2. ASSUME NEW k \in 1 .. len
      PROVE  buf[(head + k - 1) % Cap] \in Bytes
  <2>1. (head + k - 1) % Cap \in Index
    BY <1>1, WrapOnce DEF RingTypeOK, Index
  <2> QED  BY <2>1 DEF RingTypeOK
<1> QED  BY <1>1, <1>2 DEF Contents, ContentsFacts

\* The same after a step.
LEMMA ContentsTypeNext == RingTypeOK' => ContentsFacts'
BY ContentsType, PTL

\* A push to a ring that is not full appends the byte.
LEMMA PushAppends ==
    ASSUME RingTypeOK, RingTypeOK', NEW b \in Bytes, Push(b), len < Cap
    PROVE  Contents' = Contents \o <<b>>
<1>1. Cap \in Nat \ {0} /\ len \in Nat /\ head \in 0 .. Cap - 1
  BY RingAssumption DEF RingTypeOK, Index
<1>2. /\ len' = len + 1 /\ head' = head
      /\ buf' = [buf EXCEPT ![(head + len) % Cap] = b]
  BY DEF Push
<1>3. (head + len) % Cap \in Index  BY <1>1, WrapOnce DEF Index
<1>4. ASSUME NEW k \in 1 .. len
      PROVE  buf'[(head + k - 1) % Cap] = buf[(head + k - 1) % Cap]
  <2>1. (head + k - 1) % Cap # (head + len) % Cap
    BY <1>1, WrapOnce
  <2>2. (head + k - 1) % Cap \in Index  BY <1>1, WrapOnce DEF Index
  <2> QED  BY <1>2, <2>1, <2>2 DEF RingTypeOK
<1>5. buf'[(head + len) % Cap] = b  BY <1>2, <1>3 DEF RingTypeOK
<1>6. /\ Contents' \in Seq(Bytes) /\ Len(Contents') = len + 1
      /\ \A k \in 1 .. len + 1 : Contents'[k] = buf'[(head + k - 1) % Cap]
  BY <1>2, ContentsTypeNext DEF ContentsFacts
<1>7. /\ Contents \o <<b>> \in Seq(Bytes)
      /\ Len(Contents \o <<b>>) = len + 1
      /\ \A k \in 1 .. len : (Contents \o <<b>>)[k] = Contents[k]
      /\ (Contents \o <<b>>)[len + 1] = b
  BY <1>1, ContentsType DEF ContentsFacts
<1>8. ASSUME NEW k \in 1 .. len + 1
      PROVE  Contents'[k] = (Contents \o <<b>>)[k]
  <2>1. CASE k \in 1 .. len
    <3>1. Contents'[k] = buf'[(head + k - 1) % Cap]  BY <1>6
    <3>2. Contents[k] = buf[(head + k - 1) % Cap]
      BY <2>1, ContentsType DEF ContentsFacts
    <3> QED  BY <1>4, <1>7, <2>1, <3>1, <3>2
  <2>2. CASE k = len + 1
    <3>1. head + k - 1 = head + len  BY <1>1, <2>2
    <3>2. Contents'[k] = buf'[(head + k - 1) % Cap]  BY <1>6
    <3> QED  BY <1>5, <1>7, <2>2, <3>1, <3>2
  <2>3. k \in 1 .. len \/ k = len + 1  BY <1>1
  <2> QED  BY <2>1, <2>2, <2>3
<1> QED  BY <1>6, <1>7, <1>8, SameElements

\* A pop removes the oldest byte.
LEMMA PopRemoves ==
    ASSUME RingTypeOK, RingTypeOK', Pop
    PROVE  /\ Contents # <<>>
           /\ taken' = <<Head(Contents)>>
           /\ Contents' = Tail(Contents)
<1>1. Cap \in Nat \ {0} /\ len \in Nat \ {0} /\ head \in 0 .. Cap - 1
  BY RingAssumption DEF RingTypeOK, Index, Pop
<1>2. len' = len - 1 /\ head' = (head + 1) % Cap /\ buf' = buf /\ taken' = <<buf[head]>>
  BY DEF Pop
<1>3. Contents # <<>> /\ Head(Contents) = Contents[1]
  BY <1>1, ContentsType DEF ContentsFacts
<1>4. (head + 1 - 1) % Cap = head  BY <1>1, WrapOnce
<1>5. Contents[1] = buf[head]  BY <1>1, <1>4, ContentsType DEF ContentsFacts
<1>6. /\ Contents' \in Seq(Bytes) /\ Len(Contents') = len - 1
      /\ \A k \in 1 .. len - 1 : Contents'[k] = buf[(((head + 1) % Cap) + k - 1) % Cap]
  BY <1>2, ContentsTypeNext DEF ContentsFacts
<1>7. /\ Tail(Contents) \in Seq(Bytes) /\ Len(Tail(Contents)) = len - 1
      /\ \A k \in 1 .. len - 1 : Tail(Contents)[k] = Contents[k + 1]
  BY <1>1, <1>3, ContentsType, HeadTailProperties DEF ContentsFacts
<1>8. ASSUME NEW k \in 1 .. len - 1
      PROVE  (((head + 1) % Cap) + k - 1) % Cap = (head + (k + 1) - 1) % Cap
  <2>1. len <= Cap  BY DEF RingTypeOK
  <2>2. head + 1 \in Nat /\ head + 1 <= Cap /\ head + k \in Nat /\ head + k < 2 * Cap
    BY <1>1, <2>1
  <2>3. (head + 1) % Cap = IF head + 1 < Cap THEN head + 1 ELSE head + 1 - Cap
    BY <1>1, <2>2
  <2>4. (head + k) % Cap = IF head + k < Cap THEN head + k ELSE head + k - Cap
    BY <1>1, <2>2
  <2>5. CASE head + 1 < Cap
    <3>1. ((head + 1) % Cap) + k - 1 = head + k /\ head + (k + 1) - 1 = head + k
      BY <1>1, <2>3, <2>5
    <3> QED  BY <3>1
  <2>6. CASE ~(head + 1 < Cap)
    <3>1. ((head + 1) % Cap) + k - 1 = k - 1 /\ head + (k + 1) - 1 = head + k
      BY <1>1, <2>2, <2>3, <2>6
    <3>2. k - 1 \in Nat /\ k - 1 < Cap /\ head + k - Cap = k - 1
      BY <1>1, <2>1, <2>2, <2>6
    <3>3. (k - 1) % Cap = k - 1  BY <1>1, <3>2
    <3> QED  BY <1>1, <2>4, <3>1, <3>2, <3>3
  <2> QED  BY <2>5, <2>6
<1>9. ASSUME NEW k \in 1 .. len - 1
      PROVE  Contents'[k] = Tail(Contents)[k]
  <2>1. k + 1 \in 1 .. len  BY <1>1
  <2>2. Contents[k + 1] = buf[(head + (k + 1) - 1) % Cap]
    BY <2>1, ContentsType DEF ContentsFacts
  <2> QED  BY <1>6, <1>7, <1>8, <2>2
<1>10. Contents' = Tail(Contents)  BY <1>6, <1>7, <1>9, SameElements
<1> QED  BY <1>2, <1>3, <1>5, <1>10

\* Every step of the ring is a step of the queue it implements, or changes
\* nothing the queue's user can see.
LEMMA RingSimulates ==
    ASSUME RingTypeOK, RingTypeOK', [RingNext]_ringVars
    PROVE  [Q!QueueNext]_(Q!queueVars)
<1>1. ASSUME NEW b \in Bytes, Push(b), len < Cap
      PROVE  Q!Put(<<b>>)
  <2>1. Contents' = Contents \o <<b>>  BY <1>1, PushAppends
  <2>2. Len(Contents \o <<b>>) <= Cap
    BY <1>1, ContentsType, RingAssumption DEF RingTypeOK, ContentsFacts
  <2> QED  BY <1>1, <2>1, <2>2 DEF Q!Put, Q!Accept, Push
<1>2. ASSUME NEW b \in Bytes, Push(b), ~(len < Cap)
      PROVE  UNCHANGED Q!queueVars
  BY <1>2 DEF Push, Contents, Q!queueVars
<1>3. CASE Pop
  BY <1>3, PopRemoves DEF Q!QueueNext, Q!Take
<1>4. CASE UNCHANGED ringVars
  BY <1>4 DEF ringVars, Contents, Q!queueVars
<1> QED  BY <1>1, <1>2, <1>3, <1>4 DEF RingNext, Q!QueueNext

\* The ring buffer of input.rs implements a lossy bounded queue.
THEOREM RingImplementsQueue == RingSpec => ImplementsQueue
<1>1. RingInit => Q!QueueInit
  BY DEF RingInit, Contents, Q!QueueInit
<1>2. RingTypeOK /\ RingTypeOK' /\ [RingNext]_ringVars => [Q!QueueNext]_(Q!queueVars)
  BY RingSimulates
<1> QED  BY <1>1, <1>2, RingTypeCorrect, PTL DEF RingSpec, Q!QueueSpec, ImplementsQueue
=============================================================================
