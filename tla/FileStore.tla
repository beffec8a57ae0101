----------------------------- MODULE FileStore -----------------------------
(***************************************************************************)
(* What a file system with descriptors promises its processes: files are   *)
(* sequences of bytes that a restart does not touch, a descriptor is a     *)
(* name and a position, every call happens at once.                        *)
(***************************************************************************)
EXTENDS Naturals, Sequences, FiniteSets

CONSTANTS Names, NoName, MaxFiles, Cap, Bytes, Procs, Spawned, NFD

VARIABLES
    files,    \* the files: a function from names to contents
    handles,  \* handles[p][s]: what a descriptor denotes
    live,     \* the processes
    ret       \* what the last call returned

storeVars == <<files, handles, live, ret>>

Slots == 0 .. NFD - 1
Closed == [open |-> FALSE, name |-> NoName, pos |-> 0, write |-> FALSE]
NoHandles == [p \in Procs |-> [s \in Slots |-> Closed]]
Failed == [ok |-> FALSE, val |-> <<>>]
Returned(v) == [ok |-> TRUE, val |-> v]

Exists(n) == n \in DOMAIN files

\* The file n has the content c, whether it existed or not.
With(n, c) == [m \in DOMAIN files \cup {n} |-> IF m = n THEN c ELSE files[m]]

\* Byte b is put at a position; between the old end and the position there
\* may be any bytes.
Overwrite(c, pos, b) ==
    LET len == IF pos + 1 > Len(c) THEN pos + 1 ELSE Len(c)
    IN  {d \in [1 .. len -> Bytes] :
            d[pos + 1] = b /\ \A k \in 1 .. Len(c) : k # pos + 1 => d[k] = c[k]}

StoreInit ==
    /\ files = [n \in {} |-> <<>>]
    /\ handles = NoHandles
    /\ live = {}
    /\ ret = Failed

\* The system seeds files before there are processes.
SeedCreate(n) ==
    /\ live = {} /\ ~Exists(n)
    /\ files' = With(n, <<>>)
    /\ UNCHANGED <<handles, live, ret>>

SeedAppend(n, b) ==
    /\ live = {} /\ Exists(n)
    /\ files' = With(n, Append(files[n], b))
    /\ UNCHANGED <<handles, live, ret>>

Begin == live = {} /\ live' = Spawned /\ handles' = NoHandles /\ UNCHANGED <<files, ret>>

Restart == live' = {} /\ handles' = NoHandles /\ UNCHANGED <<files, ret>>

\* A call that may hand out the lowest free descriptor of p.
GiveHandle(p, n, w) ==
    \/ \E s \in Slots :
         /\ ~handles[p][s].open /\ \A t \in 0 .. s - 1 : handles[p][t].open
         /\ handles' = [handles EXCEPT ![p][s] =
                [open |-> TRUE, name |-> n, pos |-> 0, write |-> w]]
         /\ ret' = Returned(<<s>>)
    \/ /\ \A s \in Slots : handles[p][s].open
       /\ ret' = Failed
       /\ UNCHANGED handles

Refuse == ret' = Failed /\ UNCHANGED <<files, handles, live>>

OpenRead(p, n) ==
    /\ p \in live
    /\ \/ Exists(n) /\ GiveHandle(p, n, FALSE) /\ UNCHANGED <<files, live>>
       \/ ~Exists(n) /\ Refuse

\* Opening for writing empties or creates the file, even if it then fails for
\* want of a descriptor.
OpenWrite(p, n) ==
    /\ p \in live
    /\ \/ /\ Exists(n) \/ Cardinality(DOMAIN files) < MaxFiles
          /\ files' = With(n, <<>>)
          /\ GiveHandle(p, n, TRUE)
          /\ UNCHANGED live
       \/ /\ ~Exists(n) /\ Cardinality(DOMAIN files) = MaxFiles
          /\ Refuse

Close(p, s) ==
    /\ p \in live
    /\ handles' = [handles EXCEPT ![p][s] = Closed]
    /\ ret' = IF handles[p][s].open THEN Returned(<<>>) ELSE Failed
    /\ UNCHANGED <<files, live>>

Read(p, s) ==
    LET h == handles[p][s]
    IN  /\ p \in live
        /\ \/ /\ h.open /\ ~h.write /\ h.pos < Len(files[h.name])
              /\ ret' = Returned(<<files[h.name][h.pos + 1]>>)
              /\ handles' = [handles EXCEPT ![p][s].pos = @ + 1]
              /\ UNCHANGED <<files, live>>
           \/ /\ h.open /\ ~h.write => h.pos >= Len(files[h.name])
              /\ Refuse

Write(p, s, b) ==
    LET h == handles[p][s]
    IN  /\ p \in live
        /\ \/ /\ h.open /\ h.write /\ h.pos < Cap
              /\ \E c \in Overwrite(files[h.name], h.pos, b) :
                    files' = With(h.name, c)
              /\ ret' = Returned(<<>>)
              /\ handles' = [handles EXCEPT ![p][s].pos = @ + 1]
              /\ UNCHANGED live
           \/ /\ h.open /\ h.write => h.pos >= Cap
              /\ Refuse

Run(p, n) ==
    /\ p \in live
    /\ ret' = IF Exists(n) THEN Returned(files[n]) ELSE Failed
    /\ UNCHANGED <<files, handles, live>>

Fork(p, q) ==
    /\ p \in live /\ q \in Procs \ live
    /\ live' = live \cup {q}
    /\ handles' = [handles EXCEPT ![q] = handles[p]]
    /\ UNCHANGED <<files, ret>>

Exit(p) == p \in live /\ live' = live \ {p} /\ UNCHANGED <<files, handles, ret>>

StoreNext ==
    \/ Begin \/ Restart
    \/ \E n \in Names : SeedCreate(n) \/ \E b \in Bytes : SeedAppend(n, b)
    \/ \E p \in Procs :
         \/ \E n \in Names : OpenRead(p, n) \/ OpenWrite(p, n) \/ Run(p, n)
         \/ \E s \in Slots : Close(p, s) \/ Read(p, s)
                               \/ \E b \in Bytes : Write(p, s, b)
         \/ \E q \in Procs : Fork(p, q)
         \/ Exit(p)

StoreSpec == StoreInit /\ [][StoreNext]_storeVars
=============================================================================
