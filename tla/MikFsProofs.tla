---------------------------- MODULE MikFsProofs ----------------------------
(***************************************************************************)
(* Theorems about MikFs, for every size of disk and directory and every    *)
(* set of names, bytes and processes: types, descriptors, what a length    *)
(* counts, and, with the faults that break them ruled out, that files stay *)
(* and extents are disjoint.                                               *)
(***************************************************************************)
EXTENDS MikFs, TLAPS, FiniteSetTheorems, SequenceTheorems, WellFoundedInduction

-----------------------------------------------------------------------------
(* The operators *)

\* The lowest of some numbers is no higher than any of them.
LEMMA FirstIsLowest ==
    ASSUME NEW S \in SUBSET Nat, S # {}
    PROVE  First(S) \in S /\ \A j \in S : First(S) <= j
<1> DEFINE R == {ss \in Nat \X Nat : ss[1] < ss[2]}
<1>1. IsWellFoundedOn(R, Nat)  BY NatLessThanWellFounded DEF OpToRel
<1>2. PICK x \in S : \A y \in S : ~(<<y, x>> \in R)
  <2> HIDE DEF R
  <2> QED  BY <1>1, WFMin
<1>3. \A y \in S : x <= y
  <2> SUFFICES ASSUME NEW y \in S PROVE x <= y
    OBVIOUS
  <2>1. x \in Nat /\ y \in Nat  OBVIOUS
  <2>2. ~(<<y, x>> \in R)  BY <1>2
  <2>3. ~(y < x)  BY <2>1, <2>2
  <2> QED  BY <2>1, <2>3
<1> QED  BY <1>3 DEF First

\* The lowest of some numbers is one of them.
LEMMA FirstIsIn ==
    ASSUME NEW S \in SUBSET Nat, S # {}
    PROVE  First(S) \in S
BY FirstIsLowest

LEMMA Division ==
    ASSUME NEW a \in Nat, NEW p \in Nat \ {0}
    PROVE  (a \div p) \in Nat
OBVIOUS

LEMMA DivisionMonotone ==
    ASSUME NEW a \in Nat, NEW b \in Nat, NEW p \in Nat \ {0}, a <= b
    PROVE  a \div p <= b \div p
OBVIOUS

\* Every entry's sector is one of the directory's, which are numbered from 0.
LEMMA SectorFacts ==
    /\ \A i \in Entries : SectorOf(i) \in Nat /\ SectorOf(i) \in DirSectors
    /\ Cardinality(DirSectors) \in Nat
    /\ \A s \in DirSectors : s \in Nat /\ s + 1 \in 1 .. Cardinality(DirSectors)
<1>1. SectorOf(MaxFiles - 1) \in Nat
  BY Division, DiskAssumption DEF SectorOf
<1>2. ASSUME NEW i \in Entries
      PROVE  SectorOf(i) \in Nat /\ SectorOf(i) \in DirSectors
  <2>1. i \in Nat /\ MaxFiles - 1 \in Nat /\ i <= MaxFiles - 1
    BY DiskAssumption DEF Entries
  <2>2. SectorOf(i) \in Nat /\ SectorOf(i) <= SectorOf(MaxFiles - 1)
    BY <2>1, Division, DivisionMonotone, DiskAssumption DEF SectorOf
  <2> QED  BY <1>1, <2>2 DEF DirSectors
<1>3. Cardinality(DirSectors) = SectorOf(MaxFiles - 1) + 1
  <2> DEFINE last == SectorOf(MaxFiles - 1)
  <2>1. last \in Int /\ ~(0 > last) /\ last - 0 + 1 = last + 1  BY <1>1
  <2> HIDE DEF last
  <2>2. Cardinality(0 .. last) = IF 0 > last THEN 0 ELSE last - 0 + 1
    BY <2>1, FS_Interval
  <2>3. Cardinality(0 .. last) = last + 1  BY <2>1, <2>2
  <2> QED  BY <2>3 DEF DirSectors, last
<1> QED  BY <1>1, <1>2, <1>3 DEF DirSectors

-----------------------------------------------------------------------------
(* Types *)

Step == [op : {"flush"}, lba : Nat] \cup [op : {"seed"}, name : Names \ NulNames]
          \cup [op : {"byte"}, ent : Entries, pos : Positions, b : Bytes]

TypeInv == FsTypeOK /\ todo \in Seq(Step)

\* What the first step of todo is, and what it leaves.
LEMMA HeadFacts ==
    ASSUME todo \in Seq(Step), todo # <<>>
    PROVE  /\ Head(todo) \in Step /\ Tail(todo) \in Seq(Step)
           /\ Head(todo).op = "flush" => Head(todo).lba \in Nat
           /\ Head(todo).op = "seed" => Head(todo).name \in Names \ NulNames
           /\ Head(todo).op = "byte" => /\ Head(todo).ent \in Entries
                                        /\ Head(todo).pos \in Positions
                                        /\ Head(todo).b \in Bytes
<1>1. Head(todo) \in Step /\ Tail(todo) \in Seq(Step)  BY HeadTailProperties
<1> QED  BY <1>1 DEF Step

\* The steps an operation adds.
LEMMA StepFacts ==
    /\ FlushSb \in Seq(Step)
    /\ \A i \in Entries : FlushEnt(i) \in Seq(Step)
    /\ [s \in 1 .. Cardinality(DirSectors) |-> Flush(DirLBA(s - 1))] \in Seq(Step)
    /\ [k \in 1 .. Len(Seeds) |-> Seed(Seeds[k])] \in Seq(Step)
    /\ \A i \in Entries : [k \in 1 .. Len(SeedBytes) |-> SeedByte(i, k)] \in Seq(Step)
<1>1. \A l \in Nat : Flush(l) \in Step /\ <<Flush(l)>> \in Seq(Step)
  <2> TAKE l \in Nat
  <2>1. Flush(l) \in Step  BY DEF Flush, Step
  <2> QED  BY <2>1
<1>2. FlushSb \in Seq(Step)  BY <1>1 DEF FlushSb, Super
<1>3. \A i \in Entries : FlushEnt(i) \in Seq(Step)
  BY <1>1, SectorFacts DEF FlushEnt, DirLBA
<1>4. [s \in 1 .. Cardinality(DirSectors) |-> Flush(DirLBA(s - 1))] \in Seq(Step)
  <2>1. ASSUME NEW s \in 1 .. Cardinality(DirSectors)
        PROVE  Flush(DirLBA(s - 1)) \in Step
    BY <1>1, SectorFacts DEF DirLBA
  <2> QED  BY <2>1, SectorFacts, SeqDef
<1>5. [k \in 1 .. Len(Seeds) |-> Seed(Seeds[k])] \in Seq(Step)
  <2>1. Len(Seeds) \in Nat  BY DiskAssumption, LenProperties
  <2>2. ASSUME NEW k \in 1 .. Len(Seeds)
        PROVE  Seed(Seeds[k]) \in Step
    <3>1. Seeds[k] \in Names \ NulNames  BY DiskAssumption, ElementOfSeq
    <3> QED  BY <3>1 DEF Seed, Step
  <2> QED  BY <2>1, <2>2, SeqDef
<1>6. ASSUME NEW i \in Entries
      PROVE  [k \in 1 .. Len(SeedBytes) |-> SeedByte(i, k)] \in Seq(Step)
  <2>1. Len(SeedBytes) \in Nat /\ Len(SeedBytes) <= Cap
    BY DiskAssumption, LenProperties
  <2>2. ASSUME NEW k \in 1 .. Len(SeedBytes)
        PROVE  SeedByte(i, k) \in Step
    <3>1. SeedBytes[k] \in Bytes  BY DiskAssumption, ElementOfSeq
    <3>2. k - 1 \in Positions  BY <2>1, DiskAssumption DEF Positions
    <3> QED  BY <3>1, <3>2 DEF SeedByte, Step
  <2> QED  BY <2>1, <2>2, SeqDef
<1> QED  BY <1>2, <1>3, <1>4, <1>5, <1>6

\* What the searches return.
LEMMA SearchFacts ==
    /\ Unused # {} => First(Unused) \in Entries /\ First(Unused) \notin Named(dir)
    /\ \A n \in Names :
         Matches(n) # {} => First(Matches(n)) \in Named(dir)
    /\ \A p : FreeFds(p) # {} => First(FreeFds(p)) \in Slots
<1>1. Entries \subseteq Nat /\ Slots \subseteq Nat  BY DEF Entries, Slots
<1>2. Unused # {} => First(Unused) \in Unused
  BY <1>1, FirstIsIn DEF Unused
<1>3. ASSUME NEW n \in Names, Matches(n) # {}
      PROVE  First(Matches(n)) \in Named(dir)
  <2>1. First(Matches(n)) \in Matches(n)  BY <1>1, <1>3, FirstIsIn DEF Matches
  <2> QED  BY <2>1, DiskAssumption DEF Matches, Named
<1>4. ASSUME NEW p, FreeFds(p) # {} PROVE First(FreeFds(p)) \in Slots
  <2>1. First(FreeFds(p)) \in FreeFds(p)  BY <1>1, <1>4, FirstIsIn DEF FreeFds
  <2> QED  BY <2>1 DEF FreeFds
<1> QED  BY <1>2, <1>3, <1>4 DEF Unused, Named

\* A length set, or a descriptor moved on.
LEMMA LenType ==
    ASSUME TypeInv, NEW i \in Entries, NEW l \in 0 .. Cap
    PROVE  /\ [dir EXCEPT ![i].len = l] \in [Entries -> Entry]
           /\ \A j \in Entries : [dir EXCEPT ![i].len = l][j] =
                IF j = i THEN [name |-> dir[i].name, first |-> dir[i].first, len |-> l]
                         ELSE dir[j]
<1> DEFINE e == [name |-> dir[i].name, first |-> dir[i].first, len |-> l]
<1>1. dir \in [Entries -> Entry]  BY DEF TypeInv, FsTypeOK
<1>2. dir[i] \in Entry /\ e \in Entry  BY <1>1 DEF Entry
<1>3. [dir[i] EXCEPT !.len = l] = e  BY <1>2 DEF Entry
<1>4. [dir EXCEPT ![i].len = l] = [dir EXCEPT ![i] = e]  BY <1>1, <1>3
<1> HIDE DEF e
<1>5. /\ [dir EXCEPT ![i] = e] \in [Entries -> Entry]
      /\ \A j \in Entries : [dir EXCEPT ![i] = e][j] = IF j = i THEN e ELSE dir[j]
  BY <1>1, <1>2
<1> QED  BY <1>4, <1>5 DEF e

Fd == [used : BOOLEAN, dir : Entries, pos : 0 .. Cap, write : BOOLEAN]

\* The position of a descriptor is within its file's sector.
LEMMA FdRange ==
    ASSUME TypeInv, NEW p \in Procs, NEW s \in Slots
    PROVE  fds[p][s] \in Fd /\ fds[p][s].pos \in 0 .. Cap /\ Cap \in Nat
<1>1. fds \in [Procs -> [Slots -> Fd]]  BY DEF TypeInv, FsTypeOK, Fd
<1>2. fds[p][s] \in Fd  BY <1>1
<1>3. Cap \in Nat  BY DiskAssumption
<1> QED  BY <1>2, <1>3 DEF Fd

\* A descriptor whose position moves on, and the others.
LEMMA FdMoves ==
    ASSUME TypeInv, NEW p \in Procs, NEW s \in Slots, fds[p][s].pos + 1 \in 0 .. Cap
    PROVE  LET moved == [fds EXCEPT ![p][s].pos = @ + 1]
           IN  /\ moved \in [Procs -> [Slots -> Fd]]
               /\ \A q \in Procs, t \in Slots :
                    moved[q][t] = IF q = p /\ t = s
                                  THEN [used |-> fds[p][s].used, dir |-> fds[p][s].dir,
                                        pos |-> fds[p][s].pos + 1,
                                        write |-> fds[p][s].write]
                                  ELSE fds[q][t]
<1> DEFINE f == [used |-> fds[p][s].used, dir |-> fds[p][s].dir,
                 pos |-> fds[p][s].pos + 1, write |-> fds[p][s].write]
<1>1. fds \in [Procs -> [Slots -> Fd]]  BY DEF TypeInv, FsTypeOK, Fd
<1>2. fds[p] \in [Slots -> Fd] /\ fds[p][s] \in Fd  BY <1>1
<1>3. f \in Fd  BY <1>2, Zenon DEF Fd
<1>4. [fds[p][s] EXCEPT !.pos = @ + 1] = f  BY <1>2 DEF Fd
<1>5. [fds EXCEPT ![p][s].pos = @ + 1] = [fds EXCEPT ![p] = [fds[p] EXCEPT ![s] = f]]
  BY <1>1, <1>2, <1>4
<1> HIDE DEF f
<1>6. /\ [fds EXCEPT ![p] = [fds[p] EXCEPT ![s] = f]] \in [Procs -> [Slots -> Fd]]
      /\ \A q \in Procs, t \in Slots :
           [fds EXCEPT ![p] = [fds[p] EXCEPT ![s] = f]][q][t] =
             IF q = p /\ t = s THEN f ELSE fds[q][t]
  BY <1>1, <1>2, <1>3
<1> QED  BY <1>5, <1>6 DEF f

LEMMA CreateType ==
    ASSUME TypeInv, NEW n \in Names, NEW rest \in Seq(Step),
           Unused # {}, Create(n, rest)
    PROVE  dir' \in [Entries -> Entry] /\ next' \in Nat /\ todo' \in Seq(Step)
<1> DEFINE i == First(Unused)
<1>1. i \in Entries  BY SearchFacts
<1>2. [name |-> IF n \in NulNames THEN NoName ELSE n, first |-> next, len |-> 0]
        \in Entry
  BY DiskAssumption DEF TypeInv, FsTypeOK, Entry
<1>3. dir' \in [Entries -> Entry]
  BY <1>1, <1>2 DEF Create, TypeInv, FsTypeOK
<1>4. todo' \in Seq(Step)
  <2>1. FlushEnt(i) \in Seq(Step) /\ FlushSb \in Seq(Step)  BY <1>1, StepFacts
  <2>2. FlushEnt(i) \o FlushSb \in Seq(Step)  BY <2>1, ConcatProperties
  <2>3. (FlushEnt(i) \o FlushSb) \o rest \in Seq(Step)  BY <2>2, ConcatProperties
  <2> QED  BY <2>3 DEF Create
<1> QED  BY <1>3, <1>4 DEF Create, TypeInv, FsTypeOK

LEMMA WrittenType ==
    ASSUME TypeInv, NEW i \in Entries, NEW pos \in 0 .. Cap, NEW b \in Bytes,
           OnDisk(i, pos)
    PROVE  /\ pos \in Positions
           /\ Written(i, pos, b) \in [Extents -> [Positions -> Bytes \cup {Blank}]]
<1>1. pos \in Positions /\ dir[i].first \in Extents
  BY DiskAssumption DEF OnDisk, Positions
<1> QED  BY <1>1 DEF Written, TypeInv, FsTypeOK

LEMMA WriteAtType ==
    ASSUME TypeInv, NEW i \in Entries, NEW pos \in 0 .. Cap, NEW b \in Bytes,
           NEW rest \in Seq(Step), WriteAt(i, pos, b, rest)
    PROVE  /\ dir' \in [Entries -> Entry] /\ todo' \in Seq(Step)
           /\ data' \in [Extents -> [Positions -> Bytes \cup {Blank}]]
           /\ pos + 1 \in 0 .. Cap
<1>1. OnDisk(i, pos) /\ data' = Written(i, pos, b)  BY DEF WriteAt
<1>2. pos + 1 \in 0 .. Cap  BY <1>1, DiskAssumption DEF OnDisk
<1>3. CASE pos + 1 > dir[i].len
  <2>1. dir' = [dir EXCEPT ![i].len = pos + 1] /\ todo' = FlushEnt(i) \o rest
    BY <1>3 DEF WriteAt
  <2>2. dir' \in [Entries -> Entry]  BY <1>2, <2>1, LenType
  <2>3. todo' \in Seq(Step)  BY <2>1, StepFacts, ConcatProperties
  <2> QED  BY <1>1, <1>2, <2>2, <2>3, WrittenType
<1>4. CASE ~(pos + 1 > dir[i].len)
  BY <1>1, <1>2, <1>4, WrittenType DEF WriteAt, TypeInv, FsTypeOK
<1> QED  BY <1>3, <1>4

LEMMA WriteAtFailsType ==
    ASSUME TypeInv, NEW i \in Entries, NEW pos \in 0 .. Cap, NEW b \in Bytes,
           NEW rest \in Seq(Step), WriteAtFails(i, pos, b, rest)
    PROVE  /\ dir' \in [Entries -> Entry] /\ todo' \in Seq(Step)
           /\ data' \in [Extents -> [Positions -> Bytes \cup {Blank}]]
BY WrittenType DEF WriteAtFails, TypeInv, FsTypeOK

\* A descriptor that GiveFd hands out.
LEMMA GiveFdType ==
    ASSUME TypeInv, NEW p \in Procs, NEW i \in Entries, NEW w \in BOOLEAN,
           GiveFd(p, i, w)
    PROVE  fds' \in [Procs -> [Slots -> [used : BOOLEAN, dir : Entries,
                                         pos : 0 .. Cap, write : BOOLEAN]]]
<1>1. CASE FreeFds(p) = {}  BY <1>1 DEF GiveFd, TypeInv, FsTypeOK
<1>2. CASE FreeFds(p) # {}
  <2> DEFINE s == First(FreeFds(p))
             fd == [used |-> TRUE, dir |-> i, pos |-> 0, write |-> w]
  <2>1. s \in Slots  BY <1>2, SearchFacts
  <2>2. fd \in [used : BOOLEAN, dir : Entries, pos : 0 .. Cap, write : BOOLEAN]
    BY DiskAssumption
  <2>3. fds' = [fds EXCEPT ![p][s] = fd]  BY <1>2 DEF GiveFd
  <2> HIDE DEF fd, s
  <2> QED  BY <2>1, <2>2, <2>3 DEF TypeInv, FsTypeOK
<1> QED  BY <1>1, <1>2

LEMMA EmptyTypes ==
    /\ EmptyFd \in [used : BOOLEAN, dir : Entries, pos : 0 .. Cap, write : BOOLEAN]
    /\ NoFds \in [Procs -> [Slots -> [used : BOOLEAN, dir : Entries,
                                      pos : 0 .. Cap, write : BOOLEAN]]]
    /\ ZeroEnt \in Entry
BY DiskAssumption DEF EmptyFd, NoFds, ZeroEnt, Entry, Entries

LEMMA InitTypeInv ==
    ASSUME Init
    PROVE  TypeInv
<1>1. <<>> \in Seq(Step)  OBVIOUS
<1> QED  BY <1>1, EmptyTypes DEF Init, TypeInv, FsTypeOK

LEMMA DiskTypeInv ==
    ASSUME TypeInv, Disk
    PROVE  TypeInv'
<1> USE DEF fsVars, diskVars, procVars
<1>1. CASE FlushSector
  <2>1. todo # <<>> /\ Head(todo).op = "flush"  BY <1>1 DEF FlushSector, Busy
  <2>2. todo' \in Seq(Step)  BY <1>1, <2>1, HeadFacts DEF FlushSector, TypeInv
  <2>3. /\ UNCHANGED sb \/ sb' = [magic |-> TRUE, next |-> next]
        /\ \/ UNCHANGED ddir
           \/ ddir' = [i \in Entries |-> IF DirLBA(SectorOf(i)) = Head(todo).lba
                                         THEN dir[i] ELSE ddir[i]]
    BY <1>1 DEF FlushSector
  <2>5. [magic |-> TRUE, next |-> next] \in [magic : BOOLEAN, next : Nat]
    <3>1. TRUE \in BOOLEAN /\ next \in Nat  BY DEF TypeInv, FsTypeOK
    <3> QED  BY <3>1, Zenon
  <2>6. sb' \in [magic : BOOLEAN, next : Nat]
    BY <2>3, <2>5, Zenon DEF TypeInv, FsTypeOK
  <2>7. ddir' \in [Entries -> Entry]
    BY <2>3 DEF TypeInv, FsTypeOK
  <2>4. UNCHANGED <<data, power, present, dir, next, live, fds>>
    BY <1>1 DEF FlushSector
  <2> QED  BY <2>2, <2>4, <2>6, <2>7 DEF TypeInv, FsTypeOK
<1>2. CASE SeedFile
  <2>1. todo # <<>> /\ Head(todo).op = "seed"  BY <1>2 DEF SeedFile, Busy
  <2>2. Head(todo).name \in Names /\ Tail(todo) \in Seq(Step)
    BY <2>1, HeadFacts DEF TypeInv
  <2>3. CASE Unused = {}
    BY <1>2, <2>2, <2>3 DEF SeedFile, TypeInv, FsTypeOK
  <2>4. CASE Unused # {}
    <3> DEFINE bytes == [k \in 1 .. Len(SeedBytes) |-> SeedByte(First(Unused), k)]
    <3>1. bytes \in Seq(Step)  BY <2>4, SearchFacts, StepFacts
    <3>2. Create(Head(todo).name, bytes \o Tail(todo))  BY <1>2, <2>4 DEF SeedFile
    <3> HIDE DEF bytes
    <3>3. bytes \o Tail(todo) \in Seq(Step)  BY <2>2, <3>1, ConcatProperties
    <3>4. dir' \in [Entries -> Entry] /\ next' \in Nat /\ todo' \in Seq(Step)
      BY <2>2, <2>4, <3>2, <3>3, CreateType
    <3> QED  BY <1>2, <3>4 DEF SeedFile, TypeInv, FsTypeOK
  <2> QED  BY <2>3, <2>4
<1>3. CASE SeedContent
  <2>1. todo # <<>> /\ Head(todo).op = "byte"  BY <1>3 DEF SeedContent, Busy
  <2> DEFINE s == Head(todo)
  <2>2. /\ s.ent \in Entries /\ s.pos \in Positions /\ s.b \in Bytes
        /\ Tail(todo) \in Seq(Step)
    BY <2>1, HeadFacts DEF TypeInv
  <2>3. s.pos \in 0 .. Cap  BY <2>2, DiskAssumption DEF Positions
  <2>4. \/ WriteAt(s.ent, s.pos, s.b, Tail(todo))
        \/ WriteAtFails(s.ent, s.pos, s.b, Tail(todo))
    BY <1>3 DEF SeedContent
  <2> HIDE DEF s
  <2>5. /\ dir' \in [Entries -> Entry] /\ todo' \in Seq(Step)
        /\ data' \in [Extents -> [Positions -> Bytes \cup {Blank}]]
    BY <2>2, <2>3, <2>4, WriteAtType, WriteAtFailsType
  <2> QED  BY <1>3, <2>5 DEF SeedContent, TypeInv, FsTypeOK
<1> QED  BY <1>1, <1>2, <1>3 DEF Disk

LEMMA BootTypeInv ==
    ASSUME TypeInv, Boot
    PROVE  TypeInv'
<1> USE DEF fsVars, diskVars, procVars
<1>1. CASE NoDisk  BY <1>1 DEF NoDisk, TypeInv, FsTypeOK
<1>2. CASE Format
  <2> DEFINE sectors == [s \in 1 .. Cardinality(DirSectors) |-> Flush(DirLBA(s - 1))]
             seeds == [k \in 1 .. Len(Seeds) |-> Seed(Seeds[k])]
  <2>1. FlushSb \in Seq(Step) /\ sectors \in Seq(Step) /\ seeds \in Seq(Step)
    BY StepFacts
  <2>2. todo' = FlushSb \o sectors \o seeds  BY <1>2 DEF Format
  <2> HIDE DEF sectors, seeds
  <2>3. FlushSb \o sectors \in Seq(Step)  BY <2>1, ConcatProperties
  <2>4. todo' \in Seq(Step)  BY <2>1, <2>2, <2>3, ConcatProperties
  <2> QED  BY <1>2, <2>4 DEF Format, TypeInv, FsTypeOK
<1>3. CASE Mount  BY <1>3, EmptyTypes DEF Mount, TypeInv, FsTypeOK
<1>4. CASE Start
  BY <1>4, EmptyTypes, DiskAssumption DEF Start, TypeInv, FsTypeOK
<1>5. CASE PowerOff
  <2>1. dir' \in [Entries -> Entry]  BY <1>5, EmptyTypes DEF PowerOff
  <2>2. /\ power' = "off" /\ present' = FALSE /\ next' = 0 /\ todo' = <<>>
        /\ live' = {} /\ fds' = NoFds /\ UNCHANGED <<sb, ddir, data>>
    BY <1>5 DEF PowerOff
  <2>3. present' \in BOOLEAN  BY <2>2
  <2>4. next' \in Nat /\ todo' \in Seq(Step)  BY <2>2
  <2> QED  BY <2>1, <2>2, <2>3, <2>4, EmptyTypes DEF TypeInv, FsTypeOK
<1> QED  BY <1>1, <1>2, <1>3, <1>4, <1>5 DEF Boot

LEMMA SyscallTypeInv ==
    ASSUME TypeInv, NEW p \in Procs, Syscall(p)
    PROVE  TypeInv'
<1> USE DEF fsVars, diskVars, procVars
<1> USE DEF Fd
<1>0. <<>> \in Seq(Step)  OBVIOUS
<1>1. ASSUME NEW n \in Names, OpenRead(p, n) PROVE TypeInv'
  <2>1. fds' \in [Procs -> [Slots -> Fd]]
    <3>1. CASE Matches(n) = {}  BY <1>1, <3>1 DEF OpenRead, TypeInv, FsTypeOK
    <3>2. CASE Matches(n) # {}
      <4>1. First(Matches(n)) \in Entries  BY <3>2, SearchFacts DEF Named
      <4> QED  BY <1>1, <3>2, <4>1, GiveFdType DEF OpenRead
    <3> QED  BY <3>1, <3>2
  <2>2. UNCHANGED <<sb, ddir, data, power, present, dir, next, todo, live>>
    BY <1>1 DEF OpenRead
  <2> QED  BY <2>1, <2>2 DEF TypeInv, FsTypeOK
<1>2. ASSUME NEW n \in Names, OpenWrite(p, n) PROVE TypeInv'
  <2>1. /\ dir' \in [Entries -> Entry] /\ next' \in Nat /\ todo' \in Seq(Step)
        /\ fds' \in [Procs -> [Slots -> Fd]]
    <3>1. CASE Matches(n) # {}
      <4> DEFINE i == First(Matches(n))
      <4>1. i \in Entries  BY <3>1, SearchFacts DEF Named
      <4>2. Truncate(i) /\ GiveFd(p, i, TRUE) /\ UNCHANGED next
        BY <1>2, <3>1 DEF OpenWrite
      <4> HIDE DEF i
      <4>5. 0 \in 0 .. Cap /\ dir' = [dir EXCEPT ![i].len = 0]
        BY <4>2, DiskAssumption DEF Truncate
      <4>3. dir' \in [Entries -> Entry]  BY <4>1, <4>5, LenType
      <4>4. todo' \in Seq(Step)  BY <4>1, <4>2, StepFacts DEF Truncate
      <4> QED  BY <4>1, <4>2, <4>3, <4>4, GiveFdType DEF TypeInv, FsTypeOK
    <3>2. CASE Matches(n) = {} /\ present /\ Unused # {}
      <4>1. Create(n, <<>>) /\ GiveFd(p, First(Unused), TRUE)
        BY <1>2, <3>2 DEF OpenWrite
      <4>2. First(Unused) \in Entries  BY <3>2, SearchFacts
      <4> QED  BY <1>0, <3>2, <4>1, <4>2, CreateType, GiveFdType
    <3>3. CASE Matches(n) = {} /\ (~present \/ Unused = {})
      BY <1>2, <3>3 DEF OpenWrite, TypeInv, FsTypeOK
    <3> QED  BY <3>1, <3>2, <3>3
  <2>2. UNCHANGED <<sb, ddir, data, power, present, live>>
    BY <1>2 DEF OpenWrite
  <2> QED  BY <2>1, <2>2 DEF TypeInv, FsTypeOK
<1>3. ASSUME NEW n \in Names, ExecFile(p, n) PROVE TypeInv'
  <2>1. UNCHANGED <<sb, ddir, data, power, present, dir, next, todo, live, fds>>
    BY <1>3 DEF ExecFile
  <2> QED  BY <2>1 DEF TypeInv, FsTypeOK
<1>4. ASSUME NEW s \in Slots, Close(p, s) PROVE TypeInv'
  <2>1. fds' \in [Procs -> [Slots -> Fd]]
    BY <1>4, EmptyTypes DEF Close, TypeInv, FsTypeOK
  <2>2. UNCHANGED <<sb, ddir, data, power, present, dir, next, todo, live>>
    BY <1>4 DEF Close
  <2> QED  BY <2>1, <2>2 DEF TypeInv, FsTypeOK
<1>5. ASSUME NEW s \in Slots, Fread(p, s) PROVE TypeInv'
  <2>1. fds' \in [Procs -> [Slots -> Fd]]
    <3>1. CASE UNCHANGED fds  BY <3>1 DEF TypeInv, FsTypeOK
    <3>2. CASE ~ UNCHANGED fds
      <4>1. /\ fds[p][s].pos < Cap /\ fds' = [fds EXCEPT ![p][s].pos = @ + 1]
        BY <1>5, <3>2 DEF Fread, OnDisk
      <4>2. fds[p][s].pos + 1 \in 0 .. Cap
        BY <4>1, DiskAssumption DEF TypeInv, FsTypeOK
      <4> QED  BY <4>1, <4>2, FdMoves
    <3> QED  BY <3>1, <3>2
  <2>2. UNCHANGED <<sb, ddir, data, power, present, dir, next, todo, live>>
    BY <1>5 DEF Fread
  <2> QED  BY <2>1, <2>2 DEF TypeInv, FsTypeOK
<1>6. ASSUME NEW s \in Slots, NEW b \in Bytes, Fwrite(p, s, b) PROVE TypeInv'
  <2> DEFINE fd == fds[p][s]
  <2>0. fd \in Fd  BY DEF TypeInv, FsTypeOK
  <2>1. /\ dir' \in [Entries -> Entry] /\ todo' \in Seq(Step)
        /\ data' \in [Extents -> [Positions -> Bytes \cup {Blank}]]
        /\ fds' \in [Procs -> [Slots -> Fd]]
    <3>1. CASE WriteAt(fd.dir, fd.pos, b, <<>>) /\ fds' = [fds EXCEPT ![p][s].pos = @ + 1]
      <4>1. /\ dir' \in [Entries -> Entry] /\ todo' \in Seq(Step)
            /\ data' \in [Extents -> [Positions -> Bytes \cup {Blank}]]
            /\ fd.pos + 1 \in 0 .. Cap
        BY <1>0, <2>0, <3>1, WriteAtType
      <4>2. fds' \in [Procs -> [Slots -> Fd]]
        BY <3>1, <4>1, FdMoves
      <4> QED  BY <4>1, <4>2
    <3>2. CASE WriteAtFails(fd.dir, fd.pos, b, <<>>) /\ UNCHANGED fds
      BY <1>0, <2>0, <3>2, WriteAtFailsType DEF TypeInv, FsTypeOK
    <3>3. CASE UNCHANGED <<data, dir, todo, fds>>
      BY <3>3 DEF TypeInv, FsTypeOK
    <3> QED  BY <1>6, <3>1, <3>2, <3>3 DEF Fwrite
  <2>2. UNCHANGED <<sb, ddir, power, present, next, live>>
    BY <1>6 DEF Fwrite
  <2> QED  BY <2>1, <2>2 DEF TypeInv, FsTypeOK
<1>7. ASSUME NEW q \in Procs, Fork(p, q) PROVE TypeInv'
  <2>1. fds' \in [Procs -> [Slots -> Fd]] /\ live' \in SUBSET Procs
    BY <1>7 DEF Fork, TypeInv, FsTypeOK
  <2>2. UNCHANGED <<sb, ddir, data, power, present, dir, next, todo>>
    BY <1>7 DEF Fork
  <2> QED  BY <2>1, <2>2 DEF TypeInv, FsTypeOK
<1>8. ASSUME Exit(p) PROVE TypeInv'
  <2>1. /\ live' \in SUBSET Procs
        /\ UNCHANGED <<sb, ddir, data, power, present, dir, next, todo, fds>>
    BY <1>8 DEF Exit, TypeInv, FsTypeOK
  <2> QED  BY <2>1 DEF TypeInv, FsTypeOK
<1> QED  BY <1>1, <1>2, <1>3, <1>4, <1>5, <1>6, <1>7, <1>8 DEF Syscall

LEMMA NextTypeInv ==
    ASSUME TypeInv, [Next]_vars
    PROVE  TypeInv'
<1>1. CASE UNCHANGED vars
  BY <1>1 DEF vars, diskVars, fsVars, procVars, TypeInv, FsTypeOK
<1>2. CASE Next
  BY <1>2, DiskTypeInv, BootTypeInv, SyscallTypeInv DEF Next
<1> QED  BY <1>1, <1>2

\* Types: whatever fails and whenever the power goes, no position or length
\* passes the capacity of a file and no descriptor leaves the directory.
THEOREM TypesKept == Spec => []FsTypeOK
<1>1. TypeInv => FsTypeOK  BY DEF TypeInv
<1>2. Init => TypeInv  BY InitTypeInv
<1>3. TypeInv /\ [Next]_vars => TypeInv'  BY NextTypeInv
<1> QED  BY <1>1, <1>2, <1>3, PTL DEF Spec

-----------------------------------------------------------------------------
(* Steps, one kind of effect at a time *)

\* What is open, pending and cached in each phase: no descriptor outlives the
\* power or is given without a disk, and a system call only adds flushes.
Quiet ==
    /\ power = "off" => ~present
    /\ ~present => todo = <<>> /\ Named(dir) = {}
    /\ ~present \/ power # "on" => \A p \in Procs, s \in Slots : ~fds[p][s].used
    /\ power = "on" => \A k \in 1 .. Len(todo) : todo[k].op = "flush"

LEMMA ZeroNamed ==
    /\ \A i \in Entries : [j \in Entries |-> ZeroEnt][i] = ZeroEnt
    /\ Named([i \in Entries |-> ZeroEnt]) = {}
    /\ \A p \in Procs, s \in Slots : NoFds[p][s] = EmptyFd /\ ~EmptyFd.used
<1>1. \A i \in Entries : [j \in Entries |-> ZeroEnt][i] = ZeroEnt  OBVIOUS
<1>2. ZeroEnt.name = NoName /\ ~EmptyFd.used  BY DEF ZeroEnt, EmptyFd
<1>3. \A p \in Procs, s \in Slots : NoFds[p][s] = EmptyFd  BY DEF NoFds
<1> QED  BY <1>1, <1>2, <1>3 DEF Named

\* The steps that a call adds, in order.
LEMMA AddedFlushes ==
    ASSUME NEW i \in Entries
    PROVE  /\ Len(FlushEnt(i)) = 1 /\ FlushEnt(i)[1] = Flush(DirLBA(SectorOf(i)))
           /\ Len(FlushSb) = 1 /\ FlushSb[1] = Flush(Super)
           /\ FlushEnt(i) \o <<>> = FlushEnt(i)
           /\ Len(FlushEnt(i) \o FlushSb \o <<>>) = 2
           /\ (FlushEnt(i) \o FlushSb \o <<>>)[1] = Flush(DirLBA(SectorOf(i)))
           /\ (FlushEnt(i) \o FlushSb \o <<>>)[2] = Flush(Super)
BY DEF FlushEnt, FlushSb

LEMMA FlushOps == \A l : Flush(l).op = "flush" /\ Flush(l).lba = l
BY DEF Flush

LEMMA InitQuiet ==
    ASSUME Init
    PROVE  Quiet
BY ZeroNamed DEF Init, Quiet

LEMMA DiskQuiet ==
    ASSUME TypeInv, Quiet, Disk
    PROVE  Quiet'
<1> USE DEF fsVars, diskVars, procVars
<1>1. todo \in Seq(Step) /\ todo # <<>> /\ UNCHANGED <<power, present, fds>>
  BY DEF Disk, FlushSector, SeedFile, SeedContent, Busy, TypeInv
<1>2. present  BY <1>1 DEF Quiet
<1>3. ASSUME power = "on"
      PROVE  \A k \in 1 .. Len(todo') : todo'[k].op = "flush"
  <2>1. Head(todo) = todo[1] /\ 1 \in 1 .. Len(todo)  BY <1>1
  <2>2. Head(todo).op = "flush"  BY <1>3, <2>1 DEF Quiet
  <2>3. todo' = Tail(todo)
    BY <2>2 DEF Disk, FlushSector, SeedFile, SeedContent, Busy
  <2>4. \A k \in 1 .. Len(Tail(todo)) : Tail(todo)[k] = todo[k + 1] /\ k + 1 \in 1 .. Len(todo)
    BY <1>1, HeadTailProperties
  <2> QED  BY <1>3, <2>3, <2>4 DEF Quiet
<1> QED  BY <1>1, <1>2, <1>3 DEF Quiet

LEMMA BootQuiet ==
    ASSUME TypeInv, Quiet, Boot
    PROVE  Quiet'
<1> USE DEF fsVars, diskVars, procVars
<1>1. CASE NoDisk  BY <1>1 DEF NoDisk, Quiet
<1>2. CASE Format  BY <1>2 DEF Format, Quiet
<1>3. CASE Mount  BY <1>3 DEF Mount, Quiet
<1>4. CASE Start
  <2>1. \A p \in Procs, s \in Slots : ~fds'[p][s].used
    BY <1>4, ZeroNamed DEF Start
  <2>2. power' = "on" /\ todo' = <<>> /\ UNCHANGED <<present, dir, todo>>
    BY <1>4 DEF Start
  <2> QED  BY <2>1, <2>2 DEF Quiet, Named
<1>5. CASE PowerOff  BY <1>5, ZeroNamed DEF PowerOff, Quiet
<1> QED  BY <1>1, <1>2, <1>3, <1>4, <1>5 DEF Boot

LEMMA SyscallQuiet ==
    ASSUME TypeInv, Quiet, NEW p \in Procs, Syscall(p)
    PROVE  Quiet'
<1> USE DEF fsVars, diskVars, procVars
<1>1. power = "on" /\ todo = <<>> /\ UNCHANGED <<power, present>>
  BY DEF Syscall, OpenRead, OpenWrite, ExecFile, Close, Fread, Fwrite, Fork, Exit, Calls
<1>2. ASSUME ~present
      PROVE  todo' = <<>> /\ Named(dir') = {} /\ \A q \in Procs, t \in Slots : ~fds'[q][t].used
  <2>1. \A n \in Names : Matches(n) = {}  BY <1>2, DiskAssumption DEF Quiet, Matches, Named
  <2>2. \A q \in Procs, t \in Slots : ~fds[q][t].used  BY <1>2 DEF Quiet
  <2>3. UNCHANGED <<dir, todo>>
    BY <1>2, <2>1, <2>2
    DEF Syscall, OpenRead, OpenWrite, ExecFile, Close, Fread, Fwrite, Fork, Exit
  <2>4. \A q \in Procs, t \in Slots : ~fds'[q][t].used
    <3>1. CASE UNCHANGED fds  BY <2>2, <3>1
    <3>2. CASE \E s \in Slots : Close(p, s)
      BY <2>2, <3>2, ZeroNamed DEF Close, TypeInv, FsTypeOK
    <3>3. CASE \E q \in Procs : Fork(p, q)
      BY <2>2, <3>3 DEF Fork, TypeInv, FsTypeOK
    <3> QED
      BY <1>2, <2>1, <2>2, <3>1, <3>2, <3>3
      DEF Syscall, OpenRead, OpenWrite, ExecFile, Fread, Fwrite, Exit
  <2> QED  BY <1>1, <1>2, <2>3, <2>4 DEF Quiet
<1>3. \A k \in 1 .. Len(todo') : todo'[k].op = "flush"
  <2>1. CASE UNCHANGED todo  BY <1>1, <2>1 DEF Quiet
  <2>2. CASE \E i \in Entries : todo' = FlushEnt(i) \/ todo' = FlushEnt(i) \o FlushSb \o <<>>
                                  \/ todo' = FlushEnt(i) \o <<>>
    BY <2>2, AddedFlushes, FlushOps
  <2>3. ASSUME NEW n \in Names, OpenWrite(p, n), ~ UNCHANGED todo
        PROVE  \E i \in Entries : todo' = FlushEnt(i) \/ todo' = FlushEnt(i) \o FlushSb \o <<>>
    BY <2>3, SearchFacts DEF OpenWrite, Truncate, Create, Named
  <2>4. ASSUME NEW s \in Slots, NEW b \in Bytes, Fwrite(p, s, b), ~ UNCHANGED todo
        PROVE  \E i \in Entries : todo' = FlushEnt(i) \o <<>>
    <3>1. fds[p][s].dir \in Entries  BY DEF TypeInv, FsTypeOK
    <3>2. todo' = FlushEnt(fds[p][s].dir) \o <<>>
      BY <1>1, <2>4 DEF Fwrite, WriteAt, WriteAtFails
    <3> QED  BY <3>1, <3>2
  <2> QED
    BY <2>1, <2>2, <2>3, <2>4 DEF Syscall, OpenRead, ExecFile, Close, Fread, Fork, Exit
<1> QED  BY <1>1, <1>2, <1>3 DEF Quiet

LEMMA NextQuiet ==
    ASSUME TypeInv, Quiet, [Next]_vars
    PROVE  Quiet'
<1>1. CASE UNCHANGED vars
  BY <1>1 DEF vars, diskVars, fsVars, procVars, Quiet, Named
<1>2. CASE Next
  BY <1>2, DiskQuiet, BootQuiet, SyscallQuiet DEF Next
<1> QED  BY <1>1, <1>2

\* A new entry does not touch those with a name.
LEMMA CreateKeepsNamed ==
    ASSUME TypeInv, NEW n \in Names, NEW rest, Unused # {}, Create(n, rest)
    PROVE  \A i \in Entries :
             /\ i # First(Unused) => dir'[i] = dir[i]
             /\ i = First(Unused) => /\ dir'[i].name = IF n \in NulNames THEN NoName ELSE n
                                     /\ dir'[i].first = next /\ dir'[i].len = 0
<1>1. First(Unused) \in Entries  BY SearchFacts
<1> QED  BY <1>1 DEF Create, TypeInv, FsTypeOK

\* What write_at does to the cached directory and to the data.
LEMMA WriteAtEffect ==
    ASSUME TypeInv, NEW i \in Entries, NEW pos \in 0 .. Cap, NEW b \in Bytes, NEW rest,
           WriteAt(i, pos, b, rest)
    PROVE  /\ \A j \in Entries : /\ dir'[j].name = dir[j].name
                                 /\ dir'[j].first = dir[j].first
                                 /\ j # i => dir'[j].len = dir[j].len
                                 /\ dir'[i].len = IF pos + 1 > dir[i].len THEN pos + 1
                                                                          ELSE dir[i].len
           /\ OnDisk(i, pos) /\ data' = Written(i, pos, b)
<1>1. OnDisk(i, pos) /\ data' = Written(i, pos, b)  BY DEF WriteAt
<1>2. pos + 1 \in 0 .. Cap  BY <1>1, DiskAssumption DEF OnDisk
<1>3. CASE pos + 1 > dir[i].len
  <2>1. dir' = [dir EXCEPT ![i].len = pos + 1]  BY <1>3 DEF WriteAt
  <2> DEFINE e == [name |-> dir[i].name, first |-> dir[i].first, len |-> pos + 1]
  <2>2. \A j \in Entries : dir'[j] = IF j = i THEN e ELSE dir[j]
    BY <1>2, <2>1, LenType
  <2>3. e.name = dir[i].name /\ e.first = dir[i].first /\ e.len = pos + 1  OBVIOUS
  <2> HIDE DEF e
  <2> QED  BY <1>1, <1>3, <2>2, <2>3
<1>4. CASE ~(pos + 1 > dir[i].len)  BY <1>1, <1>4 DEF WriteAt
<1> QED  BY <1>3, <1>4

\* Writing a byte changes that byte only, to something that is not blank.
LEMMA WrittenFacts ==
    ASSUME TypeInv, NEW i \in Entries, NEW pos \in 0 .. Cap, NEW b \in Bytes,
           OnDisk(i, pos)
    PROVE  /\ Written(i, pos, b)[dir[i].first][pos] = b /\ b # Blank
           /\ \A e \in Extents, k \in Positions :
                data[e][k] # Blank => Written(i, pos, b)[e][k] # Blank
<1>1. pos \in Positions /\ dir[i].first \in Extents  BY WrittenType DEF OnDisk
<1> QED  BY <1>1, DiskAssumption DEF Written, TypeInv, FsTypeOK

\* While the machine runs, no named entry goes away or gets another extent.
LEMMA NamedStays ==
    ASSUME TypeInv, Quiet, Next, power # "off", power' # "off"
    PROVE  \A i \in Named(dir) : /\ i \in Named(dir') /\ dir'[i].name = dir[i].name
                                 /\ dir'[i].first = dir[i].first
<1> USE DEF fsVars, diskVars, procVars
<1> DEFINE Same == \A i \in Named(dir) : /\ i \in Named(dir') /\ dir'[i].name = dir[i].name
                                         /\ dir'[i].first = dir[i].first
<1>0. CASE UNCHANGED dir  BY <1>0 DEF Named
<1>1. ASSUME NEW n \in Names, NEW rest, Unused # {}, Create(n, rest) PROVE Same
  BY <1>1, CreateKeepsNamed, SearchFacts DEF Named
<1>2. ASSUME NEW i \in Entries, NEW pos \in 0 .. Cap, NEW b \in Bytes, NEW rest,
             WriteAt(i, pos, b, rest)
      PROVE  Same
  BY <1>2, WriteAtEffect DEF Named
<1>3. ASSUME NEW p \in Procs, NEW n \in Names, OpenWrite(p, n) PROVE Same
  <2>1. CASE Matches(n) # {}
    <3>1. First(Matches(n)) \in Entries /\ 0 \in 0 .. Cap
      BY <2>1, SearchFacts, DiskAssumption DEF Named
    <3>2. dir' = [dir EXCEPT ![First(Matches(n))].len = 0]
      BY <1>3, <2>1 DEF OpenWrite, Truncate
    <3> QED  BY <3>1, <3>2, LenType DEF Named
  <2>2. CASE Matches(n) = {}
    BY <1>0, <1>1, <1>3, <2>2 DEF OpenWrite
  <2> QED  BY <2>1, <2>2
<1> HIDE DEF Same
<1>4. CASE Disk
  <2>1. CASE FlushSector  BY <1>0, <2>1 DEF FlushSector, Same
  <2>2. CASE SeedFile
    <3>1. todo # <<>> /\ Head(todo).op = "seed"  BY <2>2 DEF SeedFile, Busy
    <3>2. Head(todo).name \in Names  BY <3>1, HeadFacts DEF TypeInv
    <3> QED  BY <1>0, <1>1, <2>2, <3>2 DEF SeedFile, Same
  <2>3. CASE SeedContent
    <3>1. todo # <<>> /\ Head(todo).op = "byte"  BY <2>3 DEF SeedContent, Busy
    <3>2. /\ Head(todo).ent \in Entries /\ Head(todo).b \in Bytes
          /\ Head(todo).pos \in 0 .. Cap
      BY <3>1, HeadFacts, DiskAssumption DEF TypeInv, Positions
    <3> QED  BY <1>0, <1>2, <2>3, <3>2 DEF SeedContent, WriteAtFails, Same
  <2> QED  BY <1>4, <2>1, <2>2, <2>3 DEF Disk
<1>5. CASE Boot
  BY <1>0, <1>5 DEF Boot, NoDisk, Format, Mount, Start, PowerOff, Same
<1>6. ASSUME NEW p \in Procs, Syscall(p) PROVE Same
  <2>1. ASSUME NEW s \in Slots, NEW b \in Bytes, Fwrite(p, s, b) PROVE Same
    <3>1. fds[p][s].dir \in Entries /\ fds[p][s].pos \in 0 .. Cap  BY DEF TypeInv, FsTypeOK
    <3> QED  BY <1>0, <1>2, <2>1, <3>1 DEF Fwrite, WriteAtFails, Same
  <2> QED
    BY <1>0, <1>3, <1>6, <2>1
    DEF Syscall, OpenRead, ExecFile, Close, Fread, Fork, Exit, Same
<1> QED  BY <1>4, <1>5, <1>6 DEF Next, Same

\* What has been written stays written.
LEMMA StaysWritten ==
    ASSUME TypeInv, Next
    PROVE  \A e \in Extents, k \in Positions : data[e][k] # Blank => data'[e][k] # Blank
<1> USE DEF fsVars, diskVars, procVars
<1> DEFINE Kept == \A e \in Extents, k \in Positions : data[e][k] # Blank => data'[e][k] # Blank
<1>0. CASE UNCHANGED data  BY <1>0
<1>1. ASSUME NEW i \in Entries, NEW pos \in 0 .. Cap, NEW b \in Bytes, NEW rest,
             WriteAt(i, pos, b, rest) \/ WriteAtFails(i, pos, b, rest)
      PROVE  Kept
  BY <1>0, <1>1, WrittenFacts DEF WriteAt, WriteAtFails
<1> HIDE DEF Kept
<1>2. CASE SeedContent
  <2>1. todo # <<>> /\ Head(todo).op = "byte"  BY <1>2 DEF SeedContent, Busy
  <2>2. /\ Head(todo).ent \in Entries /\ Head(todo).b \in Bytes
        /\ Head(todo).pos \in 0 .. Cap
    BY <2>1, HeadFacts, DiskAssumption DEF TypeInv, Positions
  <2> QED  BY <1>1, <1>2, <2>2 DEF SeedContent, Kept
<1>3. ASSUME NEW p \in Procs, NEW s \in Slots, NEW b \in Bytes, Fwrite(p, s, b) PROVE Kept
  <2>1. fds[p][s].dir \in Entries /\ fds[p][s].pos \in 0 .. Cap  BY DEF TypeInv, FsTypeOK
  <2> QED  BY <1>0, <1>1, <1>3, <2>1 DEF Fwrite, Kept
<1>4. ASSUME NEW p \in Procs, Syscall(p) PROVE Kept
  BY <1>0, <1>3, <1>4
  DEF Syscall, OpenRead, OpenWrite, ExecFile, Close, Fread, Fork, Exit, Kept
<1> QED
  BY <1>0, <1>2, <1>4
  DEF Next, Disk, Boot, FlushSector, SeedFile, NoDisk, Format, Mount, Start, PowerOff, Kept

\* Where an open descriptor comes from: it was there, perhaps in the process
\* that forked; it is new; or a byte was read or written and it moved on.
Inherited(p, s) ==
    \E q \in Procs : fds'[p][s] = fds[q][s] /\ fds[q][s].used

Fresh(p, s) ==
    fds'[p][s].pos = 0 /\ (NulNames = {} => fds'[p][s].dir \in Named(dir'))

Moved(p, s) ==
    LET fd == fds[p][s]
    IN  /\ fd.used /\ fds'[p][s].dir = fd.dir /\ fds'[p][s].write = fd.write
        /\ fds'[p][s].pos = fd.pos + 1
        /\ fd.write => \E b \in Bytes : OnDisk(fd.dir, fd.pos)
                                        /\ data' = Written(fd.dir, fd.pos, b)

LEMMA DescriptorSteps ==
    ASSUME TypeInv, Quiet, Next, NEW p \in Procs, NEW s \in Slots, fds'[p][s].used
    PROVE  /\ power = "on" /\ power' = "on"
           /\ Inherited(p, s) \/ Fresh(p, s) \/ Moved(p, s)
<1> USE DEF fsVars, diskVars, procVars
<1>0. power' = "on"  BY NextQuiet DEF Quiet
<1>1. CASE UNCHANGED fds  BY <1>0, <1>1 DEF Quiet, Inherited
<1>2. CASE Boot
  BY <1>1, <1>2, ZeroNamed DEF Boot, NoDisk, Format, Mount, Start, PowerOff
<1>3. ASSUME NEW q \in Procs, NEW i \in Entries, NEW w \in BOOLEAN, GiveFd(q, i, w),
             ~ UNCHANGED fds
      PROVE  Inherited(p, s) \/ (fds'[p][s].pos = 0 /\ fds'[p][s].dir = i)
  <2> DEFINE t == First(FreeFds(q))
             fd == [used |-> TRUE, dir |-> i, pos |-> 0, write |-> w]
  <2>1. t \in Slots /\ fds' = [fds EXCEPT ![q][t] = fd]  BY <1>3, SearchFacts DEF GiveFd
  <2>2. fd.pos = 0 /\ fd.dir = i  OBVIOUS
  <2> HIDE DEF fd, t
  <2>3. fds'[p][s] = IF p = q /\ s = t THEN fd ELSE fds[p][s]
    BY <2>1 DEF TypeInv, FsTypeOK
  <2>4. CASE p = q /\ s = t  BY <2>2, <2>3, <2>4
  <2>5. CASE ~(p = q /\ s = t)
    <3>1. fds'[p][s] = fds[p][s]  BY <2>3, <2>5
    <3> QED  BY <3>1 DEF Inherited
  <2> QED  BY <2>4, <2>5
<1>4. ASSUME NEW q \in Procs, NEW n \in Names, OpenRead(q, n), ~ UNCHANGED fds
      PROVE  Inherited(p, s) \/ Fresh(p, s)
  <2>1. Matches(n) # {} /\ GiveFd(q, First(Matches(n)), FALSE) /\ UNCHANGED dir
    BY <1>4 DEF OpenRead
  <2>2. First(Matches(n)) \in Named(dir)  BY <2>1, SearchFacts
  <2> QED  BY <1>3, <1>4, <2>1, <2>2 DEF Fresh, Named
<1>5. ASSUME NEW q \in Procs, NEW n \in Names, OpenWrite(q, n), ~ UNCHANGED fds
      PROVE  Inherited(p, s) \/ Fresh(p, s)
  <2>1. power = "on" /\ power' = "on"  BY <1>5 DEF OpenWrite, Calls
  <2>2. CASE Matches(n) # {}
    <3>1. First(Matches(n)) \in Named(dir) /\ GiveFd(q, First(Matches(n)), TRUE)
      BY <1>5, <2>2, SearchFacts DEF OpenWrite
    <3>2. First(Matches(n)) \in Entries  BY <3>1 DEF Named
    <3>3. First(Matches(n)) \in Named(dir')  BY <2>1, <3>1, NamedStays
    <3> QED  BY <1>3, <1>5, <3>1, <3>2, <3>3 DEF Fresh
  <2>3. CASE Matches(n) = {}
    <3>1. Unused # {} /\ Create(n, <<>>) /\ GiveFd(q, First(Unused), TRUE)
      BY <1>5, <2>3 DEF OpenWrite
    <3>2. First(Unused) \in Entries  BY <3>1, SearchFacts
    <3>3. dir'[First(Unused)].name = IF n \in NulNames THEN NoName ELSE n
      BY <3>1, <3>2, CreateKeepsNamed
    <3>4. NulNames = {} => First(Unused) \in Named(dir')
      BY <3>2, <3>3, DiskAssumption DEF Named
    <3> QED  BY <1>3, <1>5, <3>1, <3>2, <3>4 DEF Fresh
  <2> QED  BY <2>2, <2>3
<1>6. ASSUME NEW q \in Procs, NEW t \in Slots, Close(q, t) PROVE Inherited(p, s)
  <2>1. fds'[p][s] = IF p = q /\ s = t THEN EmptyFd ELSE fds[p][s]
    BY <1>6 DEF Close, TypeInv, FsTypeOK
  <2>2. fds'[p][s] = fds[p][s]  BY <2>1, ZeroNamed
  <2> QED  BY <2>2 DEF Inherited
<1>7. ASSUME NEW q \in Procs, NEW r \in Procs, Fork(q, r) PROVE Inherited(p, s)
  <2>1. fds'[p] = IF p = r THEN fds[q] ELSE fds[p]
    BY <1>7 DEF Fork, TypeInv, FsTypeOK
  <2>2. fds'[p][s] = fds[q][s] \/ fds'[p][s] = fds[p][s]  BY <2>1
  <2> QED  BY <2>2 DEF Inherited
<1>8. ASSUME NEW q \in Procs, NEW t \in Slots, fds[q][t].used, fds[q][t].pos < Cap,
             fds' = [fds EXCEPT ![q][t].pos = @ + 1],
             fds[q][t].write => \E b \in Bytes : OnDisk(fds[q][t].dir, fds[q][t].pos)
                                  /\ data' = Written(fds[q][t].dir, fds[q][t].pos, b)
      PROVE  Inherited(p, s) \/ Moved(p, s)
  <2>1. fds[q][t].pos + 1 \in 0 .. Cap
    <3> DEFINE x == fds[q][t].pos
    <3>1. x \in 0 .. Cap /\ Cap \in Nat  BY FdRange
    <3>2. x < Cap  BY <1>8
    <3> HIDE DEF x
    <3>4. x + 1 \in 0 .. Cap  BY <3>1, <3>2
    <3> QED  BY <3>4 DEF x
  <2> DEFINE fd == [used |-> fds[q][t].used, dir |-> fds[q][t].dir,
                    pos |-> fds[q][t].pos + 1, write |-> fds[q][t].write]
             moved == [fds EXCEPT ![q][t].pos = @ + 1]
  <2>5. moved[p][s] = IF p = q /\ s = t THEN fd ELSE fds[p][s]
    BY <2>1, FdMoves
  <2>6. fds' = moved  BY <1>8
  <2> HIDE DEF fd, moved
  <2>2. fds'[p][s] = IF p = q /\ s = t THEN fd ELSE fds[p][s]
    BY <2>5, <2>6
  <2>3. CASE p = q /\ s = t  BY <1>8, <2>2, <2>3 DEF Moved, fd
  <2>4. CASE ~(p = q /\ s = t)
    <3>1. fds'[p][s] = fds[p][s]  BY <2>2, <2>4
    <3> QED  BY <3>1 DEF Inherited
  <2> QED  BY <2>3, <2>4
<1>9. ASSUME NEW q \in Procs, NEW t \in Slots, Fread(q, t), ~ UNCHANGED fds
      PROVE  Inherited(p, s) \/ Moved(p, s)
  BY <1>8, <1>9 DEF Fread, OnDisk
<1>10. ASSUME NEW q \in Procs, NEW t \in Slots, NEW b \in Bytes, Fwrite(q, t, b),
              ~ UNCHANGED fds
       PROVE  Inherited(p, s) \/ Moved(p, s)
  BY <1>8, <1>10 DEF Fwrite, WriteAt, OnDisk
<1>11. ASSUME NEW q \in Procs, Syscall(q), ~ UNCHANGED fds
       PROVE  power = "on" /\ (Inherited(p, s) \/ Fresh(p, s) \/ Moved(p, s))
  <2>1. power = "on"
    BY <1>11 DEF Syscall, OpenRead, OpenWrite, ExecFile, Close, Fread, Fwrite, Fork, Exit, Calls
  <2> QED
    BY <1>4, <1>5, <1>6, <1>7, <1>9, <1>10, <1>11, <2>1 DEF Syscall, ExecFile, Exit
<1>12. CASE Disk  BY <1>1, <1>12 DEF Disk, FlushSector, SeedFile, SeedContent
<1> QED  BY <1>0, <1>1, <1>2, <1>11, <1>12 DEF Next

-----------------------------------------------------------------------------
(* Descriptors *)

HandleInv == TypeInv /\ Quiet /\ HandlesAreNamed /\ WriterLeavesNoGap

LEMMA InitHandleInv ==
    ASSUME Init
    PROVE  HandleInv
BY InitTypeInv, InitQuiet, ZeroNamed
DEF HandleInv, HandlesAreNamed, WriterLeavesNoGap, Init

LEMMA NextHandlesNamed ==
    ASSUME NulNames = {}, HandleInv, Next
    PROVE  HandlesAreNamed'
<1> SUFFICES ASSUME NEW p \in Procs, NEW s \in Slots, fds'[p][s].used
             PROVE  fds'[p][s].dir \in Named(dir')
  BY DEF HandlesAreNamed, Named
<1>1. /\ power = "on" /\ power' = "on"
      /\ Inherited(p, s) \/ Fresh(p, s) \/ Moved(p, s)
  BY DescriptorSteps DEF HandleInv
<1>2. \A i \in Named(dir) : i \in Named(dir')  BY <1>1, NamedStays DEF HandleInv
<1>3. CASE Fresh(p, s)  BY <1>3 DEF Fresh
<1>4. CASE Inherited(p, s) \/ Moved(p, s)
  BY <1>2, <1>4 DEF Inherited, Moved, HandleInv, HandlesAreNamed
<1> QED  BY <1>1, <1>3, <1>4

LEMMA NextNoGap ==
    ASSUME NulNames = {}, HandleInv, Next
    PROVE  WriterLeavesNoGap'
<1> USE DEF HandleInv
<1> SUFFICES ASSUME NEW p \in Procs, NEW s \in Slots, fds'[p][s].used, fds'[p][s].write,
                    dir'[fds'[p][s].dir].first \in Extents,
                    NEW pos \in 0 .. fds'[p][s].pos - 1
             PROVE  data'[dir'[fds'[p][s].dir].first][pos] # Blank
  BY DEF WriterLeavesNoGap
<1>1. /\ power = "on" /\ power' = "on"
      /\ Inherited(p, s) \/ Fresh(p, s) \/ Moved(p, s)
  BY DescriptorSteps
<1>2. \A i \in Named(dir) : dir'[i].first = dir[i].first  BY <1>1, NamedStays
<1>3. \A e \in Extents, k \in Positions : data[e][k] # Blank => data'[e][k] # Blank
  BY StaysWritten
<1>4. \A q \in Procs, t \in Slots :
        /\ fds[q][t].pos \in 0 .. Cap
        /\ fds[q][t].used => fds[q][t].dir \in Named(dir) /\ fds[q][t].dir \in Entries
  BY DEF TypeInv, FsTypeOK, HandlesAreNamed
<1>5. CASE Inherited(p, s)
  <2>1. PICK q \in Procs : fds'[p][s] = fds[q][s] /\ fds[q][s].used  BY <1>5 DEF Inherited
  <2> DEFINE fd == fds[q][s]
  <2>2. dir'[fd.dir].first = dir[fd.dir].first /\ fd.pos \in 0 .. Cap
    BY <1>2, <1>4, <2>1
  <2>3. data[dir[fd.dir].first][pos] # Blank
    BY <2>1, <2>2 DEF WriterLeavesNoGap
  <2>4. pos \in Positions  BY <2>1, <2>2, DiskAssumption DEF Positions
  <2> QED  BY <1>3, <2>1, <2>2, <2>3, <2>4
<1>6. CASE Fresh(p, s)  BY <1>6 DEF Fresh
<1>7. CASE Moved(p, s)
  <2> DEFINE fd == fds[p][s]
  <2>1. /\ fd.used /\ fds'[p][s].dir = fd.dir /\ fd.write
        /\ fds'[p][s].pos = fd.pos + 1
    BY <1>7 DEF Moved
  <2>2. PICK b \in Bytes : OnDisk(fd.dir, fd.pos) /\ data' = Written(fd.dir, fd.pos, b)
    BY <1>7, <2>1 DEF Moved
  <2>3. /\ dir'[fd.dir].first = dir[fd.dir].first
        /\ fd.pos \in 0 .. Cap /\ fd.dir \in Entries
    BY <1>2, <1>4, <2>1
  <2>4. CASE pos = fd.pos
    <3>1. data'[dir[fd.dir].first][fd.pos] # Blank
      <4>1. Written(fd.dir, fd.pos, b)[dir[fd.dir].first][fd.pos] = b /\ b # Blank
        BY <2>2, <2>3, WrittenFacts
      <4> QED  BY <2>2, <4>1
    <3> QED  BY <2>1, <2>3, <2>4, <3>1
  <2>5. CASE pos # fd.pos
    <3>1. pos \in 0 .. fd.pos - 1 /\ pos \in Positions
      BY <2>1, <2>3, <2>5, DiskAssumption DEF Positions
    <3>2. data[dir[fd.dir].first][pos] # Blank
      BY <2>1, <2>3, <3>1 DEF WriterLeavesNoGap
    <3> QED  BY <1>3, <2>1, <2>3, <3>1, <3>2
  <2> QED  BY <2>4, <2>5
<1> QED  BY <1>1, <1>5, <1>6, <1>7

LEMMA NextHandleInv ==
    ASSUME NulNames = {}, HandleInv, [Next]_vars
    PROVE  HandleInv'
<1>1. TypeInv' /\ Quiet'  BY NextTypeInv, NextQuiet DEF HandleInv
<1>2. CASE UNCHANGED vars
  BY <1>1, <1>2
  DEF vars, diskVars, fsVars, procVars, HandleInv, HandlesAreNamed, WriterLeavesNoGap, Named
<1>3. CASE Next
  BY <1>1, <1>3, NextHandlesNamed, NextNoGap DEF HandleInv
<1> QED  BY <1>2, <1>3

\* open, close, fork, exit and restarts in any order, and any failure: an open
\* descriptor denotes a file that find() finds, if no name starts with NUL.
THEOREM HandlesStayNamed ==
    ASSUME NulNames = {}
    PROVE  Spec => []HandlesAreNamed
<1>1. HandleInv => HandlesAreNamed  BY DEF HandleInv
<1>2. Init => HandleInv  BY InitHandleInv
<1>3. HandleInv /\ [Next]_vars => HandleInv'  BY NextHandleInv
<1> QED  BY <1>1, <1>2, <1>3, PTL DEF Spec

\* A writing descriptor has passed no position that was not written, whatever
\* other descriptors did to the file and whichever writes failed.
THEOREM WritersLeaveNoGap ==
    ASSUME NulNames = {}
    PROVE  Spec => []WriterLeavesNoGap
<1>1. HandleInv => WriterLeavesNoGap  BY DEF HandleInv
<1>2. Init => HandleInv  BY InitHandleInv
<1>3. HandleInv /\ [Next]_vars => HandleInv'  BY NextHandleInv
<1> QED  BY <1>1, <1>2, <1>3, PTL DEF Spec

-----------------------------------------------------------------------------
(* Files stay *)

\* The cached directory has every file of the disk's where the disk has it;
\* a disk without the magic has no file, and the first thing its formatting
\* does is to write the superblock.
StayInv ==
    /\ TypeInv /\ Quiet
    /\ present => \A i \in Named(ddir) : /\ i \in Named(dir)
                                         /\ dir[i].name = ddir[i].name
                                         /\ dir[i].first = ddir[i].first
    /\ ~sb.magic => /\ Named(ddir) = {}
                    /\ present => power = "boot" /\ todo # <<>> /\ Head(todo) = Flush(Super)

\* What formatting has to do starts with the superblock.
LEMMA FormatSteps ==
    ASSUME Format
    PROVE  /\ todo' # <<>> /\ Head(todo') = Flush(Super)
           /\ \E rest \in Seq(Step) : todo' = FlushSb \o rest
<1> DEFINE sectors == [s \in 1 .. Cardinality(DirSectors) |-> Flush(DirLBA(s - 1))]
           seeds == [k \in 1 .. Len(Seeds) |-> Seed(Seeds[k])]
<1>1. FlushSb \in Seq(Step) /\ sectors \in Seq(Step) /\ seeds \in Seq(Step)
  BY StepFacts
<1>2. todo' = (FlushSb \o sectors) \o seeds  BY DEF Format
<1> HIDE DEF sectors, seeds
<1>8. (FlushSb \o sectors) \o seeds = FlushSb \o (sectors \o seeds)
  BY <1>1, ConcatAssociative
<1>3. todo' = FlushSb \o (sectors \o seeds)  BY <1>2, <1>8
<1>4. sectors \o seeds \in Seq(Step)  BY <1>1, ConcatProperties
<1> DEFINE rest == sectors \o seeds
<1>5. rest \in Seq(Step) /\ todo' = FlushSb \o rest  BY <1>3, <1>4
<1> HIDE DEF rest
<1>6. /\ Len(FlushSb \o rest) = Len(FlushSb) + Len(rest) /\ FlushSb \o rest \in Seq(Step)
      /\ Len(FlushSb) = 1 /\ FlushSb[1] = Flush(Super)
      /\ (FlushSb \o rest)[1] = FlushSb[1]
  <2>1. Len(FlushSb) = 1 /\ FlushSb[1] = Flush(Super)  BY DEF FlushSb
  <2>2. /\ FlushSb \o rest \in Seq(Step)
        /\ Len(FlushSb \o rest) = Len(FlushSb) + Len(rest)
        /\ \A k \in 1 .. Len(FlushSb) + Len(rest) :
             (FlushSb \o rest)[k] = IF k <= Len(FlushSb) THEN FlushSb[k]
                                                         ELSE rest[k - Len(FlushSb)]
    BY <1>1, <1>5, ConcatProperties
  <2>3. Len(rest) \in Nat  BY <1>5, LenProperties
  <2> QED  BY <2>1, <2>2, <2>3
<1>7. todo' # <<>> /\ Head(todo') = todo'[1]  BY <1>1, <1>5, <1>6, LenProperties
<1> QED  BY <1>5, <1>6, <1>7

\* Without errors init reads the whole directory.
LEMMA MountReads ==
    ASSUME "mount" \notin Faults, Mount
    PROVE  \A i \in Entries : dir'[i] = ddir[i]
BY DEF Mount

LEMMA InitStayInv ==
    ASSUME Init
    PROVE  StayInv
BY InitTypeInv, InitQuiet, ZeroNamed DEF StayInv, Init

LEMMA NextStay ==
    ASSUME "mount" \notin Faults, StayInv, Next
    PROVE  /\ StayInv'
           /\ \A i \in Named(ddir) : ddir'[i].name = ddir[i].name
                                     /\ ddir'[i].first = ddir[i].first
<1> USE DEF fsVars, diskVars, procVars
<1>0. TypeInv /\ Quiet /\ TypeInv' /\ Quiet'  BY NextTypeInv, NextQuiet DEF StayInv
<1>1. CASE FlushSector
  <2>1. /\ todo # <<>> /\ Head(todo).op = "flush" /\ power # "off"
        /\ UNCHANGED <<dir, present, power>>
    BY <1>1 DEF FlushSector, Busy
  <2>2. present  BY <1>0, <2>1 DEF Quiet
  <2>3. CASE ~sb.magic
    <3>1. power = "boot" /\ Head(todo) = Flush(Super) /\ Named(ddir) = {}
      BY <2>2, <2>3 DEF StayInv
    <3>2. ~MayFail("write") /\ Head(todo).lba = Super
      BY <3>1, FlushOps DEF MayFail
    <3>3. sb' = [magic |-> TRUE, next |-> next] /\ UNCHANGED ddir
      BY <1>1, <3>2 DEF FlushSector
    <3>4. sb'.magic  BY <3>3
    <3> QED  BY <1>0, <2>2, <3>1, <3>3, <3>4 DEF StayInv, Named
  <2>4. CASE sb.magic
    <3>1. sb' = sb \/ sb' = [magic |-> TRUE, next |-> next]  BY <1>1 DEF FlushSector
    <3>2. sb'.magic
      <4>1. CASE sb' = sb  BY <2>4, <4>1
      <4>2. CASE sb' = [magic |-> TRUE, next |-> next]  BY <4>2
      <4> QED  BY <3>1, <4>1, <4>2
    <3>3. \A i \in Entries : ddir'[i] = dir[i] \/ ddir'[i] = ddir[i]
      BY <1>1 DEF FlushSector
    <3>4. \A i \in Named(ddir) : /\ dir[i].name = ddir[i].name /\ i \in Named(dir)
                                 /\ dir[i].first = ddir[i].first /\ i \in Entries
      BY <2>2 DEF StayInv, Named
    <3>5. \A i \in Named(ddir) : ddir'[i].name = ddir[i].name
                                 /\ ddir'[i].first = ddir[i].first
      BY <3>3, <3>4
    <3>6. \A i \in Named(ddir') : /\ i \in Named(dir') /\ dir'[i].name = ddir'[i].name
                                  /\ dir'[i].first = ddir'[i].first
      <4> SUFFICES ASSUME NEW i \in Named(ddir')
                   PROVE  /\ i \in Named(dir') /\ dir'[i].name = ddir'[i].name
                          /\ dir'[i].first = ddir'[i].first
        OBVIOUS
      <4>1. i \in Entries /\ ddir'[i].name # NoName /\ dir' = dir  BY <2>1 DEF Named
      <4>2. CASE ddir'[i] = dir[i]  BY <4>1, <4>2 DEF Named
      <4>3. CASE ddir'[i] = ddir[i]
        <5>1. i \in Named(ddir)  BY <4>1, <4>3 DEF Named
        <5> QED  BY <3>4, <4>1, <4>3, <5>1
      <4> QED  BY <3>3, <4>1, <4>2, <4>3
    <3> QED  BY <1>0, <3>2, <3>5, <3>6 DEF StayInv
  <2> QED  BY <2>3, <2>4
<1>2. CASE SeedFile \/ SeedContent
  <2>1. /\ todo # <<>> /\ Head(todo).op # "flush" /\ power # "off"
        /\ UNCHANGED <<sb, ddir, present, power>>
    BY <1>2 DEF SeedFile, SeedContent, Busy
  <2>2. present /\ sb.magic  BY <1>0, <2>1, FlushOps DEF Quiet, StayInv
  <2>3. \A i \in Named(dir) : /\ i \in Named(dir') /\ dir'[i].name = dir[i].name
                              /\ dir'[i].first = dir[i].first
    BY <1>0, <2>1, NamedStays
  <2> QED  BY <1>0, <2>1, <2>2, <2>3 DEF StayInv, Named
<1>3. CASE Boot
  <2>1. UNCHANGED <<sb, ddir>>
    BY <1>3 DEF Boot, NoDisk, Format, Mount, Start, PowerOff
  <2>2. CASE NoDisk \/ PowerOff
    <3>1. ~present'  BY <1>0, <2>2 DEF NoDisk, PowerOff, Quiet
    <3> QED  BY <1>0, <2>1, <3>1 DEF StayInv, Named
  <2>3. CASE Format
    <3>1. Named(ddir) = {} /\ power' = "boot"  BY <2>3 DEF Format, StayInv
    <3> QED  BY <1>0, <2>1, <2>3, <3>1, FormatSteps DEF StayInv, Named
  <2>4. CASE Mount
    <3>1. sb.magic  BY <2>4 DEF Mount
    <3> QED  BY <1>0, <2>1, <2>4, <3>1, MountReads DEF StayInv, Named
  <2>5. CASE Start
    <3>1. todo = <<>> /\ UNCHANGED <<dir, present>>  BY <2>5 DEF Start
    <3> QED  BY <1>0, <2>1, <3>1 DEF StayInv, Named
  <2> QED  BY <1>3, <2>2, <2>3, <2>4, <2>5 DEF Boot
<1>4. ASSUME NEW p \in Procs, Syscall(p)
      PROVE  /\ StayInv'
             /\ \A i \in Named(ddir) : ddir'[i].name = ddir[i].name
                                       /\ ddir'[i].first = ddir[i].first
  <2>1. power = "on" /\ power' = "on" /\ UNCHANGED <<sb, ddir, present>>
    BY <1>4
    DEF Syscall, OpenRead, OpenWrite, ExecFile, Close, Fread, Fwrite, Fork, Exit, Calls
  <2>2. \A i \in Named(dir) : /\ i \in Named(dir') /\ dir'[i].name = dir[i].name
                              /\ dir'[i].first = dir[i].first
    BY <1>0, <2>1, NamedStays
  <2> QED  BY <1>0, <2>1, <2>2 DEF StayInv, Named
<1> QED  BY <1>1, <1>2, <1>3, <1>4 DEF Next, Disk

\* A file that is on the disk stays there, at its extent, through power cuts
\* and through read and write errors, as long as the disk works during init.
THEOREM FilesAreKept ==
    ASSUME "mount" \notin Faults
    PROVE  Spec => FilesStay
<1>1. Init => StayInv  BY InitStayInv
<1>2. StayInv /\ UNCHANGED vars => StayInv'
  <2> SUFFICES ASSUME StayInv, UNCHANGED vars PROVE StayInv'
    OBVIOUS
  <2>1. TypeInv' /\ Quiet'  BY NextTypeInv, NextQuiet DEF StayInv
  <2> QED  BY <2>1 DEF vars, diskVars, fsVars, procVars, StayInv, Named
<1>3. StayInv /\ [Next]_vars => StayInv'  BY <1>2, NextStay
<1>4. StayInv /\ [Next]_vars =>
        [\A i \in Named(ddir) : ddir'[i].name = ddir[i].name
                                /\ ddir'[i].first = ddir[i].first]_vars
  BY NextStay
<1> QED  BY <1>1, <1>3, <1>4, PTL DEF Spec, FilesStay

-----------------------------------------------------------------------------
(* What the disk has *)

\* Step x is still to be done.
Pends(t, x) == \E k \in 1 .. Len(t) : t[k] = x

LEMMA PendsTail ==
    ASSUME NEW t \in Seq(Step), t # <<>>, NEW x, Pends(t, x), x # Head(t)
    PROVE  Pends(Tail(t), x)
<1>1. PICK k \in 1 .. Len(t) : t[k] = x  BY DEF Pends
<1>2. k # 1 /\ Len(t) \in Nat  BY <1>1, LenProperties
<1>3. k - 1 \in 1 .. Len(Tail(t)) /\ Tail(t)[k - 1] = t[k]
  BY <1>2, HeadTailProperties
<1> QED  BY <1>1, <1>3 DEF Pends

LEMMA PendsConcat ==
    ASSUME NEW s \in Seq(Step), NEW t \in Seq(Step), NEW x, Pends(s, x) \/ Pends(t, x)
    PROVE  Pends(s \o t, x)
<1>1. Len(s) \in Nat /\ Len(t) \in Nat  BY LenProperties
<1>2. /\ Len(s \o t) = Len(s) + Len(t)
      /\ \A k \in 1 .. Len(s) + Len(t) :
           (s \o t)[k] = IF k <= Len(s) THEN s[k] ELSE t[k - Len(s)]
  BY ConcatProperties
<1>3. CASE Pends(s, x)  BY <1>1, <1>2, <1>3 DEF Pends
<1>4. CASE Pends(t, x)
  <2>1. PICK k \in 1 .. Len(t) : t[k] = x  BY <1>4 DEF Pends
  <2>2. k + Len(s) \in 1 .. Len(s) + Len(t) /\ (s \o t)[k + Len(s)] = t[k]
    BY <1>1, <1>2, <2>1
  <2> QED  BY <1>2, <2>1, <2>2 DEF Pends
<1> QED  BY <1>3, <1>4

LEMMA PendsFlush ==
    ASSUME NEW i \in Entries, NEW rest \in Seq(Step)
    PROVE  /\ Pends(FlushEnt(i) \o rest, Flush(DirLBA(SectorOf(i))))
           /\ Pends(FlushEnt(i) \o FlushSb \o rest, Flush(DirLBA(SectorOf(i))))
           /\ Pends(FlushEnt(i) \o FlushSb \o rest, Flush(Super))
           /\ \A x : Pends(rest, x) => /\ Pends(FlushEnt(i) \o rest, x)
                                       /\ Pends(FlushEnt(i) \o FlushSb \o rest, x)
<1>1. FlushEnt(i) \in Seq(Step) /\ FlushSb \in Seq(Step)  BY StepFacts
<1>2. FlushEnt(i) \o FlushSb \in Seq(Step)  BY <1>1, ConcatProperties
<1>3. Pends(FlushEnt(i), Flush(DirLBA(SectorOf(i)))) /\ Pends(FlushSb, Flush(Super))
  BY AddedFlushes DEF Pends
<1>4. /\ Pends(FlushEnt(i) \o FlushSb, Flush(DirLBA(SectorOf(i))))
      /\ Pends(FlushEnt(i) \o FlushSb, Flush(Super))
  BY <1>1, <1>3, PendsConcat
<1> QED  BY <1>1, <1>2, <1>3, <1>4, PendsConcat

\* Formatting flushes everything.
LEMMA FormatPends ==
    ASSUME Format
    PROVE  /\ Pends(todo', Flush(Super))
           /\ \A i \in Entries : Pends(todo', Flush(DirLBA(SectorOf(i))))
<1> DEFINE sectors == [s \in 1 .. Cardinality(DirSectors) |-> Flush(DirLBA(s - 1))]
           seeds == [k \in 1 .. Len(Seeds) |-> Seed(Seeds[k])]
<1>1. FlushSb \in Seq(Step) /\ sectors \in Seq(Step) /\ seeds \in Seq(Step)
  BY StepFacts
<1>2. \A i \in Entries : Pends(sectors, Flush(DirLBA(SectorOf(i))))
  <2> SUFFICES ASSUME NEW i \in Entries
               PROVE  Pends(sectors, Flush(DirLBA(SectorOf(i))))
    OBVIOUS
  <2> DEFINE k == SectorOf(i) + 1
  <2>1. SectorOf(i) \in Nat /\ k \in 1 .. Cardinality(DirSectors) /\ k - 1 = SectorOf(i)
    BY SectorFacts
  <2>2. Len(sectors) = Cardinality(DirSectors)  BY SectorFacts
  <2>3. sectors[k] = Flush(DirLBA(SectorOf(i)))  BY <2>1
  <2> QED  BY <2>1, <2>2, <2>3 DEF Pends
<1>3. Pends(FlushSb, Flush(Super))  BY DEF Pends, FlushSb
<1>4. todo' = (FlushSb \o sectors) \o seeds  BY DEF Format
<1> HIDE DEF sectors, seeds
<1>5. FlushSb \o sectors \in Seq(Step)  BY <1>1, ConcatProperties
<1>6. /\ Pends(FlushSb \o sectors, Flush(Super))
      /\ \A i \in Entries : Pends(FlushSb \o sectors, Flush(DirLBA(SectorOf(i))))
  BY <1>1, <1>2, <1>3, PendsConcat
<1> QED  BY <1>1, <1>4, <1>5, <1>6, PendsConcat

\* What the disk does not have yet of the directory and the superblock.
Pending ==
    /\ \A i \in Entries : ddir[i] = dir[i] \/ Pends(todo, Flush(DirLBA(SectorOf(i))))
    /\ sb.next = next \/ Pends(todo, Flush(Super))

\* As long as no write is lost, what the cache has and the disk has not is
\* still to be flushed, and so is the magic of a new file system.
SyncInv ==
    /\ TypeInv /\ Quiet
    /\ present => Pending /\ (sb.magic \/ Pends(todo, Flush(Super)))

LEMMA InitSyncInv ==
    ASSUME Init
    PROVE  SyncInv
BY InitTypeInv, InitQuiet DEF SyncInv, Init

\* create changes an entry and NEXT_FREE, and leaves both to be flushed.
LEMMA CreatePending ==
    ASSUME TypeInv, NEW n \in Names, NEW rest \in Seq(Step), Unused # {},
           Create(n, rest), UNCHANGED <<ddir, sb>>,
           \A i \in Entries : ddir[i] = dir[i] \/ Pends(rest, Flush(DirLBA(SectorOf(i))))
    PROVE  Pending' /\ Pends(todo', Flush(Super))
<1> DEFINE new == First(Unused)
<1>1. new \in Entries  BY SearchFacts
<1>2. \A i \in Entries : i # new => dir'[i] = dir[i]  BY CreateKeepsNamed
<1>3. todo' = FlushEnt(new) \o FlushSb \o rest  BY DEF Create
<1> HIDE DEF new
<1>4. Pends(todo', Flush(Super))  BY <1>1, <1>3, PendsFlush
<1>5. ASSUME NEW i \in Entries
      PROVE  ddir'[i] = dir'[i] \/ Pends(todo', Flush(DirLBA(SectorOf(i))))
  BY <1>1, <1>2, <1>3, PendsFlush
<1> QED  BY <1>4, <1>5 DEF Pending

\* write_at leaves a length that grew to be flushed.
LEMMA WriteAtPending ==
    ASSUME TypeInv, NEW i \in Entries, NEW pos \in 0 .. Cap,
           NEW b \in Bytes, NEW rest \in Seq(Step), WriteAt(i, pos, b, rest),
           UNCHANGED <<ddir, sb, next>>,
           sb.next = next \/ Pends(rest, Flush(Super)),
           \A j \in Entries : ddir[j] = dir[j] \/ Pends(rest, Flush(DirLBA(SectorOf(j))))
    PROVE  Pending' /\ \A x : Pends(rest, x) => Pends(todo', x)
<1>1. CASE pos + 1 > dir[i].len
  <2>1. dir' = [dir EXCEPT ![i].len = pos + 1] /\ todo' = FlushEnt(i) \o rest
    BY <1>1 DEF WriteAt
  <2>2. \A j \in Entries : j # i => dir'[j] = dir[j]  BY <2>1 DEF TypeInv, FsTypeOK
  <2> QED  BY <2>1, <2>2, PendsFlush DEF Pending
<1>2. CASE ~(pos + 1 > dir[i].len)
  BY <1>2 DEF WriteAt, Pending
<1> QED  BY <1>1, <1>2

LEMMA DiskPending ==
    ASSUME Faults \cap {"mount", "write"} = {}, SyncInv, Disk
    PROVE  Pending' /\ (sb'.magic \/ Pends(todo', Flush(Super)))
<1> USE DEF fsVars, diskVars, procVars
<1>1. /\ TypeInv /\ todo # <<>> /\ todo \in Seq(Step) /\ Tail(todo) \in Seq(Step)
      /\ Pending /\ (sb.magic \/ Pends(todo, Flush(Super)))
  <2>1. todo # <<>>  BY DEF Disk, FlushSector, SeedFile, SeedContent, Busy
  <2> QED  BY <2>1, HeadFacts DEF SyncInv, TypeInv, Quiet
<1>2. \A x : Pends(todo, x) /\ x # Head(todo) => Pends(Tail(todo), x)
  BY <1>1, PendsTail
<1>3. CASE FlushSector
  <2> DEFINE lba == Head(todo).lba
  <2>1. Head(todo).op = "flush" /\ todo' = Tail(todo) /\ UNCHANGED <<dir, next>>
    BY <1>3 DEF FlushSector, Busy
  <2>2. ~MayFail("write")  BY DEF MayFail
  <2>3. \/ /\ lba = Super /\ sb' = [magic |-> TRUE, next |-> next]
           /\ UNCHANGED ddir
        \/ /\ lba # Super /\ UNCHANGED sb
           /\ ddir' = [i \in Entries |-> IF DirLBA(SectorOf(i)) = lba THEN dir[i] ELSE ddir[i]]
    BY <1>3, <2>2 DEF FlushSector
  <2>4. \A l : Flush(l) # Head(todo) \/ l = lba  BY FlushOps
  <2>5. \A i \in Entries : DirLBA(SectorOf(i)) # Super
    BY SectorFacts DEF DirLBA, Super
  <2> HIDE DEF lba
  <2>6. \/ sb'.next = next /\ sb'.magic
        \/ UNCHANGED sb /\ (Pends(todo, Flush(Super)) => Pends(todo', Flush(Super)))
    <3>1. CASE lba = Super
      <4>1. sb' = [magic |-> TRUE, next |-> next]  BY <2>3, <3>1
      <4> QED  BY <4>1
    <3>2. CASE lba # Super  BY <1>2, <2>1, <2>3, <2>4, <3>2
    <3> QED  BY <3>1, <3>2
  <2>7. ASSUME NEW i \in Entries
        PROVE  ddir'[i] = dir[i] \/ Pends(todo', Flush(DirLBA(SectorOf(i))))
    <3>1. CASE DirLBA(SectorOf(i)) = lba  BY <2>3, <2>5, <3>1
    <3>2. CASE DirLBA(SectorOf(i)) # lba
      <4>1. ddir'[i] = ddir[i]  BY <2>3, <3>2
      <4> QED  BY <1>1, <1>2, <2>1, <2>4, <3>2, <4>1 DEF Pending
    <3> QED  BY <3>1, <3>2
  <2>8. sb'.next = next \/ Pends(todo', Flush(Super))  BY <1>1, <2>6 DEF Pending
  <2>9. sb'.magic \/ Pends(todo', Flush(Super))  BY <1>1, <2>6
  <2> QED  BY <2>1, <2>7, <2>8, <2>9 DEF Pending
<1>4. CASE SeedFile \/ SeedContent
  <2> DEFINE t == Tail(todo)
  <2>1. UNCHANGED <<ddir, sb>> /\ Head(todo).op # "flush"
    BY <1>4 DEF SeedFile, SeedContent, Busy
  <2>2. \A x : Pends(todo, Flush(x)) => Pends(t, Flush(x))
    BY <1>2, <2>1, FlushOps
  <2>3. /\ sb.next = next \/ Pends(t, Flush(Super))
        /\ \A i \in Entries : ddir[i] = dir[i] \/ Pends(t, Flush(DirLBA(SectorOf(i))))
        /\ sb.magic \/ Pends(t, Flush(Super))
    BY <1>1, <2>2 DEF Pending
  <2>4. t \in Seq(Step)  BY <1>1
  <2>5. CASE t = todo' /\ UNCHANGED <<dir, next>>
    BY <2>1, <2>3, <2>5 DEF Pending
  <2>6. CASE SeedFile /\ Unused # {}
    <3> DEFINE bytes == [k \in 1 .. Len(SeedBytes) |-> SeedByte(First(Unused), k)]
    <3>1. bytes \in Seq(Step)  BY <2>6, SearchFacts, StepFacts
    <3>2. Create(Head(todo).name, bytes \o t)  BY <2>6 DEF SeedFile
    <3>3. Head(todo).name \in Names  BY <1>1, <2>6, HeadFacts DEF SeedFile, Busy
    <3> HIDE DEF bytes, t
    <3>4. bytes \o t \in Seq(Step)  BY <2>4, <3>1, ConcatProperties
    <3>5. \A i \in Entries :
            ddir[i] = dir[i] \/ Pends(bytes \o t, Flush(DirLBA(SectorOf(i))))
      BY <2>3, <2>4, <3>1, PendsConcat
    <3> QED  BY <1>1, <2>1, <2>6, <3>2, <3>3, <3>4, <3>5, CreatePending
  <2>7. CASE SeedContent
    <3>1. /\ Head(todo).ent \in Entries /\ Head(todo).b \in Bytes
          /\ Head(todo).pos \in 0 .. Cap /\ UNCHANGED next
      BY <1>1, <2>7, HeadFacts, DiskAssumption DEF Positions, SeedContent, Busy
    <3>2. CASE WriteAt(Head(todo).ent, Head(todo).pos, Head(todo).b, t)
      <4> HIDE DEF t
      <4>1. Pending' /\ \A x : Pends(t, x) => Pends(todo', x)
        BY <1>1, <2>1, <2>3, <2>4, <3>1, <3>2, WriteAtPending
      <4> QED  BY <2>1, <2>3, <4>1
    <3>3. CASE WriteAtFails(Head(todo).ent, Head(todo).pos, Head(todo).b, t)
      BY <2>5, <3>1, <3>3 DEF WriteAtFails
    <3> QED  BY <2>7, <3>2, <3>3 DEF SeedContent
  <2> QED  BY <1>4, <2>5, <2>6, <2>7 DEF SeedFile
<1> QED  BY <1>3, <1>4 DEF Disk

LEMMA BootPending ==
    ASSUME Faults \cap {"mount", "write"} = {}, SyncInv, Boot, present'
    PROVE  Pending' /\ (sb'.magic \/ Pends(todo', Flush(Super)))
<1> USE DEF fsVars, diskVars, procVars
<1>1. CASE NoDisk \/ PowerOff
  BY <1>1 DEF NoDisk, PowerOff, SyncInv, Quiet
<1>2. CASE Format  BY <1>2, FormatPends DEF Pending
<1>3. CASE Mount
  <2>1. next' = sb.next /\ sb.magic /\ UNCHANGED <<ddir, sb>>  BY <1>3 DEF Mount
  <2>2. \A i \in Entries : dir'[i] = ddir[i]  BY <1>3, MountReads
  <2> QED  BY <2>1, <2>2 DEF Pending
<1>4. CASE Start
  <2>1. UNCHANGED <<ddir, sb, dir, next, present, todo>>  BY <1>4 DEF Start
  <2> QED  BY <2>1 DEF SyncInv, Pending
<1> QED  BY <1>1, <1>2, <1>3, <1>4 DEF Boot

LEMMA SyscallPending ==
    ASSUME SyncInv, NEW p \in Procs, Syscall(p), present'
    PROVE  Pending' /\ sb'.magic
<1> USE DEF fsVars, diskVars, procVars
<1>1. /\ TypeInv /\ Quiet /\ todo = <<>> /\ <<>> \in Seq(Step)
      /\ UNCHANGED <<sb, ddir>> /\ present /\ sb.magic /\ sb.next = next
      /\ \A i \in Entries : ddir[i] = dir[i]
  <2>1. todo = <<>> /\ UNCHANGED <<sb, ddir, present>>
    BY DEF Syscall, OpenRead, OpenWrite, ExecFile, Close, Fread, Fwrite, Fork, Exit, Calls
  <2>2. \A x : ~Pends(<<>>, x)  BY DEF Pends
  <2> QED  BY <2>1, <2>2 DEF SyncInv, Pending
<1>2. CASE UNCHANGED <<dir, next>>  BY <1>1, <1>2 DEF Pending
<1>3. ASSUME NEW n \in Names, OpenWrite(p, n) PROVE Pending'
  <2>1. CASE Matches(n) # {}
    <3> DEFINE i == First(Matches(n))
    <3>1. i \in Entries /\ 0 \in 0 .. Cap
      BY <2>1, SearchFacts, DiskAssumption DEF Named
    <3>2. /\ dir' = [dir EXCEPT ![i].len = 0] /\ todo' = FlushEnt(i) /\ UNCHANGED next
      BY <1>3, <2>1 DEF OpenWrite, Truncate
    <3> HIDE DEF i
    <3>3. \A j \in Entries : j # i => dir'[j] = dir[j]  BY <3>1, <3>2, <1>1, LenType
    <3>4. Pends(todo', Flush(DirLBA(SectorOf(i))))
      BY <3>1, <3>2, AddedFlushes DEF Pends
    <3> QED  BY <1>1, <3>2, <3>3, <3>4 DEF Pending
  <2>2. CASE Matches(n) = {} /\ Unused # {}
    <3>1. Create(n, <<>>)  BY <1>1, <1>3, <2>2 DEF OpenWrite
    <3> QED  BY <1>1, <2>2, <3>1, CreatePending
  <2>3. CASE Matches(n) = {} /\ Unused = {}
    BY <1>2, <1>3, <2>3 DEF OpenWrite
  <2> QED  BY <2>1, <2>2, <2>3
<1>4. ASSUME NEW s \in Slots, NEW b \in Bytes, Fwrite(p, s, b) PROVE Pending'
  <2> DEFINE fd == fds[p][s]
  <2>1. fd.dir \in Entries /\ fd.pos \in 0 .. Cap /\ UNCHANGED next
    BY <1>1, <1>4 DEF TypeInv, FsTypeOK, Fwrite
  <2>2. CASE UNCHANGED dir  BY <1>2, <2>1, <2>2
  <2>3. CASE WriteAt(fd.dir, fd.pos, b, <<>>)
    <3> HIDE DEF fd
    <3> QED  BY <1>1, <2>1, <2>3, WriteAtPending
  <2> QED  BY <1>4, <2>2, <2>3 DEF Fwrite, WriteAtFails
<1>5. Pending'
  BY <1>2, <1>3, <1>4 DEF Syscall, OpenRead, ExecFile, Close, Fread, Fork, Exit
<1> QED  BY <1>1, <1>5

LEMMA NextSyncInv ==
    ASSUME Faults \cap {"mount", "write"} = {}, SyncInv, [Next]_vars
    PROVE  SyncInv'
<1>1. TypeInv' /\ Quiet'  BY NextTypeInv, NextQuiet DEF SyncInv
<1>2. CASE UNCHANGED vars
  BY <1>1, <1>2 DEF vars, diskVars, fsVars, procVars, SyncInv, Pending
<1>3. CASE Next
  BY <1>1, <1>3, DiskPending, BootPending, SyscallPending DEF Next, SyncInv
<1> QED  BY <1>2, <1>3

\* Between two operations the disk has the whole directory, the count of
\* extents and the magic: a call that returned, and init, are durable.
Durable == present /\ todo = <<>> => sb.magic /\ sb.next = next /\ ddir = dir

LEMMA SyncIsDurable ==
    ASSUME SyncInv
    PROVE  Durable
<1> SUFFICES ASSUME present, todo = <<>>
             PROVE  sb.magic /\ sb.next = next /\ ddir = dir
  BY DEF Durable
<1>1. \A x : ~Pends(<<>>, x)  BY DEF Pends
<1>2. /\ sb.magic /\ sb.next = next
      /\ \A i \in Entries : ddir[i] = dir[i]
  BY <1>1 DEF SyncInv, Pending
<1>3. dir \in [Entries -> Entry] /\ ddir \in [Entries -> Entry]
  BY DEF SyncInv, TypeInv, FsTypeOK
<1>4. ddir = dir  BY <1>2, <1>3
<1> QED  BY <1>2, <1>4

\* What a returned call changed is on the disk, whenever the power was cut
\* before and whatever could not be read since, as long as no write fails.
THEOREM CallsAreDurable ==
    ASSUME Faults \cap {"mount", "write"} = {}
    PROVE  Spec => []Durable
<1>1. Init => SyncInv  BY InitSyncInv
<1>2. SyncInv /\ [Next]_vars => SyncInv'  BY NextSyncInv
<1>3. SyncInv => Durable  BY SyncIsDurable
<1> QED  BY <1>1, <1>2, <1>3, PTL DEF Spec

\* Of the directory, at most the entry of one call is not on the disk yet: a
\* cut in the middle of a call can lose what that call does, and no more.
OneCallBehind ==
    power = "on" /\ present =>
        \E i \in Entries : \A j \in Entries \ {i} : ddir[j] = dir[j]

\* A system call changes one entry at most.
LEMMA CallChangesOne ==
    ASSUME TypeInv, NEW p \in Procs, Syscall(p)
    PROVE  \E i \in Entries : \A j \in Entries \ {i} : dir'[j] = dir[j]
<1> USE DEF fsVars, diskVars, procVars
<1>1. 0 \in Entries  BY DiskAssumption DEF Entries
<1>2. CASE UNCHANGED dir  BY <1>1, <1>2
<1>3. ASSUME NEW n \in Names, OpenWrite(p, n)
      PROVE  \E i \in Entries : \A j \in Entries \ {i} : dir'[j] = dir[j]
  <2>1. CASE Matches(n) # {}
    <3> DEFINE i == First(Matches(n))
    <3>1. i \in Entries /\ 0 \in 0 .. Cap
      BY <2>1, SearchFacts, DiskAssumption DEF Named
    <3>2. dir' = [dir EXCEPT ![i].len = 0]  BY <1>3, <2>1 DEF OpenWrite, Truncate
    <3> HIDE DEF i
    <3>3. \A j \in Entries \ {i} : dir'[j] = dir[j]  BY <3>1, <3>2, LenType
    <3> QED  BY <3>1, <3>3
  <2>2. CASE Matches(n) = {} /\ Unused # {} /\ Create(n, <<>>)
    <3>1. First(Unused) \in Entries  BY <2>2, SearchFacts
    <3>2. \A j \in Entries \ {First(Unused)} : dir'[j] = dir[j]
      BY <2>2, CreateKeepsNamed
    <3> QED  BY <3>1, <3>2
  <2> QED  BY <1>2, <1>3, <2>1, <2>2 DEF OpenWrite
<1>4. ASSUME NEW s \in Slots, NEW b \in Bytes, Fwrite(p, s, b)
      PROVE  \E i \in Entries : \A j \in Entries \ {i} : dir'[j] = dir[j]
  <2> DEFINE fd == fds[p][s]
  <2>1. fd.dir \in Entries  BY DEF TypeInv, FsTypeOK
  <2>2. CASE dir' = [dir EXCEPT ![fd.dir].len = fd.pos + 1]
    <3>1. \A j \in Entries \ {fd.dir} : dir'[j] = dir[j]  BY <2>2 DEF TypeInv, FsTypeOK
    <3> QED  BY <2>1, <3>1
  <2>3. (dir' = [dir EXCEPT ![fd.dir].len = fd.pos + 1]) \/ UNCHANGED dir
    BY <1>4 DEF Fwrite, WriteAt, WriteAtFails
  <2> QED  BY <1>2, <2>2, <2>3
<1> QED
  BY <1>2, <1>3, <1>4 DEF Syscall, OpenRead, ExecFile, Close, Fread, Fork, Exit

LEMMA NextOneBehind ==
    ASSUME Faults \cap {"mount", "write"} = {}, SyncInv, OneCallBehind, [Next]_vars
    PROVE  OneCallBehind'
<1> USE DEF fsVars, diskVars, procVars
<1> SUFFICES ASSUME power' = "on", present'
             PROVE  \E i \in Entries : \A j \in Entries \ {i} : ddir'[j] = dir'[j]
  BY DEF OneCallBehind
<1>1. TypeInv /\ Quiet /\ Durable  BY SyncIsDurable DEF SyncInv
<1>2. CASE UNCHANGED vars  BY <1>2 DEF vars, OneCallBehind
<1>3. CASE Disk
  <2>1. /\ power = "on" /\ present /\ todo # <<>> /\ todo \in Seq(Step)
    BY <1>1, <1>3 DEF Disk, FlushSector, SeedFile, SeedContent, Busy, TypeInv
  <2>2. Head(todo) = todo[1] /\ 1 \in 1 .. Len(todo)  BY <2>1
  <2>3. Head(todo).op = "flush"  BY <1>1, <2>1, <2>2 DEF Quiet
  <2>4. FlushSector  BY <1>3, <2>3 DEF Disk, SeedFile, SeedContent, Busy
  <2>5. UNCHANGED dir /\ \A j \in Entries : ddir'[j] = dir[j] \/ ddir'[j] = ddir[j]
    BY <2>4 DEF FlushSector
  <2>6. PICK i \in Entries : \A j \in Entries \ {i} : ddir[j] = dir[j]
    BY <2>1 DEF OneCallBehind
  <2> QED  BY <2>5, <2>6
<1>4. CASE Boot
  <2>1. Start  BY <1>4 DEF Boot, NoDisk, Format, Mount, PowerOff
  <2>2. todo = <<>> /\ UNCHANGED <<ddir, dir, present>>  BY <2>1 DEF Start
  <2>3. ddir' = dir'  BY <1>1, <2>2 DEF Durable
  <2>4. 0 \in Entries  BY DiskAssumption DEF Entries
  <2> QED  BY <2>3, <2>4
<1>5. ASSUME NEW p \in Procs, Syscall(p)
      PROVE  \E i \in Entries : \A j \in Entries \ {i} : ddir'[j] = dir'[j]
  <2>1. todo = <<>> /\ UNCHANGED <<ddir, present>>
    BY <1>5
    DEF Syscall, OpenRead, OpenWrite, ExecFile, Close, Fread, Fwrite, Fork, Exit, Calls
  <2>2. ddir' = dir  BY <1>1, <2>1 DEF Durable
  <2>3. PICK i \in Entries : \A j \in Entries \ {i} : dir'[j] = dir[j]
    BY <1>1, <1>5, CallChangesOne
  <2> QED  BY <2>2, <2>3
<1> QED  BY <1>2, <1>3, <1>4, <1>5 DEF Next

\* A power cut costs at most the entry of the call it interrupts.
THEOREM CutsCostOneCall ==
    ASSUME Faults \cap {"mount", "write"} = {}
    PROVE  Spec => []OneCallBehind
<1>1. Init => SyncInv /\ OneCallBehind  BY InitSyncInv DEF Init, OneCallBehind
<1>2. SyncInv /\ OneCallBehind /\ [Next]_vars => SyncInv' /\ OneCallBehind'
  BY NextSyncInv, NextOneBehind
<1> QED  BY <1>1, <1>2, PTL DEF Spec

-----------------------------------------------------------------------------
(* Extents *)

\* No two files of directory d have an extent in common, and all are below n.
Apart(d, n) ==
    /\ \A i, j \in Named(d) : d[i].first = d[j].first => i = j
    /\ \A i \in Named(d) : d[i].first < n

ExtentInv ==
    /\ SyncInv
    /\ Apart(dir, next)
    /\ todo = <<>> => Apart(ddir, sb.next)

LEMMA InitExtentInv ==
    ASSUME Init
    PROVE  ExtentInv
<1>1. Named(dir) = {} /\ Named(ddir) = {}  BY ZeroNamed DEF Init
<1> QED  BY <1>1, InitSyncInv DEF ExtentInv, Apart

\* create takes the next extent, which was nobody's.
LEMMA CreateApart ==
    ASSUME TypeInv, Apart(dir, next), NEW n \in Names, NEW rest,
           Unused # {}, Create(n, rest)
    PROVE  Apart(dir', next')
<1> DEFINE new == First(Unused)
<1>1. \A i \in Entries : /\ i # new => dir'[i] = dir[i]
                         /\ i = new => dir'[i].first = next
  BY CreateKeepsNamed
<1>2. next' = next + 1 /\ next \in Nat  BY DEF Create, TypeInv, FsTypeOK
<1>3. \A i \in Entries : dir[i].first \in Nat  BY DEF TypeInv, FsTypeOK, Entry
<1> HIDE DEF new
<1>4. ASSUME NEW i \in Named(dir'), i # new
      PROVE  i \in Named(dir) /\ dir'[i].first = dir[i].first /\ i \in Entries
  BY <1>1, <1>4 DEF Named
<1>5. \A i \in Named(dir') : i \in Entries  BY DEF Named
<1> QED  BY <1>1, <1>2, <1>3, <1>4, <1>5 DEF Apart

\* Nothing else gives an entry an extent.
LEMMA SameApart ==
    ASSUME Apart(dir, next), UNCHANGED next,
           \A i \in Entries : dir'[i].name = dir[i].name /\ dir'[i].first = dir[i].first
    PROVE  Apart(dir', next')
BY DEF Apart, Named

\* The extents of the cached directory stay apart.
LEMMA NextApart ==
    ASSUME "mount" \notin Faults, ExtentInv, Next
    PROVE  Apart(dir', next')
<1> USE DEF fsVars, diskVars, procVars
<1>1. TypeInv /\ Quiet /\ Apart(dir, next)  BY DEF ExtentInv, SyncInv
<1>2. CASE UNCHANGED <<dir, next>>  BY <1>1, <1>2 DEF Apart, Named
<1>3. ASSUME NEW n \in Names, NEW rest, Unused # {}, Create(n, rest)
      PROVE  Apart(dir', next')
  BY <1>1, <1>3, CreateApart
<1>4. ASSUME NEW i \in Entries, NEW pos \in 0 .. Cap, NEW b \in Bytes, NEW rest,
             WriteAt(i, pos, b, rest), UNCHANGED next
      PROVE  Apart(dir', next')
  BY <1>1, <1>4, WriteAtEffect, SameApart
<1>5. CASE Disk
  <2>1. todo \in Seq(Step)  BY <1>1 DEF TypeInv
  <2>2. CASE FlushSector  BY <1>2, <2>2 DEF FlushSector
  <2>3. CASE SeedFile
    <3>1. Head(todo).name \in Names  BY <2>1, <2>3, HeadFacts DEF SeedFile, Busy
    <3> QED  BY <1>2, <1>3, <2>3, <3>1 DEF SeedFile
  <2>4. CASE SeedContent
    <3>1. /\ Head(todo).ent \in Entries /\ Head(todo).b \in Bytes
          /\ Head(todo).pos \in 0 .. Cap /\ UNCHANGED next
      BY <2>1, <2>4, HeadFacts, DiskAssumption DEF Positions, SeedContent, Busy
    <3> QED  BY <1>2, <1>4, <2>4, <3>1 DEF SeedContent, WriteAtFails
  <2> QED  BY <1>5, <2>2, <2>3, <2>4 DEF Disk
<1>6. CASE Boot
  <2>1. CASE Mount
    <3>1. todo = <<>> /\ next' = sb.next /\ \A i \in Entries : dir'[i] = ddir[i]
      BY <1>1, <2>1, MountReads DEF Mount, Quiet
    <3>2. Apart(ddir, sb.next)  BY <3>1 DEF ExtentInv
    <3> QED  BY <3>1, <3>2 DEF Apart, Named
  <2>2. CASE PowerOff
    <3>1. Named(dir') = {}  BY <2>2, ZeroNamed DEF PowerOff
    <3> QED  BY <3>1 DEF Apart
  <2>3. CASE NoDisk \/ Format \/ Start
    BY <1>2, <2>3 DEF NoDisk, Format, Start
  <2> QED  BY <1>6, <2>1, <2>2, <2>3 DEF Boot
<1>7. ASSUME NEW p \in Procs, NEW n \in Names, OpenWrite(p, n)
      PROVE  Apart(dir', next')
  <2>1. CASE Matches(n) # {}
    <3> DEFINE i == First(Matches(n))
    <3>1. i \in Entries /\ 0 \in 0 .. Cap
      BY <2>1, SearchFacts, DiskAssumption DEF Named
    <3>2. dir' = [dir EXCEPT ![i].len = 0] /\ UNCHANGED next
      BY <1>7, <2>1 DEF OpenWrite, Truncate
    <3> HIDE DEF i
    <3>3. \A j \in Entries : dir'[j].name = dir[j].name /\ dir'[j].first = dir[j].first
      BY <1>1, <3>1, <3>2, LenType
    <3> QED  BY <1>1, <3>2, <3>3, SameApart
  <2>2. CASE Matches(n) = {}
    BY <1>2, <1>3, <1>7, <2>2 DEF OpenWrite
  <2> QED  BY <2>1, <2>2
<1>8. ASSUME NEW p \in Procs, NEW s \in Slots, NEW b \in Bytes, Fwrite(p, s, b)
      PROVE  Apart(dir', next')
  <2>1. fds[p][s].dir \in Entries /\ fds[p][s].pos \in 0 .. Cap /\ UNCHANGED next
    BY <1>1, <1>8 DEF TypeInv, FsTypeOK, Fwrite
  <2> QED  BY <1>2, <1>4, <1>8, <2>1 DEF Fwrite, WriteAtFails
<1> QED
  BY <1>2, <1>5, <1>6, <1>7, <1>8
  DEF Next, Syscall, OpenRead, ExecFile, Close, Fread, Fork, Exit

LEMMA NextExtentInv ==
    ASSUME Faults \subseteq {"absent", "read"}, ExtentInv, [Next]_vars
    PROVE  ExtentInv'
<1> USE DEF fsVars, diskVars, procVars
<1>1. SyncInv'  BY NextSyncInv DEF ExtentInv
<1>2. CASE UNCHANGED vars  BY <1>1, <1>2 DEF vars, ExtentInv, Apart, Named
<1>3. CASE Next
  <2>1. Apart(dir', next')  BY <1>3, NextApart
  <2>2. ASSUME todo' = <<>>, present' PROVE Apart(ddir', sb'.next)
    <3>1. \A x : ~Pends(<<>>, x)  BY DEF Pends
    <3>2. sb'.next = next' /\ \A i \in Entries : ddir'[i] = dir'[i]
      BY <1>1, <2>2, <3>1 DEF SyncInv, Pending
    <3> QED  BY <2>1, <3>2 DEF Apart, Named
  <2>3. ASSUME ~present' PROVE todo = <<>> /\ UNCHANGED <<ddir, sb>>
    <3>1. CASE Disk
      <4>1. todo # <<>> /\ UNCHANGED present
        BY <3>1 DEF Disk, FlushSector, SeedFile, SeedContent, Busy
      <4> QED  BY <2>3, <4>1 DEF ExtentInv, SyncInv, Quiet
    <3>2. CASE Boot
      <4>1. UNCHANGED <<ddir, sb>>
        BY <3>2 DEF Boot, NoDisk, Format, Mount, Start, PowerOff
      <4>2. CASE NoDisk  BY <4>1, <4>2 DEF NoDisk, ExtentInv, SyncInv, Quiet
      <4>3. CASE Start \/ PowerOff  BY <4>1, <4>3 DEF Start, PowerOff
      <4> QED  BY <2>3, <3>2, <4>2, <4>3 DEF Boot, Format, Mount
    <3>3. ASSUME NEW p \in Procs, Syscall(p) PROVE todo = <<>> /\ UNCHANGED <<ddir, sb>>
      BY <3>3
      DEF Syscall, OpenRead, OpenWrite, ExecFile, Close, Fread, Fwrite, Fork, Exit, Calls
    <3> QED  BY <1>3, <3>1, <3>2, <3>3 DEF Next
  <2>4. ASSUME ~present' PROVE Apart(ddir', sb'.next)
    BY <2>3, <2>4 DEF ExtentInv, Apart, Named
  <2> QED  BY <1>1, <2>1, <2>2, <2>4 DEF ExtentInv
<1> QED  BY <1>2, <1>3

\* No two files share an extent, in memory or for the next mount to read, as
\* long as the power stays on during system calls and no write fails.
THEOREM ExtentsAreDisjoint ==
    ASSUME Faults \subseteq {"absent", "read"}
    PROVE  Spec => []ExtentsDisjoint
<1>1. ExtentInv => ExtentsDisjoint  BY DEF ExtentInv, ExtentsDisjoint, Apart
<1>2. Init => ExtentInv  BY InitExtentInv
<1>3. ExtentInv /\ [Next]_vars => ExtentInv'  BY NextExtentInv
<1> QED  BY <1>1, <1>2, <1>3, PTL DEF Spec

-----------------------------------------------------------------------------
(* What a length counts *)

\* Every byte that directory d counts is written in x.
Counted(d, x) ==
    \A i \in Entries : d[i].first \in Extents =>
        \A pos \in 0 .. d[i].len - 1 : x[d[i].first][pos] # Blank

\* A seed is written in order: when the turn of a byte comes, every position
\* before it is written, in x or by an earlier step, or none can be.
Ordered(t, d, x) ==
    \A k \in 1 .. Len(t) : t[k].op = "byte" =>
        /\ t[k].ent \in Named(d)
        /\ d[t[k].ent].first \in Extents =>
             \A pos \in 0 .. t[k].pos - 1 :
                \/ x[d[t[k].ent].first][pos] # Blank
                \/ \E j \in 1 .. k - 1 :
                     t[j].op = "byte" /\ t[j].ent = t[k].ent /\ t[j].pos = pos

CountInv ==
    /\ HandleInv
    /\ Counted(dir, data)
    /\ Counted(ddir, data)
    /\ Ordered(todo, dir, data)

\* Where the named entries stay and written bytes stay written, the order does.
LEMMA OrderedStays ==
    ASSUME NEW t \in Seq(Step), NEW d, NEW x, NEW d2, NEW x2, Ordered(t, d, x),
           \A i \in Named(d) : i \in Named(d2) /\ d2[i].first = d[i].first,
           \A e \in Extents, k \in Positions : x[e][k] # Blank => x2[e][k] # Blank
    PROVE  Ordered(t, d2, x2)
<1> SUFFICES ASSUME NEW k \in 1 .. Len(t), t[k].op = "byte"
             PROVE  /\ t[k].ent \in Named(d2)
                    /\ d2[t[k].ent].first \in Extents =>
                         \A pos \in 0 .. t[k].pos - 1 :
                            \/ x2[d2[t[k].ent].first][pos] # Blank
                            \/ \E j \in 1 .. k - 1 :
                                 t[j].op = "byte" /\ t[j].ent = t[k].ent /\ t[j].pos = pos
  BY DEF Ordered
<1>1. t[k].ent \in Named(d) /\ t[k].pos \in Positions
  <2>1. t[k] \in Step  BY ElementOfSeq
  <2> QED  BY <2>1 DEF Ordered, Step
<1>2. d2[t[k].ent].first = d[t[k].ent].first /\ t[k].ent \in Named(d2)
  BY <1>1
<1>3. \A pos \in 0 .. t[k].pos - 1 : pos \in Positions
  BY <1>1, DiskAssumption DEF Positions
<1> QED  BY <1>2, <1>3 DEF Ordered

\* The first step is done with: it writes no byte, or it wrote the one it was
\* for, or could not because the file's extent is not on the disk.
LEMMA OrderedTail ==
    ASSUME NEW t \in Seq(Step), t # <<>>, NEW d, NEW x, Ordered(t, d, x),
           Head(t).op = "byte" /\ d[Head(t).ent].first \in Extents =>
               x[d[Head(t).ent].first][Head(t).pos] # Blank
    PROVE  Ordered(Tail(t), d, x)
<1>1. /\ Len(t) \in Nat \ {0} /\ Len(Tail(t)) = Len(t) - 1 /\ Head(t) = t[1]
      /\ \A k \in 1 .. Len(Tail(t)) : Tail(t)[k] = t[k + 1]
  BY HeadTailProperties, EmptySeq
<1> SUFFICES ASSUME NEW k \in 1 .. Len(Tail(t)), Tail(t)[k].op = "byte"
             PROVE  LET s == Tail(t)[k]
                    IN  /\ s.ent \in Named(d)
                        /\ d[s.ent].first \in Extents =>
                             \A pos \in 0 .. s.pos - 1 :
                                \/ x[d[s.ent].first][pos] # Blank
                                \/ \E j \in 1 .. k - 1 :
                                     /\ Tail(t)[j].op = "byte" /\ Tail(t)[j].ent = s.ent
                                     /\ Tail(t)[j].pos = pos
  BY DEF Ordered
<1> DEFINE s == Tail(t)[k]
<1>2. k + 1 \in 1 .. Len(t) /\ s = t[k + 1] /\ s.op = "byte"  BY <1>1
<1>3. s.ent \in Named(d)  BY <1>2 DEF Ordered
<1>4. ASSUME d[s.ent].first \in Extents, NEW pos \in 0 .. s.pos - 1,
             ~(x[d[s.ent].first][pos] # Blank)
      PROVE  \E j \in 1 .. k - 1 :
               Tail(t)[j].op = "byte" /\ Tail(t)[j].ent = s.ent /\ Tail(t)[j].pos = pos
  <2>1. PICK j \in 1 .. (k + 1) - 1 : t[j].op = "byte" /\ t[j].ent = s.ent /\ t[j].pos = pos
    BY <1>2, <1>4 DEF Ordered
  <2>2. j # 1  BY <1>1, <1>4, <2>1
  <2>3. j - 1 \in 1 .. k - 1 /\ Tail(t)[j - 1] = t[j]  BY <1>1, <2>2
  <2> QED  BY <2>1, <2>3
<1> QED  BY <1>3, <1>4

LEMMA OrderedConcat ==
    ASSUME NEW s \in Seq(Step), NEW t \in Seq(Step), NEW d, NEW x,
           Ordered(s, d, x), Ordered(t, d, x)
    PROVE  Ordered(s \o t, d, x)
<1> DEFINE u == s \o t
           n == Len(s)
<1>1. /\ n \in Nat /\ Len(t) \in Nat /\ Len(u) = n + Len(t)
      /\ \A k \in 1 .. n + Len(t) : u[k] = IF k <= n THEN s[k] ELSE t[k - n]
  BY ConcatProperties, LenProperties
<1> HIDE DEF u
<1> SUFFICES ASSUME NEW k \in 1 .. Len(u), u[k].op = "byte"
             PROVE  /\ u[k].ent \in Named(d)
                    /\ d[u[k].ent].first \in Extents =>
                         \A pos \in 0 .. u[k].pos - 1 :
                            \/ x[d[u[k].ent].first][pos] # Blank
                            \/ \E j \in 1 .. k - 1 :
                                 u[j].op = "byte" /\ u[j].ent = u[k].ent /\ u[j].pos = pos
  BY DEF Ordered, u
<1>2. CASE k <= n
  <2>1. k \in 1 .. Len(s) /\ u[k] = s[k]  BY <1>1, <1>2
  <2>2. \A j \in 1 .. k - 1 : u[j] = s[j]  BY <1>1, <1>2
  <2>3. u[k].ent \in Named(d)  BY <2>1 DEF Ordered
  <2>4. ASSUME d[u[k].ent].first \in Extents, NEW pos \in 0 .. u[k].pos - 1,
               ~(x[d[u[k].ent].first][pos] # Blank)
        PROVE  \E j \in 1 .. k - 1 :
                 u[j].op = "byte" /\ u[j].ent = u[k].ent /\ u[j].pos = pos
    <3>1. PICK j \in 1 .. k - 1 : s[j].op = "byte" /\ s[j].ent = s[k].ent /\ s[j].pos = pos
      BY <2>1, <2>4 DEF Ordered
    <3> QED  BY <2>1, <2>2, <3>1
  <2> QED  BY <2>3, <2>4
<1>3. CASE ~(k <= n)
  <2>1. k - n \in 1 .. Len(t) /\ u[k] = t[k - n]  BY <1>1, <1>3
  <2>2. \A j \in 1 .. (k - n) - 1 : j + n \in 1 .. k - 1 /\ u[j + n] = t[j]
    BY <1>1, <2>1
  <2>3. u[k].ent \in Named(d)  BY <2>1 DEF Ordered
  <2>4. ASSUME d[u[k].ent].first \in Extents, NEW pos \in 0 .. u[k].pos - 1,
               ~(x[d[u[k].ent].first][pos] # Blank)
        PROVE  \E j \in 1 .. k - 1 :
                 u[j].op = "byte" /\ u[j].ent = u[k].ent /\ u[j].pos = pos
    <3>1. PICK j \in 1 .. (k - n) - 1 :
            t[j].op = "byte" /\ t[j].ent = u[k].ent /\ t[j].pos = pos
      <4>1. t[k - n].op = "byte" /\ pos \in 0 .. t[k - n].pos - 1  BY <2>1, <2>4
      <4>2. \/ x[d[t[k - n].ent].first][pos] # Blank
            \/ \E j \in 1 .. (k - n) - 1 :
                 t[j].op = "byte" /\ t[j].ent = t[k - n].ent /\ t[j].pos = pos
        BY <2>1, <2>4, <4>1 DEF Ordered
      <4> QED  BY <2>1, <2>4, <4>2
    <3>2. j + n \in 1 .. k - 1 /\ u[j + n] = t[j]  BY <2>2
    <3> QED  BY <3>1, <3>2
  <2> QED  BY <2>3, <2>4
<1> QED  BY <1>2, <1>3

\* Flushes are in order, and so is a seed for an entry that has a name.
LEMMA OrderedSteps ==
    ASSUME NEW d, NEW x, NEW i \in Entries
    PROVE  /\ Ordered(<<>>, d, x)
           /\ \A t \in Seq(Step) :
                (\A k \in 1 .. Len(t) : t[k].op # "byte") => Ordered(t, d, x)
           /\ Ordered(FlushEnt(i), d, x) /\ Ordered(FlushSb, d, x)
           /\ i \in Named(d) =>
                Ordered([k \in 1 .. Len(SeedBytes) |-> SeedByte(i, k)], d, x)
<1>1. Ordered(<<>>, d, x)  BY DEF Ordered
<1>2. \A t \in Seq(Step) :
        (\A k \in 1 .. Len(t) : t[k].op # "byte") => Ordered(t, d, x)
  BY DEF Ordered
<1>3. Ordered(FlushEnt(i), d, x) /\ Ordered(FlushSb, d, x)
  BY AddedFlushes, FlushOps DEF Ordered
<1>4. ASSUME i \in Named(d)
      PROVE  Ordered([k \in 1 .. Len(SeedBytes) |-> SeedByte(i, k)], d, x)
  <2> DEFINE t == [k \in 1 .. Len(SeedBytes) |-> SeedByte(i, k)]
  <2>1. Len(SeedBytes) \in Nat  BY DiskAssumption, LenProperties
  <2>2. Len(t) = Len(SeedBytes)  BY <2>1
  <2>3. \A k \in 1 .. Len(t) : t[k].op = "byte" /\ t[k].ent = i /\ t[k].pos = k - 1
    BY <2>2 DEF SeedByte
  <2> HIDE DEF t
  <2>4. ASSUME NEW k \in 1 .. Len(t), NEW pos \in 0 .. t[k].pos - 1
        PROVE  \E j \in 1 .. k - 1 :
                 t[j].op = "byte" /\ t[j].ent = t[k].ent /\ t[j].pos = pos
    <3>1. pos + 1 \in 1 .. k - 1 /\ pos + 1 \in 1 .. Len(t) /\ (pos + 1) - 1 = pos
      BY <2>1, <2>2, <2>3
    <3> QED  BY <2>3, <3>1
  <2>5. Ordered(t, d, x)  BY <1>4, <2>3, <2>4 DEF Ordered
  <2> QED  BY <2>5 DEF t
<1> QED  BY <1>1, <1>2, <1>3, <1>4

LEMMA CountedStays ==
    ASSUME NEW d \in [Entries -> Entry], NEW x, NEW x2, Counted(d, x),
           \A e \in Extents, k \in Positions : x[e][k] # Blank => x2[e][k] # Blank
    PROVE  Counted(d, x2)
<1> SUFFICES ASSUME NEW i \in Entries, d[i].first \in Extents,
                    NEW pos \in 0 .. d[i].len - 1
             PROVE  x2[d[i].first][pos] # Blank
  BY DEF Counted
<1>1. pos \in Positions
  <2>1. d[i].len \in 0 .. Cap  BY DEF Entry
  <2> QED  BY <2>1, DiskAssumption DEF Positions
<1> QED  BY <1>1 DEF Counted

\* Every entry of d2 is one that was counted, or counts nothing.
LEMMA CountedMix ==
    ASSUME NEW d, NEW e, NEW d2, NEW x, Counted(d, x), Counted(e, x),
           \A i \in Entries : d2[i] = d[i] \/ d2[i] = e[i] \/ d2[i].len = 0
    PROVE  Counted(d2, x)
<1> SUFFICES ASSUME NEW i \in Entries, d2[i].first \in Extents,
                    NEW pos \in 0 .. d2[i].len - 1
             PROVE  x[d2[i].first][pos] # Blank
  BY DEF Counted
<1>1. d2[i].len # 0  OBVIOUS
<1> QED  BY <1>1 DEF Counted

\* write_at, where everything before the byte is written.
LEMMA CountedWrite ==
    ASSUME TypeInv, Counted(dir, data), NEW i \in Entries, NEW pos \in 0 .. Cap,
           NEW b \in Bytes, NEW rest, WriteAt(i, pos, b, rest),
           \A k \in 0 .. pos - 1 : data[dir[i].first][k] # Blank
    PROVE  Counted(dir', data')
<1>1. /\ \A j \in Entries : /\ dir'[j].name = dir[j].name
                            /\ dir'[j].first = dir[j].first
                            /\ j # i => dir'[j].len = dir[j].len
      /\ dir'[i].len = IF pos + 1 > dir[i].len THEN pos + 1 ELSE dir[i].len
      /\ OnDisk(i, pos) /\ data' = Written(i, pos, b)
  BY WriteAtEffect
<1>2. /\ data'[dir[i].first][pos] # Blank
      /\ \A e \in Extents, k \in Positions : data[e][k] # Blank => data'[e][k] # Blank
  BY <1>1, WrittenFacts
<1>3. dir[i].first \in Extents /\ pos \in Positions
  BY <1>1, WrittenType DEF OnDisk
<1> SUFFICES ASSUME NEW j \in Entries, dir'[j].first \in Extents,
                    NEW k \in 0 .. dir'[j].len - 1
             PROVE  data'[dir'[j].first][k] # Blank
  BY DEF Counted
<1>4. /\ dir'[j].first = dir[j].first /\ dir[j].len \in 0 .. Cap
      /\ dir[i].len \in 0 .. Cap
  BY <1>1 DEF TypeInv, FsTypeOK, Entry
<1>5. CASE k \in 0 .. dir[j].len - 1
  <2>1. k \in Positions  BY <1>4, <1>5, DiskAssumption DEF Positions
  <2> QED  BY <1>2, <1>4, <1>5, <2>1 DEF Counted
<1>6. CASE ~(k \in 0 .. dir[j].len - 1)
  <2>1. j = i /\ k \in 0 .. pos  BY <1>1, <1>4, <1>6
  <2>2. CASE k = pos  BY <1>2, <1>4, <2>1, <2>2
  <2>3. CASE k # pos
    <3>1. k \in 0 .. pos - 1 /\ k \in Positions
      BY <1>3, <2>1, <2>3, DiskAssumption DEF Positions
    <3> QED  BY <1>2, <1>3, <1>4, <2>1, <3>1
  <2> QED  BY <2>2, <2>3
<1> QED  BY <1>5, <1>6

LEMMA InitCountInv ==
    ASSUME Init
    PROVE  CountInv
<1>1. todo = <<>> /\ \A i \in Entries : dir[i].len = 0 /\ ddir[i].len = 0
  BY ZeroNamed DEF Init, ZeroEnt
<1>2. Counted(dir, data) /\ Counted(ddir, data)  BY <1>1 DEF Counted
<1>3. Ordered(todo, dir, data)  BY <1>1 DEF Ordered
<1> QED  BY <1>2, <1>3, InitHandleInv DEF CountInv

LEMMA DiskCountInv ==
    ASSUME NulNames = {}, "mount" \notin Faults, CountInv, Disk
    PROVE  Counted(dir', data') /\ Counted(ddir', data') /\ Ordered(todo', dir', data')
<1> USE DEF fsVars, diskVars, procVars
<1>1. /\ TypeInv /\ Quiet /\ todo # <<>> /\ todo \in Seq(Step)
      /\ Tail(todo) \in Seq(Step) /\ Head(todo) \in Step
      /\ Counted(dir, data) /\ Counted(ddir, data) /\ Ordered(todo, dir, data)
      /\ ddir \in [Entries -> Entry]
  <2>1. todo # <<>>  BY DEF Disk, FlushSector, SeedFile, SeedContent, Busy
  <2> QED  BY <2>1, HeadFacts DEF CountInv, HandleInv, TypeInv, FsTypeOK
<1>2. Head(todo).op # "byte" => Ordered(Tail(todo), dir, data)
  BY <1>1, OrderedTail
<1>3. CASE FlushSector
  <2>1. Head(todo).op = "flush" /\ todo' = Tail(todo) /\ UNCHANGED <<dir, data>>
    BY <1>3 DEF FlushSector, Busy
  <2>2. \A i \in Entries : ddir'[i] = dir[i] \/ ddir'[i] = ddir[i]
    BY <1>3 DEF FlushSector
  <2>3. Counted(ddir', data)  BY <1>1, <2>2, CountedMix
  <2> QED  BY <1>1, <1>2, <2>1, <2>3
<1>4. CASE SeedFile
  <2>1. /\ Head(todo).op = "seed" /\ UNCHANGED <<ddir, data, power>> /\ power # "off"
        /\ Head(todo).name \in Names
    BY <1>1, <1>4, HeadFacts DEF SeedFile, Busy
  <2>2. CASE Unused = {}
    BY <1>1, <1>2, <1>4, <2>1, <2>2 DEF SeedFile
  <2>3. CASE Unused # {}
    <3> DEFINE i == First(Unused)
               bytes == [k \in 1 .. Len(SeedBytes) |-> SeedByte(i, k)]
               t == Tail(todo)
    <3>1. i \in Entries /\ bytes \in Seq(Step)  BY <2>3, SearchFacts, StepFacts
    <3>2. Create(Head(todo).name, bytes \o t)  BY <1>4, <2>3 DEF SeedFile
    <3>3. /\ dir'[i].name = Head(todo).name /\ dir'[i].len = 0
          /\ \A j \in Entries : j # i => dir'[j] = dir[j]
      <4>1. Head(todo).name \notin NulNames  OBVIOUS
      <4> QED  BY <1>1, <2>1, <2>3, <3>1, <3>2, <4>1, CreateKeepsNamed
    <3>4. i \in Named(dir')  BY <2>1, <3>1, <3>3, DiskAssumption DEF Named
    <3>5. Counted(dir', data)  BY <1>1, <3>3, CountedMix
    <3>6. \A j \in Named(dir) : j \in Named(dir') /\ dir'[j].first = dir[j].first
      BY <1>1, <1>4, <2>1, NamedStays DEF Next, Disk
    <3>7. Ordered(bytes, dir', data)  BY <3>1, <3>4, OrderedSteps
    <3>8. todo' = FlushEnt(i) \o FlushSb \o (bytes \o t)
      BY <3>2 DEF Create
    <3>9. FlushEnt(i) \in Seq(Step) /\ FlushSb \in Seq(Step) /\ t \in Seq(Step)
      BY <1>1, <3>1, StepFacts
    <3>10. Ordered(t, dir', data)
      <4>1. Ordered(t, dir, data)  BY <1>2, <2>1
      <4> HIDE DEF t, bytes, i
      <4> QED  BY <3>6, <3>9, <4>1, OrderedStays
    <3> HIDE DEF t, bytes
    <3>11. Ordered(FlushEnt(i), dir', data) /\ Ordered(FlushSb, dir', data)
      BY <3>1, OrderedSteps
    <3> HIDE DEF i
    <3>12. FlushEnt(i) \o FlushSb \in Seq(Step) /\ bytes \o t \in Seq(Step)
      BY <3>1, <3>9, ConcatProperties
    <3>13. Ordered(bytes \o t, dir', data)  BY <3>1, <3>7, <3>9, <3>10, OrderedConcat
    <3>14. Ordered(FlushEnt(i) \o FlushSb, dir', data)
      BY <3>9, <3>11, OrderedConcat
    <3>15. Ordered(todo', dir', data)  BY <3>8, <3>12, <3>13, <3>14, OrderedConcat
    <3> QED  BY <1>1, <2>1, <3>5, <3>15
  <2> QED  BY <2>2, <2>3
<1>5. CASE SeedContent
  <2> DEFINE i == Head(todo).ent
             pos == Head(todo).pos
             b == Head(todo).b
             t == Tail(todo)
  <2>1. /\ Head(todo).op = "byte" /\ UNCHANGED <<ddir, power>> /\ power # "off"
        /\ i \in Entries /\ pos \in Positions /\ b \in Bytes
    BY <1>1, <1>5, HeadFacts DEF SeedContent, Busy
  <2>2. Head(todo) = todo[1] /\ 1 \in 1 .. Len(todo) /\ t \in Seq(Step)  BY <1>1
  <2>3. ~MayFail("write") /\ ~MayFail("read")
    <3>1. power # "on"  BY <1>1, <2>1, <2>2 DEF Quiet
    <3> QED  BY <3>1 DEF MayFail
  <2>4. /\ i \in Named(dir)
        /\ dir[i].first \in Extents => \A k \in 0 .. pos - 1 : data[dir[i].first][k] # Blank
    BY <1>1, <2>1, <2>2 DEF Ordered
  <2>5. pos \in 0 .. Cap /\ pos < Cap  BY <2>1, DiskAssumption DEF Positions
  <2>6. CASE WriteAt(i, pos, b, t)
    <3>1. OnDisk(i, pos) /\ data' = Written(i, pos, b)  BY <2>6 DEF WriteAt
    <3>2. Counted(dir', data')
      <4>1. dir[i].first \in Extents  BY <3>1 DEF OnDisk
      <4> HIDE DEF i, pos, b, t
      <4> QED  BY <1>1, <2>1, <2>4, <2>5, <2>6, <4>1, CountedWrite
    <3>3. \A e \in Extents, k \in Positions : data[e][k] # Blank => data'[e][k] # Blank
      BY <1>1, <1>5, StaysWritten DEF Next, Disk
    <3>4. Counted(ddir', data')  BY <1>1, <2>1, <3>3, CountedStays
    <3>5. \A j \in Named(dir) : j \in Named(dir') /\ dir'[j].first = dir[j].first
      BY <1>1, <1>5, <2>1, NamedStays DEF Next, Disk
    <3>6. Ordered(todo, dir', data')  BY <1>1, <3>3, <3>5, OrderedStays
    <3>7. data'[dir'[i].first][pos] # Blank
      <4> HIDE DEF i, pos, b, t
      <4>1. data'[dir[i].first][pos] # Blank
        BY <1>1, <2>1, <2>5, <3>1, WrittenFacts
      <4> QED  BY <2>4, <3>5, <4>1
    <3>8. Ordered(t, dir', data')  BY <1>1, <3>6, <3>7, OrderedTail
    <3>9. CASE pos + 1 > dir[i].len
      <4>1. todo' = FlushEnt(i) \o t  BY <2>6, <3>9 DEF WriteAt
      <4>2. Ordered(FlushEnt(i), dir', data') /\ FlushEnt(i) \in Seq(Step)
        BY <2>1, OrderedSteps, StepFacts
      <4> HIDE DEF i, pos, b, t
      <4>3. Ordered(todo', dir', data')  BY <2>2, <3>8, <4>1, <4>2, OrderedConcat
      <4> QED  BY <3>2, <3>4, <4>3
    <3>10. CASE ~(pos + 1 > dir[i].len)
      BY <2>6, <3>2, <3>4, <3>8, <3>10 DEF WriteAt
    <3> QED  BY <3>9, <3>10
  <2>7. CASE WriteAtFails(i, pos, b, t)
    <3>1. ~OnDisk(i, pos) /\ UNCHANGED <<data, dir>> /\ todo' = t
      BY <2>3, <2>7 DEF WriteAtFails
    <3>2. dir[i].first \notin Extents  BY <2>5, <3>1 DEF OnDisk
    <3>3. Ordered(t, dir, data)  BY <1>1, <3>2, OrderedTail
    <3> QED  BY <1>1, <2>1, <3>1, <3>3
  <2> QED  BY <1>5, <2>6, <2>7 DEF SeedContent
<1> QED  BY <1>3, <1>4, <1>5 DEF Disk

LEMMA BootCountInv ==
    ASSUME CountInv, Boot
    PROVE  Counted(dir', data') /\ Counted(ddir', data') /\ Ordered(todo', dir', data')
<1> USE DEF fsVars, diskVars, procVars
<1>1. UNCHANGED <<data, ddir>>
  BY DEF Boot, NoDisk, Format, Mount, Start, PowerOff
<1>2. Counted(dir, data) /\ Counted(ddir, data) /\ Ordered(todo, dir, data)
  BY DEF CountInv
<1>3. ZeroEnt.len = 0  BY DEF ZeroEnt
<1>4. Counted(dir', data)
  <2>1. \A i \in Entries : dir'[i] = dir[i] \/ dir'[i] = ddir[i] \/ dir'[i].len = 0
    BY <1>3 DEF Boot, NoDisk, Format, Mount, Start, PowerOff
  <2> QED  BY <1>2, <2>1, CountedMix
<1>5. Ordered(todo', dir', data)
  <2>1. CASE Format
    <3>1. /\ FlushSb \in Seq(Step)
          /\ [s \in 1 .. Cardinality(DirSectors) |-> Flush(DirLBA(s - 1))] \in Seq(Step)
          /\ [k \in 1 .. Len(Seeds) |-> Seed(Seeds[k])] \in Seq(Step)
      BY StepFacts
    <3> DEFINE sectors == [s \in 1 .. Cardinality(DirSectors) |-> Flush(DirLBA(s - 1))]
               seeds == [k \in 1 .. Len(Seeds) |-> Seed(Seeds[k])]
    <3>2. \A k \in 1 .. Len(sectors) : sectors[k].op # "byte"
      <4>1. Len(sectors) = Cardinality(DirSectors)  BY SectorFacts
      <4> QED  BY <4>1, FlushOps
    <3>3. \A k \in 1 .. Len(seeds) : seeds[k].op # "byte"
      <4>1. Len(seeds) = Len(Seeds)  BY DiskAssumption, LenProperties
      <4> QED  BY <4>1 DEF Seed
    <3>4. \A k \in 1 .. Len(FlushSb) : FlushSb[k].op # "byte"
      BY FlushOps DEF FlushSb
    <3>5. todo' = (FlushSb \o sectors) \o seeds  BY <2>1 DEF Format
    <3> HIDE DEF sectors, seeds
    <3>6. /\ Ordered(FlushSb, dir', data) /\ Ordered(sectors, dir', data)
          /\ Ordered(seeds, dir', data)
      BY <3>2, <3>3, <3>4 DEF Ordered
    <3>7. FlushSb \in Seq(Step) /\ sectors \in Seq(Step) /\ seeds \in Seq(Step)
      BY <3>1 DEF sectors, seeds
    <3>8. FlushSb \o sectors \in Seq(Step)  BY <3>7, ConcatProperties
    <3>9. Ordered(FlushSb \o sectors, dir', data)  BY <3>6, <3>7, OrderedConcat
    <3> QED  BY <3>5, <3>6, <3>7, <3>8, <3>9, OrderedConcat
  <2>2. CASE todo' = <<>>  BY <2>2 DEF Ordered
  <2>3. CASE NoDisk \/ Mount
    <3>1. todo' = <<>>
      BY <2>3 DEF NoDisk, Mount, CountInv, HandleInv, Quiet
    <3> QED  BY <2>2, <3>1
  <2> QED  BY <2>1, <2>2, <2>3 DEF Boot, Start, PowerOff
<1> QED  BY <1>1, <1>2, <1>4, <1>5

LEMMA SyscallCountInv ==
    ASSUME NulNames = {}, CountInv, NEW p \in Procs, Syscall(p)
    PROVE  Counted(dir', data') /\ Counted(ddir', data') /\ Ordered(todo', dir', data')
<1> USE DEF fsVars, diskVars, procVars
<1>1. /\ TypeInv /\ Quiet /\ HandlesAreNamed /\ WriterLeavesNoGap
      /\ Counted(dir, data) /\ Counted(ddir, data)
      /\ ddir \in [Entries -> Entry] /\ dir \in [Entries -> Entry]
  BY DEF CountInv, HandleInv, TypeInv, FsTypeOK
<1>2. power' = "on" /\ UNCHANGED ddir
  BY DEF Syscall, OpenRead, OpenWrite, ExecFile, Close, Fread, Fwrite, Fork, Exit, Calls
<1>3. Ordered(todo', dir', data')
  <2>1. Quiet'  BY <1>1, NextQuiet DEF Next
  <2> QED  BY <1>2, <2>1 DEF Quiet, Ordered
<1>4. \A e \in Extents, k \in Positions : data[e][k] # Blank => data'[e][k] # Blank
  BY <1>1, StaysWritten DEF Next
<1>5. Counted(ddir', data')  BY <1>1, <1>2, <1>4, CountedStays
<1>6. CASE \A i \in Entries : dir'[i] = dir[i] \/ dir'[i].len = 0
  <2>1. Counted(dir', data)  BY <1>1, <1>6, CountedMix
  <2>2. dir' \in [Entries -> Entry]
    BY <1>1, NextTypeInv DEF Next, TypeInv, FsTypeOK
  <2> QED  BY <1>3, <1>4, <1>5, <2>1, <2>2, CountedStays
<1>7. ASSUME NEW n \in Names, OpenWrite(p, n)
      PROVE  \A i \in Entries : dir'[i] = dir[i] \/ dir'[i].len = 0
  <2>1. CASE Matches(n) # {}
    <3>1. First(Matches(n)) \in Entries /\ 0 \in 0 .. Cap
      BY <2>1, SearchFacts, DiskAssumption DEF Named
    <3>2. dir' = [dir EXCEPT ![First(Matches(n))].len = 0]
      BY <1>7, <2>1 DEF OpenWrite, Truncate
    <3> QED  BY <1>1, <3>1, <3>2, LenType
  <2>2. CASE Matches(n) = {}
    BY <1>1, <1>7, <2>2, CreateKeepsNamed DEF OpenWrite
  <2> QED  BY <2>1, <2>2
<1>8. ASSUME NEW s \in Slots, NEW b \in Bytes, Fwrite(p, s, b), ~ UNCHANGED dir
      PROVE  Counted(dir', data')
  <2> DEFINE fd == fds[p][s]
  <2>1. fd.used /\ fd.write /\ WriteAt(fd.dir, fd.pos, b, <<>>)
    BY <1>8 DEF Fwrite, WriteAtFails
  <2>2. fd.dir \in Entries /\ fd.pos \in 0 .. Cap
    BY <1>1 DEF TypeInv, FsTypeOK
  <2>3. dir[fd.dir].first \in Extents  BY <2>1 DEF WriteAt, OnDisk
  <2>4. \A k \in 0 .. fd.pos - 1 : data[dir[fd.dir].first][k] # Blank
    BY <1>1, <2>1, <2>3 DEF WriterLeavesNoGap
  <2> HIDE DEF fd
  <2> QED  BY <1>1, <2>1, <2>2, <2>4, CountedWrite
<1>9. CASE \E s \in Slots, b \in Bytes : Fwrite(p, s, b) /\ ~ UNCHANGED dir
  BY <1>3, <1>5, <1>8, <1>9
<1>10. CASE ~(\E s \in Slots, b \in Bytes : Fwrite(p, s, b) /\ ~ UNCHANGED dir)
  BY <1>6, <1>7, <1>10 DEF Syscall, OpenRead, ExecFile, Close, Fread, Fork, Exit
<1> QED  BY <1>9, <1>10

LEMMA NextCountInv ==
    ASSUME NulNames = {}, "mount" \notin Faults, CountInv, [Next]_vars
    PROVE  CountInv'
<1>1. HandleInv'  BY NextHandleInv DEF CountInv
<1>2. CASE UNCHANGED vars
  BY <1>1, <1>2 DEF vars, diskVars, fsVars, procVars, CountInv, Counted, Ordered, Named
<1>3. CASE Next
  BY <1>1, <1>3, DiskCountInv, BootCountInv, SyscallCountInv DEF Next, CountInv
<1> QED  BY <1>2, <1>3

\* Every byte that a length on the disk counts was written, through power
\* cuts, truncations under an open descriptor and write errors, as long as
\* init does not fail and no name starts with NUL.
THEOREM CountedBytesAreWritten ==
    ASSUME NulNames = {}, "mount" \notin Faults
    PROVE  Spec => []CountedIsWritten
<1>1. CountInv => CountedIsWritten
  BY DEF CountInv, Counted, CountedIsWritten, Named
<1>2. Init => CountInv  BY InitCountInv
<1>3. CountInv /\ [Next]_vars => CountInv'  BY NextCountInv
<1> QED  BY <1>1, <1>2, <1>3, PTL DEF Spec

=============================================================================
