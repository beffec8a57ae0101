------------------------------- MODULE MikFs -------------------------------
(***************************************************************************)
(* Mik-FS on the boot disk: fs.rs over the polled ATA driver of ata.rs,    *)
(* and the file-descriptor system calls of sched.rs that use it.           *)
(*                                                                         *)
(* The kernel runs a system call to its end with interrupts off, but the   *)
(* disk is written one sector at a time: what an operation still has to do *)
(* is the sequence todo, and the power may go before any of its steps.     *)
(* File data is addressed by extent, FILE_SECTORS contiguous sectors: the  *)
(* extent e starts at DATA_LBA + e * FILE_SECTORS.                         *)
(***************************************************************************)
EXTENDS Naturals, Sequences, FiniteSets

CONSTANTS
    Names,      \* names open() accepts: 1 to NAME_MAX bytes
    NulNames,   \* those whose first byte is NUL
    AlsoFound,  \* pairs <<m, n>>: padded with NULs, m is n, a NUL and anything
    NoName,     \* the name of an entry whose first byte is 0
    MaxFiles,   \* directory entries
    PerSector,  \* directory entries in a sector
    NExtents,   \* extents on the disk
    MaxNext,    \* bound of the model: the extents create ever hands out
    Cap,        \* FILE_CAP, in bytes
    Bytes,
    Blank,      \* a byte of the disk nobody has written
    Seeds,      \* the names init seeds, in order
    SeedBytes,  \* what it writes to each
    Procs,      \* process table slots
    Spawned,    \* those kmain spawns
    NFD,        \* descriptors of a process
    Faults      \* which faults happen: "power" cuts, no disk at all ("absent"), and
                \* drive errors: "mount" while init runs, "read", "write" later

Entries == 0 .. MaxFiles - 1
Slots == 0 .. NFD - 1
Positions == 0 .. Cap - 1
Extents == 0 .. NExtents - 1

\* A 32-entry directory fits a 1 MiB disk seven times over.
ASSUME DiskAssumption ==
    /\ MaxFiles \in Nat \ {0} /\ PerSector \in Nat \ {0}
    /\ NExtents \in Nat /\ MaxFiles <= NExtents
    /\ MaxNext \in Nat
    /\ Cap \in Nat \ {0} /\ NFD \in Nat \ {0}
    /\ NulNames \subseteq Names /\ NoName \notin Names
    /\ AlsoFound \subseteq Names \X Names
    /\ Blank \notin Bytes
    /\ Seeds \in Seq(Names \ NulNames) /\ Len(Seeds) <= MaxFiles
    /\ \A i, j \in 1 .. Len(Seeds) : Seeds[i] = Seeds[j] => i = j
    /\ SeedBytes \in Seq(Bytes) /\ Len(SeedBytes) <= Cap
    /\ Spawned \subseteq Procs /\ Spawned # {}
    /\ Faults \subseteq {"power", "absent", "mount", "read", "write"}

VARIABLES
    sb,       \* on disk: the superblock, magic and next_free_sector
    ddir,     \* on disk: the directory
    data,     \* on disk: data[e][pos]
    power,    \* "off", "boot" (fs::init runs) or "on" (processes run)
    present,  \* PRESENT
    dir,      \* DIR, the cached directory
    next,     \* NEXT_FREE, as an extent number
    todo,     \* what the running operation still does to the disk
    live,     \* the processes
    fds,      \* fds[p][s]: procs[p].fds[s]
    ret       \* what the last system call returned

diskVars == <<sb, ddir, data>>
fsVars == <<present, dir, next>>
procVars == <<live, fds>>
vars == <<diskVars, power, fsVars, todo, procVars, ret>>

ZeroEnt == [name |-> NoName, first |-> 0, len |-> 0]
EmptyFd == [used |-> FALSE, dir |-> 0, pos |-> 0, write |-> FALSE]
NoFds == [p \in Procs |-> [s \in Slots |-> EmptyFd]]

Failed == [ok |-> FALSE, val |-> <<>>]
Returned(v) == [ok |-> TRUE, val |-> v]

\* The lowest of a set of numbers: iter().position(), (0..MAX_FILES).find().
First(S) == CHOOSE i \in S : \A j \in S : i <= j

-----------------------------------------------------------------------------
(* fs.rs *)

SectorOf(i) == i \div PerSector
DirSectors == 0 .. SectorOf(MaxFiles - 1)

\* Sectors in the order of the disk: the superblock, then the directory.
Super == 0
DirLBA(s) == 1 + s

\* Steps of todo: write a cached sector, seed a file, write a byte of a seed.
Flush(lba) == [op |-> "flush", lba |-> lba]
Seed(n) == [op |-> "seed", name |-> n]
SeedByte(i, k) == [op |-> "byte", ent |-> i, pos |-> k - 1, b |-> SeedBytes[k]]

FlushEnt(i) == <<Flush(DirLBA(SectorOf(i)))>>
FlushSb == <<Flush(Super)>>

\* A broken find, which takes an entry never used for a file of that name.
Matches_UnusedToo(n) ==
    {i \in Entries : n \notin NulNames /\ dir[i].name \in {n, NoName}}

\* find: the entries with this name, or one whose first bytes are this name
\* and a NUL.  A name that starts with NUL has none.
Matches(n) ==
    {i \in Entries : /\ n \notin NulNames
                     /\ dir[i].name = n \/ <<dir[i].name, n>> \in AlsoFound}

\* Broken search: an empty file's entry is taken for a free one.
Unused_Empty == {i \in Entries : dir[i].len = 0}

Unused == {i \in Entries : dir[i].name = NoName}

\* Broken create: next_free_sector is not advanced.
Create_NoBump(n, rest) ==
    LET i == First(Unused)
    IN  /\ next < MaxNext
        /\ dir' = [dir EXCEPT ![i] =
                      [name |-> IF n \in NulNames THEN NoName ELSE n,
                       first |-> next, len |-> 0]]
        /\ todo' = FlushEnt(i) \o FlushSb \o rest
        /\ UNCHANGED next

\* create: the first unused entry gets the next extent; the entry's sector,
\* then the superblock, are flushed.
Create(n, rest) ==
    LET i == First(Unused)
    IN  /\ next < MaxNext
        /\ dir' = [dir EXCEPT ![i] =
                      [name |-> IF n \in NulNames THEN NoName ELSE n,
                       first |-> next, len |-> 0]]
        /\ next' = next + 1
        /\ todo' = FlushEnt(i) \o FlushSb \o rest

Truncate(i) ==
    /\ dir' = [dir EXCEPT ![i].len = 0]
    /\ todo' = FlushEnt(i)

\* Broken bound: FILE_CAP is not checked.
OnDisk_NoCap(i, pos) == dir[i].first \in Extents

OnDisk(i, pos) == pos < Cap /\ dir[i].first \in Extents

Written(i, pos, b) == [data EXCEPT ![dir[i].first][pos] = b]

\* write_at returns true: the byte is on the disk, then the length if the
\* file has grown.
WriteAt(i, pos, b, rest) ==
    /\ OnDisk(i, pos)
    /\ data' = Written(i, pos, b)
    /\ IF pos + 1 > dir[i].len
       THEN /\ dir' = [dir EXCEPT ![i].len = pos + 1]
            /\ todo' = FlushEnt(i) \o rest
       ELSE todo' = rest /\ UNCHANGED dir

\* The drive can fail a transfer of this kind now.
MayFail(kind) == IF power = "on" THEN kind \in Faults ELSE "mount" \in Faults

\* Broken failure: the length grows although the byte was not written.
WriteAtFails_Counts(i, pos, b, rest) ==
    /\ pos < Cap /\ MayFail("write")
    /\ dir' = [dir EXCEPT ![i].len = IF pos + 1 > @ THEN pos + 1 ELSE @]
    /\ todo' = FlushEnt(i) \o rest
    /\ UNCHANGED data

\* write_at returns false: past the capacity, or the drive timed out or
\* reported an error, after the sector was written perhaps.
WriteAtFails(i, pos, b, rest) ==
    /\ \/ /\ ~OnDisk(i, pos)
          /\ UNCHANGED data
       \/ /\ MayFail("read") \/ MayFail("write")
          /\ UNCHANGED data
       \/ /\ MayFail("write")
          /\ OnDisk(i, pos)
          /\ data' = Written(i, pos, b)
    /\ todo' = rest
    /\ UNCHANGED dir

-----------------------------------------------------------------------------
(* The steps of an operation on the disk *)

Busy(op) == power # "off" /\ todo # <<>> /\ Head(todo).op = op

\* flush_ent, flush_sb: the result of write_sector is not looked at.
FlushSector ==
    /\ Busy("flush")
    /\ LET lba == Head(todo).lba
       IN  \/ /\ lba = Super
              /\ sb' = [magic |-> TRUE, next |-> next]
              /\ UNCHANGED ddir
           \/ /\ lba # Super
              /\ ddir' = [i \in Entries |->
                             IF DirLBA(SectorOf(i)) = lba THEN dir[i] ELSE ddir[i]]
              /\ UNCHANGED sb
           \/ MayFail("write") /\ UNCHANGED <<sb, ddir>>
    /\ todo' = Tail(todo)
    /\ UNCHANGED <<data, power, fsVars, procVars, ret>>

\* seed: create the file, then write_at byte after byte.
SeedFile ==
    /\ Busy("seed")
    /\ IF Unused = {}
       THEN todo' = Tail(todo) /\ UNCHANGED <<dir, next>>
       ELSE Create(Head(todo).name,
                   [k \in 1 .. Len(SeedBytes) |-> SeedByte(First(Unused), k)]
                     \o Tail(todo))
    /\ UNCHANGED <<diskVars, power, present, procVars, ret>>

SeedContent ==
    /\ Busy("byte")
    /\ LET s == Head(todo)
       IN  \/ WriteAt(s.ent, s.pos, s.b, Tail(todo))
           \/ WriteAtFails(s.ent, s.pos, s.b, Tail(todo))
    /\ UNCHANGED <<sb, ddir, power, present, next, procVars, ret>>

-----------------------------------------------------------------------------
(* Power, and fs::init *)

\* The machine stops: between two system calls, or in the middle of one.
PowerOff ==
    /\ power # "off"
    /\ "power" \in Faults \/ (power = "on" /\ todo = <<>>)
    /\ power' = "off"
    /\ present' = FALSE
    /\ dir' = [i \in Entries |-> ZeroEnt]
    /\ next' = 0
    /\ todo' = <<>>
    /\ live' = {}
    /\ fds' = NoFds
    /\ UNCHANGED <<diskVars, ret>>

\* ata::init cannot read the boot sector: the kernel runs without a disk.
NoDisk ==
    /\ power = "off" /\ "absent" \in Faults
    /\ power' = "boot"
    /\ UNCHANGED <<diskVars, fsVars, todo, procVars, ret>>

\* No magic, or the superblock could not be read: an empty file system is
\* written, then the seed files.
Format ==
    /\ power = "off"
    /\ ~sb.magic \/ "mount" \in Faults
    /\ power' = "boot"
    /\ present' = TRUE
    /\ todo' = FlushSb
               \o [s \in 1 .. Cardinality(DirSectors) |-> Flush(DirLBA(s - 1))]
               \o [k \in 1 .. Len(Seeds) |-> Seed(Seeds[k])]
    /\ UNCHANGED <<diskVars, dir, next, procVars, ret>>

\* The magic is there: cache next_free_sector and the directory.  A directory
\* sector that cannot be read stays zero.
Mount ==
    /\ power = "off" /\ sb.magic
    /\ power' = "boot"
    /\ present' = TRUE
    /\ next' = sb.next
    /\ \E unread \in IF "mount" \in Faults THEN SUBSET DirSectors ELSE {{}} :
         dir' = [i \in Entries |->
                    IF SectorOf(i) \in unread THEN ZeroEnt ELSE ddir[i]]
    /\ UNCHANGED <<diskVars, todo, procVars, ret>>

\* kmain: the processes are spawned and started.
Start ==
    /\ power = "boot" /\ todo = <<>>
    /\ power' = "on"
    /\ live' = Spawned
    /\ fds' = NoFds
    /\ UNCHANGED <<diskVars, fsVars, todo, ret>>

-----------------------------------------------------------------------------
(* System calls of process p *)

Calls(p) == power = "on" /\ todo = <<>> /\ p \in live

FreeFds(p) == {s \in Slots : ~fds[p][s].used}

\* The last part of open: a descriptor for entry i, if one is left.
GiveFd(p, i, w) ==
    IF FreeFds(p) = {}
    THEN ret' = Failed /\ UNCHANGED fds
    ELSE LET s == First(FreeFds(p))
         IN  /\ fds' = [fds EXCEPT ![p][s] =
                           [used |-> TRUE, dir |-> i, pos |-> 0, write |-> w]]
             /\ ret' = Returned(<<s>>)

OpenRead(p, n) ==
    /\ Calls(p)
    /\ IF Matches(n) = {}
       THEN ret' = Failed /\ UNCHANGED fds
       ELSE GiveFd(p, First(Matches(n)), FALSE)
    /\ UNCHANGED <<diskVars, power, fsVars, todo, live>>

\* open for writing truncates or creates before it looks for a descriptor.
OpenWrite(p, n) ==
    /\ Calls(p)
    /\ \/ /\ Matches(n) # {}
          /\ Truncate(First(Matches(n)))
          /\ GiveFd(p, First(Matches(n)), TRUE)
          /\ UNCHANGED next
       \/ /\ Matches(n) = {} /\ present /\ Unused # {}
          /\ Create(n, <<>>)
          /\ GiveFd(p, First(Unused), TRUE)
       \/ /\ Matches(n) = {} /\ (~present \/ Unused = {})
          /\ ret' = Failed
          /\ UNCHANGED <<dir, next, todo, fds>>
    /\ UNCHANGED <<diskVars, power, present, live>>

Close(p, s) ==
    /\ Calls(p)
    /\ ret' = IF fds[p][s].used THEN Returned(<<>>) ELSE Failed
    /\ fds' = [fds EXCEPT ![p][s] = EmptyFd]
    /\ UNCHANGED <<diskVars, power, fsVars, todo, live>>

\* Broken read: the position does not move.
Fread_NoAdvance(p, s) ==
    /\ Calls(p)
    /\ LET fd == fds[p][s]
       IN  \/ /\ fd.used /\ ~fd.write
              /\ fd.pos < dir[fd.dir].len /\ OnDisk(fd.dir, fd.pos)
              /\ ret' = Returned(<<data[dir[fd.dir].first][fd.pos]>>)
           \/ /\ \/ ~fd.used \/ fd.write
                 \/ fd.pos >= dir[fd.dir].len
                 \/ ~OnDisk(fd.dir, fd.pos)
                 \/ "read" \in Faults
              /\ ret' = Failed
    /\ UNCHANGED <<diskVars, power, fsVars, todo, procVars>>

\* fread: the byte at the descriptor's position, which moves on.
Fread(p, s) ==
    /\ Calls(p)
    /\ LET fd == fds[p][s]
       IN  \/ /\ fd.used /\ ~fd.write
              /\ fd.pos < dir[fd.dir].len /\ OnDisk(fd.dir, fd.pos)
              /\ ret' = Returned(<<data[dir[fd.dir].first][fd.pos]>>)
              /\ fds' = [fds EXCEPT ![p][s].pos = @ + 1]
           \/ /\ \/ ~fd.used \/ fd.write
                 \/ fd.pos >= dir[fd.dir].len
                 \/ ~OnDisk(fd.dir, fd.pos)
                 \/ "read" \in Faults
              /\ ret' = Failed
              /\ UNCHANGED fds
    /\ UNCHANGED <<diskVars, power, fsVars, todo, live>>

\* Broken write: a refused byte moves the position too.
Fwrite_AlwaysAdvances(p, s, b) ==
    /\ Calls(p)
    /\ LET fd == fds[p][s]
       IN  \/ /\ fd.used /\ fd.write /\ fd.pos < Cap
              /\ \/ WriteAt(fd.dir, fd.pos, b, <<>>) /\ ret' = Returned(<<>>)
                 \/ WriteAtFails(fd.dir, fd.pos, b, <<>>) /\ ret' = Failed
              /\ fds' = [fds EXCEPT ![p][s].pos = @ + 1]
           \/ /\ ~fd.used \/ ~fd.write
              /\ ret' = Failed
              /\ UNCHANGED <<data, dir, todo, fds>>
    /\ UNCHANGED <<sb, ddir, power, present, next, live>>

\* fwrite: the byte at the descriptor's position, which moves on if it is
\* accepted.
Fwrite(p, s, b) ==
    /\ Calls(p)
    /\ LET fd == fds[p][s]
       IN  \/ /\ fd.used /\ fd.write
              /\ WriteAt(fd.dir, fd.pos, b, <<>>)
              /\ ret' = Returned(<<>>)
              /\ fds' = [fds EXCEPT ![p][s].pos = @ + 1]
           \/ /\ fd.used /\ fd.write
              /\ WriteAtFails(fd.dir, fd.pos, b, <<>>)
              /\ ret' = Failed
              /\ UNCHANGED fds
           \/ /\ ~fd.used \/ ~fd.write
              /\ ret' = Failed
              /\ UNCHANGED <<data, dir, todo, fds>>
    /\ UNCHANGED <<sb, ddir, power, present, next, live>>

\* exec_file: the program becomes the bytes read_file could read, the
\* descriptors stay.
ExecFile(p, n) ==
    /\ Calls(p)
    /\ IF Matches(n) = {}
       THEN ret' = Failed
       ELSE LET e == dir[First(Matches(n))]
            IN  \E done \in 0 .. e.len :
                  /\ done < e.len => "read" \in Faults \/ e.first \notin Extents
                  /\ done > 0 => e.first \in Extents
                  /\ ret' = Returned([k \in 1 .. done |-> data[e.first][k - 1]])
    /\ UNCHANGED <<diskVars, power, fsVars, todo, procVars>>

\* fork copies the descriptors, positions included.
Fork(p, q) ==
    /\ Calls(p) /\ q \in Procs \ live
    /\ live' = live \cup {q}
    /\ fds' = [fds EXCEPT ![q] = fds[p]]
    /\ UNCHANGED <<diskVars, power, fsVars, todo, ret>>

Exit(p) ==
    /\ Calls(p)
    /\ live' = live \ {p}
    /\ UNCHANGED <<diskVars, power, fsVars, todo, fds, ret>>

-----------------------------------------------------------------------------

\* The image builder leaves sectors 256 and up zero.
Init ==
    /\ sb = [magic |-> FALSE, next |-> 0]
    /\ ddir = [i \in Entries |-> ZeroEnt]
    /\ data = [e \in Extents |-> [pos \in Positions |-> Blank]]
    /\ power = "off"
    /\ present = FALSE
    /\ dir = [i \in Entries |-> ZeroEnt]
    /\ next = 0
    /\ todo = <<>>
    /\ live = {}
    /\ fds = NoFds
    /\ ret = Failed

Disk == FlushSector \/ SeedFile \/ SeedContent

Boot == NoDisk \/ Format \/ Mount \/ Start \/ PowerOff

Syscall(p) ==
    \/ \E n \in Names : OpenRead(p, n) \/ OpenWrite(p, n) \/ ExecFile(p, n)
    \/ \E s \in Slots :
         Close(p, s) \/ Fread(p, s) \/ \E b \in Bytes : Fwrite(p, s, b)
    \/ \E q \in Procs : Fork(p, q)
    \/ Exit(p)

Next == Disk \/ Boot \/ \E p \in Procs : Syscall(p)

Spec == Init /\ [][Next]_vars

-----------------------------------------------------------------------------
(* Properties *)

Entry == [name : Names \cup {NoName}, first : Nat, len : 0 .. Cap]

\* Every variable keeps its type.
FsTypeOK ==
    /\ sb \in [magic : BOOLEAN, next : Nat]
    /\ ddir \in [Entries -> Entry]
    /\ data \in [Extents -> [Positions -> Bytes \cup {Blank}]]
    /\ power \in {"off", "boot", "on"}
    /\ present \in BOOLEAN
    /\ dir \in [Entries -> Entry]
    /\ next \in Nat
    /\ live \in SUBSET Procs
    /\ fds \in [Procs -> [Slots -> [used : BOOLEAN, dir : Entries,
                                    pos : 0 .. Cap, write : BOOLEAN]]]

Named(d) == {i \in Entries : d[i].name # NoName}

\* No two files have the same extent, and the next one to be handed out is
\* nobody's: for the cached directory with NEXT_FREE, and for what the next
\* mount will read.
ExtentsDisjoint ==
    /\ \A i, j \in Named(dir) : dir[i].first = dir[j].first => i = j
    /\ \A i \in Named(dir) : dir[i].first < next
    /\ todo = <<>> =>
          /\ \A i, j \in Named(ddir) : ddir[i].first = ddir[j].first => i = j
          /\ \A i \in Named(ddir) : ddir[i].first < sb.next

\* The bytes that a length on the disk counts were all written: the data of
\* an append reaches the disk before its length does, and a descriptor left
\* behind the end by a truncation only uncovers bytes that were written.
CountedIsWritten ==
    \A i \in Named(ddir) : ddir[i].first \in Extents =>
        \A pos \in 0 .. ddir[i].len - 1 : data[ddir[i].first][pos] # Blank

\* An open descriptor denotes an entry that is in use and that find() may take.
HandlesAreNamed ==
    \A p \in Procs, s \in Slots : fds[p][s].used => fds[p][s].dir \in Named(dir)

\* A descriptor open for writing is where its accepted bytes end: whatever
\* failed, was refused or was truncated meanwhile, every position it has
\* passed was written.
WriterLeavesNoGap ==
    \A p \in Procs, s \in Slots :
        LET fd == fds[p][s]
        IN  fd.used /\ fd.write /\ dir[fd.dir].first \in Extents =>
                \A pos \in 0 .. fd.pos - 1 : data[dir[fd.dir].first][pos] # Blank

\* A file is never lost from the disk, and never moves: the entry that names
\* it stays, through power cuts too.
FilesStay ==
    [][\A i \in Named(ddir) :
          ddir'[i].name = ddir[i].name /\ ddir'[i].first = ddir[i].first]_vars

-----------------------------------------------------------------------------
(* What it all looks like to the processes *)

\* The directory that counts: the cached one, or the disk's without power.
CurDir == IF power = "off" THEN ddir ELSE dir

FileNames == {CurDir[i].name : i \in Named(CurDir)}

Content(n) ==
    LET e == CurDir[CHOOSE i \in Named(CurDir) : CurDir[i].name = n]
    IN  [k \in 1 .. e.len |-> data[e.first][k - 1]]

Files == [n \in FileNames |-> Content(n)]

Handles ==
    [p \in Procs |-> [s \in Slots |->
        IF fds[p][s].used
        THEN [open |-> TRUE, name |-> dir[fds[p][s].dir].name,
              pos |-> fds[p][s].pos, write |-> fds[p][s].write]
        ELSE [open |-> FALSE, name |-> NoName, pos |-> 0, write |-> FALSE]]]

F == INSTANCE FileStore WITH files <- Files, handles <- Handles

\* With a disk that works, caching, sectors and the flush order are
\* invisible: processes see files that survive a restart.
ImplementsFileStore == F!StoreSpec
=============================================================================
