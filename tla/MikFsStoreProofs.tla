-------------------------- MODULE MikFsStoreProofs --------------------------
(***************************************************************************)
(* MikFs implements FileStore: for any size of disk, directory and file,   *)
(* any seeds and any processes, with a disk that works every step is one   *)
(* of the store's calls, a restart, or nothing at all.                     *)
(*                                                                         *)
(* The invariants of MikFsProofs give what the mapping needs of extents    *)
(* and lengths.  StoreShape adds that names are distinct, that as many are *)
(* in use as extents are handed out (so a directory with a free entry has  *)
(* a free extent), and what is left of seeding, which is in todo.          *)
(* The last two sections say what is left of it when power is cut and the  *)
(* drive fails: restarts lose no file, and names stay unique.              *)
(***************************************************************************)
EXTENDS MikFsProofs, FunctionTheorems

-----------------------------------------------------------------------------
(* What the processes see *)

\* The names in directory d, and the bytes of its entry i when the data is x.
NamesOf(d) == {d[i].name : i \in Named(d)}
BytesOf(d, x, i) == [k \in 1 .. d[i].len |-> x[d[i].first][k - 1]]

\* The files: for every name the bytes of the entry that has it.
FilesOf(d, x) ==
    [n \in NamesOf(d) |-> BytesOf(d, x, CHOOSE i \in Named(d) : d[i].name = n)]

\* No two entries of d have the same name.
Distinct(d) == \A i, j \in Named(d) : d[i].name = d[j].name => i = j

\* With distinct names, a name denotes the bytes of the one entry that has it.
LEMMA FilesOfFacts ==
    ASSUME NEW d, NEW x, Distinct(d)
    PROVE  /\ DOMAIN FilesOf(d, x) = NamesOf(d)
           /\ \A i \in Named(d) : /\ d[i].name \in NamesOf(d)
                                  /\ FilesOf(d, x)[d[i].name] = BytesOf(d, x, i)
<1>1. DOMAIN FilesOf(d, x) = NamesOf(d)  BY DEF FilesOf
<1>2. ASSUME NEW i \in Named(d)
      PROVE  d[i].name \in NamesOf(d) /\ FilesOf(d, x)[d[i].name] = BytesOf(d, x, i)
  <2>1. d[i].name \in NamesOf(d)  BY DEF NamesOf
  <2>2. (CHOOSE j \in Named(d) : d[j].name = d[i].name) = i  BY DEF Distinct
  <2> QED  BY <2>1, <2>2 DEF FilesOf
<1> QED  BY <1>1, <1>2

\* From directory d and data x to d2 and x2, one operation creates or changes
\* the file of entry i and leaves the others alone.
OneChanged(d, x, d2, x2, i) ==
    /\ Distinct(d) /\ Distinct(d2)
    /\ i \in Named(d2) /\ NamesOf(d2) = NamesOf(d) \cup {d2[i].name}
    /\ \A j \in Named(d2) : j # i => /\ j \in Named(d) /\ d2[j].name = d[j].name
                                     /\ BytesOf(d2, x2, j) = BytesOf(d, x, j)

\* The files f when the file n has the content c.
FilesWith(f, n, c) == [m \in DOMAIN f \cup {n} |-> IF m = n THEN c ELSE f[m]]

\* One file is created or changed, and no other.
LEMMA FileChanges ==
    ASSUME NEW d, NEW x, NEW d2, NEW x2, NEW i, OneChanged(d, x, d2, x2, i)
    PROVE  FilesOf(d2, x2) = FilesWith(FilesOf(d, x), d2[i].name, BytesOf(d2, x2, i))
<1> USE DEF OneChanged
<1> DEFINE f == FilesOf(d2, x2)
           n == d2[i].name
           c == BytesOf(d2, x2, i)
           Old == FilesOf(d, x)
<1>1. f = [m \in NamesOf(d2) |-> f[m]]  BY DEF FilesOf
<1>2. \A j \in Named(d2) : f[d2[j].name] = BytesOf(d2, x2, j)  BY FilesOfFacts
<1>3. \A j \in Named(d) : Old[d[j].name] = BytesOf(d, x, j)  BY FilesOfFacts
<1> HIDE DEF f, Old
<1>4. ASSUME NEW m \in NamesOf(d2) PROVE f[m] = IF m = n THEN c ELSE Old[m]
  <2>1. PICK j \in Named(d2) : d2[j].name = m  BY DEF NamesOf
  <2>2. CASE j = i  BY <1>2, <2>1, <2>2
  <2>3. CASE j # i  BY <1>2, <1>3, <2>1, <2>3 DEF Distinct
  <2> QED  BY <2>2, <2>3
<1>6. DOMAIN Old = NamesOf(d)  BY FilesOfFacts DEF Old
<1>5. f = [m \in DOMAIN Old \cup {n} |-> IF m = n THEN c ELSE Old[m]]
  BY <1>1, <1>4, <1>6
<1> QED  BY <1>5 DEF f, Old, FilesWith

\* The same names and bytes are the same files.
LEMMA FilesSame ==
    ASSUME NEW d, NEW x, NEW d2, NEW x2, Distinct(d),
           \A i \in Entries : d2[i].name = d[i].name,
           \A i \in Named(d) : BytesOf(d2, x2, i) = BytesOf(d, x, i)
    PROVE  /\ Distinct(d2) /\ Named(d2) = Named(d) /\ NamesOf(d2) = NamesOf(d)
           /\ FilesOf(d2, x2) = FilesOf(d, x)
<1>1. Named(d2) = Named(d)  BY DEF Named
<1>2. \A i \in Named(d) : d2[i].name = d[i].name  BY DEF Named
<1>3. Distinct(d2)  BY <1>1, <1>2 DEF Distinct
<1>4. NamesOf(d2) = NamesOf(d)  BY <1>1, <1>2 DEF NamesOf
<1>5. \A m \in NamesOf(d) : FilesOf(d2, x2)[m] = FilesOf(d, x)[m]
  <2> SUFFICES ASSUME NEW m \in NamesOf(d) PROVE FilesOf(d2, x2)[m] = FilesOf(d, x)[m]
    OBVIOUS
  <2>1. PICK i \in Named(d) : d[i].name = m  BY DEF NamesOf
  <2> QED  BY <1>1, <1>2, <1>3, <2>1, FilesOfFacts
<1>6. FilesOf(d2, x2) = FilesOf(d, x)
  <2> DEFINE f == FilesOf(d2, x2)
             g == FilesOf(d, x)
  <2>1. f = [m \in NamesOf(d) |-> f[m]] /\ g = [m \in NamesOf(d) |-> g[m]]
    BY <1>4 DEF FilesOf
  <2>2. \A m \in NamesOf(d) : f[m] = g[m]  BY <1>5
  <2> HIDE DEF f, g
  <2>3. f = g  BY <2>1, <2>2
  <2> QED  BY <2>3 DEF f, g
<1> QED  BY <1>1, <1>3, <1>4, <1>6

\* The files of the refinement mapping are those of the directory that counts.
LEMMA FilesAre ==
    /\ Files = FilesOf(CurDir, data) /\ Files' = FilesOf(CurDir', data')
    /\ DOMAIN Files = NamesOf(CurDir)
BY DEF Files, FileNames, Content, FilesOf, NamesOf, BytesOf

\* A file is created: an entry without a name gets one that no file has.
LEMMA NewName ==
    ASSUME NEW d, NEW d2, NEW i \in Entries, NEW n, n # NoName, Distinct(d),
           i \notin Named(d), n \notin NamesOf(d), d2[i].name = n,
           \A j \in Entries : j # i => d2[j] = d[j]
    PROVE  /\ Distinct(d2) /\ Named(d2) = Named(d) \cup {i}
           /\ NamesOf(d2) = NamesOf(d) \cup {n}
           /\ Cardinality(Named(d2)) = Cardinality(Named(d)) + 1
<1>1. Named(d2) = Named(d) \cup {i}  BY DEF Named
<1>2. \A j \in Named(d) : j # i /\ d2[j].name = d[j].name /\ d[j].name # n
  BY DEF Named, NamesOf
<1>3. Distinct(d2)  BY <1>1, <1>2 DEF Distinct
<1>4. NamesOf(d2) = NamesOf(d) \cup {n}  BY <1>1, <1>2 DEF NamesOf
<1>5. IsFiniteSet(Named(d))
  <2>1. IsFiniteSet(Entries)  BY FS_Interval, DiskAssumption DEF Entries
  <2> QED  BY <2>1, FS_Subset DEF Named
<1> QED  BY <1>1, <1>3, <1>4, <1>5, FS_AddElement

\* The directory is full when every entry has a name.
LEMMA FullDirectory ==
    ASSUME NEW d, Distinct(d)
    PROVE  /\ IsFiniteSet(Named(d)) /\ Cardinality(Named(d)) \in Nat
           /\ Cardinality(Named(d)) <= MaxFiles
           /\ Cardinality(NamesOf(d)) = Cardinality(Named(d))
           /\ Cardinality(Named(d)) = MaxFiles <=> Named(d) = Entries
<1>1. IsFiniteSet(Entries) /\ Cardinality(Entries) = MaxFiles
  <2>1. 0 \in Int /\ MaxFiles - 1 \in Int /\ ~(0 > MaxFiles - 1)
        /\ (MaxFiles - 1) - 0 + 1 = MaxFiles
    BY DiskAssumption
  <2> DEFINE m == MaxFiles - 1
  <2> HIDE DEF m
  <2>2. IsFiniteSet(0 .. m) /\ Cardinality(0 .. m) = IF 0 > m THEN 0 ELSE m - 0 + 1
    BY <2>1, FS_Interval DEF m
  <2> QED  BY <2>1, <2>2 DEF Entries, m
<1>2. Named(d) \in SUBSET Entries  BY DEF Named
<1>3. /\ IsFiniteSet(Named(d)) /\ Cardinality(Named(d)) <= MaxFiles
      /\ Cardinality(Named(d)) = MaxFiles => Named(d) = Entries
  BY <1>1, <1>2, FS_Subset
<1>4. Cardinality(Named(d)) \in Nat  BY <1>3, FS_CardinalityType
<1>5. Cardinality(NamesOf(d)) = Cardinality(Named(d))
  <2> DEFINE f == [i \in Named(d) |-> d[i].name]
  <2>1. f \in [Named(d) -> NamesOf(d)]  BY DEF NamesOf
  <2>2. \A i, j \in Named(d) : f[i] = f[j] => i = j  BY DEF Distinct
  <2>3. \A n \in NamesOf(d) : \E i \in Named(d) : f[i] = n  BY DEF NamesOf
  <2> HIDE DEF f
  <2>6. f \in Injection(Named(d), NamesOf(d))  BY <2>1, <2>2, Fun_IsInj
  <2>7. f \in Surjection(Named(d), NamesOf(d))  BY <2>1, <2>3, Fun_IsSurj
  <2>4. f \in Bijection(Named(d), NamesOf(d))  BY <2>6, <2>7, Fun_IsBij
  <2>5. ExistsBijection(Named(d), NamesOf(d))  BY <2>4 DEF ExistsBijection
  <2> QED  BY <1>3, <2>5, FS_Bijection
<1> QED  BY <1>1, <1>3, <1>4, <1>5

-----------------------------------------------------------------------------
(* What is left of seeding *)

\* A file that is still to be seeded has a name of its own.
SeedsNew(t, d) ==
    \A k \in 1 .. Len(t) : t[k].op = "seed" =>
        /\ t[k].name \notin NamesOf(d)
        /\ \A j \in 1 .. Len(t) : t[j].op = "seed" /\ t[j].name = t[k].name => j = k

\* A byte of a seed goes to the end of its file: those between are written
\* by earlier steps, and each by one.
Appends(t, d) ==
    \A k \in 1 .. Len(t) : t[k].op = "byte" =>
        /\ t[k].ent \in Named(d) /\ d[t[k].ent].len <= t[k].pos
        /\ \A pos \in d[t[k].ent].len .. t[k].pos - 1 : \E j \in 1 .. k - 1 :
             t[j].op = "byte" /\ t[j].ent = t[k].ent /\ t[j].pos = pos
        /\ \A j \in 1 .. Len(t) :
             t[j].op = "byte" /\ t[j].ent = t[k].ent /\ t[j].pos = t[k].pos => j = k

\* A seed is written to its end before the next file is created.
BytesFirst(t) ==
    \A j, k \in 1 .. Len(t) : j < k /\ t[j].op = "seed" => t[k].op # "byte"

\* What is to be done is n steps of other kinds than op, then what was after
\* the first step.
Follows(t2, t, n, op) ==
    /\ n \in Nat
    /\ \A k \in 1 .. Len(t2) : t2[k].op = op =>
         k - n + 1 \in 2 .. Len(t) /\ t2[k] = t[k - n + 1]
    /\ \A j \in 2 .. Len(t) : j - 1 + n \in 1 .. Len(t2) /\ t2[j - 1 + n] = t[j]

\* Steps one after another.
LEMMA StepConcat ==
    ASSUME NEW r \in Seq(Step), NEW s \in Seq(Step)
    PROVE  /\ r \o s \in Seq(Step) /\ Len(r \o s) = Len(r) + Len(s)
           /\ \A k \in 1 .. Len(r) + Len(s) :
                (r \o s)[k] = IF k <= Len(r) THEN r[k] ELSE s[k - Len(r)]
           /\ \A u \in Seq(Step) : (r \o s) \o u = r \o (s \o u)
<1>1. /\ r \o s \in Seq(Step) /\ Len(r \o s) = Len(r) + Len(s)
      /\ \A k \in 1 .. Len(r) + Len(s) :
           (r \o s)[k] = IF k <= Len(r) THEN r[k] ELSE s[k - Len(r)]
  BY ConcatProperties
<1>2. ASSUME NEW u \in Seq(Step) PROVE (r \o s) \o u = r \o (s \o u)
  BY ConcatAssociative
<1> QED  BY <1>1, <1>2

\* Other steps in front of the remaining ones: those of kind op only shift.
LEMMA FollowsConcat ==
    ASSUME NEW s \in Seq(Step), NEW t \in Seq(Step), t # <<>>, NEW op,
           \A k \in 1 .. Len(s) : s[k].op # op
    PROVE  Follows(s \o Tail(t), t, Len(s), op)
<1> DEFINE u == s \o Tail(t)
           n == Len(s)
<1>1. /\ Len(t) \in Nat \ {0} /\ Len(Tail(t)) = Len(t) - 1 /\ Tail(t) \in Seq(Step)
      /\ \A k \in 1 .. Len(Tail(t)) : Tail(t)[k] = t[k + 1]
  BY HeadTailProperties, EmptySeq
<1>2. /\ n \in Nat /\ Len(u) = n + Len(Tail(t))
      /\ \A k \in 1 .. n + Len(Tail(t)) : u[k] = IF k <= n THEN s[k] ELSE Tail(t)[k - n]
  BY <1>1, ConcatProperties, LenProperties
<1> HIDE DEF u
<1>3. ASSUME NEW k \in 1 .. Len(u), u[k].op = op
      PROVE  k - n + 1 \in 2 .. Len(t) /\ u[k] = t[k - n + 1]
  <2>1. ~(k <= n)  BY <1>2, <1>3
  <2>2. k - n \in 1 .. Len(Tail(t))  BY <1>1, <1>2, <2>1
  <2> QED  BY <1>1, <1>2, <2>1, <2>2
<1>4. ASSUME NEW j \in 2 .. Len(t)
      PROVE  j - 1 + n \in 1 .. Len(u) /\ u[j - 1 + n] = t[j]
  <2>1. j - 1 \in 1 .. Len(Tail(t)) /\ Tail(t)[j - 1] = t[j]  BY <1>1
  <2>2. j - 1 + n \in 1 .. Len(u) /\ ~(j - 1 + n <= n) /\ (j - 1 + n) - n = j - 1
    BY <1>1, <1>2, <2>1
  <2> QED  BY <1>2, <2>1, <2>2
<1>5. Follows(u, t, n, op)  BY <1>2, <1>3, <1>4 DEF Follows
<1> QED  BY <1>5 DEF u

\* What is still to be seeded stays new while the directory does not get its name.
LEMMA SeedsNewFollows ==
    ASSUME NEW t \in Seq(Step), NEW t2, NEW n, NEW d, NEW d2, SeedsNew(t, d), Follows(t2, t, n, "seed"),
           \A k \in 2 .. Len(t) : t[k].op = "seed" => t[k].name \notin NamesOf(d2)
    PROVE  SeedsNew(t2, d2)
<1>1. Len(t) \in Nat  BY LenProperties
<1> SUFFICES ASSUME NEW k \in 1 .. Len(t2), t2[k].op = "seed"
             PROVE  /\ t2[k].name \notin NamesOf(d2)
                    /\ \A j \in 1 .. Len(t2) :
                         t2[j].op = "seed" /\ t2[j].name = t2[k].name => j = k
  BY DEF SeedsNew
<1>2. k - n + 1 \in 2 .. Len(t) /\ t2[k] = t[k - n + 1] /\ n \in Nat  BY DEF Follows
<1>3. ASSUME NEW j \in 1 .. Len(t2), t2[j].op = "seed", t2[j].name = t2[k].name
      PROVE  j = k
  <2>1. j - n + 1 \in 2 .. Len(t) /\ t2[j] = t[j - n + 1]  BY <1>3 DEF Follows
  <2>2. j - n + 1 \in 1 .. Len(t) /\ k - n + 1 \in 1 .. Len(t)  BY <1>1, <1>2, <2>1
  <2>3. j - n + 1 = k - n + 1  BY <1>2, <1>3, <2>1, <2>2 DEF SeedsNew
  <2> QED  BY <1>2, <2>3
<1> QED  BY <1>2, <1>3

\* Where the first step wrote a byte, its file is longer by it; no other file
\* that is being seeded changed its length.
LEMMA AppendsFollows ==
    ASSUME NEW t \in Seq(Step), NEW t2, NEW n, NEW d \in [Entries -> Entry],
           NEW d2 \in [Entries -> Entry],
           Appends(t, d), Follows(t2, t, n, "byte"),
           \A i \in Named(d) : i \in Named(d2),
           \A k \in 2 .. Len(t) : t[k].op = "byte" =>
               \/ d2[t[k].ent].len = d[t[k].ent].len
                  /\ (t[1].op = "byte" => t[1].ent # t[k].ent)
               \/ /\ t[1].op = "byte" /\ t[1].ent = t[k].ent
                  /\ t[1].pos = d[t[k].ent].len /\ d2[t[k].ent].len = t[1].pos + 1
    PROVE  Appends(t2, d2)
<1>1. Len(t) \in Nat /\ \A k \in 1 .. Len(t) : t[k] \in Step
  BY LenProperties, ElementOfSeq
<1> SUFFICES ASSUME NEW k \in 1 .. Len(t2), t2[k].op = "byte"
             PROVE  /\ t2[k].ent \in Named(d2) /\ d2[t2[k].ent].len <= t2[k].pos
                    /\ \A pos \in d2[t2[k].ent].len .. t2[k].pos - 1 : \E j \in 1 .. k - 1 :
                         t2[j].op = "byte" /\ t2[j].ent = t2[k].ent /\ t2[j].pos = pos
                    /\ \A j \in 1 .. Len(t2) :
                         t2[j].op = "byte" /\ t2[j].ent = t2[k].ent
                           /\ t2[j].pos = t2[k].pos => j = k
  BY DEF Appends
<1> DEFINE h == k - n + 1
           e == t[h].ent
<1>2. h \in 2 .. Len(t) /\ t2[k] = t[h] /\ n \in Nat /\ h \in 1 .. Len(t)
  BY <1>1 DEF Follows
<1>3. /\ e \in Named(d) /\ d[e].len <= t[h].pos
      /\ \A pos \in d[e].len .. t[h].pos - 1 : \E j \in 1 .. h - 1 :
           t[j].op = "byte" /\ t[j].ent = e /\ t[j].pos = pos
      /\ \A j \in 1 .. Len(t) :
           t[j].op = "byte" /\ t[j].ent = e /\ t[j].pos = t[h].pos => j = h
  BY <1>2 DEF Appends
<1>4. /\ e \in Entries /\ t[h].pos \in Nat /\ d[e].len \in Nat /\ d2[e].len \in Nat
  <2>1. t[h] \in Step /\ t[h].op = "byte"  BY <1>1, <1>2
  <2>2. t[h].pos \in Positions /\ e \in Entries  BY <2>1 DEF Step
  <2> QED  BY <2>2, DiskAssumption DEF Positions, Entry
<1>5. \/ d2[e].len = d[e].len /\ (t[1].op = "byte" => t[1].ent # e)
      \/ t[1].op = "byte" /\ t[1].ent = e /\ t[1].pos = d[e].len /\ d2[e].len = t[1].pos + 1
  BY <1>2
<1>6. 1 \in 1 .. Len(t) /\ 1 # h  BY <1>1, <1>2
<1>7. d2[e].len <= t[h].pos
  <2>1. CASE d2[e].len = d[e].len  BY <1>3, <2>1
  <2>2. CASE t[1].op = "byte" /\ t[1].ent = e /\ t[1].pos = d[e].len
             /\ d2[e].len = t[1].pos + 1
    <3>1. t[1].pos # t[h].pos  BY <1>3, <1>6, <2>2
    <3> QED  BY <1>3, <1>4, <2>2, <3>1
  <2> QED  BY <1>5, <2>1, <2>2
<1>8. ASSUME NEW pos \in d2[e].len .. t[h].pos - 1
      PROVE  \E j \in 1 .. k - 1 : t2[j].op = "byte" /\ t2[j].ent = e /\ t2[j].pos = pos
  <2>1. pos \in d[e].len .. t[h].pos - 1  BY <1>4, <1>5, <1>8
  <2>2. PICK j \in 1 .. h - 1 : t[j].op = "byte" /\ t[j].ent = e /\ t[j].pos = pos
    BY <1>3, <2>1
  <2>3. j # 1  BY <1>4, <1>5, <1>8, <2>2
  <2>4. j \in 2 .. Len(t)  BY <1>1, <1>2, <2>2, <2>3
  <2>5. j - 1 + n \in 1 .. Len(t2) /\ t2[j - 1 + n] = t[j]  BY <2>4 DEF Follows
  <2>6. j - 1 + n \in 1 .. k - 1
    <3>1. j - 1 + n >= 1  BY <1>2, <2>3, <2>2
    <3> QED  BY <1>2, <2>2, <2>5, <3>1
  <2> QED  BY <2>2, <2>5, <2>6
<1>9. ASSUME NEW j \in 1 .. Len(t2), t2[j].op = "byte", t2[j].ent = e, t2[j].pos = t[h].pos
      PROVE  j = k
  <2>1. j - n + 1 \in 2 .. Len(t) /\ t2[j] = t[j - n + 1]  BY <1>9 DEF Follows
  <2>2. j - n + 1 \in 1 .. Len(t)  BY <1>1, <2>1
  <2>3. j - n + 1 = h  BY <1>3, <1>9, <2>1, <2>2
  <2> QED  BY <1>2, <2>3
<1> QED  BY <1>2, <1>3, <1>7, <1>8, <1>9

\* The bytes of a seed stay in front of the seeds that follow it.
LEMMA BytesFirstFollows ==
    ASSUME NEW t \in Seq(Step), NEW t2, NEW n, BytesFirst(t),
           Follows(t2, t, n, "byte"), Follows(t2, t, n, "seed")
    PROVE  BytesFirst(t2)
<1>1. Len(t) \in Nat  BY LenProperties
<1> SUFFICES ASSUME NEW j \in 1 .. Len(t2), NEW k \in 1 .. Len(t2), j < k, t2[j].op = "seed",
                    t2[k].op = "byte"
             PROVE  FALSE
  BY DEF BytesFirst
<1>2. /\ j - n + 1 \in 2 .. Len(t) /\ t2[j] = t[j - n + 1] /\ n \in Nat
      /\ k - n + 1 \in 2 .. Len(t) /\ t2[k] = t[k - n + 1]
  BY DEF Follows
<1>3. j - n + 1 \in 1 .. Len(t) /\ k - n + 1 \in 1 .. Len(t) /\ j - n + 1 < k - n + 1
  BY <1>1, <1>2
<1> QED  BY <1>2, <1>3 DEF BytesFirst

\* Flushes alone seed nothing.
LEMMA OnlyFlushes ==
    ASSUME NEW t, \A k \in 1 .. Len(t) : t[k].op = "flush"
    PROVE  \A d : SeedsNew(t, d) /\ Appends(t, d) /\ BytesFirst(t)
BY DEF SeedsNew, Appends, BytesFirst

\* What SeedFile adds: two flushes, and the bytes of the seed.
BytesFor(i) == [k \in 1 .. Len(SeedBytes) |-> SeedByte(i, k)]

Added(i) == FlushEnt(i) \o FlushSb \o BytesFor(i)

\* They come before what was left to do.
LEMMA AddedFirst ==
    ASSUME NEW i \in Entries, NEW r \in Seq(Step)
    PROVE  FlushEnt(i) \o FlushSb \o (BytesFor(i) \o r) = Added(i) \o r
<1> DEFINE f == FlushEnt(i) \o FlushSb
           bytes == BytesFor(i)
<1>1. bytes \in Seq(Step) /\ FlushEnt(i) \in Seq(Step) /\ FlushSb \in Seq(Step)
  BY StepFacts, LenProperties, DiskAssumption DEF BytesFor
<1>2. f \in Seq(Step)  BY <1>1, ConcatProperties
<1> HIDE DEF f, bytes
<1>3. f \o (bytes \o r) = (f \o bytes) \o r  BY <1>1, <1>2, StepConcat
<1> QED  BY <1>3 DEF f, bytes, Added

\* How many they are, and which.
LEMMA SeedAdds ==
    ASSUME NEW i \in Entries
    PROVE  LET n == Len(SeedBytes)
               s == Added(i)
           IN  /\ s \in Seq(Step) /\ n \in Nat /\ Len(s) = n + 2
               /\ \A k \in 1 .. n + 2 : k <= 2 => s[k].op = "flush"
               /\ \A k \in 3 .. n + 2 : s[k].op = "byte" /\ s[k].ent = i /\ s[k].pos = k - 3
               /\ \A k \in 1 .. Len(s) : s[k].op # "seed"
<1> DEFINE n == Len(SeedBytes)
           bytes == BytesFor(i)
           f == FlushEnt(i) \o FlushSb
           s == f \o bytes
<1>1. n \in Nat /\ bytes \in Seq(Step) /\ FlushEnt(i) \in Seq(Step) /\ FlushSb \in Seq(Step)
  BY StepFacts, LenProperties, DiskAssumption DEF BytesFor
<1>2. Len(bytes) = n /\ \A k \in 1 .. n : /\ bytes[k].op = "byte" /\ bytes[k].ent = i
                                          /\ bytes[k].pos = k - 1
  BY <1>1 DEF SeedByte, BytesFor
<1>3. Len(f) = 2 /\ f[1].op = "flush" /\ f[2].op = "flush" /\ f \in Seq(Step)
  <2>1. f \in Seq(Step)  BY <1>1, ConcatProperties
  <2> QED  BY <2>1 DEF FlushEnt, FlushSb, Flush
<1> HIDE DEF f, bytes
<1>5. s \in Seq(Step) /\ Len(s) = n + 2
      /\ \A k \in 1 .. n + 2 : s[k] = IF k <= 2 THEN f[k] ELSE bytes[k - 2]
  <2>1. s \in Seq(Step) /\ Len(s) = 2 + n
        /\ \A k \in 1 .. 2 + n : s[k] = IF k <= 2 THEN f[k] ELSE bytes[k - 2]
    <3>1. /\ s \in Seq(Step) /\ Len(s) = Len(f) + Len(bytes)
          /\ \A k \in 1 .. Len(f) + Len(bytes) :
               s[k] = IF k <= Len(f) THEN f[k] ELSE bytes[k - Len(f)]
      BY <1>1, <1>3, StepConcat
    <3> QED  BY <1>2, <1>3, <3>1
  <2> QED  BY <1>1, <2>1
<1>6. /\ \A k \in 1 .. n + 2 : k <= 2 => s[k].op = "flush"
      /\ \A k \in 3 .. n + 2 : s[k].op = "byte" /\ s[k].ent = i /\ s[k].pos = k - 3
  <2>1. ASSUME NEW k \in 1 .. n + 2, k <= 2 PROVE s[k].op = "flush"
    <3>1. k = 1 \/ k = 2  BY <1>1, <2>1
    <3> QED  BY <1>3, <1>5, <2>1, <3>1
  <2>2. ASSUME NEW k \in 3 .. n + 2
        PROVE  s[k].op = "byte" /\ s[k].ent = i /\ s[k].pos = k - 3
    <3>1. k - 2 \in 1 .. n /\ ~(k <= 2) /\ k \in 1 .. n + 2 /\ (k - 2) - 1 = k - 3  BY <1>1
    <3> QED  BY <1>2, <1>5, <3>1
  <2> QED  BY <2>1, <2>2
<1> HIDE DEF s
<1>7. \A k \in 1 .. Len(s) : s[k].op # "seed"
  <2> SUFFICES ASSUME NEW k \in 1 .. Len(s) PROVE s[k].op # "seed"
    OBVIOUS
  <2>1. CASE k <= 2  BY <1>5, <1>6, <2>1
  <2>2. CASE ~(k <= 2)
    <3>1. k \in 3 .. n + 2  BY <1>1, <1>5, <2>2
    <3> QED  BY <1>6, <3>1
  <2> QED  BY <2>1, <2>2
<1> QED  BY <1>1, <1>5, <1>6, <1>7 DEF s, f, bytes, Added

\* The steps that SeedFile leaves, where the new file is empty.
LEMMA SeedSteps ==
    ASSUME NEW t \in Seq(Step), t # <<>>, Head(t).op = "seed", BytesFirst(t),
           NEW i \in Entries, NEW d, i \in Named(d), d[i].len = 0
    PROVE  LET s == FlushEnt(i) \o FlushSb \o [k \in 1 .. Len(SeedBytes) |-> SeedByte(i, k)]
           IN  /\ s \in Seq(Step)
               /\ FlushEnt(i) \o FlushSb
                    \o ([k \in 1 .. Len(SeedBytes) |-> SeedByte(i, k)] \o Tail(t)) = s \o Tail(t)
               /\ Follows(s \o Tail(t), t, Len(s), "seed")
               /\ Appends(s \o Tail(t), d) /\ BytesFirst(s \o Tail(t))
<1> DEFINE s == Added(i)
           u == s \o Tail(t)
           n == Len(SeedBytes)
<1>4. /\ Len(t) \in Nat \ {0} /\ Len(Tail(t)) = Len(t) - 1 /\ Tail(t) \in Seq(Step)
      /\ \A k \in 1 .. Len(Tail(t)) : Tail(t)[k] = t[k + 1]
      /\ Head(t) = t[1]
  BY HeadTailProperties, EmptySeq
<1>5. \A k \in 1 .. Len(Tail(t)) : Tail(t)[k].op # "byte"
  BY <1>4 DEF BytesFirst
<1>1. n \in Nat  BY DiskAssumption, LenProperties
<1>6. FlushEnt(i) \o FlushSb \o (BytesFor(i) \o Tail(t)) = s \o Tail(t)
  BY <1>4, AddedFirst
<1>7. s \in Seq(Step) /\ Len(s) = n + 2  BY <1>4, SeedAdds
<1>8. /\ \A k \in 1 .. n + 2 : k <= 2 => s[k].op = "flush"
      /\ \A k \in 3 .. n + 2 : s[k].op = "byte" /\ s[k].ent = i /\ s[k].pos = k - 3
  BY <1>4, SeedAdds
<1>9. \A k \in 1 .. Len(s) : s[k].op # "seed"  BY <1>4, SeedAdds
<1> HIDE DEF s
<1>10. Follows(u, t, Len(s), "seed")  BY <1>7, <1>9, FollowsConcat
<1>11. /\ Len(u) = n + 2 + Len(Tail(t))
       /\ \A k \in 1 .. n + 2 + Len(Tail(t)) :
            u[k] = IF k <= n + 2 THEN s[k] ELSE Tail(t)[k - (n + 2)]
  <2>1. /\ Len(u) = Len(s) + Len(Tail(t))
        /\ \A k \in 1 .. Len(s) + Len(Tail(t)) :
             u[k] = IF k <= Len(s) THEN s[k] ELSE Tail(t)[k - Len(s)]
    BY <1>4, <1>7, StepConcat
  <2>2. Len(s) = n + 2  BY <1>7
  <2> QED  BY <2>1, <2>2
<1> HIDE DEF u
<1>12. ASSUME NEW k \in 1 .. Len(u), u[k].op = "byte"
       PROVE  k \in 3 .. n + 2 /\ u[k].ent = i /\ u[k].pos = k - 3
  <2>0. Len(u) \in Nat /\ k \in Nat  BY <1>1, <1>4, <1>11
  <2>1. k <= n + 2
    <3> SUFFICES ASSUME ~(k <= n + 2) PROVE FALSE
      OBVIOUS
    <3>1. k - (n + 2) \in 1 .. Len(Tail(t))  BY <1>1, <1>4, <1>11, <2>0
    <3>2. u[k] = Tail(t)[k - (n + 2)]  BY <1>11
    <3> QED  BY <1>5, <1>12, <3>1, <3>2
  <2>2. k \in 1 .. n + 2 /\ u[k] = s[k]  BY <1>1, <1>11, <2>0, <2>1
  <2>3. ~(k <= 2)  BY <1>8, <1>12, <2>2
  <2>4. k \in 3 .. n + 2  BY <1>1, <2>2, <2>3
  <2> QED  BY <1>8, <2>2, <2>4
<1>13. \A k \in 3 .. n + 2 : /\ k \in 1 .. Len(u) /\ u[k].op = "byte"
                             /\ u[k].ent = i /\ u[k].pos = k - 3
  <2> SUFFICES ASSUME NEW k \in 3 .. n + 2
               PROVE  k \in 1 .. Len(u) /\ u[k] = s[k]
    BY <1>8
  <2> QED  BY <1>1, <1>4, <1>11
<1>14. Appends(u, d)
  <2> SUFFICES ASSUME NEW k \in 1 .. Len(u), u[k].op = "byte"
               PROVE  /\ u[k].ent \in Named(d) /\ d[u[k].ent].len <= u[k].pos
                      /\ \A pos \in d[u[k].ent].len .. u[k].pos - 1 : \E j \in 1 .. k - 1 :
                           u[j].op = "byte" /\ u[j].ent = u[k].ent /\ u[j].pos = pos
                      /\ \A j \in 1 .. Len(u) :
                           u[j].op = "byte" /\ u[j].ent = u[k].ent
                             /\ u[j].pos = u[k].pos => j = k
    BY DEF Appends
  <2>1. k \in 3 .. n + 2 /\ u[k].ent = i /\ u[k].pos = k - 3  BY <1>12
  <2>2. ASSUME NEW pos \in 0 .. k - 4
        PROVE  \E j \in 1 .. k - 1 : u[j].op = "byte" /\ u[j].ent = i /\ u[j].pos = pos
    <3>1. pos + 3 \in 3 .. n + 2 /\ pos + 3 \in 1 .. k - 1 /\ (pos + 3) - 3 = pos
      BY <1>1, <2>1
    <3> QED  BY <1>13, <3>1
  <2>3. ASSUME NEW j \in 1 .. Len(u), u[j].op = "byte", u[j].pos = k - 3 PROVE j = k
    <3>1. j \in 3 .. n + 2 /\ u[j].pos = j - 3  BY <1>12, <2>3
    <3> QED  BY <1>1, <2>1, <2>3, <3>1
  <2>4. (k - 3) - 1 = k - 4 /\ 0 <= k - 3  BY <1>1, <2>1
  <2> QED  BY <2>1, <2>2, <2>3, <2>4
<1>15. BytesFirst(u)
  <2> SUFFICES ASSUME NEW j \in 1 .. Len(u), NEW k \in 1 .. Len(u), j < k,
                      u[j].op = "seed", u[k].op = "byte"
               PROVE  FALSE
    BY DEF BytesFirst
  <2>1. k \in 3 .. n + 2  BY <1>12
  <2>2. j \in 1 .. n + 2 /\ j \in Nat  BY <1>1, <2>1, <1>11, <1>4
  <2>3. u[j] = s[j]  BY <1>1, <1>4, <1>11, <2>2
  <2> QED  BY <1>7, <1>9, <2>2, <2>3
<1> QED  BY <1>6, <1>7, <1>10, <1>14, <1>15 DEF u, s, Added, BytesFor

\* The directory that counts has every name once and as many as extents are
\* handed out; no process runs before init is done; seeding is in order.
StoreShape ==
    /\ Distinct(CurDir)
    /\ Cardinality(Named(CurDir)) = IF power = "off" THEN sb.next ELSE next
    /\ power = "off" => next = 0 /\ (sb.magic \/ Named(ddir) = {})
    /\ power # "off" => present /\ (sb.magic \/ Pends(todo, Flush(Super)))
    /\ power # "on" => live = {}
    /\ SeedsNew(todo, dir) /\ Appends(todo, dir) /\ BytesFirst(todo)

\* The inductive invariant of the refinement.
StoreInv == CountInv /\ ExtentInv /\ StoreShape

\* What the invariant says while the machine runs.
LEMMA StoreFacts ==
    ASSUME StoreInv, power # "off"
    PROVE  /\ TypeInv /\ present /\ CurDir = dir /\ Distinct(dir)
           /\ Cardinality(Named(dir)) = next
           /\ \A i \in Named(dir) : i \in Entries /\ dir[i].first \in Extents
           /\ \A i, j \in Named(dir) : dir[i].first = dir[j].first => i = j
           /\ Cardinality(NamesOf(dir)) = next
           /\ next <= MaxFiles /\ (next = MaxFiles <=> Unused = {})
           /\ Files = FilesOf(dir, data) /\ DOMAIN Files = NamesOf(dir)
           /\ \A i \in Named(dir) : /\ dir[i].name \in NamesOf(dir)
                                    /\ Files[dir[i].name] = BytesOf(dir, data, i)
<1>1. TypeInv /\ present /\ CurDir = dir /\ Distinct(dir) /\ Cardinality(Named(dir)) = next
  BY DEF StoreInv, StoreShape, ExtentInv, SyncInv, CurDir
<1>2. /\ next <= MaxFiles /\ Cardinality(NamesOf(dir)) = next
      /\ next = MaxFiles <=> Named(dir) = Entries
  BY <1>1, FullDirectory
<1>3. Named(dir) = Entries <=> Unused = {}  BY DEF Named, Unused
<1>4. /\ \A i \in Named(dir) : dir[i].first < next
      /\ \A i, j \in Named(dir) : dir[i].first = dir[j].first => i = j
  BY DEF StoreInv, ExtentInv, Apart
<1>5. \A i \in Named(dir) : i \in Entries /\ dir[i].first \in Nat /\ next \in Nat
  BY <1>1 DEF TypeInv, FsTypeOK, Entry, Named
<1>6. \A i \in Named(dir) : dir[i].first \in Extents
  BY <1>2, <1>4, <1>5, DiskAssumption DEF Extents
<1>7. Files = FilesOf(dir, data) /\ DOMAIN Files = NamesOf(dir)  BY <1>1, FilesAre
<1>8. \A i \in Named(dir) : /\ dir[i].name \in NamesOf(dir)
                            /\ Files[dir[i].name] = BytesOf(dir, data, i)
  BY <1>1, <1>7, FilesOfFacts
<1> QED  BY <1>1, <1>2, <1>3, <1>4, <1>5, <1>6, <1>7, <1>8

\* Flushing a name's creation: what create makes of the files.
LEMMA CreateFiles ==
    ASSUME NulNames = {}, StoreInv, power # "off", NEW n \in Names, n \notin NamesOf(dir),
           NEW rest, Unused # {}, Create(n, rest), UNCHANGED data
    PROVE  LET i == First(Unused)
           IN  /\ i \in Entries /\ i \notin Named(dir)
               /\ Distinct(dir') /\ Named(dir') = Named(dir) \cup {i}
               /\ dir'[i].name = n /\ dir'[i].len = 0
               /\ \A j \in Entries : j # i => dir'[j] = dir[j]
               /\ NamesOf(dir') = NamesOf(dir) \cup {n}
               /\ Cardinality(Named(dir')) = next'
               /\ FilesOf(dir', data') = FilesWith(Files, n, <<>>)
<1> DEFINE i == First(Unused)
<1>1. i \in Entries /\ i \notin Named(dir)  BY SearchFacts
<1>2. TypeInv /\ Distinct(dir) /\ Files = FilesOf(dir, data) /\ Cardinality(Named(dir)) = next
  BY StoreFacts
<1>3. /\ \A j \in Entries : j # i => dir'[j] = dir[j]
      /\ dir'[i].name = n /\ dir'[i].len = 0
  BY <1>1, <1>2, CreateKeepsNamed
<1>4. next' = next + 1  BY DEF Create
<1>5. n # NoName  BY DiskAssumption
<1> HIDE DEF i
<1>6. /\ Distinct(dir') /\ Named(dir') = Named(dir) \cup {i}
      /\ NamesOf(dir') = NamesOf(dir) \cup {n}
      /\ Cardinality(Named(dir')) = Cardinality(Named(dir)) + 1
  BY <1>1, <1>2, <1>3, <1>5, NewName
<1>7. BytesOf(dir', data', i) = <<>>  BY <1>3 DEF BytesOf
<1>8. \A j \in Named(dir') : j # i =>
        /\ j \in Named(dir) /\ dir'[j].name = dir[j].name
        /\ BytesOf(dir', data', j) = BytesOf(dir, data, j)
  BY <1>3, <1>6 DEF BytesOf, Named
<1>9. FilesOf(dir', data') = FilesWith(FilesOf(dir, data), dir'[i].name, <<>>)
  <2>1. i \in Named(dir') /\ NamesOf(dir') = NamesOf(dir) \cup {dir'[i].name}
    BY <1>3, <1>6
  <2>2. Distinct(dir) /\ Distinct(dir')  BY <1>2, <1>6
  <2>3. FilesOf(dir', data') = 
           FilesWith(FilesOf(dir, data), dir'[i].name, BytesOf(dir', data', i))
    <3>1. OneChanged(dir, data, dir', data', i)  BY <1>8, <2>1, <2>2 DEF OneChanged
    <3> QED  BY <3>1, FileChanges
  <2> QED  BY <1>7, <2>3
<1> QED  BY <1>1, <1>2, <1>3, <1>4, <1>6, <1>9 DEF i

\* What truncation or a byte at entry i makes of the files, where only that
\* entry's length and that extent change.
LEMMA ChangeFiles ==
    ASSUME StoreInv, power # "off", NEW i \in Named(dir), NEW c,
           \A j \in Entries : /\ dir'[j].name = dir[j].name /\ dir'[j].first = dir[j].first
                              /\ j # i => dir'[j].len = dir[j].len,
           \A e \in Extents : e # dir[i].first => data'[e] = data[e],
           BytesOf(dir', data', i) = c
    PROVE  /\ Distinct(dir') /\ Named(dir') = Named(dir) /\ NamesOf(dir') = NamesOf(dir)
           /\ FilesOf(dir', data') = FilesWith(Files, dir[i].name, c)
<1>1. /\ Distinct(dir) /\ Files = FilesOf(dir, data)
      /\ \A j \in Named(dir) : j \in Entries /\ dir[j].first \in Extents
      /\ \A j, k \in Named(dir) : dir[j].first = dir[k].first => j = k
      /\ dir[i].name \in NamesOf(dir)
  BY StoreFacts
<1>2. Named(dir') = Named(dir)  BY DEF Named
<1>3. Distinct(dir')  BY <1>1, <1>2 DEF Distinct
<1>4. NamesOf(dir') = NamesOf(dir)  BY <1>1, <1>2 DEF NamesOf
<1>5. dir'[i].name = dir[i].name  BY <1>1
<1>6. ASSUME NEW j \in Named(dir'), j # i
      PROVE  /\ j \in Named(dir) /\ dir'[j].name = dir[j].name
             /\ BytesOf(dir', data', j) = BytesOf(dir, data, j)
  <2>1. j \in Named(dir) /\ j \in Entries  BY <1>1, <1>2
  <2>2. dir[j].first \in Extents /\ dir[j].first # dir[i].first  BY <1>1, <1>6, <2>1
  <2>3. data'[dir'[j].first] = data[dir[j].first] /\ dir'[j].len = dir[j].len
    BY <1>6, <2>1, <2>2
  <2> QED  BY <2>1, <2>3 DEF BytesOf
<1>7. /\ i \in Named(dir') /\ NamesOf(dir') = NamesOf(dir) \cup {dir'[i].name}
      /\ \A j \in Named(dir') : j # i =>
           /\ j \in Named(dir) /\ dir'[j].name = dir[j].name
           /\ BytesOf(dir', data', j) = BytesOf(dir, data, j)
  BY <1>1, <1>2, <1>4, <1>5, <1>6
<1>8. FilesOf(dir', data') = FilesWith(FilesOf(dir, data), dir'[i].name, c)
  <2>1. Distinct(dir)  BY <1>1
  <2>3. FilesOf(dir', data') = 
           FilesWith(FilesOf(dir, data), dir'[i].name, BytesOf(dir', data', i))
    <3>1. OneChanged(dir, data, dir', data', i)  BY <1>3, <1>7, <2>1 DEF OneChanged
    <3> QED  BY <3>1, FileChanges
  <2> QED  BY <2>3
<1> QED  BY <1>1, <1>2, <1>3, <1>4, <1>5, <1>8

\* The length, and the bytes, of a file after one byte is written at pos.
WrittenLen(i, pos) == IF pos + 1 > dir[i].len THEN pos + 1 ELSE dir[i].len

WrittenBytes(i, pos, b) ==
    [k \in 1 .. WrittenLen(i, pos) |-> IF k = pos + 1 THEN b ELSE data[dir[i].first][k - 1]]

\* What write_at makes of the files: one of them gets one byte.
LEMMA WriteFiles ==
    ASSUME StoreInv, power # "off", NEW i \in Named(dir), NEW pos \in 0 .. Cap,
           NEW b \in Bytes, NEW rest, WriteAt(i, pos, b, rest)
    PROVE  /\ \A j \in Entries : /\ dir'[j].name = dir[j].name
                                 /\ dir'[j].first = dir[j].first
                                 /\ j # i => dir'[j].len = dir[j].len
           /\ dir'[i].len = WrittenLen(i, pos)
           /\ Distinct(dir') /\ Named(dir') = Named(dir) /\ NamesOf(dir') = NamesOf(dir)
           /\ FilesOf(dir', data') = FilesWith(Files, dir[i].name, WrittenBytes(i, pos, b))
<1> USE DEF WrittenLen, WrittenBytes
<1> DEFINE len == WrittenLen(i, pos)
           e == dir[i].first
           c == WrittenBytes(i, pos, b)
<1>1. TypeInv /\ i \in Entries /\ e \in Extents  BY StoreFacts
<1>2. /\ \A j \in Entries : /\ dir'[j].name = dir[j].name /\ dir'[j].first = dir[j].first
                            /\ j # i => dir'[j].len = dir[j].len
      /\ dir'[i].len = len /\ OnDisk(i, pos) /\ data' = Written(i, pos, b)
  BY <1>1, WriteAtEffect
<1>3. data \in [Extents -> [Positions -> Bytes \cup {Blank}]] /\ pos \in Positions
      /\ len \in 0 .. Cap
  BY <1>1, <1>2, WrittenType, DiskAssumption DEF TypeInv, FsTypeOK, Entry, OnDisk
<1>4. data' = [data EXCEPT ![e][pos] = b]  BY <1>2 DEF Written
<1>5. \A x \in Extents : x # e => data'[x] = data[x]  BY <1>1, <1>3, <1>4
<1>6. \A k \in Positions : data'[e][k] = IF k = pos THEN b ELSE data[e][k]
  BY <1>1, <1>3, <1>4
<1>7. BytesOf(dir', data', i) = c
  <2>1. dir'[i].first = e /\ dir'[i].len = len  BY <1>1, <1>2
  <2>4. c = [k \in 1 .. len |-> IF k = pos + 1 THEN b ELSE data[e][k - 1]]  OBVIOUS
  <2> HIDE DEF e, len, c
  <2>2. \A k \in 1 .. len : k - 1 \in Positions /\ (k - 1 = pos <=> k = pos + 1)
    BY <1>3, DiskAssumption DEF Positions
  <2>3. \A k \in 1 .. len : data'[e][k - 1] = IF k = pos + 1 THEN b ELSE data[e][k - 1]
    BY <1>6, <2>2
  <2>5. BytesOf(dir', data', i) = [k \in 1 .. len |-> data'[e][k - 1]]
    BY <2>1 DEF BytesOf
  <2> QED  BY <2>3, <2>4, <2>5
<1> HIDE DEF c
<1>8. /\ Distinct(dir') /\ Named(dir') = Named(dir) /\ NamesOf(dir') = NamesOf(dir)
      /\ FilesOf(dir', data') = FilesWith(Files, dir[i].name, c)
  BY <1>2, <1>5, <1>7, ChangeFiles
<1> QED  BY <1>2, <1>8 DEF c

-----------------------------------------------------------------------------
(* Descriptors as the processes see them *)

\* What descriptor fd denotes with directory d.
HandleOf(fd, d) ==
    IF fd.used THEN [open |-> TRUE, name |-> d[fd.dir].name, pos |-> fd.pos, write |-> fd.write]
               ELSE [open |-> FALSE, name |-> NoName, pos |-> 0, write |-> FALSE]

\* The descriptors of the refinement mapping, one at a time.
LEMMA HandlesAre ==
    /\ Handles = [p \in Procs |-> [s \in Slots |-> HandleOf(fds[p][s], dir)]]
    /\ Handles' = [p \in Procs |-> [s \in Slots |-> HandleOf(fds'[p][s], dir')]]
    /\ \A p \in Procs, s \in Slots : /\ Handles[p][s] = HandleOf(fds[p][s], dir)
                                     /\ Handles'[p][s] = HandleOf(fds'[p][s], dir')
    /\ \A fd, d : /\ HandleOf(fd, d).open <=> fd.used
                  /\ fd.used => /\ HandleOf(fd, d).name = d[fd.dir].name
                                /\ HandleOf(fd, d).pos = fd.pos
                                /\ HandleOf(fd, d).write = fd.write
    /\ F!Slots = Slots /\ \A d : HandleOf(EmptyFd, d) = F!Closed
<1>1. /\ Handles = [p \in Procs |-> [s \in Slots |-> HandleOf(fds[p][s], dir)]]
      /\ Handles' = [p \in Procs |-> [s \in Slots |-> HandleOf(fds'[p][s], dir')]]
  BY DEF Handles, HandleOf
<1>2. \A p \in Procs, s \in Slots : /\ Handles[p][s] = HandleOf(fds[p][s], dir)
                                    /\ Handles'[p][s] = HandleOf(fds'[p][s], dir')
  BY <1>1
<1>3. \A fd, d : /\ HandleOf(fd, d).open <=> fd.used
                 /\ fd.used => /\ HandleOf(fd, d).name = d[fd.dir].name
                               /\ HandleOf(fd, d).pos = fd.pos
                               /\ HandleOf(fd, d).write = fd.write
  BY DEF HandleOf
<1>4. F!Slots = Slots /\ \A d : HandleOf(EmptyFd, d) = F!Closed
  BY DEF F!Slots, Slots, HandleOf, EmptyFd, F!Closed
<1> QED  BY <1>1, <1>2, <1>3, <1>4

\* Two sets of descriptors that look alike are seen as the same.
LEMMA HandlesSame ==
    ASSUME \A p \in Procs, s \in Slots : HandleOf(fds'[p][s], dir') = HandleOf(fds[p][s], dir)
    PROVE  Handles' = Handles
BY HandlesAre

\* After fs::init and after a restart no process has a descriptor.
LEMMA NoHandlesAre ==
    ASSUME fds' = NoFds
    PROVE  Handles' = F!NoHandles
<1>1. \A p \in Procs, s \in Slots : HandleOf(fds'[p][s], dir') = F!Closed
  BY ZeroNamed, HandlesAre
<1>2. Handles' = [p \in Procs |-> [s \in Slots |-> F!Closed]]  BY <1>1, HandlesAre
<1> QED  BY <1>2, HandlesAre DEF F!NoHandles

\* Nothing about the descriptors changes while their files keep their names.
LEMMA HandlesKept ==
    ASSUME HandlesAreNamed, UNCHANGED fds,
           \A i \in Named(dir) : dir'[i].name = dir[i].name
    PROVE  Handles' = Handles
<1>1. ASSUME NEW p \in Procs, NEW s \in Slots
      PROVE  HandleOf(fds'[p][s], dir') = HandleOf(fds[p][s], dir)
  <2>1. fds[p][s].used => fds[p][s].dir \in Named(dir)  BY DEF HandlesAreNamed
  <2> QED  BY <2>1 DEF HandleOf
<1> QED  BY <1>1, HandlesSame

\* One descriptor changes.
LEMMA OneHandle ==
    ASSUME HandlesAreNamed, \A i \in Named(dir) : dir'[i].name = dir[i].name,
           NEW p \in Procs, NEW s \in Slots,
           \A q \in Procs, t \in Slots : ~(q = p /\ t = s) => fds'[q][t] = fds[q][t]
    PROVE  Handles' = [Handles EXCEPT ![p][s] = HandleOf(fds'[p][s], dir')]
<1> DEFINE h == HandleOf(fds'[p][s], dir')
           changed == [Handles EXCEPT ![p][s] = h]
<1>1. ASSUME NEW q \in Procs, NEW t \in Slots
      PROVE  Handles'[q][t] = IF q = p /\ t = s THEN h ELSE Handles[q][t]
  <2>1. CASE q = p /\ t = s  BY <2>1, HandlesAre
  <2>2. CASE ~(q = p /\ t = s)
    <3>1. fds'[q][t] = fds[q][t] /\ (fds[q][t].used => fds[q][t].dir \in Named(dir))
      BY <2>2 DEF HandlesAreNamed
    <3>2. HandleOf(fds'[q][t], dir') = HandleOf(fds[q][t], dir)  BY <3>1 DEF HandleOf
    <3> QED  BY <2>2, <3>2, HandlesAre
  <2> QED  BY <2>1, <2>2
<1> HIDE DEF h
<1>2. /\ Handles = [q \in Procs |-> [t \in Slots |-> Handles[q][t]]]
      /\ Handles' = [q \in Procs |-> [t \in Slots |-> Handles'[q][t]]]
  BY HandlesAre
<1>3. changed = [q \in Procs |-> [t \in Slots |->
                    IF q = p /\ t = s THEN h ELSE Handles[q][t]]]
  <2> DEFINE g == Handles
             c == [g EXCEPT ![p][s] = h]
  <2>1. g = [q \in Procs |-> [t \in Slots |-> g[q][t]]]  BY <1>2
  <2> HIDE DEF g
  <2>2. \A q \in Procs : g[q] = [t \in Slots |-> g[q][t]]  BY <2>1
  <2>3. c = [q \in Procs |-> IF q = p THEN [g[p] EXCEPT ![s] = h] ELSE g[q]]  BY <2>1
  <2>4. [g[p] EXCEPT ![s] = h] = [t \in Slots |-> IF t = s THEN h ELSE g[p][t]]  BY <2>2
  <2>5. \A q \in Procs : c[q] = [t \in Slots |-> IF q = p /\ t = s THEN h ELSE g[q][t]]
    BY <2>2, <2>3, <2>4
  <2>6. c = [q \in Procs |-> c[q]]  BY <2>3
  <2> HIDE DEF c
  <2>7. c = [q \in Procs |-> [t \in Slots |-> IF q = p /\ t = s THEN h ELSE g[q][t]]]
    BY <2>5, <2>6
  <2> QED  BY <2>7 DEF c, g
<1>4. Handles' = changed  BY <1>1, <1>2, <1>3
<1> QED  BY <1>4 DEF h

\* GiveFd hands out what the abstract call does.
LEMMA GiveFdIsGiveHandle ==
    ASSUME TypeInv, HandlesAreNamed, \A i \in Named(dir) : dir'[i].name = dir[i].name,
           NEW p \in Procs, NEW i \in Entries, NEW w \in BOOLEAN, GiveFd(p, i, w)
    PROVE  F!GiveHandle(p, dir'[i].name, w)
<1>1. \A s \in Slots : Handles[p][s].open <=> fds[p][s].used  BY HandlesAre
<1>2. CASE FreeFds(p) = {}
  <2>1. \A s \in Slots : fds[p][s].used  BY <1>2 DEF FreeFds
  <2>2. ret' = Failed /\ UNCHANGED fds  BY <1>2 DEF GiveFd
  <2>3. UNCHANGED Handles  BY <2>2, HandlesKept
  <2> QED  BY <1>1, <2>1, <2>2, <2>3, HandlesAre DEF F!GiveHandle, Failed, F!Failed
<1>3. CASE FreeFds(p) # {}
  <2> DEFINE s == First(FreeFds(p))
             fd == [used |-> TRUE, dir |-> i, pos |-> 0, write |-> w]
             h == [open |-> TRUE, name |-> dir'[i].name, pos |-> 0, write |-> w]
  <2>1. FreeFds(p) \in SUBSET Nat  BY DEF FreeFds, Slots
  <2>2. s \in FreeFds(p) /\ \A t \in FreeFds(p) : s <= t  BY <1>3, <2>1, FirstIsLowest
  <2>3. fds' = [fds EXCEPT ![p][s] = fd] /\ ret' = Returned(<<s>>)
    BY <1>3 DEF GiveFd
  <2>4. HandleOf(fd, dir') = h  BY DEF HandleOf
  <2> HIDE DEF s, fd
  <2>5. s \in Slots /\ ~fds[p][s].used  BY <2>2 DEF FreeFds
  <2>6. \A t \in 0 .. s - 1 : t \in Slots /\ fds[p][t].used
    <3> SUFFICES ASSUME NEW t \in 0 .. s - 1 PROVE t \in Slots /\ fds[p][t].used
      OBVIOUS
    <3>1. t \in Slots /\ ~(s <= t)  BY <2>5, DiskAssumption DEF Slots
    <3> QED  BY <2>2, <3>1 DEF FreeFds
  <2>7. \A q \in Procs, t \in Slots :
          fds'[q][t] = IF q = p /\ t = s THEN fd ELSE fds[q][t]
    BY <2>3, <2>5 DEF TypeInv, FsTypeOK
  <2>8. Handles' = [Handles EXCEPT ![p][s] = HandleOf(fds'[p][s], dir')]
    BY <2>5, <2>7, OneHandle
  <2>9. Handles' = [Handles EXCEPT ![p][s] = h]  BY <2>4, <2>5, <2>7, <2>8
  <2>10. ret' = F!Returned(<<s>>)  BY <2>3 DEF Returned, F!Returned
  <2>11. ~Handles[p][s].open /\ \A t \in 0 .. s - 1 : Handles[p][t].open
    BY <1>1, <2>5, <2>6
  <2>12. s \in F!Slots  BY <2>5, HandlesAre
  <2> QED  BY <2>9, <2>10, <2>11, <2>12 DEF F!GiveHandle
<1> QED  BY <1>2, <1>3

-----------------------------------------------------------------------------
(* Every step is one of the store's, or none *)

\* A disk that works, and no name that starts with NUL.
DiskWorks == NulNames = {} /\ AlsoFound = {} /\ Faults = {}

\* What the running machine has to keep.
Running ==
    /\ power' # "off" /\ present'
    /\ Distinct(dir') /\ Cardinality(Named(dir')) = next'
    /\ sb'.magic \/ Pends(todo', Flush(Super))
    /\ power' # "on" => live' = {}
    /\ SeedsNew(todo', dir') /\ Appends(todo', dir') /\ BytesFirst(todo')

\* Running is the next state's shape.
LEMMA RunningIsShape ==
    ASSUME Running
    PROVE  StoreShape'
BY DEF Running, StoreShape, CurDir

\* A step that changes nothing processes see is a stutter of the store.
LEMMA Nothing ==
    ASSUME Files' = Files, Handles' = Handles, live' = live, ret' = ret
    PROVE  [F!StoreNext]_(F!storeVars)
BY DEF F!storeVars

\* Steps that leave the first one behind.
LEMMA TailFollows ==
    ASSUME NEW t \in Seq(Step), t # <<>>, NEW op
    PROVE  Follows(Tail(t), t, 0, op)
<1>1. /\ Len(t) \in Nat \ {0} /\ Len(Tail(t)) = Len(t) - 1
      /\ \A k \in 1 .. Len(Tail(t)) : Tail(t)[k] = t[k + 1]
  BY HeadTailProperties, EmptySeq
<1>2. \A k \in 1 .. Len(Tail(t)) : k - 0 + 1 \in 2 .. Len(t) /\ Tail(t)[k] = t[k - 0 + 1]
  BY <1>1
<1>3. \A j \in 2 .. Len(t) : j - 1 + 0 \in 1 .. Len(Tail(t)) /\ Tail(t)[j - 1 + 0] = t[j]
  BY <1>1
<1> QED  BY <1>2, <1>3 DEF Follows

\* A flush of a sector is invisible: the cached directory counts.
LEMMA FlushStore ==
    ASSUME DiskWorks, StoreInv, FlushSector
    PROVE  StoreShape' /\ [F!StoreNext]_(F!storeVars)
<1> USE DEF fsVars, diskVars, procVars
<1> DEFINE t == todo
<1>1. /\ todo # <<>> /\ Head(todo).op = "flush" /\ power # "off" /\ todo \in Seq(Step)
      /\ UNCHANGED <<data, power, present, dir, next, live, fds, ret>> /\ todo' = Tail(todo)
      /\ CurDir' = dir
  BY DEF FlushSector, Busy, CurDir, StoreInv, ExtentInv, SyncInv, TypeInv
<1>2. /\ present /\ CurDir = dir /\ Distinct(dir) /\ Cardinality(Named(dir)) = next
      /\ Files = FilesOf(dir, data)
  BY <1>1, StoreFacts
<1>3. Files' = Files  BY <1>1, <1>2, FilesAre
<1>4. Handles' = Handles  BY <1>1, HandlesKept DEF StoreInv, CountInv, HandleInv
<1>5. sb'.magic \/ Pends(todo', Flush(Super))
  <2>1. ~MayFail("write")  BY DEF MayFail, DiskWorks
  <2>2. CASE Head(todo).lba = Super
    BY <1>1, <2>1, <2>2 DEF FlushSector
  <2>3. CASE Head(todo).lba # Super
    <3>1. Head(todo) # Flush(Super)  BY <2>3, FlushOps
    <3>2. sb' = sb  BY <2>1, <2>3 DEF FlushSector
    <3>3. sb.magic \/ Pends(todo, Flush(Super))  BY <1>1 DEF StoreInv, StoreShape
    <3> QED  BY <1>1, <3>1, <3>2, <3>3, PendsTail
  <2> QED  BY <2>2, <2>3
<1>6. SeedsNew(t, dir) /\ Appends(t, dir) /\ BytesFirst(t) /\ dir \in [Entries -> Entry]
  BY DEF StoreInv, StoreShape, ExtentInv, SyncInv, TypeInv, FsTypeOK
<1>7. Len(t) \in Nat /\ t[1] = Head(t) /\ t[1].op # "byte"
  BY <1>1, LenProperties, HeadTailProperties
<1>8. Follows(Tail(t), t, 0, "seed") /\ Follows(Tail(t), t, 0, "byte")
  BY <1>1, TailFollows
<1>9. SeedsNew(Tail(t), dir)
  <2>1. \A k \in 2 .. Len(t) : t[k].op = "seed" => t[k].name \notin NamesOf(dir)
    BY <1>6, <1>7 DEF SeedsNew
  <2> QED  BY <1>1, <1>6, <1>8, <2>1, SeedsNewFollows
<1>10. Appends(Tail(t), dir)
  BY <1>1, <1>6, <1>7, <1>8, AppendsFollows
<1>11. BytesFirst(Tail(t))  BY <1>1, <1>6, <1>8, BytesFirstFollows
<1>12. power # "on" => live = {}  BY DEF StoreInv, StoreShape
<1>13. Running  BY <1>1, <1>2, <1>5, <1>9, <1>10, <1>11, <1>12 DEF Running
<1> QED  BY <1>1, <1>3, <1>4, <1>13, RunningIsShape, Nothing

\* A step that seeds runs before there are processes.
LEMMA Seeding ==
    ASSUME StoreInv, NEW op \in {"seed", "byte"}, Busy(op)
    PROVE  /\ power # "off" /\ power # "on" /\ live = {} /\ todo # <<>>
           /\ todo \in Seq(Step) /\ 1 \in 1 .. Len(todo) /\ todo[1] = Head(todo)
           /\ Len(todo) \in Nat /\ Tail(todo) \in Seq(Step) /\ Head(todo).op = op
<1>1. power # "off" /\ todo # <<>> /\ Head(todo).op = op /\ todo \in Seq(Step)
  BY DEF Busy, StoreInv, ExtentInv, SyncInv, TypeInv
<1>2. Len(todo) \in Nat \ {0} /\ todo[1] = Head(todo) /\ Tail(todo) \in Seq(Step)
  BY <1>1, HeadTailProperties, EmptySeq
<1>3. power # "on"
  BY <1>1, <1>2 DEF StoreInv, ExtentInv, SyncInv, Quiet
<1> QED  BY <1>1, <1>2, <1>3 DEF StoreInv, StoreShape

\* Creating a seed is the store's SeedCreate; there is room for every seed.
LEMMA SeedFileStore ==
    ASSUME DiskWorks, StoreInv, SeedFile
    PROVE  StoreShape' /\ [F!StoreNext]_(F!storeVars)
<1> USE DEF fsVars, diskVars, procVars
<1> DEFINE t == todo
           n == Head(todo).name
<1>1. /\ Busy("seed")
      /\ UNCHANGED <<sb, data, power, present, live, fds, ret>>
  BY DEF SeedFile
<1>2. /\ power # "off" /\ power # "on" /\ live = {} /\ t # <<>>
      /\ t \in Seq(Step) /\ 1 \in 1 .. Len(t) /\ t[1] = Head(t)
      /\ Len(t) \in Nat /\ Tail(t) \in Seq(Step) /\ Head(t).op = "seed"
  BY <1>1, Seeding
<1>3. /\ TypeInv /\ present /\ CurDir = dir /\ Distinct(dir) /\ Cardinality(Named(dir)) = next
      /\ Files = FilesOf(dir, data) /\ DOMAIN Files = NamesOf(dir)
  BY <1>2, StoreFacts
<1>4. /\ SeedsNew(t, dir) /\ Appends(t, dir) /\ BytesFirst(t)
      /\ sb.magic \/ Pends(t, Flush(Super))
      /\ HandlesAreNamed
  BY <1>2 DEF StoreInv, StoreShape, CountInv, HandleInv
<1>5. n \in Names /\ n \notin NamesOf(dir)
  <2>1. n \in Names  BY <1>2, HeadFacts
  <2> QED  BY <1>2, <1>4, <2>1 DEF SeedsNew
<1>6. CASE Unused = {}
  <2>1. todo' = Tail(t) /\ UNCHANGED <<dir, next>>  BY <1>6 DEF SeedFile
  <2>2. Follows(Tail(t), t, 0, "seed") /\ Follows(Tail(t), t, 0, "byte")
    BY <1>2, TailFollows
  <2>3. dir \in [Entries -> Entry] /\ t[1].op # "byte"  BY <1>2, <1>3 DEF TypeInv, FsTypeOK
  <2>4. SeedsNew(Tail(t), dir)
    <3>1. \A k \in 2 .. Len(t) : t[k].op = "seed" => t[k].name \notin NamesOf(dir)
      BY <1>2, <1>4 DEF SeedsNew
    <3> QED  BY <1>2, <1>4, <2>2, <3>1, SeedsNewFollows
  <2>5. Appends(Tail(t), dir)  BY <1>2, <1>4, <2>2, <2>3, AppendsFollows
  <2>6. BytesFirst(Tail(t))  BY <1>2, <1>4, <2>2, BytesFirstFollows
  <2>7. sb'.magic \/ Pends(todo', Flush(Super))
    <3>1. Head(t) # Flush(Super)  BY <1>2, FlushOps
    <3> QED  BY <1>1, <1>2, <1>4, <2>1, <3>1, PendsTail
  <2>8. Running
    BY <1>1, <1>2, <1>3, <2>1, <2>4, <2>5, <2>6, <2>7 DEF Running
  <2>9. Files' = Files
    <3>1. CurDir' = dir  BY <1>1, <1>2, <2>1 DEF CurDir
    <3> QED  BY <1>1, <1>3, <3>1, FilesAre
  <2>10. Handles' = Handles  BY <1>1, <1>4, <2>1, HandlesKept
  <2> QED  BY <1>1, <2>8, <2>9, <2>10, RunningIsShape, Nothing
<1>7. CASE Unused # {}
  <2> DEFINE i == First(Unused)
             bytes == [k \in 1 .. Len(SeedBytes) |-> SeedByte(i, k)]
             s == FlushEnt(i) \o FlushSb \o bytes
             rest == bytes \o Tail(t)
  <2>1. Create(n, rest)  BY <1>7 DEF SeedFile
  <2>2. /\ i \in Entries /\ i \notin Named(dir)
        /\ Distinct(dir') /\ Named(dir') = Named(dir) \cup {i}
        /\ dir'[i].name = n /\ dir'[i].len = 0
        /\ \A j \in Entries : j # i => dir'[j] = dir[j]
        /\ NamesOf(dir') = NamesOf(dir) \cup {n}
        /\ Cardinality(Named(dir')) = next'
        /\ FilesOf(dir', data') = FilesWith(Files, n, <<>>)
    <3> HIDE DEF rest
    <3> QED  BY <1>1, <1>2, <1>5, <1>7, <2>1, CreateFiles DEF DiskWorks
  <2>3. todo' = FlushEnt(i) \o FlushSb \o rest  BY <2>1 DEF Create
  <2>4. i \in Named(dir')  BY <2>2
  <2>5. /\ FlushEnt(i) \o FlushSb \o rest = s \o Tail(t)
        /\ Follows(s \o Tail(t), t, Len(s), "seed")
        /\ Appends(s \o Tail(t), dir') /\ BytesFirst(s \o Tail(t))
    BY <1>2, <1>4, <2>2, <2>4, SeedSteps
  <2>6. rest \in Seq(Step)  
    <3>1. bytes \in Seq(Step)  BY <2>2, StepFacts
    <3> HIDE DEF bytes
    <3> QED  BY <1>2, <3>1, StepConcat
  <2> HIDE DEF i, s, rest, bytes
  <2>7. Pends(todo', Flush(Super))  BY <2>2, <2>3, <2>6, PendsFlush
  <2>8. SeedsNew(todo', dir')
    <3>1. \A k \in 2 .. Len(t) : t[k].op = "seed" => t[k].name \notin NamesOf(dir')
      <4> SUFFICES ASSUME NEW k \in 2 .. Len(t), t[k].op = "seed"
                   PROVE  t[k].name \notin NamesOf(dir) /\ t[k].name # n
        BY <2>2
      <4>1. k \in 1 .. Len(t) /\ k # 1  BY <1>2
      <4> QED  BY <1>2, <1>4, <4>1 DEF SeedsNew
    <3> QED  BY <1>2, <1>4, <2>3, <2>5, <3>1, SeedsNewFollows
  <2>9. Running
    BY <1>1, <1>2, <1>3, <2>2, <2>3, <2>5, <2>7, <2>8 DEF Running
  <2>10. Files' = FilesWith(Files, n, <<>>)
    <3>1. CurDir' = dir'  BY <1>1, <1>2 DEF CurDir
    <3> QED  BY <2>2, <3>1, FilesAre
  <2>11. Handles' = Handles
    <3>1. \A j \in Named(dir) : dir'[j].name = dir[j].name  BY <2>2 DEF Named
    <3> QED  BY <1>1, <1>4, <3>1, HandlesKept
  <2>12. F!SeedCreate(n)
    BY <1>1, <1>2, <1>3, <1>5, <2>10, <2>11
    DEF F!SeedCreate, F!Exists, F!With, FilesWith
  <2> QED  BY <1>5, <2>9, <2>12, RunningIsShape DEF F!StoreNext
<1> QED  BY <1>6, <1>7

\* A seeded byte is appended.
LEMMA SeedContentStore ==
    ASSUME DiskWorks, StoreInv, SeedContent
    PROVE  StoreShape' /\ [F!StoreNext]_(F!storeVars)
<1> USE DEF fsVars, diskVars, procVars
<1> DEFINE t == todo
           i == Head(todo).ent
           pos == Head(todo).pos
           b == Head(todo).b
           n == dir[i].name
           old == BytesOf(dir, data, i)
           c == WrittenBytes(i, pos, b)
<1>1. /\ Busy("byte")
      /\ UNCHANGED <<sb, power, present, next, live, fds, ret>>
      /\ WriteAt(i, pos, b, Tail(t)) \/ WriteAtFails(i, pos, b, Tail(t))
  BY DEF SeedContent
<1>2. /\ power # "off" /\ power # "on" /\ live = {} /\ t # <<>>
      /\ t \in Seq(Step) /\ 1 \in 1 .. Len(t) /\ t[1] = Head(t)
      /\ Len(t) \in Nat /\ Tail(t) \in Seq(Step) /\ Head(t).op = "byte"
  BY <1>1, Seeding
<1>3. /\ TypeInv /\ present /\ CurDir = dir /\ Distinct(dir) /\ Cardinality(Named(dir)) = next
      /\ Files = FilesOf(dir, data) /\ DOMAIN Files = NamesOf(dir)
      /\ \A j \in Named(dir) : /\ dir[j].name \in NamesOf(dir)
                               /\ Files[dir[j].name] = BytesOf(dir, data, j)
                               /\ j \in Entries /\ dir[j].first \in Extents
  BY <1>2, StoreFacts
<1>4. /\ SeedsNew(t, dir) /\ Appends(t, dir) /\ BytesFirst(t)
      /\ sb.magic \/ Pends(t, Flush(Super))
      /\ HandlesAreNamed
  BY <1>2 DEF StoreInv, StoreShape, CountInv, HandleInv
<1>5. i \in Entries /\ pos \in Positions /\ b \in Bytes /\ pos \in 0 .. Cap /\ pos \in Nat
      /\ pos < Cap
  BY <1>2, HeadFacts, DiskAssumption DEF Positions
<1>6. i \in Named(dir) /\ dir[i].len = pos
  <2>1. /\ i \in Named(dir) /\ dir[i].len <= pos
        /\ \A k \in dir[i].len .. pos - 1 : \E j \in 1 .. 0 : TRUE
    BY <1>2, <1>4 DEF Appends
  <2>2. dir[i].len \in Nat  BY <1>3, <1>5 DEF TypeInv, FsTypeOK, Entry
  <2>3. ~(dir[i].len <= pos - 1)  BY <1>5, <2>1, <2>2
  <2> QED  BY <1>5, <2>1, <2>2, <2>3
<1>7. WriteAt(i, pos, b, Tail(t))
  <2>1. ~MayFail("write") /\ ~MayFail("read")  BY DEF MayFail, DiskWorks
  <2>2. OnDisk(i, pos)  BY <1>3, <1>5, <1>6 DEF OnDisk
  <2> QED  BY <1>1, <2>1, <2>2 DEF WriteAtFails
<1>8. WrittenLen(i, pos) = pos + 1
  <2> DEFINE l == dir[i].len
  <2>1. l = pos /\ pos \in Nat  BY <1>5, <1>6
  <2> HIDE DEF l, pos, i
  <2>2. pos + 1 > l  BY <2>1
  <2> QED  BY <2>2 DEF WrittenLen, l
<1> HIDE DEF i, pos, b, t, c
<1>9. /\ \A j \in Entries : /\ dir'[j].name = dir[j].name /\ dir'[j].first = dir[j].first
                            /\ j # i => dir'[j].len = dir[j].len
      /\ dir'[i].len = pos + 1
      /\ Distinct(dir') /\ Named(dir') = Named(dir) /\ NamesOf(dir') = NamesOf(dir)
      /\ FilesOf(dir', data') = FilesWith(Files, n, c)
  <2>1. pos \in 0 .. Cap /\ b \in Bytes /\ i \in Named(dir) /\ power # "off"
    BY <1>2, <1>5, <1>6
  <2> QED  BY <1>7, <1>8, <2>1, WriteFiles DEF c
<1>10. todo' = FlushEnt(i) \o Tail(t)
  <2>1. pos + 1 > dir[i].len  BY <1>5, <1>6
  <2> QED  BY <1>7, <2>1 DEF WriteAt
<1>11. FlushEnt(i) \in Seq(Step) /\ Len(FlushEnt(i)) = 1 /\ FlushEnt(i)[1].op = "flush"
  BY <1>5, StepFacts, AddedFlushes, FlushOps
<1>12. /\ Follows(FlushEnt(i) \o Tail(t), t, Len(FlushEnt(i)), "seed")
       /\ Follows(FlushEnt(i) \o Tail(t), t, Len(FlushEnt(i)), "byte")
  <2>1. \A k \in 1 .. Len(FlushEnt(i)) : FlushEnt(i)[k].op = "flush"  BY <1>11
  <2> HIDE DEF t
  <2> QED  BY <1>2, <1>11, <2>1, FollowsConcat
<1>13. SeedsNew(todo', dir')
  <2>1. \A k \in 2 .. Len(t) : t[k].op = "seed" => t[k].name \notin NamesOf(dir')
    BY <1>2, <1>4, <1>9 DEF SeedsNew
  <2> QED  BY <1>2, <1>4, <1>10, <1>12, <2>1, SeedsNewFollows
<1>14. BytesFirst(todo')
  BY <1>2, <1>4, <1>10, <1>12, BytesFirstFollows
<1>15. Appends(todo', dir')
  <2>1. dir \in [Entries -> Entry]  BY <1>3 DEF TypeInv, FsTypeOK
  <2>2. dir' \in [Entries -> Entry]  BY <1>2, <1>3, <1>5, <1>7, WriteAtType
  <2>3. t[1].op = "byte" /\ t[1].ent = i /\ t[1].pos = pos  BY <1>2 DEF i, pos, t
  <2>4. ASSUME NEW k \in 2 .. Len(t), t[k].op = "byte"
        PROVE  \/ dir'[t[k].ent].len = dir[t[k].ent].len
                  /\ (t[1].op = "byte" => t[1].ent # t[k].ent)
               \/ /\ t[1].op = "byte" /\ t[1].ent = t[k].ent
                  /\ t[1].pos = dir[t[k].ent].len /\ dir'[t[k].ent].len = t[1].pos + 1
    <3>1. t[k].ent \in Named(dir)
      <4>1. k \in 1 .. Len(t)  BY <1>2
      <4> QED  BY <1>4, <2>4, <4>1 DEF Appends
    <3>2. CASE t[k].ent = i  BY <1>6, <1>9, <2>3, <3>2
    <3>3. CASE t[k].ent # i  BY <1>3, <1>9, <2>3, <3>1, <3>3
    <3> QED  BY <3>2, <3>3
  <2> QED  BY <1>2, <1>4, <1>9, <1>10, <1>12, <2>1, <2>2, <2>4, AppendsFollows
<1>16. sb'.magic \/ Pends(todo', Flush(Super))
  <2>1. Head(t) # Flush(Super)  BY <1>2, FlushOps
  <2>2. sb.magic \/ Pends(Tail(t), Flush(Super))  BY <1>2, <1>4, <2>1, PendsTail
  <2> QED  BY <1>1, <1>2, <1>5, <1>10, <2>2, PendsFlush
<1>17. Running
  BY <1>1, <1>2, <1>3, <1>9, <1>13, <1>14, <1>15, <1>16 DEF Running
<1>18. Files' = FilesWith(Files, n, c)
  <2>1. CurDir' = dir'  BY <1>1, <1>2 DEF CurDir
  <2> QED  BY <1>9, <2>1, FilesAre
<1>19. c = Append(Files[n], b)
  <2>1. Files[n] = [k \in 1 .. pos |-> data[dir[i].first][k - 1]]
    BY <1>3, <1>6 DEF BytesOf
  <2> DEFINE V == {data[dir[i].first][k - 1] : k \in 1 .. pos} \cup {b}
             f == [k \in 1 .. pos |-> data[dir[i].first][k - 1]]
  <2>2. f \in Seq(V) /\ Len(f) = pos /\ \A k \in 1 .. pos : f[k] = data[dir[i].first][k - 1]
    <3>1. f \in [1 .. pos -> V]  OBVIOUS
    <3>2. \A k \in 1 .. pos : f[k] = data[dir[i].first][k - 1]  OBVIOUS
    <3> HIDE DEF f, V
    <3>3. f \in Seq(V)  BY <1>5, <3>1, SeqDef
    <3>4. DOMAIN f = 1 .. pos /\ DOMAIN f = 1 .. Len(f) /\ Len(f) \in Nat
      BY <3>1, <3>3, LenProperties
    <3> QED  BY <1>5, <3>2, <3>3, <3>4
  <2>3. b \in V  OBVIOUS
  <2> HIDE DEF V, f
  <2>4. /\ Append(f, b) \in Seq(V) /\ Len(Append(f, b)) = pos + 1
        /\ \A k \in 1 .. pos : Append(f, b)[k] = f[k]
        /\ Append(f, b)[pos + 1] = b
    BY <2>2, <2>3, AppendProperties
  <2>5. Append(f, b) = [k \in 1 .. pos + 1 |-> Append(f, b)[k]]
    <3> DEFINE a == Append(f, b)
    <3>1. a \in Seq(V) /\ Len(a) = pos + 1  BY <2>4
    <3> HIDE DEF a
    <3>2. a \in [1 .. pos + 1 -> V]  BY <3>1, LenProperties
    <3>3. a = [k \in 1 .. pos + 1 |-> a[k]]  BY <3>2
    <3> QED  BY <3>3 DEF a
  <2>6. \A k \in 1 .. pos + 1 :
          Append(f, b)[k] = IF k = pos + 1 THEN b ELSE data[dir[i].first][k - 1]
    BY <1>5, <2>2, <2>4
  <2>8. c = [k \in 1 .. pos + 1 |-> IF k = pos + 1 THEN b ELSE data[dir[i].first][k - 1]]
    BY <1>8 DEF c, WrittenBytes
  <2>7. Append(f, b) = c  BY <2>5, <2>6, <2>8
  <2> QED  BY <2>1, <2>7 DEF f
<1>20. Handles' = Handles  BY <1>1, <1>3, <1>4, <1>9, HandlesKept
<1>21. F!SeedAppend(n, b)
  BY <1>1, <1>2, <1>3, <1>6, <1>18, <1>19, <1>20
  DEF F!SeedAppend, F!Exists, F!With, FilesWith
<1>22. n \in Names
  BY <1>3, <1>6 DEF TypeInv, FsTypeOK, Entry, Named
<1> QED  BY <1>5, <1>17, <1>21, <1>22, RunningIsShape DEF F!StoreNext

\* Formatting writes the seeds, each once, and no byte before its file is made.
LEMMA FormatSeeds ==
    ASSUME Format, Named(dir') = {}
    PROVE  SeedsNew(todo', dir') /\ Appends(todo', dir') /\ BytesFirst(todo')
<1> DEFINE sectors == [s \in 1 .. Cardinality(DirSectors) |-> Flush(DirLBA(s - 1))]
           seeds == [k \in 1 .. Len(Seeds) |-> Seed(Seeds[k])]
           pre == FlushSb \o sectors
           t == pre \o seeds
           n == Len(Seeds)
           m == Len(FlushSb \o sectors)
<1>1. FlushSb \in Seq(Step) /\ sectors \in Seq(Step) /\ seeds \in Seq(Step)
  BY StepFacts
<1>2. todo' = t  BY DEF Format
<1>3. n \in Nat /\ \A i, j \in 1 .. n : Seeds[i] = Seeds[j] => i = j
  BY DiskAssumption, LenProperties
<1>4. Len(seeds) = n /\ \A k \in 1 .. n : seeds[k].op = "seed" /\ seeds[k].name = Seeds[k]
  BY <1>3 DEF Seed
<1>5. \A k \in 1 .. Len(sectors) : sectors[k].op = "flush"
  <2>1. Len(sectors) = Cardinality(DirSectors)  BY SectorFacts
  <2> QED  BY <2>1 DEF Flush
<1>6. Len(FlushSb) = 1 /\ FlushSb[1].op = "flush"  BY DEF FlushSb, Flush
<1> HIDE DEF sectors, seeds
<1>7. pre \in Seq(Step) /\ m \in Nat
      /\ \A k \in 1 .. m : pre[k].op = "flush"
  <2>1. /\ pre \in Seq(Step) /\ m = Len(FlushSb) + Len(sectors)
        /\ \A k \in 1 .. Len(FlushSb) + Len(sectors) :
             pre[k] = IF k <= Len(FlushSb) THEN FlushSb[k] ELSE sectors[k - Len(FlushSb)]
    BY <1>1, StepConcat
  <2>2. Len(sectors) \in Nat  BY <1>1, LenProperties
  <2>3. /\ m = 1 + Len(sectors)
        /\ \A k \in 1 .. 1 + Len(sectors) :
             pre[k] = IF k <= 1 THEN FlushSb[k] ELSE sectors[k - 1]
    BY <1>6, <2>1
  <2> HIDE DEF pre, m
  <2>4. ASSUME NEW k \in 1 .. m PROVE pre[k].op = "flush"
    <3>1. CASE k = 1  BY <1>6, <2>3, <3>1
    <3>2. CASE k # 1
      <4>1. k - 1 \in 1 .. Len(sectors) /\ ~(k <= 1) /\ k \in 1 .. 1 + Len(sectors)
        BY <2>2, <2>3, <3>2
      <4>2. pre[k] = sectors[k - 1]  BY <2>3, <4>1
      <4> QED  BY <1>5, <4>1, <4>2
    <3> QED  BY <3>1, <3>2
  <2> QED  BY <2>1, <2>2, <2>3, <2>4
<1>8. /\ Len(t) = m + n
      /\ \A k \in 1 .. m + n : t[k] = IF k <= m THEN pre[k] ELSE seeds[k - m]
  <2>1. /\ Len(t) = Len(pre) + Len(seeds)
        /\ \A k \in 1 .. Len(pre) + Len(seeds) :
             t[k] = IF k <= Len(pre) THEN pre[k] ELSE seeds[k - Len(pre)]
    BY <1>1, <1>7, StepConcat
  <2> QED  BY <1>4, <2>1
<1> HIDE DEF pre, m, t
<1>9. ASSUME NEW k \in 1 .. Len(t)
      PROVE  \/ t[k].op = "flush"
             \/ t[k].op = "seed" /\ k - m \in 1 .. n /\ t[k].name = Seeds[k - m]
  <2>0. k \in 1 .. m + n  BY <1>8
  <2>1. CASE k <= m
    <3>1. k \in 1 .. m /\ t[k] = pre[k]  BY <1>3, <1>7, <1>8, <2>0, <2>1
    <3> QED  BY <1>7, <3>1
  <2>2. CASE ~(k <= m)
    <3>1. k - m \in 1 .. n /\ t[k] = seeds[k - m]  BY <1>3, <1>7, <1>8, <2>0, <2>2
    <3> QED  BY <1>4, <3>1
  <2> QED  BY <2>1, <2>2
<1>10. NamesOf(dir') = {}  BY DEF NamesOf
<1>11. SeedsNew(t, dir')
  <2> SUFFICES ASSUME NEW k \in 1 .. Len(t), NEW j \in 1 .. Len(t),
                      t[k].op = "seed", t[j].op = "seed", t[j].name = t[k].name
               PROVE  j = k
    BY <1>10 DEF SeedsNew
  <2>1. /\ k - m \in 1 .. n /\ t[k].name = Seeds[k - m]
        /\ j - m \in 1 .. n /\ t[j].name = Seeds[j - m]
    BY <1>9
  <2>2. j - m = k - m  BY <1>3, <2>1
  <2>3. j \in Int /\ k \in Int /\ m \in Int  BY <1>7
  <2> QED  BY <2>2, <2>3
<1>12. Appends(t, dir') /\ BytesFirst(t)
  <2>1. \A k \in 1 .. Len(t) : t[k].op # "byte"  BY <1>9
  <2> QED  BY <2>1 DEF Appends, BytesFirst
<1> QED  BY <1>2, <1>11, <1>12

\* Mounting, formatting and power-off are the store's stutter and restart.
LEMMA BootStore ==
    ASSUME DiskWorks, StoreInv, Boot
    PROVE  StoreShape' /\ [F!StoreNext]_(F!storeVars)
<1> USE DEF fsVars, diskVars, procVars
<1>1. /\ TypeInv /\ Quiet /\ Distinct(CurDir) /\ HandlesAreNamed
      /\ Faults = {} /\ Files = FilesOf(CurDir, data)
  BY FilesAre DEF StoreInv, StoreShape, ExtentInv, SyncInv, CountInv, HandleInv, DiskWorks
<1>2. \A d : SeedsNew(<<>>, d) /\ Appends(<<>>, d) /\ BytesFirst(<<>>)
  <2>1. \A k \in 1 .. Len(<<>>) : <<>>[k].op = "flush"  OBVIOUS
  <2> QED  BY <2>1, OnlyFlushes
<1>3. ASSUME power = "off"
      PROVE  /\ ~present /\ todo = <<>> /\ Named(dir) = {} /\ CurDir = ddir /\ live = {}
             /\ \A p \in Procs, s \in Slots : ~fds[p][s].used
             /\ next = 0 /\ (sb.magic \/ Named(ddir) = {})
             /\ Cardinality(Named(ddir)) = sb.next
  BY <1>1, <1>3 DEF Quiet, CurDir, StoreInv, StoreShape
<1>4. CASE Format
  <2>1. /\ power = "off" /\ power' = "boot" /\ present' /\ ~sb.magic
        /\ UNCHANGED <<sb, ddir, data, dir, next, live, fds, ret>>
    BY <1>1, <1>4 DEF Format
  <2>2. Named(dir') = {} /\ Named(ddir) = {} /\ dir' = dir /\ CurDir' = dir
    BY <1>3, <2>1 DEF CurDir
  <2>3. \A i \in Entries : dir[i].name = NoName /\ ddir[i].name = NoName
    BY <2>1, <2>2 DEF Named
  <2>4. FilesOf(dir, data) = FilesOf(ddir, data) /\ Distinct(dir)
    <3>1. \A i \in Named(ddir) : BytesOf(dir, data, i) = BytesOf(ddir, data, i)
      BY <2>2
    <3>2. Distinct(ddir)  BY <2>2 DEF Distinct
    <3>3. \A i \in Entries : dir[i].name = ddir[i].name  BY <2>3
    <3> QED  BY <3>1, <3>2, <3>3, FilesSame
  <2>5. Files' = Files  BY <1>1, <1>3, <2>1, <2>2, <2>4, FilesAre
  <2>6. Handles' = Handles  BY <1>1, <2>1, HandlesKept
  <2>7. SeedsNew(todo', dir') /\ Appends(todo', dir') /\ BytesFirst(todo')
    BY <1>4, <2>2, FormatSeeds
  <2>8. Pends(todo', Flush(Super))  BY <1>4, FormatPends
  <2>9. Cardinality(Named(dir')) = next'  BY <1>3, <2>1, <2>2, FS_EmptySet
  <2>10. Running  BY <1>3, <2>1, <2>2, <2>4, <2>7, <2>8, <2>9 DEF Running
  <2> QED  BY <2>1, <2>5, <2>6, <2>10, RunningIsShape, Nothing
<1>5. CASE Mount
  <2>1. /\ power = "off" /\ power' = "boot" /\ present' /\ sb.magic /\ next' = sb.next
        /\ UNCHANGED <<sb, ddir, data, todo, live, fds, ret>>
    BY <1>1, <1>5 DEF Mount
  <2>2. \A i \in Entries : dir'[i] = ddir[i]  BY <1>1, <1>5, MountReads
  <2>3. Distinct(ddir) /\ CurDir' = dir'  BY <1>1, <1>3, <2>1 DEF CurDir
  <2>4. \A i \in Named(ddir) : BytesOf(dir', data, i) = BytesOf(ddir, data, i)
    BY <2>2 DEF BytesOf, Named
  <2>5. /\ Distinct(dir') /\ Named(dir') = Named(ddir)
        /\ FilesOf(dir', data) = FilesOf(ddir, data)
    BY <2>2, <2>3, <2>4, FilesSame
  <2>6. Files' = Files  BY <1>1, <1>3, <2>1, <2>3, <2>5, FilesAre
  <2>7. Handles' = Handles
    <3>1. \A p \in Procs, s \in Slots :
            HandleOf(fds'[p][s], dir') = HandleOf(fds[p][s], dir)
      BY <1>3, <2>1 DEF HandleOf
    <3> QED  BY <3>1, HandlesSame
  <2>8. Running  BY <1>2, <1>3, <2>1, <2>5 DEF Running
  <2> QED  BY <2>1, <2>6, <2>7, <2>8, RunningIsShape, Nothing
<1>6. CASE Start
  <2>1. /\ power = "boot" /\ power' = "on" /\ todo = <<>> /\ live' = Spawned
        /\ fds' = NoFds /\ UNCHANGED <<sb, ddir, data, present, dir, next, todo, ret>>
    BY <1>6 DEF Start
  <2>2. /\ present /\ CurDir = dir /\ Distinct(dir) /\ Cardinality(Named(dir)) = next
    BY <2>1, StoreFacts
  <2>3. live = {} /\ (sb.magic \/ Pends(todo, Flush(Super)))
    BY <2>1 DEF StoreInv, StoreShape
  <2>4. CurDir' = dir  BY <2>1 DEF CurDir
  <2>5. Files' = Files  BY <1>1, <2>1, <2>2, <2>4, FilesAre
  <2>6. Handles' = F!NoHandles  BY <2>1, NoHandlesAre
  <2>7. Running  BY <1>2, <2>1, <2>2, <2>3 DEF Running
  <2>8. F!Begin  BY <2>1, <2>3, <2>5, <2>6 DEF F!Begin
  <2> QED  BY <2>7, <2>8, RunningIsShape DEF F!StoreNext
<1>7. CASE PowerOff
  <2>1. /\ power = "on" /\ todo = <<>> /\ power' = "off" /\ ~present' /\ next' = 0
        /\ todo' = <<>> /\ live' = {} /\ fds' = NoFds
        /\ UNCHANGED <<sb, ddir, data, ret>>
    BY <1>1, <1>7 DEF PowerOff
  <2>2. /\ present /\ CurDir = dir /\ Distinct(dir) /\ Cardinality(Named(dir)) = next
    BY <2>1, StoreFacts
  <2>3. /\ \A i \in Entries : ddir[i] = dir[i]
        /\ sb.next = next /\ sb.magic
    <3>1. \A x : ~Pends(<<>>, x)  BY DEF Pends
    <3> QED  BY <2>1, <2>2, <3>1 DEF StoreInv, StoreShape, ExtentInv, SyncInv, Pending
  <2>4. /\ Distinct(ddir) /\ Named(ddir) = Named(dir)
        /\ FilesOf(ddir, data) = FilesOf(dir, data)
    <3>1. \A i \in Named(dir) : BytesOf(ddir, data, i) = BytesOf(dir, data, i)
      BY <2>3 DEF BytesOf, Named
    <3> QED  BY <2>2, <2>3, <3>1, FilesSame
  <2>5. CurDir' = ddir  BY <2>1 DEF CurDir
  <2>6. Files' = Files  BY <1>1, <2>1, <2>2, <2>4, <2>5, FilesAre
  <2>7. Handles' = F!NoHandles  BY <2>1, NoHandlesAre
  <2>8. StoreShape'
    BY <1>2, <2>1, <2>2, <2>3, <2>4, <2>5 DEF StoreShape
  <2>9. F!Restart  BY <2>1, <2>6, <2>7 DEF F!Restart
  <2> QED  BY <2>8, <2>9 DEF F!StoreNext
<1>8. ~NoDisk  BY <1>1 DEF NoDisk
<1> QED  BY <1>4, <1>5, <1>6, <1>7, <1>8 DEF Boot

-----------------------------------------------------------------------------
(* System calls *)

\* What every system call starts from, and what it leaves alone.
LEMMA CallFacts ==
    ASSUME DiskWorks, StoreInv, NEW p \in Procs, Syscall(p)
    PROVE  /\ power = "on" /\ power' = "on" /\ todo = <<>> /\ p \in live
           /\ present /\ present' /\ sb'.magic /\ UNCHANGED <<sb, ddir, power, present>>
           /\ SeedsNew(todo', dir') /\ Appends(todo', dir') /\ BytesFirst(todo')
           /\ TypeInv /\ HandlesAreNamed /\ Faults = {} /\ NulNames = {}
           /\ CurDir' = dir' /\ Files' = FilesOf(dir', data')
           /\ \A i \in Named(dir) : i \in Entries /\ dir'[i].name = dir[i].name
<1> USE DEF fsVars, diskVars, procVars
<1>1. /\ power = "on" /\ todo = <<>> /\ p \in live
      /\ UNCHANGED <<sb, ddir, power, present>>
  BY DEF Syscall, OpenRead, OpenWrite, ExecFile, Close, Fread, Fwrite, Fork, Exit, Calls
<1>2. TypeInv /\ Quiet /\ HandlesAreNamed /\ Next
  BY DEF StoreInv, CountInv, HandleInv, Next
<1>3. present  BY <1>1, StoreFacts
<1>4. \A x : ~Pends(<<>>, x)  BY DEF Pends
<1>5. sb.magic  BY <1>1, <1>4 DEF StoreInv, StoreShape
<1>6. Quiet'  BY <1>2, NextQuiet
<1>7. \A k \in 1 .. Len(todo') : todo'[k].op = "flush"  BY <1>1, <1>6 DEF Quiet
<1>8. SeedsNew(todo', dir') /\ Appends(todo', dir') /\ BytesFirst(todo')
  BY <1>7, OnlyFlushes
<1>9. CurDir' = dir'  BY <1>1 DEF CurDir
<1>10. \A i \in Named(dir) : dir'[i].name = dir[i].name /\ i \in Entries
  BY <1>1, <1>2, NamedStays DEF Named
<1> QED  BY <1>1, <1>2, <1>3, <1>5, <1>8, <1>9, <1>10, FilesAre DEF DiskWorks

\* A call after which the directory has distinct names keeps the shape.
LEMMA CallShape ==
    ASSUME DiskWorks, StoreInv, NEW p \in Procs, Syscall(p),
           Distinct(dir'), Cardinality(Named(dir')) = next'
    PROVE  StoreShape'
BY CallFacts, RunningIsShape DEF Running

\* A call that leaves directory and data alone.
LEMMA QuietCall ==
    ASSUME DiskWorks, StoreInv, NEW p \in Procs, Syscall(p), UNCHANGED <<dir, next, data>>
    PROVE  StoreShape' /\ Files' = Files
<1>1. /\ Distinct(dir) /\ Cardinality(Named(dir)) = next /\ Files = FilesOf(dir, data)
  BY CallFacts, StoreFacts
<1> QED  BY <1>1, CallFacts, CallShape

\* find() finds what exists.
LEMMA MatchesExist ==
    ASSUME DiskWorks, StoreInv, power = "on", NEW n \in Names
    PROVE  /\ Matches(n) # {} <=> n \in DOMAIN Files
           /\ Matches(n) # {} => LET i == First(Matches(n))
                                 IN  /\ i \in Named(dir) /\ i \in Entries /\ dir[i].name = n
                                     /\ Files[n] = BytesOf(dir, data, i)
<1>1. /\ DOMAIN Files = NamesOf(dir)
      /\ \A i \in Named(dir) : Files[dir[i].name] = BytesOf(dir, data, i)
  BY StoreFacts
<1>2. n # NoName /\ n \notin NulNames /\ AlsoFound = {}  BY DiskAssumption DEF DiskWorks
<1>3. Matches(n) # {} <=> n \in NamesOf(dir)
  BY <1>2 DEF Matches, NamesOf, Named
<1>4. ASSUME Matches(n) # {}
      PROVE  First(Matches(n)) \in Named(dir) /\ dir[First(Matches(n))].name = n
  <2>1. Matches(n) \in SUBSET Nat  BY DiskAssumption DEF Matches, Entries
  <2>2. First(Matches(n)) \in Matches(n)  BY <1>4, <2>1, FirstIsIn
  <2> QED  BY <1>2, <2>2 DEF Matches, Named
<1> QED  BY <1>1, <1>3, <1>4 DEF Named

\* open for reading implements the store's.
LEMMA OpenReadStore ==
    ASSUME DiskWorks, StoreInv, NEW p \in Procs, NEW n \in Names, OpenRead(p, n)
    PROVE  StoreShape' /\ F!OpenRead(p, n)
<1> USE DEF fsVars, diskVars, procVars
<1>0. Syscall(p) /\ UNCHANGED <<dir, next, data, live>>  BY DEF Syscall, OpenRead
<1>1. /\ power = "on" /\ p \in live /\ TypeInv /\ HandlesAreNamed
      /\ \A i \in Named(dir) : dir'[i].name = dir[i].name
  BY <1>0, CallFacts
<1>2. StoreShape' /\ Files' = Files  BY <1>0, QuietCall
<1>3. CASE Matches(n) = {}
  <2>1. ret' = F!Failed /\ UNCHANGED fds /\ ~F!Exists(n)
    BY <1>1, <1>3, MatchesExist DEF OpenRead, F!Exists, Failed, F!Failed
  <2>2. Handles' = Handles  BY <1>1, <2>1, HandlesKept
  <2> QED  BY <1>0, <1>1, <1>2, <2>1, <2>2 DEF F!OpenRead, F!Refuse
<1>4. CASE Matches(n) # {}
  <2> DEFINE i == First(Matches(n))
  <2>1. GiveFd(p, i, FALSE)  BY <1>4 DEF OpenRead
  <2>2. F!Exists(n) /\ i \in Entries /\ dir[i].name = n
    BY <1>1, <1>4, MatchesExist DEF F!Exists
  <2> HIDE DEF i
  <2>3. F!GiveHandle(p, dir'[i].name, FALSE)
    BY <1>1, <2>1, <2>2, GiveFdIsGiveHandle
  <2> QED  BY <1>0, <1>1, <1>2, <2>2, <2>3 DEF F!OpenRead
<1> QED  BY <1>2, <1>3, <1>4

\* The store counts as we do.
LEMMA SameCardinality == \A S : F!Cardinality(S) = Cardinality(S)
BY Zenon DEF F!Cardinality, Cardinality

\* open for writing implements the store's, whether it truncates, creates or fails.
LEMMA OpenWriteStore ==
    ASSUME DiskWorks, StoreInv, NEW p \in Procs, NEW n \in Names, OpenWrite(p, n)
    PROVE  StoreShape' /\ F!OpenWrite(p, n)
<1> USE DEF fsVars, diskVars, procVars
<1>0. Syscall(p) /\ UNCHANGED <<data, live>>  BY DEF Syscall, OpenWrite
<1>1. /\ power = "on" /\ p \in live /\ TypeInv /\ HandlesAreNamed /\ present
      /\ \A i \in Named(dir) : dir'[i].name = dir[i].name
      /\ Files' = FilesOf(dir', data') /\ NulNames = {}
  BY <1>0, CallFacts
<1>2. /\ Distinct(dir) /\ Cardinality(Named(dir)) = next /\ Files = FilesOf(dir, data)
      /\ DOMAIN Files = NamesOf(dir) /\ Cardinality(DOMAIN Files) = next
      /\ next <= MaxFiles /\ (next = MaxFiles <=> Unused = {})
  BY <1>1, StoreFacts
<1>3. next \in Nat /\ MaxFiles \in Nat  BY <1>1, DiskAssumption DEF TypeInv, FsTypeOK
<1>4. CASE Matches(n) # {}
  <2> DEFINE i == First(Matches(n))
  <2>1. /\ i \in Named(dir) /\ i \in Entries /\ dir[i].name = n /\ F!Exists(n)
    BY <1>1, <1>4, MatchesExist DEF F!Exists
  <2>2. Truncate(i) /\ GiveFd(p, i, TRUE) /\ next' = next
    BY <1>4 DEF OpenWrite
  <2> HIDE DEF i
  <2>3. dir' = [dir EXCEPT ![i].len = 0]  BY <2>2 DEF Truncate
  <2>4. 0 \in 0 .. Cap  BY DiskAssumption
  <2>5. /\ \A j \in Entries : /\ dir'[j].name = dir[j].name /\ dir'[j].first = dir[j].first
                              /\ j # i => dir'[j].len = dir[j].len
        /\ dir'[i].len = 0
    <3>1. \A j \in Entries : dir'[j] =
            IF j = i THEN [name |-> dir[i].name, first |-> dir[i].first, len |-> 0]
                     ELSE dir[j]
      BY <1>1, <2>1, <2>3, <2>4, LenType
    <3> QED  BY <2>1, <3>1
  <2>6. BytesOf(dir', data', i) = <<>>  BY <2>5 DEF BytesOf
  <2>7. /\ Distinct(dir') /\ Named(dir') = Named(dir)
        /\ FilesOf(dir', data') = FilesWith(Files, dir[i].name, <<>>)
    BY <1>0, <1>1, <2>1, <2>5, <2>6, ChangeFiles
  <2>8. StoreShape'  BY <1>0, <1>2, <2>2, <2>7, CallShape
  <2>9. Files' = F!With(n, <<>>)  BY <1>1, <2>1, <2>7 DEF F!With, FilesWith
  <2>10. F!GiveHandle(p, n, TRUE)
    <3>1. F!GiveHandle(p, dir'[i].name, TRUE)  BY <1>1, <2>1, <2>2, GiveFdIsGiveHandle
    <3> QED  BY <2>1, <2>5, <3>1
  <2> QED  BY <1>0, <1>1, <2>1, <2>8, <2>9, <2>10 DEF F!OpenWrite
<1>5. CASE Matches(n) = {} /\ Unused # {}
  <2> DEFINE i == First(Unused)
  <2>1. Create(n, <<>>) /\ GiveFd(p, i, TRUE)  BY <1>1, <1>5 DEF OpenWrite
  <2>2. n \notin NamesOf(dir)  BY <1>1, <1>2, <1>5, MatchesExist
  <2>3. /\ i \in Entries /\ dir'[i].name = n
        /\ Distinct(dir') /\ Cardinality(Named(dir')) = next'
        /\ FilesOf(dir', data') = FilesWith(Files, n, <<>>)
    BY <1>0, <1>1, <1>5, <2>1, <2>2, CreateFiles
  <2> HIDE DEF i
  <2>4. StoreShape'  BY <1>0, <2>3, CallShape
  <2>5. Files' = F!With(n, <<>>)  BY <1>1, <2>3 DEF F!With, FilesWith
  <2>6. F!GiveHandle(p, n, TRUE)
    <3>1. F!GiveHandle(p, dir'[i].name, TRUE)  BY <1>1, <2>1, <2>3, GiveFdIsGiveHandle
    <3> QED  BY <2>3, <3>1
  <2>7. Cardinality(DOMAIN Files) < MaxFiles  BY <1>2, <1>3, <1>5
  <2> QED
    BY <1>0, <1>1, <2>4, <2>5, <2>6, <2>7, SameCardinality DEF F!OpenWrite
<1>6. CASE Matches(n) = {} /\ Unused = {}
  <2>1. ret' = F!Failed /\ UNCHANGED <<dir, next, fds>>
    BY <1>6 DEF OpenWrite, Failed, F!Failed
  <2>2. StoreShape' /\ Files' = Files  BY <1>0, <2>1, QuietCall
  <2>3. Handles' = Handles  BY <1>1, <2>1, HandlesKept
  <2>4. ~F!Exists(n) /\ Cardinality(DOMAIN Files) = MaxFiles
    BY <1>1, <1>2, <1>6, MatchesExist DEF F!Exists
  <2> QED
    BY <1>0, <1>1, <2>1, <2>2, <2>3, <2>4, SameCardinality DEF F!OpenWrite, F!Refuse
<1> QED  BY <1>4, <1>5, <1>6

\* close implements the store's.
LEMMA CloseStore ==
    ASSUME DiskWorks, StoreInv, NEW p \in Procs, NEW s \in Slots, Close(p, s)
    PROVE  StoreShape' /\ F!Close(p, s)
<1> USE DEF fsVars, diskVars, procVars
<1>0. /\ Syscall(p) /\ UNCHANGED <<dir, next, data, live>>
      /\ ret' = (IF fds[p][s].used THEN Returned(<<>>) ELSE Failed)
      /\ fds' = [fds EXCEPT ![p][s] = EmptyFd]
  BY DEF Syscall, Close
<1>1. /\ p \in live /\ TypeInv /\ HandlesAreNamed
      /\ \A i \in Named(dir) : dir'[i].name = dir[i].name
  BY <1>0, CallFacts
<1>2. StoreShape' /\ Files' = Files  BY <1>0, QuietCall
<1>3. \A q \in Procs, t \in Slots : fds'[q][t] = IF q = p /\ t = s THEN EmptyFd ELSE fds[q][t]
  BY <1>0, <1>1 DEF TypeInv, FsTypeOK
<1>4. Handles' = [Handles EXCEPT ![p][s] = HandleOf(fds'[p][s], dir')]
  BY <1>1, <1>3, OneHandle
<1>5. HandleOf(fds'[p][s], dir') = F!Closed  BY <1>3, HandlesAre
<1>6. Handles' = [Handles EXCEPT ![p][s] = F!Closed]  BY <1>4, <1>5
<1>7. Handles[p][s].open <=> fds[p][s].used  BY HandlesAre
<1>8. ret' = IF Handles[p][s].open THEN F!Returned(<<>>) ELSE F!Failed
  BY <1>0, <1>7 DEF Returned, F!Returned, Failed, F!Failed
<1> QED  BY <1>0, <1>1, <1>2, <1>6, <1>8 DEF F!Close

\* The descriptor table after a descriptor's position moved on.
MovedFd(p, s) == [used |-> fds[p][s].used, dir |-> fds[p][s].dir,
                  pos |-> fds[p][s].pos + 1, write |-> fds[p][s].write]

PosMoves(p, s) == fds' = [fds EXCEPT ![p][s].pos = @ + 1]

LEMMA FdMoved ==
    ASSUME TypeInv, NEW p \in Procs, NEW s \in Slots, fds[p][s].pos + 1 \in 0 .. Cap,
           PosMoves(p, s)
    PROVE  \A q \in Procs, t \in Slots :
             fds'[q][t] = IF q = p /\ t = s THEN MovedFd(p, s) ELSE fds[q][t]
<1> DEFINE all == [fds EXCEPT ![p][s].pos = @ + 1]
<1>1. \A q \in Procs, t \in Slots :
        all[q][t] = IF q = p /\ t = s THEN MovedFd(p, s) ELSE fds[q][t]
  BY FdMoves DEF MovedFd
<1>2. fds' = all  BY DEF PosMoves
<1> HIDE DEF all
<1> QED  BY <1>1, <1>2

\* The descriptor whose position moves on.
LEMMA HandleMoves ==
    ASSUME TypeInv, HandlesAreNamed, NEW p \in Procs, NEW s \in Slots, fds[p][s].used,
           \A i \in Named(dir) : dir'[i].name = dir[i].name, fds[p][s].pos < Cap,
           fds' = [fds EXCEPT ![p][s].pos = @ + 1]
    PROVE  Handles' = [Handles EXCEPT ![p][s].pos = @ + 1]
<1> DEFINE fd == fds[p][s]
           moved == [used |-> fd.used, dir |-> fd.dir, pos |-> fd.pos + 1, write |-> fd.write]
           h == Handles[p][s]
<1>1. fd.pos + 1 \in 0 .. Cap /\ fd \in [used : BOOLEAN, dir : Entries, pos : 0 .. Cap,
                                          write : BOOLEAN]
  BY DiskAssumption DEF TypeInv, FsTypeOK
<1>2. \A q \in Procs, t \in Slots :
        fds'[q][t] = IF q = p /\ t = s THEN moved ELSE fds[q][t]
  <2>1. fds[p][s].pos + 1 \in 0 .. Cap  BY <1>1
  <2>2. PosMoves(p, s)  BY DEF PosMoves
  <2>3. \A q \in Procs, t \in Slots :
          fds'[q][t] = IF q = p /\ t = s THEN MovedFd(p, s) ELSE fds[q][t]
    BY <2>1, <2>2, FdMoved
  <2> QED  BY <2>3 DEF MovedFd
<1>3. Handles' = [Handles EXCEPT ![p][s] = HandleOf(fds'[p][s], dir')]
  BY <1>2, OneHandle
<1>4. fd.dir \in Named(dir) /\ fd.used = TRUE  BY <1>1 DEF HandlesAreNamed
<1>5. h = [open |-> TRUE, name |-> dir[fd.dir].name, pos |-> fd.pos, write |-> fd.write]
  BY <1>4, HandlesAre DEF HandleOf
<1>6. HandleOf(moved, dir') = [h EXCEPT !.pos = @ + 1]
  <2>1. HandleOf(moved, dir') = [open |-> TRUE, name |-> dir'[fd.dir].name,
                                 pos |-> fd.pos + 1, write |-> fd.write]
    BY <1>4 DEF HandleOf
  <2>2. dir'[fd.dir].name = dir[fd.dir].name  BY <1>4
  <2> HIDE DEF h
  <2>3. [h EXCEPT !.pos = @ + 1] = [open |-> TRUE, name |-> dir[fd.dir].name,
                                    pos |-> fd.pos + 1, write |-> fd.write]
    <3> DEFINE r == [open |-> TRUE, name |-> dir[fd.dir].name, pos |-> fd.pos,
                     write |-> fd.write]
    <3>1. /\ r \in [open : BOOLEAN, name : {dir[fd.dir].name}, pos : Nat,
                     write : BOOLEAN]
          /\ r.open = TRUE /\ r.name = dir[fd.dir].name /\ r.pos = fd.pos
          /\ r.write = fd.write
      BY <1>1
    <3>2. h = r  BY <1>5
    <3> HIDE DEF r, fd
    <3>3. [r EXCEPT !.pos = @ + 1] = [open |-> r.open, name |-> r.name,
                                      pos |-> r.pos + 1, write |-> r.write]
      <4>1. r \in [open : BOOLEAN, name : {dir[fd.dir].name}, pos : Nat, write : BOOLEAN]
        BY <3>1
      <4> QED  BY <4>1
    <3>4. [open |-> r.open, name |-> r.name, pos |-> r.pos + 1, write |-> r.write]
            = [open |-> TRUE, name |-> dir[fd.dir].name,
               pos |-> fd.pos + 1, write |-> fd.write]
      BY <3>1
    <3> QED  BY <3>2, <3>3, <3>4
  <2> QED  BY <2>1, <2>2, <2>3
<1>7. Handles' = [Handles EXCEPT ![p][s] = [h EXCEPT !.pos = @ + 1]]
  <2> DEFINE new == [h EXCEPT !.pos = @ + 1]
  <2>1. HandleOf(fds'[p][s], dir') = new  BY <1>2, <1>6
  <2> HIDE DEF new
  <2>2. Handles' = [Handles EXCEPT ![p][s] = new]  BY <1>3, <2>1
  <2> QED  BY <2>2 DEF new
<1>8. [Handles EXCEPT ![p][s] = [h EXCEPT !.pos = @ + 1]]
        = [Handles EXCEPT ![p][s].pos = @ + 1]
  <2>1. p \in DOMAIN Handles /\ s \in DOMAIN Handles[p]
    <3>1. Handles[p] = [t \in Slots |-> HandleOf(fds[p][t], dir)]  BY HandlesAre
    <3> QED  BY <3>1, HandlesAre
  <2> QED  BY <2>1
<1> QED  BY <1>7, <1>8

\* What a descriptor denotes, and that its entry has a name.
LEMMA OpenHandle ==
    ASSUME DiskWorks, StoreInv, power = "on", NEW p \in Procs, NEW s \in Slots
    PROVE  LET fd == fds[p][s]
               h == Handles[p][s]
           IN  /\ h.open <=> fd.used
               /\ fd.dir \in Entries /\ fd.pos \in 0 .. Cap
               /\ fd.used => /\ fd.dir \in Named(dir) /\ dir[fd.dir].first \in Extents
                             /\ h.name = dir[fd.dir].name /\ h.pos = fd.pos
                             /\ (h.write <=> fd.write) /\ h.write = fd.write
                             /\ h.name \in DOMAIN Files
                             /\ Files[h.name] = BytesOf(dir, data, fd.dir)
                             /\ dir[fd.dir].len \in 0 .. Cap
                             /\ Len(Files[h.name]) = dir[fd.dir].len
<1> DEFINE fd == fds[p][s]
           h == Handles[p][s]
           i == fd.dir
<1>1. /\ TypeInv /\ DOMAIN Files = NamesOf(dir)
      /\ \A j \in Named(dir) : /\ j \in Entries /\ dir[j].first \in Extents
                               /\ dir[j].name \in NamesOf(dir)
                               /\ Files[dir[j].name] = BytesOf(dir, data, j)
  BY StoreFacts
<1>2. i \in Entries /\ fd.pos \in 0 .. Cap /\ dir[i].len \in 0 .. Cap
  <2>1. i \in Entries /\ fd.pos \in 0 .. Cap  BY <1>1 DEF TypeInv, FsTypeOK
  <2> QED  BY <1>1, <2>1 DEF TypeInv, FsTypeOK, Entry
<1>3. /\ h.open <=> fd.used
      /\ fd.used => h.name = dir[i].name /\ h.pos = fd.pos /\ h.write = fd.write
  BY HandlesAre
<1>4. fd.used => i \in Named(dir)
  BY DEF StoreInv, CountInv, HandleInv, HandlesAreNamed
<1>5. Len(BytesOf(dir, data, i)) = dir[i].len
  <2> DEFINE l == dir[i].len
  <2>1. l \in Nat  BY <1>2, DiskAssumption
  <2> HIDE DEF l
  <2>2. Len([k \in 1 .. l |-> data[dir[i].first][k - 1]]) = l  BY <2>1
  <2> QED  BY <2>2 DEF BytesOf, l
<1> HIDE DEF i, h, fd
<1> QED  BY <1>1, <1>2, <1>3, <1>4, <1>5 DEF i, h, fd

\* fread implements the store's Read: the byte on the disk is the file's.
LEMMA FreadStore ==
    ASSUME DiskWorks, StoreInv, NEW p \in Procs, NEW s \in Slots, Fread(p, s)
    PROVE  StoreShape' /\ F!Read(p, s)
<1> USE DEF fsVars, diskVars, procVars
<1> DEFINE fd == fds[p][s]
           h == Handles[p][s]
<1>0. Syscall(p) /\ UNCHANGED <<dir, next, data, live>>  BY DEF Syscall, Fread
<1>1. /\ power = "on" /\ p \in live /\ TypeInv /\ HandlesAreNamed /\ Faults = {}
      /\ \A i \in Named(dir) : dir'[i].name = dir[i].name
  BY <1>0, CallFacts
<1>2. StoreShape' /\ Files' = Files  BY <1>0, QuietCall
<1>3. /\ h.open <=> fd.used
      /\ fd.dir \in Entries /\ fd.pos \in 0 .. Cap
      /\ fd.used => /\ dir[fd.dir].first \in Extents
                    /\ h.pos = fd.pos /\ h.write = fd.write
                    /\ Files[h.name] = BytesOf(dir, data, fd.dir)
                    /\ dir[fd.dir].len \in 0 .. Cap
                    /\ Len(Files[h.name]) = dir[fd.dir].len
  BY <1>1, OpenHandle
<1>4. CASE /\ fd.used /\ ~fd.write /\ fd.pos < dir[fd.dir].len /\ OnDisk(fd.dir, fd.pos)
           /\ ret' = Returned(<<data[dir[fd.dir].first][fd.pos]>>)
           /\ fds' = [fds EXCEPT ![p][s].pos = @ + 1]
  <2>1. fd.pos < Cap  BY <1>4 DEF OnDisk
  <2>2. Handles' = [Handles EXCEPT ![p][s].pos = @ + 1]  BY <1>1, <1>4, <2>1, HandleMoves
  <2>3. Files[h.name][h.pos + 1] = data[dir[fd.dir].first][fd.pos]
    <3> DEFINE col == data[dir[fd.dir].first]
               bytes == BytesOf(dir, data, fd.dir)
               l == dir[fd.dir].len
               x == fd.pos
    <3>a. x \in 0 .. Cap  BY <1>3
    <3>b. l \in 0 .. Cap  BY <1>3, <1>4
    <3>c. x < l  BY <1>4
    <3>2. \A k \in 1 .. l : bytes[k] = col[k - 1]  BY DEF BytesOf
    <3>3. h.pos = x /\ Files[h.name] = bytes  BY <1>3, <1>4
    <3> HIDE DEF col, bytes, l, x, h
    <3>1. x \in Nat /\ l \in Nat /\ x < l  BY <3>a, <3>b, <3>c, DiskAssumption
    <3>4. x + 1 \in 1 .. l /\ (x + 1) - 1 = x  BY <3>1
    <3>5. bytes[x + 1] = col[x]  BY <3>2, <3>4
    <3>6. Files[h.name][h.pos + 1] = col[x]  BY <3>3, <3>5
    <3> QED  BY <3>6 DEF col, x
  <2>4. ret' = F!Returned(<<Files[h.name][h.pos + 1]>>)
    BY <1>4, <2>3 DEF Returned, F!Returned
  <2>5. h.open /\ ~h.write /\ h.pos < Len(Files[h.name])  BY <1>3, <1>4
  <2> QED  BY <1>0, <1>1, <1>2, <2>2, <2>4, <2>5 DEF F!Read
<1>5. CASE /\ \/ ~fd.used \/ fd.write
              \/ fd.pos >= dir[fd.dir].len
              \/ ~OnDisk(fd.dir, fd.pos)
           /\ ret' = Failed /\ UNCHANGED fds
  <2>1. Handles' = Handles  BY <1>1, <1>5, HandlesKept
  <2>2. F!Refuse  BY <1>0, <1>2, <1>5, <2>1 DEF F!Refuse, F!Failed, Failed
  <2>3. h.open /\ ~h.write => h.pos >= Len(Files[h.name])
    <3> SUFFICES ASSUME h.open, ~h.write PROVE fd.pos >= dir[fd.dir].len
      BY <1>3
    <3>1. CASE ~OnDisk(fd.dir, fd.pos)
      <4>1. ~(fd.pos < Cap)  BY <1>3, <3>1 DEF OnDisk
      <4> QED  BY <1>3, <4>1, DiskAssumption
    <3> QED  BY <1>3, <1>5, <3>1
  <2> HIDE DEF h
  <2> QED  BY <1>1, <1>2, <2>2, <2>3 DEF F!Read, h
<1> QED  BY <1>1, <1>2, <1>4, <1>5 DEF Fread

\* fwrite implements the store's Write; between the old end and the position
\* lie bytes the descriptor's owner, or somebody before it, has written.
LEMMA FwriteStore ==
    ASSUME DiskWorks, StoreInv, NEW p \in Procs, NEW s \in Slots, NEW b \in Bytes,
           Fwrite(p, s, b)
    PROVE  StoreShape' /\ F!Write(p, s, b)
<1> USE DEF fsVars, diskVars, procVars
<1> DEFINE fd == fds[p][s]
           h == Handles[p][s]
           i == fd.dir
           pos == fd.pos
           e == dir[i].first
           len == WrittenLen(i, pos)
           c == WrittenBytes(i, pos, b)
<1>0. Syscall(p) /\ UNCHANGED <<next, live>>  BY DEF Syscall, Fwrite
<1>1. /\ power = "on" /\ p \in live /\ TypeInv /\ HandlesAreNamed /\ Faults = {}
      /\ \A j \in Named(dir) : dir'[j].name = dir[j].name
      /\ Files' = FilesOf(dir', data')
  BY <1>0, CallFacts
<1>2. /\ h.open <=> fd.used
      /\ i \in Entries /\ pos \in 0 .. Cap
      /\ fd.used => /\ i \in Named(dir) /\ e \in Extents
                    /\ h.name = dir[i].name /\ h.pos = pos /\ h.write = fd.write
                    /\ h.name \in DOMAIN Files
                    /\ Files[h.name] = BytesOf(dir, data, i)
                    /\ dir[i].len \in 0 .. Cap
                    /\ Len(Files[h.name]) = dir[i].len
  BY <1>1, OpenHandle
<1>3. CASE /\ fd.used /\ fd.write /\ WriteAt(i, pos, b, <<>>) /\ ret' = Returned(<<>>)
           /\ fds' = [fds EXCEPT ![p][s].pos = @ + 1]
  <2>1. pos < Cap  BY <1>3 DEF WriteAt, OnDisk
  <2>2. Handles' = [Handles EXCEPT ![p][s].pos = @ + 1]  BY <1>1, <1>3, <2>1, HandleMoves
  <2>3. ret' = F!Returned(<<>>)  BY <1>3 DEF Returned, F!Returned
  <2>4. /\ Distinct(dir') /\ Named(dir') = Named(dir)
        /\ FilesOf(dir', data') = FilesWith(Files, dir[i].name, c)
    BY <1>1, <1>2, <1>3, WriteFiles
  <2>5. Cardinality(Named(dir)) = next  BY <1>1, StoreFacts
  <2>6. StoreShape'  BY <1>0, <2>4, <2>5, CallShape
  <2>7. Files' = F!With(h.name, c)
    <3>1. Files' = FilesWith(Files, dir[i].name, c)  BY <1>1, <2>4
    <3>2. h.name = dir[i].name  BY <1>2, <1>3
    <3> HIDE DEF c, h
    <3> QED  BY <3>1, <3>2 DEF F!With, FilesWith
  <2>8. c \in F!Overwrite(Files[h.name], h.pos, b)
    <3> DEFINE old == [k \in 1 .. dir[i].len |-> data[e][k - 1]]
    <3>1. Files[h.name] = old /\ Len(old) = dir[i].len /\ h.pos = pos
      BY <1>2, <1>3 DEF BytesOf
    <3>a. pos \in 0 .. Cap  BY <1>2
    <3>b. dir[i].len \in 0 .. Cap  BY <1>2, <1>3
    <3>0. \A k \in 1 .. len : c[k] = IF k = pos + 1 THEN b ELSE data[e][k - 1]
      BY DEF WrittenBytes
    <3>2. /\ pos \in Nat /\ dir[i].len \in Nat /\ len \in Nat
          /\ pos + 1 \in 1 .. len /\ dir[i].len <= Cap
          /\ \A k \in 1 .. dir[i].len : k \in 1 .. len
      <4> DEFINE l == dir[i].len
      <4>1. len = IF pos + 1 > l THEN pos + 1 ELSE l  BY DEF WrittenLen
      <4> HIDE DEF l, pos, len
      <4>2. pos \in Nat /\ l \in Nat /\ l <= Cap  BY <3>a, <3>b, DiskAssumption DEF l
      <4>3. len \in Nat /\ pos + 1 <= len /\ l <= len  BY <4>1, <4>2
      <4> QED  BY <4>2, <4>3 DEF l
    <3>3. c[pos + 1] = b  BY <3>0, <3>2
    <3>4. \A k \in 1 .. dir[i].len : k # pos + 1 => c[k] = old[k]  BY <3>0, <3>2
    <3>5. \A k \in 1 .. len : k # pos + 1 => data[e][k - 1] \in Bytes
      <4> SUFFICES ASSUME NEW k \in 1 .. len, k # pos + 1 PROVE data[e][k - 1] \in Bytes
        OBVIOUS
      <4>1. k - 1 \in Positions /\ (k - 1 \in 0 .. dir[i].len - 1 \/ k - 1 \in 0 .. pos - 1)
        <5> DEFINE l == dir[i].len
                   x == pos
        <5>1. x \in Nat /\ l \in Nat /\ x < Cap /\ l <= Cap /\ k # x + 1
              /\ k \in 1 .. (IF x + 1 > l THEN x + 1 ELSE l)
          BY <2>1, <3>2 DEF WrittenLen
        <5> HIDE DEF l, x
        <5>2. k \in Nat /\ k >= 1 /\ (k <= x + 1 \/ k <= l)  BY <5>1
        <5>3. k - 1 < Cap /\ (k - 1 < l \/ k - 1 < x)  BY <5>1, <5>2, DiskAssumption
        <5>4. k - 1 \in 0 .. Cap - 1 /\ (k - 1 \in 0 .. l - 1 \/ k - 1 \in 0 .. x - 1)
          BY <5>1, <5>2, <5>3, DiskAssumption
        <5> QED  BY <5>4 DEF l, x, Positions
      <4>2. data[e][k - 1] \in Bytes \cup {Blank}
        BY <1>1, <1>2, <1>3, <4>1 DEF TypeInv, FsTypeOK
      <4>3. CASE k - 1 \in 0 .. dir[i].len - 1
        BY <1>2, <1>3, <4>2, <4>3 DEF StoreInv, CountInv, Counted
      <4>4. CASE k - 1 \in 0 .. pos - 1
        BY <1>2, <1>3, <4>2, <4>4 DEF StoreInv, CountInv, HandleInv, WriterLeavesNoGap
      <4> QED  BY <4>1, <4>3, <4>4
    <3>6. c \in [1 .. len -> Bytes]  BY <3>5 DEF WrittenBytes
    <3> DEFINE l == dir[i].len
    <3>7. len = IF pos + 1 > l THEN pos + 1 ELSE l  BY DEF WrittenLen
    <3>8. Files[h.name] = old /\ Len(old) = l /\ h.pos = pos  BY <3>1
    <3>9. \A k \in 1 .. l : k # pos + 1 => c[k] = old[k]  BY <3>4
    <3> HIDE DEF c, old, len, l, h, pos
    <3> QED  BY <3>3, <3>6, <3>7, <3>8, <3>9 DEF F!Overwrite
  <2>9. h.open /\ h.write /\ h.pos < Cap  BY <1>2, <1>3, <2>1
  <2> HIDE DEF c, h
  <2> QED  BY <1>0, <1>1, <2>2, <2>3, <2>6, <2>7, <2>8, <2>9 DEF F!Write, h
<1>4. CASE /\ \/ fd.used /\ fd.write /\ WriteAtFails(i, pos, b, <<>>)
              \/ (~fd.used \/ ~fd.write) /\ UNCHANGED <<data, dir, todo>>
           /\ ret' = Failed /\ UNCHANGED fds
  <2>1. /\ UNCHANGED <<data, dir>>
        /\ fd.used /\ fd.write => ~OnDisk(i, pos)
    BY <1>1, <1>4 DEF WriteAtFails, MayFail
  <2>2. StoreShape' /\ Files' = Files  BY <1>0, <2>1, QuietCall
  <2>3. Handles' = Handles  BY <1>1, <1>4, HandlesKept
  <2>4. F!Refuse  BY <1>0, <1>4, <2>2, <2>3 DEF F!Refuse, F!Failed, Failed
  <2>5. h.open /\ h.write => h.pos >= Cap
    <3>1. pos \in Nat /\ Cap \in Nat  BY <1>2, DiskAssumption
    <3>2. h.open /\ h.write => fd.used /\ fd.write /\ h.pos = pos /\ e \in Extents  BY <1>2
    <3>3. h.open /\ h.write => ~(pos < Cap)  BY <2>1, <3>2 DEF OnDisk
    <3> HIDE DEF h, pos
    <3> QED  BY <3>1, <3>2, <3>3
  <2> HIDE DEF h
  <2> QED  BY <1>1, <2>2, <2>4, <2>5 DEF F!Write, h
<1> QED  BY <1>3, <1>4 DEF Fwrite

\* exec_file reads the whole file.
LEMMA ExecFileStore ==
    ASSUME DiskWorks, StoreInv, NEW p \in Procs, NEW n \in Names, ExecFile(p, n)
    PROVE  StoreShape' /\ F!Run(p, n)
<1> USE DEF fsVars, diskVars, procVars
<1>0. Syscall(p) /\ UNCHANGED <<dir, next, data, live, fds>>  BY DEF Syscall, ExecFile
<1>1. /\ power = "on" /\ p \in live /\ TypeInv /\ HandlesAreNamed /\ Faults = {}
      /\ \A i \in Named(dir) : dir'[i].name = dir[i].name
  BY <1>0, CallFacts
<1>2. StoreShape' /\ Files' = Files  BY <1>0, QuietCall
<1>3. Handles' = Handles  BY <1>0, <1>1, HandlesKept
<1>4. CASE Matches(n) = {}
  <2>1. ret' = F!Failed /\ ~F!Exists(n)
    BY <1>1, <1>4, MatchesExist DEF ExecFile, F!Exists, Failed, F!Failed
  <2> QED  BY <1>0, <1>1, <1>2, <1>3, <2>1 DEF F!Run
<1>5. CASE Matches(n) # {}
  <2> DEFINE i == First(Matches(n))
  <2>1. /\ i \in Named(dir) /\ F!Exists(n) /\ Files[n] = BytesOf(dir, data, i)
    BY <1>1, <1>5, MatchesExist DEF F!Exists
  <2>2. dir[i].first \in Extents /\ i \in Entries  BY <1>1, <2>1, StoreFacts
  <2>3. PICK done \in 0 .. dir[i].len :
          /\ done < dir[i].len => "read" \in Faults \/ dir[i].first \notin Extents
          /\ ret' = Returned([k \in 1 .. done |-> data[dir[i].first][k - 1]])
    BY <1>5 DEF ExecFile
  <2>4. dir[i].len \in Nat
    BY <1>1, <2>2, DiskAssumption DEF TypeInv, FsTypeOK, Entry
  <2>5. done = dir[i].len  BY <1>1, <2>2, <2>3, <2>4
  <2>6. ret' = F!Returned(Files[n])
    BY <2>1, <2>3, <2>5 DEF Returned, F!Returned, BytesOf
  <2> QED  BY <1>0, <1>1, <1>2, <1>3, <2>1, <2>6 DEF F!Run
<1> QED  BY <1>2, <1>4, <1>5

\* fork copies the descriptors of the store too.
LEMMA ForkStore ==
    ASSUME DiskWorks, StoreInv, NEW p \in Procs, NEW q \in Procs, Fork(p, q)
    PROVE  StoreShape' /\ F!Fork(p, q)
<1> USE DEF fsVars, diskVars, procVars
<1>0. /\ Syscall(p) /\ UNCHANGED <<dir, next, data, ret>>
      /\ q \in Procs \ live /\ live' = live \cup {q} /\ fds' = [fds EXCEPT ![q] = fds[p]]
  BY DEF Syscall, Fork
<1>1. p \in live /\ TypeInv  BY <1>0, CallFacts
<1>2. StoreShape' /\ Files' = Files  BY <1>0, QuietCall
<1>3. \A r \in Procs : fds'[r] = IF r = q THEN fds[p] ELSE fds[r]
  BY <1>0, <1>1 DEF TypeInv, FsTypeOK
<1>4. Handles' = [Handles EXCEPT ![q] = Handles[p]]
  <2> DEFINE row(r) == [s \in Slots |-> HandleOf(fds[r][s], dir)]
  <2>1. Handles = [r \in Procs |-> row(r)]  BY HandlesAre
  <2>2. Handles' = [r \in Procs |-> [s \in Slots |-> HandleOf(fds'[r][s], dir)]]
    BY <1>0, HandlesAre
  <2>3. ASSUME NEW r \in Procs
        PROVE  [s \in Slots |-> HandleOf(fds'[r][s], dir)] = IF r = q THEN row(p) ELSE row(r)
    BY <1>3
  <2> HIDE DEF row
  <2>4. Handles' = [r \in Procs |-> IF r = q THEN row(p) ELSE row(r)]  BY <2>2, <2>3
  <2>5. [Handles EXCEPT ![q] = Handles[p]] = [r \in Procs |-> IF r = q THEN row(p) ELSE row(r)]
    BY <2>1
  <2> QED  BY <2>4, <2>5
<1> QED  BY <1>0, <1>1, <1>2, <1>4 DEF F!Fork

\* exit leaves the files and descriptors alone.
LEMMA ExitStore ==
    ASSUME DiskWorks, StoreInv, NEW p \in Procs, Exit(p)
    PROVE  StoreShape' /\ F!Exit(p)
<1> USE DEF fsVars, diskVars, procVars
<1>0. Syscall(p) /\ UNCHANGED <<dir, next, data, ret, fds>> /\ live' = live \ {p}
  BY DEF Syscall, Exit
<1>1. p \in live /\ HandlesAreNamed /\ \A i \in Named(dir) : dir'[i].name = dir[i].name
  BY <1>0, CallFacts
<1>2. StoreShape' /\ Files' = Files  BY <1>0, QuietCall
<1>3. Handles' = Handles  BY <1>0, <1>1, HandlesKept
<1> QED  BY <1>0, <1>1, <1>2, <1>3 DEF F!Exit

\* Every system call implements the store's.
LEMMA SyscallStore ==
    ASSUME DiskWorks, StoreInv, NEW p \in Procs, Syscall(p)
    PROVE  StoreShape' /\ F!StoreNext
<1>1. ASSUME NEW n \in Names, OpenRead(p, n) \/ OpenWrite(p, n) \/ ExecFile(p, n)
      PROVE  StoreShape' /\ (F!OpenRead(p, n) \/ F!OpenWrite(p, n) \/ F!Run(p, n))
  BY <1>1, OpenReadStore, OpenWriteStore, ExecFileStore
<1>2. ASSUME NEW s \in Slots, Close(p, s) \/ Fread(p, s)
      PROVE  StoreShape' /\ (F!Close(p, s) \/ F!Read(p, s))
  BY <1>2, CloseStore, FreadStore
<1>3. ASSUME NEW s \in Slots, NEW b \in Bytes, Fwrite(p, s, b)
      PROVE  StoreShape' /\ F!Write(p, s, b)
  BY <1>3, FwriteStore
<1>4. ASSUME NEW q \in Procs, Fork(p, q) PROVE StoreShape' /\ F!Fork(p, q)
  BY <1>4, ForkStore
<1>5. ASSUME Exit(p) PROVE StoreShape' /\ F!Exit(p)
  BY <1>5, ExitStore
<1>6. F!Slots = Slots  BY HandlesAre
<1> QED  BY <1>1, <1>2, <1>3, <1>4, <1>5, <1>6 DEF Syscall, F!StoreNext

\* A blank disk is the empty store.
LEMMA InitStoreInv ==
    ASSUME Init
    PROVE  StoreInv /\ F!StoreInit
<1> DEFINE zero == [i \in Entries |-> ZeroEnt]
<1>1. /\ power = "off" /\ ddir = zero /\ dir = zero /\ CurDir = ddir /\ live = {}
      /\ next = 0 /\ sb.next = 0 /\ todo = <<>> /\ fds = NoFds /\ ret = Failed
  BY DEF Init, CurDir
<1>2. Named(zero) = {}  BY ZeroNamed
<1> HIDE DEF zero
<1>3. Distinct(zero) /\ NamesOf(zero) = {}  BY <1>2 DEF Distinct, NamesOf
<1>4. StoreShape
  <2>1. \A k \in 1 .. Len(<<>>) : <<>>[k].op = "flush"  OBVIOUS
  <2>2. SeedsNew(todo, dir) /\ Appends(todo, dir) /\ BytesFirst(todo)
    BY <1>1, <2>1, OnlyFlushes
  <2> QED  BY <1>1, <1>2, <1>3, <2>2, FS_EmptySet DEF StoreShape
<1>5. StoreInv  BY <1>4, InitCountInv, InitExtentInv DEF StoreInv
<1>6. Files = [n \in {} |-> <<>>]
  <2>1. FilesOf(zero, data) = [n \in {} |-> <<>>]  BY <1>3 DEF FilesOf
  <2> QED  BY <1>1, <2>1, FilesAre
<1>7. Handles = F!NoHandles
  <2>1. \A p \in Procs, s \in Slots : HandleOf(fds[p][s], dir) = F!Closed
    BY <1>1, ZeroNamed, HandlesAre
  <2>2. Handles = [p \in Procs |-> [s \in Slots |-> F!Closed]]  BY <2>1, HandlesAre
  <2> QED  BY <2>2, HandlesAre DEF F!NoHandles
<1> QED  BY <1>1, <1>5, <1>6, <1>7 DEF F!StoreInit, Failed, F!Failed

\* The invariant is inductive, and every step is one of the store's or none.
LEMMA NextStore ==
    ASSUME DiskWorks, StoreInv, [Next]_vars
    PROVE  StoreInv' /\ [F!StoreNext]_(F!storeVars)
<1>1. CountInv' /\ ExtentInv'
  BY NextCountInv, NextExtentInv DEF StoreInv, DiskWorks
<1>2. CASE UNCHANGED vars
  <2>1. StoreShape'
    BY <1>2 DEF StoreInv, StoreShape, CurDir, vars, diskVars, fsVars, procVars
  <2>2. Files' = Files /\ Handles' = Handles /\ live' = live /\ ret' = ret
    BY <1>2, FilesAre, HandlesAre DEF CurDir, vars, diskVars, fsVars, procVars
  <2> QED  BY <1>1, <2>1, <2>2, Nothing DEF StoreInv
<1>3. CASE Next
  <2>1. StoreShape' /\ [F!StoreNext]_(F!storeVars)
    BY <1>3, FlushStore, SeedFileStore, SeedContentStore, BootStore, SyscallStore
    DEF Next, Disk
  <2> QED  BY <1>1, <2>1 DEF StoreInv
<1> QED  BY <1>2, <1>3

\* With a disk that works and no name that starts with NUL, for every size of
\* disk, directory and file: caching, sectors, extents, the order of the
\* flushes and the seeding are invisible, and processes see files that
\* survive every restart.
THEOREM FileStoreImplemented ==
    ASSUME NulNames = {}, AlsoFound = {}, Faults = {}
    PROVE  Spec => ImplementsFileStore
<1>1. Init => StoreInv /\ F!StoreInit  BY InitStoreInv
<1>2. StoreInv /\ [Next]_vars => StoreInv' /\ [F!StoreNext]_(F!storeVars)
  BY NextStore DEF DiskWorks
<1> QED  BY <1>1, <1>2, PTL DEF Spec, ImplementsFileStore, F!StoreSpec

-----------------------------------------------------------------------------
(* Restarts, whatever was cut before *)

\* Switching off between two operations, formatting, mounting and starting
\* the processes change no file: a restart shows the files as they were.
RestartsLoseNothing ==
    [][(PowerOff /\ present /\ todo = <<>>) \/ Format \/ Mount \/ Start
          => Files' = Files]_vars

\* The invariants of the disk, whether power is cut or not.
DiskInv == SyncInv /\ StayInv

LEMMA RestartStep ==
    ASSUME "mount" \notin Faults, DiskInv,
           (PowerOff /\ present /\ todo = <<>>) \/ Format \/ Mount \/ Start
    PROVE  Files' = Files
<1>1. TypeInv /\ Quiet /\ Durable  BY SyncIsDurable DEF DiskInv, SyncInv
<1>2. ASSUME CurDir' = CurDir, data' = data PROVE Files' = Files
  BY <1>2, FilesAre
<1>3. CASE PowerOff /\ present /\ todo = <<>>
  <2>1. power # "off" /\ power' = "off" /\ UNCHANGED <<ddir, data>> /\ ddir = dir
    BY <1>1, <1>3 DEF PowerOff, diskVars, Durable
  <2> QED  BY <1>2, <2>1 DEF CurDir
<1>4. CASE Format
  <2>1. /\ power = "off" /\ power' = "boot" /\ ~sb.magic /\ UNCHANGED <<ddir, data, dir>>
    BY <1>4 DEF Format, diskVars
  <2>2. Named(ddir) = {} /\ Named(dir) = {}
    BY <1>1, <2>1 DEF Quiet, DiskInv, StayInv
  <2>3. \A i \in Entries : dir[i].name = ddir[i].name  BY <2>2 DEF Named
  <2>4. FilesOf(dir, data) = FilesOf(ddir, data)
    <3>1. Distinct(ddir) /\ \A i \in Named(ddir) : BytesOf(dir, data, i) = BytesOf(ddir, data, i)
      BY <2>2 DEF Distinct
    <3> QED  BY <2>3, <3>1, FilesSame
  <2>5. CurDir = ddir /\ CurDir' = dir  BY <2>1 DEF CurDir
  <2> QED  BY <2>1, <2>4, <2>5, FilesAre
<1>5. CASE Mount
  <2>1. /\ power = "off" /\ power' = "boot" /\ UNCHANGED data
        /\ \E S : dir' = [i \in Entries |-> IF SectorOf(i) \in S THEN ZeroEnt ELSE ddir[i]]
    BY <1>5 DEF Mount, diskVars
  <2>2. \A i \in Entries : dir'[i] = ddir[i]  BY <1>5, MountReads
  <2>3. ddir \in [Entries -> Entry]  BY <1>1 DEF TypeInv, FsTypeOK
  <2>4. dir' = ddir  BY <2>1, <2>2, <2>3
  <2> QED  BY <1>2, <2>1, <2>4 DEF CurDir
<1>6. CASE Start
  <2>1. power = "boot" /\ power' = "on" /\ UNCHANGED <<dir, data>>
    BY <1>6 DEF Start, diskVars, fsVars
  <2> QED  BY <1>2, <2>1 DEF CurDir
<1> QED  BY <1>3, <1>4, <1>5, <1>6

\* Files survive every restart between operations, also when the power was
\* cut within operations before and reads failed.
THEOREM FilesSurviveRestarts ==
    ASSUME Faults \cap {"mount", "write"} = {}
    PROVE  Spec => RestartsLoseNothing
<1>0. "mount" \notin Faults  OBVIOUS
<1>1. Init => DiskInv  BY InitSyncInv, InitStayInv DEF DiskInv
<1>2. DiskInv /\ [Next]_vars => DiskInv'
  <2> SUFFICES ASSUME DiskInv, [Next]_vars PROVE DiskInv'
    OBVIOUS
  <2>1. SyncInv'  BY NextSyncInv DEF DiskInv
  <2>2. CASE Next  BY <1>0, <2>1, <2>2, NextStay DEF DiskInv
  <2>3. CASE UNCHANGED vars
    <3>1. TypeInv' /\ Quiet'  BY <2>1 DEF SyncInv
    <3> QED  BY <2>1, <2>3, <3>1 DEF vars, diskVars, fsVars, procVars, DiskInv, StayInv, Named
  <2> QED  BY <2>2, <2>3
<1>3. DiskInv =>
        ((PowerOff /\ present /\ todo = <<>>) \/ Format \/ Mount \/ Start => Files' = Files)
  BY <1>0, RestartStep
<1> QED  BY <1>1, <1>2, <1>3, PTL DEF Spec, RestartsLoseNothing

-----------------------------------------------------------------------------
(* Names, whatever fails *)

\* No two files have the same name, in the cache or on the disk: find() has
\* one entry to find, also after a cut.
NamesUnique == Distinct(dir) /\ Distinct(ddir)

\* What is still to be seeded is not there yet either.
NamesInv == StayInv /\ NamesUnique /\ SeedsNew(todo, dir)

LEMMA InitNamesInv ==
    ASSUME Init
    PROVE  NamesInv
<1>1. Named(dir) = {} /\ Named(ddir) = {} /\ todo = <<>>  BY ZeroNamed DEF Init
<1>2. Distinct(dir) /\ Distinct(ddir)  BY <1>1 DEF Distinct
<1>3. SeedsNew(todo, dir)
  <2>1. \A k \in 1 .. Len(<<>>) : <<>>[k].op = "flush"  OBVIOUS
  <2> QED  BY <1>1, <2>1, OnlyFlushes
<1> QED  BY <1>2, <1>3, InitStayInv DEF NamesInv, NamesUnique

\* The same names are as distinct.
LEMMA SameNames ==
    ASSUME NEW d, NEW d2, Distinct(d), \A i \in Entries : d2[i].name = d[i].name
    PROVE  Distinct(d2) /\ NamesOf(d2) = NamesOf(d)
<1>1. Named(d2) = Named(d)  BY DEF Named
<1>2. \A i \in Named(d) : d2[i].name = d[i].name  BY DEF Named
<1> QED  BY <1>1, <1>2 DEF Distinct, NamesOf

\* A name that is not there yet, or starts with NUL, can be created.
LEMMA CreateNames ==
    ASSUME TypeInv, Distinct(dir), NEW n \in Names, NEW rest, Unused # {}, Create(n, rest),
           n \in NulNames \/ n \notin NamesOf(dir)
    PROVE  Distinct(dir') /\ NamesOf(dir') \subseteq NamesOf(dir) \cup {n}
<1> DEFINE i == First(Unused)
<1>1. i \in Entries /\ i \notin Named(dir)  BY SearchFacts
<1>2. /\ \A j \in Entries : j # i => dir'[j] = dir[j]
      /\ dir'[i].name = IF n \in NulNames THEN NoName ELSE n
  BY <1>1, CreateKeepsNamed
<1> HIDE DEF i
<1>3. CASE n \in NulNames
  <2>1. \A j \in Entries : dir'[j].name = dir[j].name
    BY <1>1, <1>2, <1>3 DEF Named
  <2>2. Distinct(dir') /\ NamesOf(dir') = NamesOf(dir)  BY <2>1, SameNames
  <2> QED  BY <2>2
<1>4. CASE n \notin NulNames
  <2>1. dir'[i].name = n /\ n \notin NamesOf(dir) /\ n # NoName
    BY <1>2, <1>4, DiskAssumption
  <2>2. Distinct(dir') /\ NamesOf(dir') = NamesOf(dir) \cup {n}
    BY <1>1, <1>2, <2>1, NewName
  <2> QED  BY <2>2
<1> QED  BY <1>3, <1>4

\* The names of the cached directory, step by step.
LEMMA NextNames ==
    ASSUME "mount" \notin Faults, NamesInv, Next
    PROVE  Distinct(dir') /\ (power' # "on" => SeedsNew(todo', dir'))
<1> USE DEF fsVars, diskVars, procVars
<1> DEFINE t == todo
<1>1. /\ TypeInv /\ Quiet /\ Distinct(dir) /\ Distinct(ddir) /\ SeedsNew(t, dir)
      /\ t \in Seq(Step)
  BY DEF NamesInv, NamesUnique, StayInv, TypeInv
<1>2. \A d : SeedsNew(<<>>, d)
  <2>1. \A k \in 1 .. Len(<<>>) : <<>>[k].op = "flush"  OBVIOUS
  <2> QED  BY <2>1, OnlyFlushes
<1>3. ASSUME t # <<>>, NEW s \in Seq(Step), \A k \in 1 .. Len(s) : s[k].op # "seed",
             \A k \in 2 .. Len(t) : t[k].op = "seed" => t[k].name \notin NamesOf(dir')
      PROVE  SeedsNew(s \o Tail(t), dir')
  <2>1. Follows(s \o Tail(t), t, Len(s), "seed")  BY <1>1, <1>3, FollowsConcat
  <2> QED  BY <1>1, <1>3, <2>1, SeedsNewFollows
<1>4. ASSUME t # <<>>, todo' = Tail(t),
             \A k \in 2 .. Len(t) : t[k].op = "seed" => t[k].name \notin NamesOf(dir')
      PROVE  SeedsNew(todo', dir')
  <2>1. Follows(Tail(t), t, 0, "seed")  BY <1>1, <1>4, TailFollows
  <2> QED  BY <1>1, <1>4, <2>1, SeedsNewFollows
<1>5. ASSUME t # <<>>, NEW k \in 2 .. Len(t), t[k].op = "seed"
      PROVE  /\ t[k].name \notin NamesOf(dir)
             /\ Head(t).op = "seed" => t[k].name # Head(t).name
  <2>1. Len(t) \in Nat \ {0} /\ Head(t) = t[1]  BY <1>1, <1>5, HeadTailProperties, EmptySeq
  <2>2. k \in 1 .. Len(t) /\ 1 \in 1 .. Len(t) /\ k # 1  BY <2>1
  <2> QED  BY <1>1, <1>5, <2>1, <2>2 DEF SeedsNew
<1>6. CASE FlushSector
  <2>1. t # <<>> /\ todo' = Tail(t) /\ UNCHANGED dir  BY <1>6 DEF FlushSector, Busy
  <2> QED  BY <1>1, <1>4, <1>5, <2>1
<1>7. CASE SeedFile
  <2> DEFINE n == Head(t).name
  <2>1. t # <<>> /\ Head(t).op = "seed"  BY <1>7 DEF SeedFile, Busy
  <2>2. n \in Names /\ n \notin NamesOf(dir)
    <3>1. Len(t) \in Nat \ {0} /\ Head(t) = t[1] /\ 1 \in 1 .. Len(t)
      BY <1>1, <2>1, HeadTailProperties, EmptySeq
    <3> QED  BY <1>1, <2>1, <3>1, HeadFacts DEF SeedsNew
  <2>3. CASE Unused = {}
    <3>1. todo' = Tail(t) /\ UNCHANGED dir  BY <1>7, <2>3 DEF SeedFile
    <3> QED  BY <1>1, <1>4, <1>5, <2>1, <3>1
  <2>4. CASE Unused # {}
    <3> DEFINE i == First(Unused)
               s == Added(i)
               rest == BytesFor(i) \o Tail(t)
    <3>1. Create(n, rest)  BY <1>7, <2>4 DEF SeedFile, BytesFor
    <3>2. i \in Entries  BY <2>4, SearchFacts
    <3>3. Distinct(dir') /\ NamesOf(dir') \subseteq NamesOf(dir) \cup {n}
      <4> HIDE DEF rest, n
      <4> QED  BY <1>1, <2>2, <2>4, <3>1, CreateNames
    <3>4. todo' = FlushEnt(i) \o FlushSb \o rest  BY <3>1 DEF Create
    <3>5. /\ s \in Seq(Step) /\ todo' = s \o Tail(t)
          /\ \A k \in 1 .. Len(s) : s[k].op # "seed"
      <4> HIDE DEF i
      <4>1. Tail(t) \in Seq(Step)  BY <1>1, <2>1
      <4>2. FlushEnt(i) \o FlushSb \o rest = s \o Tail(t)  BY <3>2, <4>1, AddedFirst
      <4> QED  BY <3>2, <3>4, <4>1, <4>2, SeedAdds
    <3> HIDE DEF s, rest, i
    <3>6. \A k \in 2 .. Len(t) : t[k].op = "seed" => t[k].name \notin NamesOf(dir')
      BY <1>5, <2>1, <3>3
    <3>7. SeedsNew(s \o Tail(t), dir')  BY <1>3, <2>1, <3>5, <3>6
    <3> QED  BY <3>3, <3>5, <3>7
  <2> QED  BY <2>3, <2>4
<1>8. CASE SeedContent
  <2> DEFINE i == Head(t).ent
  <2>1. /\ t # <<>> /\ i \in Entries /\ Head(t).b \in Bytes /\ Head(t).pos \in 0 .. Cap
    BY <1>1, <1>8, HeadFacts, DiskAssumption DEF Positions, SeedContent, Busy
  <2>2. CASE WriteAt(i, Head(t).pos, Head(t).b, Tail(t))
    <3>1. \A j \in Entries : dir'[j].name = dir[j].name
      BY <1>1, <2>1, <2>2, WriteAtEffect
    <3>2. Distinct(dir') /\ NamesOf(dir') = NamesOf(dir)  BY <1>1, <3>1, SameNames
    <3>3. CASE todo' = FlushEnt(i) \o Tail(t)
      <4>1. FlushEnt(i) \in Seq(Step)  BY <2>1, StepFacts
      <4>2. \A k \in 1 .. Len(FlushEnt(i)) : FlushEnt(i)[k].op # "seed"
        BY <2>1, AddedFlushes, FlushOps
      <4> HIDE DEF i
      <4>3. SeedsNew(FlushEnt(i) \o Tail(t), dir')
        BY <1>3, <1>5, <2>1, <3>2, <4>1, <4>2
      <4> QED  BY <3>2, <3>3, <4>3
    <3>4. CASE todo' = Tail(t)  BY <1>4, <1>5, <2>1, <3>2, <3>4
    <3> QED  BY <2>2, <3>3, <3>4 DEF WriteAt
  <2>3. CASE WriteAtFails(i, Head(t).pos, Head(t).b, Tail(t))
    <3>1. todo' = Tail(t) /\ UNCHANGED dir  BY <2>3 DEF WriteAtFails
    <3> QED  BY <1>1, <1>4, <1>5, <2>1, <3>1
  <2> QED  BY <1>8, <2>2, <2>3 DEF SeedContent
<1>9. CASE NoDisk \/ Start
  <2>1. UNCHANGED <<dir, todo>>  BY <1>9 DEF NoDisk, Start
  <2> QED  BY <1>1, <2>1
<1>10. CASE Format
  <2>1. Named(dir') = {}  BY <1>1, <1>10 DEF Format, Quiet, Named
  <2>2. SeedsNew(todo', dir')  BY <1>10, <2>1, FormatSeeds
  <2> QED  BY <2>1, <2>2 DEF Distinct
<1>11. CASE Mount
  <2>1. todo' = <<>> /\ todo = <<>>  BY <1>1, <1>11 DEF Mount, Quiet
  <2>2. \A i \in Entries : dir'[i] = ddir[i]  BY <1>11, MountReads
  <2> QED  BY <1>1, <1>2, <2>1, <2>2, SameNames
<1>12. CASE PowerOff
  <2>1. Named(dir') = {} /\ todo' = <<>>  BY <1>12, ZeroNamed DEF PowerOff
  <2> QED  BY <1>2, <2>1 DEF Distinct
<1>13. ASSUME NEW p \in Procs, Syscall(p)
       PROVE  Distinct(dir') /\ power' = "on"
  <2>1. power' = "on"
    BY <1>13
    DEF Syscall, OpenRead, OpenWrite, ExecFile, Close, Fread, Fwrite, Fork, Exit, Calls
  <2>2. CASE UNCHANGED dir  BY <1>1, <2>1, <2>2
  <2>3. ASSUME NEW n \in Names, OpenWrite(p, n) PROVE Distinct(dir')
    <3>1. CASE Matches(n) # {}
      <4> DEFINE i == First(Matches(n))
      <4>1. i \in Entries /\ 0 \in 0 .. Cap
        BY <3>1, SearchFacts, DiskAssumption DEF Named
      <4>2. dir' = [dir EXCEPT ![i].len = 0]  BY <2>3, <3>1 DEF OpenWrite, Truncate
      <4> HIDE DEF i
      <4>3. \A j \in Entries : dir'[j].name = dir[j].name  BY <1>1, <4>1, <4>2, LenType
      <4> QED  BY <1>1, <4>3, SameNames
    <3>2. CASE Matches(n) = {} /\ Unused # {} /\ Create(n, <<>>)
      <4>1. n \in NulNames \/ n \notin NamesOf(dir)  BY <3>2 DEF Matches, NamesOf, Named
      <4> QED  BY <1>1, <3>2, <4>1, CreateNames
    <3> QED  BY <2>2, <2>3, <3>1, <3>2 DEF OpenWrite
  <2>4. ASSUME NEW s \in Slots, NEW b \in Bytes, Fwrite(p, s, b) PROVE Distinct(dir')
    <3> DEFINE fd == fds[p][s]
    <3>1. fd.dir \in Entries /\ fd.pos \in 0 .. Cap  BY <1>1 DEF TypeInv, FsTypeOK
    <3>2. CASE WriteAt(fd.dir, fd.pos, b, <<>>)
      <4> HIDE DEF fd
      <4>1. \A j \in Entries : dir'[j].name = dir[j].name
        BY <1>1, <3>1, <3>2, WriteAtEffect
      <4> QED  BY <1>1, <4>1, SameNames
    <3> QED  BY <2>2, <2>4, <3>2 DEF Fwrite, WriteAtFails
  <2>5. Distinct(dir')
    BY <1>13, <2>2, <2>3, <2>4 DEF Syscall, OpenRead, ExecFile, Close, Fread, Fork, Exit
  <2> QED  BY <2>1, <2>5
<1> QED
  BY <1>6, <1>7, <1>8, <1>9, <1>10, <1>11, <1>12, <1>13 DEF Next, Disk, Boot

LEMMA NextNamesInv ==
    ASSUME "mount" \notin Faults, NamesInv, Next
    PROVE  NamesInv'
<1> USE DEF fsVars, diskVars, procVars
<1>1. StayInv'  BY NextStay DEF NamesInv
<1>2. Distinct(dir')  BY NextNames
<1>3. SeedsNew(todo', dir')
  <2>1. CASE power' # "on"  BY <2>1, NextNames
  <2>2. CASE power' = "on"
    <3>1. \A k \in 1 .. Len(todo') : todo'[k].op = "flush"
      BY <1>1, <2>2 DEF StayInv, Quiet
    <3> QED  BY <3>1, OnlyFlushes
  <2> QED  BY <2>1, <2>2
<1>4. Distinct(ddir')
  <2>1. CASE present'
    <3>1. \A i \in Named(ddir') : i \in Named(dir') /\ dir'[i].name = ddir'[i].name
      BY <1>1, <2>1 DEF StayInv
    <3> QED  BY <1>2, <3>1 DEF Distinct
  <2>2. CASE ~present'
    <3>1. UNCHANGED ddir
      <4>1. CASE Disk
        <5>1. todo # <<>> /\ UNCHANGED present
          BY <4>1 DEF Disk, FlushSector, SeedFile, SeedContent, Busy
        <5> QED  BY <2>2, <5>1 DEF NamesInv, StayInv, Quiet
      <4>2. CASE Boot
        BY <4>2 DEF Boot, NoDisk, Format, Mount, Start, PowerOff
      <4>3. ASSUME NEW p \in Procs, Syscall(p) PROVE UNCHANGED ddir
        BY <4>3
        DEF Syscall, OpenRead, OpenWrite, ExecFile, Close, Fread, Fwrite, Fork, Exit
      <4> QED  BY <4>1, <4>2, <4>3 DEF Next
    <3> QED  BY <3>1 DEF NamesInv, NamesUnique
  <2> QED  BY <2>1, <2>2
<1> QED  BY <1>1, <1>2, <1>3, <1>4 DEF NamesInv, NamesUnique

\* Names stay unique through power cuts and read and write errors, also when
\* names may start with NUL, as long as the disk works during init.
THEOREM NamesStayUnique ==
    ASSUME "mount" \notin Faults
    PROVE  Spec => []NamesUnique
<1>1. Init => NamesInv  BY InitNamesInv
<1>2. NamesInv /\ [Next]_vars => NamesInv'
  <2> SUFFICES ASSUME NamesInv, [Next]_vars PROVE NamesInv'
    OBVIOUS
  <2>1. CASE Next  BY <2>1, NextNamesInv
  <2>2. CASE UNCHANGED vars
    <3>1. TypeInv' /\ Quiet'  BY <2>2, NextTypeInv, NextQuiet DEF NamesInv, StayInv
    <3>2. StayInv'
      BY <2>2, <3>1 DEF vars, diskVars, fsVars, procVars, NamesInv, StayInv, Named
    <3> QED
      BY <2>2, <3>2 DEF vars, diskVars, fsVars, procVars, NamesInv, NamesUnique
  <2> QED  BY <2>1, <2>2
<1>3. NamesInv => NamesUnique  BY DEF NamesInv
<1> QED  BY <1>1, <1>2, <1>3, PTL DEF Spec
=============================================================================
