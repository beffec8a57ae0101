--------------------------- MODULE MikBootProofs ---------------------------
(***************************************************************************)
(* The properties of MikBoot, for every kernel, program and memory that    *)
(* its assumptions allow.  The pages come first (PageInv: what boot has    *)
(* handed out and what the tables say), then the kernel's code and image   *)
(* (LinkInv, within BuildInv), and last the user programs and their labels *)
(* (AsmInv).                                                               *)
(***************************************************************************)
EXTENDS MikBoot, TLAPS, FiniteSetTheorems, SequenceTheorems, WellFoundedInduction
-----------------------------------------------------------------------------
(* Pages, and the tables built from them *)

\* Division with remainder.
LEMMA DivMod ==
    ASSUME NEW a \in Nat, NEW n \in Nat \ {0}
    PROVE  /\ a \div n \in Nat /\ a % n \in 0 .. n - 1
           /\ a = n * (a \div n) + (a % n)
<1>1. a \div n \in Nat  OBVIOUS
<1>2. a % n \in 0 .. n - 1  OBVIOUS
<1>3. a = n * (a \div n) + (a % n)  OBVIOUS
<1> QED  BY <1>1, <1>2, <1>3

\* There is only one way to divide, also what is below zero.
LEMMA DivUnique ==
    ASSUME NEW n \in Nat \ {0}, NEW q \in Int, NEW r \in 0 .. n - 1
    PROVE  (n * q + r) \div n = q /\ (n * q + r) % n = r
<1> DEFINE a == n * q + r
           k == a \div n
           s == a % n
<1>1. a \in Int  OBVIOUS
<1>2. k \in Int /\ s \in 0 .. n - 1 /\ a = n * k + s  BY <1>1
<1>3. n * k + s = n * q + r  BY <1>2
<1> HIDE DEF a, k, s
<1>4. n * (k - q) = r - s  BY <1>2, <1>3
<1>5. r - s > -n /\ r - s < n  BY <1>2
<1>6. ASSUME k > q PROVE FALSE
  <2>1. n * (k - q) >= n  BY <1>2, <1>6
  <2> QED  BY <1>2, <1>4, <1>5, <2>1
<1>7. ASSUME k < q PROVE FALSE
  <2>1. n * (k - q) <= -n  BY <1>2, <1>7
  <2> QED  BY <1>2, <1>4, <1>5, <2>1
<1>8. k \in Int /\ q \in Int  BY <1>2
<1>9. k = q  BY <1>6, <1>7, <1>8
<1>10. s = r  BY <1>2, <1>3, <1>9
<1> QED  BY <1>9, <1>10 DEF a, k, s

\* What a table entry says: the page it maps and its flags.
LEMMA EntryFacts ==
    ASSUME NEW p \in Nat, NEW f \in {P + W, P + U, P + W + U}
    PROVE  /\ Entry(p, f) \in Nat /\ PageOf(Entry(p, f)) = p
           /\ Has(Entry(p, f), P)
           /\ Has(Entry(p, f), W) <=> f # P + U
           /\ Has(Entry(p, f), U) <=> f # P + W
BY DEF Entry, PageOf, Has, P, W, U

\* A page below USER_VA lies in one of the first four tables.
LEMMA SplitPage ==
    ASSUME NEW v \in 0 .. UserPage - 1
    PROVE  /\ v \div Ptes \in 0 .. 3 /\ v % Ptes \in 0 .. Ptes - 1
           /\ (v \div Ptes) * Ptes + (v % Ptes) = v
<1>1. Ptes \in Nat \ {0} /\ v \in Nat /\ v < 4 * Ptes  BY BootAssumption DEF UserPage
<1> DEFINE q == v \div Ptes
           r == v % Ptes
<1>2. q \in Nat /\ r \in 0 .. Ptes - 1 /\ v = Ptes * q + r  BY <1>1, DivMod
<1> HIDE DEF q, r
<1>3. ASSUME q >= 4 PROVE FALSE
  <2>1. Ptes * q >= Ptes * 4  BY <1>1, <1>2, <1>3
  <2> QED  BY <1>1, <1>2, <2>1
<1>4. q \in 0 .. 3  BY <1>2, <1>3
<1>5. q * Ptes + r = v  BY <1>1, <1>2
<1> QED  BY <1>2, <1>4, <1>5 DEF q, r

\* USER_VA is the first page of the fifth table.
LEMMA SplitUserPage == UserPage \div Ptes = 4 /\ UserPage % Ptes = 0
<1>1. Ptes \in Nat \ {0} /\ UserPage = Ptes * 4 + 0  BY BootAssumption DEF UserPage
<1>2. (Ptes * 4 + 0) \div Ptes = 4 /\ (Ptes * 4 + 0) % Ptes = 0  BY <1>1, DivUnique
<1> QED  BY <1>1, <1>2

\* The pages behind the metadata page, up to the n-th, are handed out.
Bumped(n) ==
  /\ next_page = MetaPage + 1 + n /\ free_head = 0
  /\ \A p \in Pages : handed[p] = IF p \in MetaPage + 1 .. MetaPage + n THEN 1 ELSE 0

\* The eight pages of build_common, of which the demo page is free again.
Freed ==
  /\ next_page = MetaPage + 9
  /\ free_head = MetaPage + 1 /\ mem[MetaPage + 1][0] = 0
  /\ \A p \in Pages : handed[p] = IF p \in MetaPage + 2 .. MetaPage + 8 THEN 1 ELSE 0

\* A page table whose first four page directory entries are the kernel's.
KernelRoot(root) ==
  /\ mem[root][0] = Entry(root + 1, P + W)
  /\ mem[root + 1][0] = Entry(root + 2, P + W)
  /\ \A i \in 0 .. 3 : mem[root + 2][i] = Entry(MetaPage + 5 + i, P + W)

\* PT0 to PT3 map every page below USER_VA to itself.
KernelTables ==
  \A k \in 0 .. 3, i \in 0 .. Ptes - 1 :
      mem[MetaPage + 5 + k][i] = Entry(k * Ptes + i, P + W)

\* The page a root has at USER_VA is the last one handed out for the program.
UserMapped(root) ==
  LET pt4 == MetaPage + 7 + Wanted
  IN  /\ Len(tbl) = Wanted
      /\ mem[root + 2][4] = Entry(pt4, P + W)
      /\ \E f \in {P + U, P + W + U} : mem[pt4][0] = Entry(pt4 + 1, f)

Paging == {"after_paging", "after_free", "done", "user", "os_init_copy"}

\* The first process has its tables, the kernel runs on its own still.
InitCopy ==
  /\ variant = "os" /\ Bumped(13) /\ ptbr = x4
  /\ KernelRoot(MetaPage + 9) /\ UserMapped(MetaPage + 9)

\* Every page of a program is the next one.
TblInv ==
  /\ tbl \in Seq(Nat) /\ Len(tbl) <= Wanted
  /\ variant \in {"binary", "freelist"} => tbl = <<>>
  /\ \A k \in 1 .. Len(tbl) : tbl[k] = MetaPage + 8 + k

PageInv ==
  /\ mem \in [Pages -> [0 .. Ptes - 1 -> Nat]]
  /\ handed \in [Pages -> Nat] /\ DOMAIN data = Pages
  /\ TblInv
  /\ step \in {"off", "after_alloc", "after_pgtbl", "fill"} \cup Paging
  /\ step \notin Paging => ptbr = 0 /\ tbl = <<>>
  /\ step = "off" => next_page = 0 /\ free_head = 0 /\ \A p \in Pages : handed[p] = 0
  /\ step = "after_alloc" => Bumped(1) /\ x2 = MetaPage + 1
  /\ step = "after_pgtbl" => Bumped(2) /\ x2 = MetaPage + 2 /\ x14 = MetaPage + 1
  /\ step \in {"fill"} \cup Paging => x4 = MetaPage + 2 /\ x14 = MetaPage + 1
  /\ step = "fill" => Bumped(8)
  /\ step = "after_paging" => Bumped(8 + Len(tbl)) /\ ptbr = x4
  /\ step = "after_free" => Freed /\ ptbr = x4
  /\ step = "done" => Freed \/ \E n \in 8 .. 14 : Bumped(n)
  /\ step = "os_init_copy" => InitCopy
  /\ step = "user" => (\E n \in 8 .. 14 : Bumped(n)) /\ UserMapped(ptbr)
  /\ step \in Paging => /\ KernelRoot(x4) /\ KernelTables
                        /\ ptbr \in {x4, MetaPage + 9} /\ KernelRoot(ptbr)

\* What the bounds say of the pages used.
LEMMA PageFacts ==
  /\ MetaPage \in Nat /\ Ptes \in Nat /\ Ptes > 4 /\ UserPage \in Nat
  /\ \A n \in 0 .. 14 : MetaPage + n \in Pages
  /\ \A p \in Pages : p \in Nat /\ p >= MetaPage
  /\ Wanted \in {2, 5} /\ Wanted' \in {2, 5}
<1>1. MetaPage \in Nat /\ Ptes \in Nat /\ Ptes > 4 /\ MetaPage + 14 < UserPage
  BY BootAssumption
<1>2. UserPage \in Nat  BY <1>1 DEF UserPage
<1>3. \A n \in 0 .. 14 : MetaPage + n \in Pages  BY <1>1, <1>2 DEF Pages
<1>4. \A p \in Pages : p \in Nat /\ p >= MetaPage  BY <1>1, <1>2 DEF Pages
<1> QED  BY <1>1, <1>2, <1>3, <1>4 DEF Wanted

\* The next page is handed out.
LEMMA PageBumps ==
  ASSUME NEW n \in 0 .. 13, handed \in [Pages -> Nat],
         \A p \in Pages : handed[p] = IF p \in MetaPage + 1 .. MetaPage + n THEN 1 ELSE 0,
         x2' = MetaPage + 1 + n, next_page' = x2' + 1, free_head' = 0, mem' = mem,
         handed' = [handed EXCEPT ![x2'] = @ + 1]
  PROVE  /\ Bumped(n + 1)' /\ x2' = MetaPage + 1 + n /\ mem' = mem
         /\ handed' \in [Pages -> Nat]
<1> DEFINE page == MetaPage + (n + 1)
<1>1. /\ MetaPage \in Nat /\ page \in Pages /\ MetaPage + 1 + n = page
      /\ \A p \in Pages : p \in Nat
  BY PageFacts
<1>2. /\ x2' = page /\ next_page' = page + 1
      /\ handed' = [p \in Pages |-> IF p = page THEN handed[p] + 1 ELSE handed[p]]
  BY <1>1
<1>3. handed[page] = 0 /\ handed' \in [Pages -> Nat]
  <2>1. page \notin MetaPage + 1 .. MetaPage + n  BY <1>1
  <2>2. handed[page] = 0  BY <1>1, <2>1
  <2> QED  BY <1>1, <1>2, <2>2
<1>4. \A p \in Pages : handed'[p] = IF p \in MetaPage + 1 .. MetaPage + (n + 1) THEN 1 ELSE 0
  <2> SUFFICES ASSUME NEW p \in Pages
               PROVE  handed'[p] = IF p \in MetaPage + 1 .. MetaPage + (n + 1) THEN 1 ELSE 0
    OBVIOUS
  <2>1. p \in MetaPage + 1 .. MetaPage + (n + 1) <=> p \in MetaPage + 1 .. MetaPage + n \/ p = page
    BY <1>1
  <2>2. CASE p = page  BY <1>1, <1>2, <1>3, <2>1, <2>2
  <2>3. CASE p # page  BY <1>1, <1>2, <2>1, <2>3
  <2> QED  BY <2>2, <2>3
<1>5. next_page' = MetaPage + 1 + (n + 1)  BY <1>1, <1>2
<1> QED  BY <1>3, <1>4, <1>5 DEF Bumped

\* With nothing on the free list, alloc_page hands out the next page.
LEMMA AllocBumps ==
  ASSUME NEW n \in 0 .. 13, handed \in [Pages -> Nat], free_head = 0,
         \A p \in Pages : handed[p] = IF p \in MetaPage + 1 .. MetaPage + n THEN 1 ELSE 0,
         AllocPage(MetaPage + 1 + n)
  PROVE  /\ Bumped(n + 1)' /\ x2' = MetaPage + 1 + n /\ mem' = mem
         /\ handed' \in [Pages -> Nat]
<1> DEFINE page == MetaPage + 1 + n
<1> HIDE DEF page
<1>1. /\ x2' = page /\ next_page' = page + 1 /\ free_head' = 0 /\ mem' = mem
      /\ handed' = [handed EXCEPT ![x2'] = @ + 1]
  BY DEF AllocPage, page
<1> QED  BY <1>1, PageBumps DEF page

\* Steps that leave the pages alone.
LEMMA PagesKept ==
  ASSUME PageInv, UNCHANGED <<variant, step, pageVars>>
  PROVE  PageInv'
<1>1. /\ UNCHANGED <<next_page, free_head, mem, data, x2, x4, x14, tbl, ptbr, handed, step>>
      /\ Wanted' = Wanted
  BY DEF pageVars, Wanted
<1>2. TblInv => TblInv'  BY <1>1 DEF TblInv
<1>3. /\ \A n : Bumped(n) => Bumped(n)'
      /\ Freed => Freed'
  BY <1>1 DEF Bumped, Freed
<1>4. /\ KernelTables => KernelTables'
      /\ UserMapped(ptbr) => UserMapped(ptbr)'
      /\ InitCopy => InitCopy'
  BY <1>1 DEF KernelTables, UserMapped, InitCopy, KernelRoot, Bumped
<1>5. (KernelRoot(x4) => KernelRoot(x4)') /\ (KernelRoot(ptbr) => KernelRoot(ptbr)')
  BY <1>1 DEF KernelRoot
<1>6. \A n : Bumped(n + Len(tbl)) => Bumped(n + Len(tbl))'  BY <1>1 DEF Bumped
<1>8. /\ (mem \in [Pages -> [0 .. Ptes - 1 -> Nat]])'
      /\ (handed \in [Pages -> Nat])' /\ (DOMAIN data = Pages)' /\ TblInv'
      /\ step' \in {"off", "after_alloc", "after_pgtbl", "fill"} \cup Paging
      /\ step' \notin Paging => ptbr' = 0 /\ tbl' = <<>>
      /\ step' = "off" => next_page' = 0 /\ free_head' = 0 /\ \A p \in Pages : handed'[p] = 0
      /\ step' \in {"fill"} \cup Paging => x4' = MetaPage + 2 /\ x14' = MetaPage + 1
  BY <1>1, <1>2 DEF PageInv
<1>9. /\ step' = "after_alloc" => Bumped(1)' /\ x2' = MetaPage + 1
      /\ step' = "after_pgtbl" => Bumped(2)' /\ x2' = MetaPage + 2 /\ x14' = MetaPage + 1
      /\ step' = "fill" => Bumped(8)'
      /\ step' = "after_free" => Freed' /\ ptbr' = x4'
  BY <1>1, <1>3 DEF PageInv
<1>10. step' = "after_paging" => Bumped(8 + Len(tbl))' /\ ptbr' = x4'
  BY <1>1, <1>6 DEF PageInv
<1>11. step' = "done" => Freed' \/ \E n \in 8 .. 14 : Bumped(n)'
  BY <1>1, <1>3 DEF PageInv
<1>12. /\ step' = "os_init_copy" => InitCopy'
       /\ step' = "user" => (\E n \in 8 .. 14 : Bumped(n)') /\ UserMapped(ptbr)'
  BY <1>1, <1>3, <1>4 DEF PageInv
<1>13. step' \in Paging => /\ KernelRoot(x4)' /\ KernelTables'
                           /\ ptbr' \in {x4', MetaPage + 9} /\ KernelRoot(ptbr)'
  BY <1>1, <1>4, <1>5 DEF PageInv
<1> QED  BY <1>8, <1>9, <1>10, <1>11, <1>12, <1>13 DEF PageInv

\* The demo page.
LEMMA PowerOnPages ==
  ASSUME PageInv, PowerOn
  PROVE  PageInv'
<1>1. /\ step = "off" /\ step' = "after_alloc" /\ AllocPage(MetaPage + 1 + 0) /\ free_head = 0
      /\ UNCHANGED <<data, x4, x14, tbl, ptbr, variant>>
      /\ \A p \in Pages : handed[p] = 0
  BY PageFacts DEF PowerOn, At, Goto, PageInv
<1>2. \A p \in Pages : handed[p] = IF p \in MetaPage + 1 .. MetaPage + 0 THEN 1 ELSE 0
  <2>1. MetaPage + 1 .. MetaPage + 0 = {}  BY PageFacts
  <2> QED  BY <1>1, <2>1
<1>3. /\ Bumped(0 + 1)' /\ x2' = MetaPage + 1 + 0 /\ mem' = mem
      /\ handed' \in [Pages -> Nat]
  <2>1. handed \in [Pages -> Nat]  BY DEF PageInv
  <2>2. 0 \in 0 .. 13  OBVIOUS
  <2> QED  BY <1>1, <1>2, <2>1, <2>2, AllocBumps
<1>4. Bumped(1)' /\ x2' = MetaPage + 1  BY <1>3, PageFacts
<1>5. Wanted' = Wanted  BY <1>1 DEF Wanted
<1> QED  BY <1>1, <1>3, <1>4, <1>5 DEF PageInv, TblInv, Paging

\* The page of the PML4.
LEMMA AfterAllocPages ==
  ASSUME PageInv, AfterAlloc
  PROVE  PageInv'
<1>1. /\ step = "after_alloc" /\ step' = "after_pgtbl" /\ AllocPage(MetaPage + 1 + 1)
      /\ free_head = 0 /\ Bumped(1) /\ x14' = MetaPage + 1
      /\ data' = [data EXCEPT ![x2] = <<"!">>] /\ UNCHANGED <<tbl, ptbr, variant>>
  BY PageFacts DEF AfterAlloc, At, Goto, PageInv, Bumped
<1>2. /\ Bumped(1 + 1)' /\ x2' = MetaPage + 1 + 1 /\ mem' = mem
      /\ handed' \in [Pages -> Nat]
  <2>1. /\ handed \in [Pages -> Nat] /\ 1 \in 0 .. 13
        /\ \A p \in Pages : handed[p] = IF p \in MetaPage + 1 .. MetaPage + 1 THEN 1 ELSE 0
    BY <1>1 DEF PageInv, Bumped
  <2> QED  BY <1>1, <2>1, AllocBumps
<1>3. Bumped(2)' /\ x2' = MetaPage + 2  BY <1>2, PageFacts
<1>4. Wanted' = Wanted /\ DOMAIN data' = Pages  BY <1>1 DEF Wanted, PageInv
<1> QED  BY <1>1, <1>2, <1>3, <1>4 DEF PageInv, TblInv, Paging

\* Six more pages behind the PML4.
LEMMA AfterPgtblPages ==
  ASSUME PageInv, AfterPgtbl
  PROVE  PageInv'
<1>1. /\ step = "after_pgtbl" /\ step' = "fill" /\ x4' = MetaPage + 2 /\ x14' = MetaPage + 1
      /\ Bumped(2) /\ x2 = MetaPage + 2 /\ next_page' = next_page + 6
      /\ handed' = [p \in Pages |-> IF p \in x2 + 1 .. x2 + 6 THEN handed[p] + 1 ELSE handed[p]]
      /\ UNCHANGED <<free_head, mem, data, tbl, ptbr, variant>>
  BY DEF AfterPgtbl, At, Goto, PageInv
<1>2. ASSUME NEW p \in Pages
      PROVE  handed'[p] = IF p \in MetaPage + 1 .. MetaPage + 8 THEN 1 ELSE 0
  <2>1. p \in Nat /\ MetaPage \in Nat  BY PageFacts
  <2>2. p \in MetaPage + 1 .. MetaPage + 8 <=>
          p \in MetaPage + 1 .. MetaPage + 2 \/ p \in (MetaPage + 2) + 1 .. (MetaPage + 2) + 6
    BY <2>1
  <2>3. ~(p \in MetaPage + 1 .. MetaPage + 2 /\ p \in (MetaPage + 2) + 1 .. (MetaPage + 2) + 6)
    BY <2>1
  <2> QED  BY <1>1, <2>2, <2>3 DEF Bumped
<1>3. next_page' = MetaPage + 1 + 8 /\ free_head' = 0  BY <1>1, PageFacts DEF Bumped
<1>4. Bumped(8)'  BY <1>2, <1>3 DEF Bumped
<1>5. Wanted' = Wanted /\ handed' \in [Pages -> Nat]
  BY <1>1 DEF Wanted, PageInv
<1> QED  BY <1>1, <1>4, <1>5 DEF PageInv, TblInv, Paging

\* Filling and linking the tables.
LEMMA FilledMem ==
  ASSUME mem \in [Pages -> [0 .. Ptes - 1 -> Nat]], x4 = MetaPage + 2, FillAndTurnOn
  PROVE  /\ mem' \in [Pages -> [0 .. Ptes - 1 -> Nat]]
         /\ mem'[MetaPage + 2][0] = Entry(MetaPage + 3, P + W)
         /\ mem'[MetaPage + 3][0] = Entry(MetaPage + 4, P + W)
         /\ \A i \in 0 .. 3 : mem'[MetaPage + 4][i] = Entry(MetaPage + 5 + i, P + W)
         /\ \A k \in 0 .. 3 : mem'[MetaPage + 5 + k] = FilledPt(k)
<1> DEFINE R == 0 .. Ptes - 1
<1>0. MetaPage \in Nat /\ Ptes \in Nat /\ Ptes > 4  BY PageFacts
<1>1. /\ Pdpt = MetaPage + 3 /\ Pd = MetaPage + 4 /\ \A k \in 0 .. 3 : Pt(k) = MetaPage + 5 + k
      /\ x4 \in Pages /\ Pdpt \in Pages /\ Pd \in Pages
      /\ Pt(0) \in Pages /\ Pt(1) \in Pages /\ Pt(2) \in Pages /\ Pt(3) \in Pages
  <2>1. /\ MetaPage \in Nat /\ MetaPage + 2 \in Pages /\ MetaPage + 3 \in Pages
        /\ MetaPage + 4 \in Pages /\ MetaPage + 5 \in Pages /\ MetaPage + 6 \in Pages
        /\ MetaPage + 7 \in Pages /\ MetaPage + 8 \in Pages
    BY PageFacts
  <2> QED  BY <2>1 DEF Pdpt, Pd, Pt
<1>2. /\ x4 # Pdpt /\ x4 # Pd /\ Pdpt # Pd
      /\ \A k \in 0 .. 3 : Pt(k) # x4 /\ Pt(k) # Pdpt /\ Pt(k) # Pd
      /\ Pt(0) # Pt(1) /\ Pt(0) # Pt(2) /\ Pt(0) # Pt(3)
      /\ Pt(1) # Pt(2) /\ Pt(1) # Pt(3) /\ Pt(2) # Pt(3)
  BY <1>0 DEF Pdpt, Pd, Pt
<1>3. /\ \A p \in Nat, f \in {P + W} : Entry(p, f) \in Nat
      /\ Pdpt \in Nat /\ Pd \in Nat /\ \A k \in 0 .. 3 : Pt(k) \in Nat
      /\ Ptes \in Nat /\ Ptes > 4 /\ 0 \in R
      /\ \A k \in 0 .. 3 : FilledPt(k) \in [R -> Nat]
  <2>1. \A p \in Nat, f \in {P + W} : Entry(p, f) \in Nat  BY EntryFacts
  <2>2. ASSUME NEW k \in 0 .. 3 PROVE FilledPt(k) \in [R -> Nat]
    <3>1. k * Ptes \in Nat  BY <1>0
    <3>2. \A i \in R : k * Ptes + i \in Nat  BY <1>0, <3>1
    <3> QED  BY <2>1, <3>2 DEF FilledPt
  <2>3. Pdpt \in Nat /\ Pd \in Nat /\ \A k \in 0 .. 3 : Pt(k) \in Nat  BY <1>0 DEF Pdpt, Pd, Pt
  <2>4. 0 \in R  BY <1>0
  <2> QED  BY <1>0, <2>1, <2>2, <2>3, <2>4
<1>4. mem' = [mem EXCEPT
                 ![x4][0] = Entry(Pdpt, P + W),
                 ![Pdpt][0] = Entry(Pd, P + W),
                 ![Pd] = [i \in DOMAIN @ |-> IF i < 4 THEN Entry(Pt(i), P + W) ELSE @[i]],
                 ![Pt(0)] = FilledPt(0), ![Pt(1)] = FilledPt(1),
                 ![Pt(2)] = FilledPt(2), ![Pt(3)] = FilledPt(3)]
  BY DEF FillAndTurnOn
<1> HIDE DEF R
<1>5. mem'[x4] = [mem[x4] EXCEPT ![0] = Entry(Pdpt, P + W)]  BY <1>1, <1>2, <1>4 DEF R
<1>6. mem'[Pdpt] = [mem[Pdpt] EXCEPT ![0] = Entry(Pd, P + W)]  BY <1>1, <1>2, <1>4 DEF R
<1>7. mem'[Pd] = [i \in R |-> IF i < 4 THEN Entry(Pt(i), P + W) ELSE mem[Pd][i]]
  <2>1. mem'[Pd] = [i \in DOMAIN mem[Pd] |-> IF i < 4 THEN Entry(Pt(i), P + W) ELSE mem[Pd][i]]
    BY <1>1, <1>2, <1>4
  <2>2. DOMAIN mem[Pd] = R  BY <1>1 DEF R
  <2> QED  BY <2>1, <2>2
<1>8. \A k \in 0 .. 3 : mem'[Pt(k)] = FilledPt(k)
  <2>1. mem'[Pt(0)] = FilledPt(0) /\ mem'[Pt(1)] = FilledPt(1)  BY <1>1, <1>2, <1>4
  <2>2. mem'[Pt(2)] = FilledPt(2) /\ mem'[Pt(3)] = FilledPt(3)  BY <1>1, <1>2, <1>4
  <2>3. \A k \in 0 .. 3 : k = 0 \/ k = 1 \/ k = 2 \/ k = 3  OBVIOUS
  <2> QED  BY <2>1, <2>2, <2>3
<1>9. \A p \in Pages : p \notin {x4, Pdpt, Pd, Pt(0), Pt(1), Pt(2), Pt(3)} => mem'[p] = mem[p]
  BY <1>1, <1>2, <1>4
<1>10. DOMAIN mem' = Pages  BY <1>4
<1>11. /\ mem'[x4] \in [R -> Nat] /\ mem'[Pdpt] \in [R -> Nat] /\ mem'[Pd] \in [R -> Nat]
       /\ mem'[x4][0] = Entry(Pdpt, P + W) /\ mem'[Pdpt][0] = Entry(Pd, P + W)
       /\ \A i \in 0 .. 3 : mem'[Pd][i] = Entry(Pt(i), P + W)
  <2>1. mem[x4] \in [R -> Nat] /\ mem[Pdpt] \in [R -> Nat] /\ mem[Pd] \in [R -> Nat]
    BY <1>1 DEF R
  <2>2. \A i \in 0 .. 3 : i \in R /\ i < 4  BY <1>0 DEF R
  <2>3. \A i \in R : i < 4 => i \in 0 .. 3  BY <1>0 DEF R
  <2>4. ASSUME NEW i \in R
        PROVE  (IF i < 4 THEN Entry(Pt(i), P + W) ELSE mem[Pd][i]) \in Nat
    BY <1>3, <2>1, <2>3
  <2>5. mem'[Pd] \in [R -> Nat]  BY <1>7, <2>4
  <2>6. mem'[x4] \in [R -> Nat] /\ mem'[x4][0] = Entry(Pdpt, P + W)
    BY <1>3, <1>5, <2>1
  <2>7. mem'[Pdpt] \in [R -> Nat] /\ mem'[Pdpt][0] = Entry(Pd, P + W)
    BY <1>3, <1>6, <2>1
  <2>8. \A i \in 0 .. 3 : mem'[Pd][i] = Entry(Pt(i), P + W)  BY <1>7, <2>2
  <2> QED  BY <2>5, <2>6, <2>7, <2>8
<1>12. \A p \in Pages : mem'[p] \in [R -> Nat]
  <2> SUFFICES ASSUME NEW p \in Pages PROVE mem'[p] \in [R -> Nat]
    OBVIOUS
  <2>1. CASE p \notin {x4, Pdpt, Pd, Pt(0), Pt(1), Pt(2), Pt(3)}  BY <1>9, <2>1 DEF R
  <2>2. CASE p \in {x4, Pdpt, Pd}  BY <1>11, <2>2
  <2>3. CASE \E k \in 0 .. 3 : p = Pt(k)  BY <1>3, <1>8, <2>3
  <2> QED  BY <2>1, <2>2, <2>3
<1>13. mem' \in [Pages -> [R -> Nat]]
  <2>1. mem' = [p \in Pages |-> mem'[p]]  BY <1>4
  <2> QED  BY <1>12, <2>1
<1>14. /\ mem'[MetaPage + 2][0] = Entry(MetaPage + 3, P + W)
       /\ mem'[MetaPage + 3][0] = Entry(MetaPage + 4, P + W)
  BY <1>1, <1>11
<1>15. /\ \A i \in 0 .. 3 : mem'[MetaPage + 4][i] = Entry(MetaPage + 5 + i, P + W)
       /\ \A k \in 0 .. 3 : mem'[MetaPage + 5 + k] = FilledPt(k)
  BY <1>1, <1>8, <1>11
<1> QED  BY <1>13, <1>14, <1>15 DEF R

\* Paging is on and nothing has been freed yet.
LEMMA FillPages ==
  ASSUME PageInv, FillAndTurnOn
  PROVE  PageInv'
<1>1. /\ step = "fill" /\ step' = "after_paging" /\ ptbr' = x4 /\ Bumped(8)
      /\ x4 = MetaPage + 2 /\ tbl = <<>> /\ x14 = MetaPage + 1
      /\ UNCHANGED <<next_page, free_head, data, x2, x4, x14, tbl, handed, variant>>
  BY DEF FillAndTurnOn, At, Goto, PageInv, Paging
<1>2. /\ mem' \in [Pages -> [0 .. Ptes - 1 -> Nat]]
      /\ mem'[MetaPage + 2][0] = Entry(MetaPage + 3, P + W)
      /\ mem'[MetaPage + 3][0] = Entry(MetaPage + 4, P + W)
      /\ \A i \in 0 .. 3 : mem'[MetaPage + 4][i] = Entry(MetaPage + 5 + i, P + W)
      /\ \A k \in 0 .. 3 : mem'[MetaPage + 5 + k] = FilledPt(k)
  BY <1>1, FilledMem DEF PageInv
<1>3. KernelRoot(x4)' /\ KernelRoot(ptbr)'
  <2>1. MetaPage + 2 + 1 = MetaPage + 3 /\ MetaPage + 2 + 2 = MetaPage + 4  BY PageFacts
  <2> QED  BY <1>1, <1>2, <2>1 DEF KernelRoot
<1>4. KernelTables'  BY <1>2 DEF KernelTables, FilledPt
<1>5. Bumped(8 + Len(tbl))'
  <2>1. 8 + Len(tbl') = 8  BY <1>1
  <2> QED  BY <1>1, <2>1 DEF Bumped
<1>6. TblInv'  BY <1>1 DEF TblInv, Wanted, PageInv
<1> QED  BY <1>1, <1>2, <1>3, <1>4, <1>5, <1>6 DEF PageInv, Paging

\* A change of the free demo page's first word leaves the tables alone.
LEMMA TablesKept ==
  ASSUME PageInv, step \in Paging, x4' = x4, ptbr' = ptbr,
         \A n \in 2 .. 13 : mem'[MetaPage + n] = mem[MetaPage + n]
  PROVE  KernelRoot(x4)' /\ KernelTables' /\ KernelRoot(ptbr)'
<1>1. /\ KernelRoot(x4) /\ KernelTables /\ KernelRoot(ptbr)
      /\ x4 = MetaPage + 2 /\ ptbr \in {x4, MetaPage + 9}
  BY DEF PageInv
<1>2. MetaPage \in Nat /\ MetaPage + 2 + 2 = MetaPage + 4 /\ MetaPage + 2 + 1 = MetaPage + 3
      /\ MetaPage + 9 + 2 = MetaPage + 11 /\ MetaPage + 9 + 1 = MetaPage + 10
  BY PageFacts
<1>3. KernelTables'
  <2> SUFFICES ASSUME NEW k \in 0 .. 3, NEW i \in 0 .. Ptes - 1
               PROVE  mem'[MetaPage + 5 + k][i] = Entry(k * Ptes + i, P + W)
    BY DEF KernelTables
  <2>1. 5 + k \in 2 .. 13 /\ MetaPage + (5 + k) = MetaPage + 5 + k  BY <1>2
  <2>2. mem'[MetaPage + 5 + k] = mem[MetaPage + 5 + k]  BY <2>1
  <2> QED  BY <1>1, <2>2 DEF KernelTables
<1>4. /\ mem'[MetaPage + 2] = mem[MetaPage + 2] /\ mem'[MetaPage + 3] = mem[MetaPage + 3]
      /\ mem'[MetaPage + 4] = mem[MetaPage + 4] /\ mem'[MetaPage + 9] = mem[MetaPage + 9]
      /\ mem'[MetaPage + 10] = mem[MetaPage + 10] /\ mem'[MetaPage + 11] = mem[MetaPage + 11]
  OBVIOUS
<1>5. KernelRoot(x4)'  BY <1>1, <1>2, <1>4 DEF KernelRoot
<1>6. KernelRoot(ptbr)'  BY <1>1, <1>2, <1>4 DEF KernelRoot
<1> QED  BY <1>3, <1>5, <1>6

\* The demo page goes onto the free list.
LEMMA FreeDemoPages ==
  ASSUME PageInv, FreeDemo
  PROVE  PageInv'
<1> DEFINE demo == MetaPage + 1
<1>1. /\ step = "after_paging" /\ step' \in {"done", "after_free"}
      /\ Bumped(8 + Len(tbl)) /\ ptbr = x4 /\ x4 = MetaPage + 2 /\ x14 = demo
      /\ mem' = [mem EXCEPT ![demo][0] = free_head] /\ free_head' = demo
      /\ handed' = [handed EXCEPT ![demo] = @ - 1]
      /\ UNCHANGED <<next_page, data, x2, x4, x14, tbl, ptbr, variant>>
      /\ mem \in [Pages -> [0 .. Ptes - 1 -> Nat]] /\ handed \in [Pages -> Nat]
  BY DEF FreeDemo, FreePage, At, Goto, PageInv, Paging
<1>2. /\ MetaPage \in Nat /\ Ptes \in Nat /\ Ptes > 4 /\ demo \in Pages
      /\ \A n \in 2 .. 13 : MetaPage + n \in Pages /\ MetaPage + n # demo
      /\ \A p \in Pages : p \in Nat
  BY PageFacts
<1>3. variant \in {"binary", "freelist"}
  BY DEF FreeDemo, Goto
<1>4. tbl = <<>> /\ 8 + Len(tbl) = 8
  <2>1. TblInv  BY DEF PageInv
  <2>2. tbl = <<>>  BY <1>3, <2>1 DEF TblInv
  <2> QED  BY <2>2
<1>5. /\ next_page = MetaPage + 1 + 8 /\ free_head = 0
      /\ \A p \in Pages : handed[p] = IF p \in MetaPage + 1 .. MetaPage + 8 THEN 1 ELSE 0
  BY <1>1, <1>4 DEF Bumped
<1>6. handed[demo] = 1  BY <1>2, <1>5
<1>7. ASSUME NEW p \in Pages
      PROVE  handed'[p] = IF p \in MetaPage + 2 .. MetaPage + 8 THEN 1 ELSE 0
  <2>1. p \in MetaPage + 1 .. MetaPage + 8 <=> p \in MetaPage + 2 .. MetaPage + 8 \/ p = demo
    BY <1>2
  <2>2. ~(demo \in MetaPage + 2 .. MetaPage + 8)  BY <1>2
  <2>3. CASE p = demo  BY <1>1, <1>2, <1>6, <2>2, <2>3
  <2>4. CASE p # demo  BY <1>1, <1>2, <1>5, <2>1, <2>4
  <2> QED  BY <2>3, <2>4
<1>8. handed' \in [Pages -> Nat]
  <2>1. handed' = [p \in Pages |-> handed'[p]]  BY <1>1
  <2>2. \A p \in Pages : handed'[p] \in Nat  BY <1>7
  <2> QED  BY <2>1, <2>2
<1>9. mem'[demo][0] = 0 /\ mem' \in [Pages -> [0 .. Ptes - 1 -> Nat]]
  <2>1. 0 \in 0 .. Ptes - 1 /\ free_head \in Nat  BY <1>2, <1>5
  <2> QED  BY <1>1, <1>2, <1>5, <2>1
<1>10. Freed'
  <2>1. next_page' = MetaPage + 9  BY <1>1, <1>2, <1>5
  <2> QED  BY <1>1, <1>7, <1>9, <2>1 DEF Freed
<1>11. \A n \in 2 .. 13 : mem'[MetaPage + n] = mem[MetaPage + n]  BY <1>1, <1>2
<1>12. KernelRoot(x4)' /\ KernelTables' /\ KernelRoot(ptbr)'
  BY <1>1, <1>11, TablesKept DEF Paging
<1>13. TblInv'  BY <1>1, <1>4 DEF TblInv, Wanted, PageInv
<1> QED  BY <1>1, <1>8, <1>9, <1>10, <1>12, <1>13 DEF PageInv, Paging

\* kernel_freelist gets the demo page again.
LEMMA ReallocPages ==
  ASSUME PageInv, Realloc
  PROVE  PageInv'
<1> DEFINE demo == MetaPage + 1
<1>1. /\ step = "after_free" /\ step' = "done" /\ Freed /\ AllocPage(next_page) /\ ptbr = x4
      /\ DOMAIN data' = DOMAIN data
      /\ UNCHANGED <<x4, x14, tbl, ptbr, variant>> /\ handed \in [Pages -> Nat]
  BY DEF Realloc, At, Goto, PageInv, Paging
<1>2. /\ MetaPage \in Nat /\ demo \in Pages /\ \A p \in Pages : p \in Nat
  BY PageFacts
<1>3. /\ next_page = MetaPage + 9 /\ free_head = demo /\ mem[demo][0] = 0 /\ demo # 0
      /\ \A p \in Pages : handed[p] = IF p \in MetaPage + 2 .. MetaPage + 8 THEN 1 ELSE 0
  BY <1>1, <1>2 DEF Freed
<1>4. /\ x2' = demo /\ free_head' = 0 /\ next_page' = next_page /\ mem' = mem
      /\ handed' = [handed EXCEPT ![demo] = handed[demo] + 1]
  BY <1>1, <1>3 DEF AllocPage
<1>5. handed[demo] = 0 /\ handed' \in [Pages -> Nat]
  <2>1. handed[demo] = 0  BY <1>2, <1>3
  <2> QED  BY <1>1, <1>2, <1>4, <2>1
<1>6. ASSUME NEW p \in Pages
      PROVE  handed'[p] = IF p \in MetaPage + 1 .. MetaPage + 8 THEN 1 ELSE 0
  <2>1. p \in MetaPage + 1 .. MetaPage + 8 <=> p \in MetaPage + 2 .. MetaPage + 8 \/ p = demo
    BY <1>2
  <2>2. CASE p = demo  BY <1>1, <1>2, <1>4, <1>5, <2>1, <2>2
  <2>3. CASE p # demo  BY <1>1, <1>2, <1>3, <1>4, <2>1, <2>3
  <2> QED  BY <2>2, <2>3
<1>7. Bumped(8)'
  <2>1. next_page' = MetaPage + 1 + 8  BY <1>2, <1>3, <1>4
  <2> QED  BY <1>4, <1>6, <2>1 DEF Bumped
<1>8. KernelRoot(x4)' /\ KernelTables' /\ KernelRoot(ptbr)'
  BY <1>1, <1>4, TablesKept DEF Paging
<1>9. TblInv'  BY <1>1 DEF TblInv, Wanted, PageInv
<1>10. 8 \in 8 .. 14  OBVIOUS
<1> QED  BY <1>1, <1>4, <1>5, <1>7, <1>8, <1>9, <1>10 DEF PageInv, Paging

\* A page for the program, or for its tables.
LEMMA AllocForUserPages ==
  ASSUME PageInv, AllocForUser
  PROVE  PageInv'
<1>1. /\ step = "after_paging" /\ step' = "after_paging" /\ Bumped(8 + Len(tbl)) /\ Len(tbl) < Wanted
      /\ AllocPage(next_page) /\ tbl' = Append(tbl, x2') /\ ptbr = x4
      /\ UNCHANGED <<data, x4, x14, ptbr, variant>> /\ handed \in [Pages -> Nat] /\ TblInv
  BY DEF AllocForUser, At, Goto, PageInv
<1>2. /\ MetaPage \in Nat /\ Wanted \in {2, 5} /\ Wanted' = Wanted
  BY <1>1, PageFacts DEF Wanted
<1> PICK n \in 0 .. 13 : n = 8 + Len(tbl)
  <2>1. tbl \in Seq(Nat) /\ Len(tbl) \in Nat  BY <1>1 DEF TblInv
  <2>2. Len(tbl) < 5  BY <1>1, <1>2, <2>1
  <2> QED  BY <2>1, <2>2
<1>3. tbl \in Seq(Nat) /\ Len(tbl) \in Nat /\ n + 1 = 8 + (Len(tbl) + 1)
  BY <1>1 DEF TblInv
<1>4. Bumped(n) /\ next_page = MetaPage + 1 + n  BY <1>1 DEF Bumped
<1>5. /\ Bumped(n + 1)' /\ x2' = MetaPage + 1 + n /\ mem' = mem
      /\ handed' \in [Pages -> Nat]
  <2>1. /\ free_head = 0
        /\ \A p \in Pages : handed[p] = IF p \in MetaPage + 1 .. MetaPage + n THEN 1 ELSE 0
    BY <1>4 DEF Bumped
  <2>2. /\ x2' = next_page /\ next_page' = next_page + 1 /\ free_head' = 0 /\ mem' = mem
        /\ handed' = [handed EXCEPT ![x2'] = @ + 1]
    BY <1>1, <2>1 DEF AllocPage
  <2> QED  BY <1>1, <1>3, <1>4, <2>1, <2>2, PageBumps
<1>6. x2' \in Nat /\ x2' = MetaPage + 8 + (Len(tbl) + 1)  BY <1>2, <1>3, <1>5
<1>7. /\ tbl' \in Seq(Nat) /\ Len(tbl') = Len(tbl) + 1
      /\ \A k \in 1 .. Len(tbl') : tbl'[k] = IF k = Len(tbl) + 1 THEN x2' ELSE tbl[k]
  BY <1>1, <1>3, <1>6
<1>8. TblInv'
  <2>1. Len(tbl') <= Wanted'  BY <1>1, <1>2, <1>3, <1>7
  <2>2. \A k \in 1 .. Len(tbl') : tbl'[k] = MetaPage + 8 + k
    <3> SUFFICES ASSUME NEW k \in 1 .. Len(tbl') PROVE tbl'[k] = MetaPage + 8 + k
      OBVIOUS
    <3>1. CASE k = Len(tbl) + 1  BY <1>6, <1>7, <3>1
    <3>2. CASE k # Len(tbl) + 1
      <4>1. k \in 1 .. Len(tbl)  BY <1>3, <1>7, <3>2
      <4> QED  BY <1>1, <1>7, <3>2, <4>1 DEF TblInv
    <3> QED  BY <3>1, <3>2
  <2>3. variant' \notin {"binary", "freelist"}  BY <1>1 DEF AllocForUser
  <2> QED  BY <1>7, <2>1, <2>2, <2>3 DEF TblInv
<1>9. Bumped(8 + Len(tbl))'
  <2>1. 8 + Len(tbl') = n + 1  BY <1>3, <1>7
  <2>2. n \in Nat /\ MetaPage \in Nat /\ Len(tbl') \in Nat  BY <1>2, <1>3, <1>7
  <2> QED  BY <1>5, <2>1, <2>2 DEF Bumped
<1>10. KernelRoot(x4)' /\ KernelTables' /\ KernelRoot(ptbr)'
  BY <1>1, <1>5, TablesKept DEF Paging
<1> QED  BY <1>1, <1>5, <1>8, <1>9, <1>10 DEF PageInv, Paging

\* The pages of a program when all are there.
LEMMA ProgramPages ==
  ASSUME TblInv, Len(tbl) = Wanted
  PROVE  /\ Pt4 = MetaPage + 7 + Wanted /\ UserFrame = MetaPage + 8 + Wanted
         /\ Pt4 \in Pages /\ UserFrame \in Pages /\ Pt4 \in Nat /\ UserFrame \in Nat
         /\ variant = "os" => /\ tbl[1] = MetaPage + 9 /\ tbl[2] = MetaPage + 10
                              /\ tbl[3] = MetaPage + 11 /\ Wanted = 5
<1>1. MetaPage \in Nat /\ Wanted \in {2, 5}  BY PageFacts
<1>2. \A k \in 1 .. Wanted : tbl[k] = MetaPage + 8 + k  BY DEF TblInv
<1>3. /\ tbl[Wanted - 1] = MetaPage + 7 + Wanted /\ tbl[Wanted] = MetaPage + 8 + Wanted
  BY <1>1, <1>2
<1>4. /\ MetaPage + 9 \in Pages /\ MetaPage + 10 \in Pages /\ MetaPage + 12 \in Pages
      /\ MetaPage + 13 \in Pages /\ \A p \in Pages : p \in Nat
  BY PageFacts
<1>5. Pt4 = MetaPage + 7 + Wanted /\ UserFrame = MetaPage + 8 + Wanted
  BY <1>3 DEF Pt4, UserFrame
<1>6. Pt4 \in Pages /\ UserFrame \in Pages
  <2>1. CASE Wanted = 2  BY <1>1, <1>4, <1>5, <2>1
  <2>2. CASE Wanted = 5  BY <1>1, <1>4, <1>5, <2>2
  <2> QED  BY <1>1, <2>1, <2>2
<1>7. variant = "os" => /\ tbl[1] = MetaPage + 9 /\ tbl[2] = MetaPage + 10
                        /\ tbl[3] = MetaPage + 11 /\ Wanted = 5
  BY <1>1, <1>2 DEF Wanted
<1> QED  BY <1>4, <1>5, <1>6, <1>7

\* The tables of kernel_user_mode and kernel_timer.
LEMMA OwnMem ==
  ASSUME mem \in [Pages -> [0 .. Ptes - 1 -> Nat]], x4 = MetaPage + 2, Pt4 \in Pages,
         Pt4 \in Nat, UserFrame \in Nat, Pt4 # Pd, mem' = OwnTables
  PROVE  /\ mem' \in [Pages -> [0 .. Ptes - 1 -> Nat]]
         /\ mem'[Pd][4] = Entry(Pt4, P + W) /\ mem'[Pt4][0] = Entry(UserFrame, P + U)
         /\ \A p \in Pages : p \notin {Pd, Pt4} => mem'[p] = mem[p]
         /\ \A i \in 0 .. Ptes - 1 : i # 4 => mem'[Pd][i] = mem[Pd][i]
<1> DEFINE R == 0 .. Ptes - 1
<1>1. /\ Pd \in Pages /\ 4 \in R /\ 0 \in R
      /\ Entry(Pt4, P + W) \in Nat /\ Entry(UserFrame, P + U) \in Nat
  <2>1. Pd = MetaPage + 4  BY PageFacts DEF Pd
  <2>2. MetaPage + 4 \in Pages /\ Ptes \in Nat /\ Ptes > 4  BY PageFacts
  <2>3. 4 \in R /\ 0 \in R  BY <2>2
  <2> QED  BY <2>1, <2>2, <2>3, EntryFacts
<1>2. mem' = [mem EXCEPT ![Pd][4] = Entry(Pt4, P + W), ![Pt4][0] = Entry(UserFrame, P + U)]
  BY DEF OwnTables
<1> HIDE DEF R
<1>3. mem'[Pd] = [mem[Pd] EXCEPT ![4] = Entry(Pt4, P + W)]  BY <1>1, <1>2 DEF R
<1>4. mem'[Pt4] = [mem[Pt4] EXCEPT ![0] = Entry(UserFrame, P + U)]  BY <1>1, <1>2 DEF R
<1>5. \A p \in Pages : p \notin {Pd, Pt4} => mem'[p] = mem[p]  BY <1>1, <1>2
<1>6. \A p \in Pages : mem[p] \in [R -> Nat]  BY DEF R
<1>7. mem'[Pd] \in [R -> Nat] /\ mem'[Pt4] \in [R -> Nat]
  BY <1>1, <1>3, <1>4, <1>6
<1>8. mem' = [p \in Pages |-> mem'[p]]  BY <1>2
<1>9. \A p \in Pages : mem'[p] \in [R -> Nat]  BY <1>5, <1>6, <1>7
<1>10. mem' \in [Pages -> [R -> Nat]]  BY <1>8, <1>9
<1>11. mem'[Pd][4] = Entry(Pt4, P + W) /\ mem'[Pt4][0] = Entry(UserFrame, P + U)
  BY <1>1, <1>3, <1>4, <1>6
<1>12. \A i \in R : i # 4 => mem'[Pd][i] = mem[Pd][i]  BY <1>1, <1>3, <1>6
<1> QED  BY <1>5, <1>10, <1>11, <1>12 DEF R

\* The tables of the first process of kernel_os.
LEMMA OsMem ==
  ASSUME mem \in [Pages -> [0 .. Ptes - 1 -> Nat]], x4 = MetaPage + 2,
         Pt4 = MetaPage + 12, UserFrame = MetaPage + 13, tbl[1] = MetaPage + 9,
         tbl[2] = MetaPage + 10, tbl[3] = MetaPage + 11, mem' = OsTables
  PROVE  /\ mem' \in [Pages -> [0 .. Ptes - 1 -> Nat]]
         /\ mem'[tbl[1]][0] = Entry(tbl[2], P + W) /\ mem'[tbl[2]][0] = Entry(tbl[3], P + W)
         /\ \A i \in 0 .. 3 : mem'[tbl[3]][i] = mem[Pd][i]
         /\ mem'[tbl[3]][4] = Entry(Pt4, P + W) /\ mem'[Pt4][0] = Entry(UserFrame, P + W + U)
         /\ \A p \in Pages : p \notin {tbl[1], tbl[2], tbl[3], Pt4} => mem'[p] = mem[p]
<1> DEFINE R == 0 .. Ptes - 1
           a == tbl[1]
           b == tbl[2]
           c == tbl[3]
<1>0. MetaPage \in Nat /\ Ptes \in Nat /\ Ptes > 4  BY PageFacts
<1>1. /\ Pd \in Pages /\ a \in Pages /\ b \in Pages /\ c \in Pages /\ Pt4 \in Pages
      /\ a # b /\ a # c /\ b # c /\ Pt4 \notin {a, b, c} /\ Pd \notin {a, b, c, Pt4}
  <2>1. /\ MetaPage + 4 \in Pages /\ MetaPage + 9 \in Pages /\ MetaPage + 10 \in Pages
        /\ MetaPage + 11 \in Pages /\ MetaPage + 12 \in Pages
    BY PageFacts
  <2>2. Pd = MetaPage + 4  BY <1>0 DEF Pd
  <2> QED  BY <1>0, <2>1, <2>2
<1>2. /\ 4 \in R /\ 0 \in R /\ \A i \in 0 .. 3 : i \in R
      /\ \A i \in R : i < 4 => i \in 0 .. 3
      /\ Entry(b, P + W) \in Nat /\ Entry(c, P + W) \in Nat
      /\ Entry(Pt4, P + W) \in Nat /\ Entry(UserFrame, P + W + U) \in Nat
  <2>1. 4 \in R /\ 0 \in R /\ (\A i \in 0 .. 3 : i \in R) /\ \A i \in R : i < 4 => i \in 0 .. 3
    BY <1>0
  <2>2. b \in Nat /\ c \in Nat /\ Pt4 \in Nat /\ UserFrame \in Nat  BY <1>0
  <2> QED  BY <2>1, <2>2, EntryFacts
<1>3. mem' = [mem EXCEPT ![a][0] = Entry(b, P + W), ![b][0] = Entry(c, P + W),
                 ![c] = [i \in DOMAIN @ |-> IF i < 4 THEN mem[Pd][i]
                                            ELSE IF i = 4 THEN Entry(Pt4, P + W) ELSE @[i]],
                 ![Pt4][0] = Entry(UserFrame, P + W + U)]
  BY DEF OsTables
<1> HIDE DEF R, a, b, c
<1>4. mem'[a] = [mem[a] EXCEPT ![0] = Entry(b, P + W)]  BY <1>1, <1>3 DEF R
<1>5. mem'[b] = [mem[b] EXCEPT ![0] = Entry(c, P + W)]  BY <1>1, <1>3 DEF R
<1>6. mem'[c] = [i \in R |-> IF i < 4 THEN mem[Pd][i]
                             ELSE IF i = 4 THEN Entry(Pt4, P + W) ELSE mem[c][i]]
  <2>1. mem'[c] = [i \in DOMAIN mem[c] |-> IF i < 4 THEN mem[Pd][i]
                             ELSE IF i = 4 THEN Entry(Pt4, P + W) ELSE mem[c][i]]
    BY <1>1, <1>3
  <2>2. DOMAIN mem[c] = R  BY <1>1 DEF R
  <2> QED  BY <2>1, <2>2
<1>7. mem'[Pt4] = [mem[Pt4] EXCEPT ![0] = Entry(UserFrame, P + W + U)]
  BY <1>1, <1>3 DEF R
<1>8. \A p \in Pages : p \notin {a, b, c, Pt4} => mem'[p] = mem[p]  BY <1>1, <1>3
<1>9. \A p \in Pages : mem[p] \in [R -> Nat]  BY DEF R
<1>10. mem'[a] \in [R -> Nat] /\ mem'[b] \in [R -> Nat] /\ mem'[Pt4] \in [R -> Nat]
  <2>1. mem[a] \in [R -> Nat] /\ mem[b] \in [R -> Nat] /\ mem[Pt4] \in [R -> Nat]
    BY <1>1, <1>9
  <2>5. \A f \in [R -> Nat], v \in Nat : [f EXCEPT ![0] = v] \in [R -> Nat]
    OBVIOUS
  <2>6. /\ Entry(b, P + W) \in Nat /\ Entry(c, P + W) \in Nat
        /\ Entry(UserFrame, P + W + U) \in Nat
    BY <1>2
  <2>2. mem'[a] \in [R -> Nat]  BY <1>4, <2>1, <2>5, <2>6
  <2>3. mem'[b] \in [R -> Nat]  BY <1>5, <2>1, <2>5, <2>6
  <2>4. mem'[Pt4] \in [R -> Nat]
    <3> DEFINE v == Entry(UserFrame, P + W + U)
               f == mem[Pt4]
    <3>1. mem'[Pt4] = [f EXCEPT ![0] = v] /\ f \in [R -> Nat] /\ v \in Nat
      BY <1>7, <2>1, <2>6
    <3> HIDE DEF f, v
    <3> QED  BY <2>5, <3>1
  <2> QED  BY <2>2, <2>3, <2>4
<1>11. mem'[c] \in [R -> Nat]
  <2>1. mem[Pd] \in [R -> Nat] /\ mem[c] \in [R -> Nat]  BY <1>1, <1>9
  <2>2. \A i \in R : (IF i < 4 THEN mem[Pd][i]
                      ELSE IF i = 4 THEN Entry(Pt4, P + W) ELSE mem[c][i]) \in Nat
    BY <1>2, <2>1
  <2> QED  BY <1>6, <2>2
<1>12. mem' = [p \in Pages |-> mem'[p]]  BY <1>3
<1>13. \A p \in Pages : mem'[p] \in [R -> Nat]  BY <1>8, <1>9, <1>10, <1>11
<1>14. mem' \in [Pages -> [R -> Nat]]  BY <1>12, <1>13
<1>15. /\ mem'[a][0] = Entry(b, P + W) /\ mem'[b][0] = Entry(c, P + W)
       /\ mem'[Pt4][0] = Entry(UserFrame, P + W + U)
  <2>1. mem'[a][0] = Entry(b, P + W)  BY <1>1, <1>2, <1>4, <1>9
  <2>2. mem'[b][0] = Entry(c, P + W)  BY <1>1, <1>2, <1>5, <1>9
  <2>3. mem'[Pt4][0] = Entry(UserFrame, P + W + U)  BY <1>1, <1>2, <1>7, <1>9
  <2> QED  BY <2>1, <2>2, <2>3
<1>16. mem'[c][4] = Entry(Pt4, P + W) /\ \A i \in 0 .. 3 : mem'[c][i] = mem[Pd][i]
  BY <1>2, <1>6
<1> QED  BY <1>8, <1>14, <1>15, <1>16 DEF R, a, b, c

\* The program's tables, when its own or the kernel's root is used.
LEMMA EnterProgramPages ==
  ASSUME PageInv, EnterProgram
  PROVE  PageInv'
<1>1. /\ step = "after_paging" /\ step' = (IF ProgramLen = 0 THEN "os_init_copy" ELSE "user")
      /\ Bumped(8 + Len(tbl)) /\ Len(tbl) = Wanted /\ x4 = MetaPage + 2 /\ x14 = MetaPage + 1
      /\ variant \in {"user_mode", "timer", "os"} /\ ptbr = x4
      /\ mem' = (IF variant = "os" THEN OsTables ELSE OwnTables)
      /\ ptbr' = (IF variant = "os" /\ ProgramLen # 0 THEN tbl[1] ELSE ptbr)
      /\ UNCHANGED <<next_page, free_head, x2, x4, x14, tbl, handed, variant>>
      /\ mem \in [Pages -> [0 .. Ptes - 1 -> Nat]] /\ handed \in [Pages -> Nat] /\ TblInv
      /\ KernelRoot(x4) /\ KernelTables
  BY DEF EnterProgram, At, Goto, PageInv, Paging
<1>2. DOMAIN data' = Pages
  <2>1. DOMAIN data' = DOMAIN data  BY DEF EnterProgram
  <2> QED  BY <2>1 DEF PageInv
<1>3. Wanted' = Wanted /\ Wanted \in {2, 5} /\ MetaPage \in Nat  BY <1>1, PageFacts DEF Wanted
<1>4. Bumped(8 + Wanted)' /\ \E n \in 8 .. 14 : Bumped(n)'
  <2>1. Bumped(8 + Wanted)'  BY <1>1, <1>3 DEF Bumped
  <2>2. PICK n \in 8 .. 14 : n = 8 + Wanted  BY <1>3
  <2>3. Bumped(n)'  BY <1>1, <2>2 DEF Bumped
  <2> QED  BY <2>1, <2>3
<1>5. TblInv'  BY <1>1, <1>3 DEF TblInv
<1>6. /\ Pt4 = MetaPage + 7 + Wanted /\ UserFrame = MetaPage + 8 + Wanted
      /\ Pt4 \in Pages /\ UserFrame \in Pages /\ Pt4 \in Nat /\ UserFrame \in Nat
      /\ variant = "os" => /\ tbl[1] = MetaPage + 9 /\ tbl[2] = MetaPage + 10
                           /\ tbl[3] = MetaPage + 11 /\ Wanted = 5
  BY <1>1, ProgramPages
<1>7. /\ Pd = MetaPage + 4 /\ \A k \in 0 .. 3 : MetaPage + 5 + k \in Pages
      /\ MetaPage + 2 \in Pages /\ MetaPage + 3 \in Pages /\ MetaPage + 4 \in Pages
  <2>1. \A k \in 0 .. 3 : 5 + k \in 0 .. 14 /\ MetaPage + (5 + k) = MetaPage + 5 + k  BY <1>3
  <2>2. \A k \in 0 .. 3 : MetaPage + 5 + k \in Pages  BY <2>1, PageFacts
  <2>3. Pd = MetaPage + 4
    <3>1. Pd = x4 + 2  BY DEF Pd
    <3>2. x4 = MetaPage + 2  BY <1>1
    <3>3. MetaPage + 2 + 2 = MetaPage + 4  BY <1>3
    <3> QED  BY <3>1, <3>2, <3>3
  <2>4. MetaPage + 2 \in Pages /\ MetaPage + 3 \in Pages /\ MetaPage + 4 \in Pages
    BY PageFacts
  <2> QED  BY <2>2, <2>3, <2>4
<1>8. CASE variant = "os"
  <2>1. /\ mem' \in [Pages -> [0 .. Ptes - 1 -> Nat]]
        /\ mem'[tbl[1]][0] = Entry(tbl[2], P + W) /\ mem'[tbl[2]][0] = Entry(tbl[3], P + W)
        /\ \A i \in 0 .. 3 : mem'[tbl[3]][i] = mem[Pd][i]
        /\ mem'[tbl[3]][4] = Entry(Pt4, P + W) /\ mem'[Pt4][0] = Entry(UserFrame, P + W + U)
        /\ \A p \in Pages : p \notin {tbl[1], tbl[2], tbl[3], Pt4} => mem'[p] = mem[p]
    <3>1. Pt4 = MetaPage + 12 /\ UserFrame = MetaPage + 13  BY <1>3, <1>6, <1>8
    <3>2. mem' = OsTables  BY <1>1, <1>8
    <3> QED  BY <1>1, <1>6, <1>8, <3>1, <3>2, OsMem
  <2>2. /\ Pt4 = MetaPage + 12 /\ UserFrame = MetaPage + 13
        /\ ptbr' = IF ProgramLen # 0 THEN MetaPage + 9 ELSE MetaPage + 2
    <3>1. ptbr' = IF ProgramLen # 0 THEN tbl[1] ELSE MetaPage + 2  BY <1>1, <1>8
    <3>2. tbl[1] = MetaPage + 9 /\ Wanted = 5  BY <1>6, <1>8
    <3>3. MetaPage + 7 + 5 = MetaPage + 12 /\ MetaPage + 8 + 5 = MetaPage + 13  BY <1>3
    <3> QED  BY <1>6, <3>1, <3>2, <3>3
  <2>3. \A p \in Pages : p < MetaPage + 9 => mem'[p] = mem[p]
    <3> SUFFICES ASSUME NEW p \in Pages, p < MetaPage + 9
                 PROVE  mem'[p] = mem[p]
      OBVIOUS
    <3>1. p \in Nat  BY PageFacts
    <3>2. tbl[1] = MetaPage + 9 /\ tbl[2] = MetaPage + 10 /\ tbl[3] = MetaPage + 11
      BY <1>6, <1>8
    <3>3. p # MetaPage + 9 /\ p # MetaPage + 10 /\ p # MetaPage + 11 /\ p # MetaPage + 12
      BY <1>3, <3>1
    <3>4. p \notin {tbl[1], tbl[2], tbl[3], Pt4}  BY <2>2, <3>2, <3>3
    <3> QED  BY <2>1, <3>4
  <2>4. KernelTables'
    <3> SUFFICES ASSUME NEW k \in 0 .. 3, NEW i \in 0 .. Ptes - 1
                 PROVE  mem'[MetaPage + 5 + k][i] = Entry(k * Ptes + i, P + W)
      BY DEF KernelTables
    <3>1. MetaPage + 5 + k < MetaPage + 9  BY <1>3
    <3> QED  BY <1>1, <1>7, <2>3, <3>1 DEF KernelTables
  <2>5. /\ mem'[MetaPage + 2] = mem[MetaPage + 2] /\ mem'[MetaPage + 3] = mem[MetaPage + 3]
        /\ mem'[MetaPage + 4] = mem[MetaPage + 4]
    BY <1>3, <1>7, <2>3
  <2>6. MetaPage + 2 + 1 = MetaPage + 3 /\ MetaPage + 2 + 2 = MetaPage + 4
        /\ MetaPage + 9 + 1 = MetaPage + 10 /\ MetaPage + 9 + 2 = MetaPage + 11
    BY <1>3
  <2>7. KernelRoot(x4)'  BY <1>1, <2>5, <2>6 DEF KernelRoot
  <2>8. KernelRoot(MetaPage + 9)'
    <3>1. \A i \in 0 .. 3 : mem[Pd][i] = Entry(MetaPage + 5 + i, P + W)
      BY <1>1, <1>7, <2>6 DEF KernelRoot
    <3> QED  BY <1>6, <1>8, <2>1, <2>2, <2>6, <3>1 DEF KernelRoot
  <2>9. UserMapped(MetaPage + 9)'
    <3>1. MetaPage + 7 + Wanted = MetaPage + 12 /\ MetaPage + 12 + 1 = MetaPage + 13
      BY <1>3, <1>6, <1>8
    <3>2. mem'[MetaPage + 11][4] = Entry(MetaPage + 12, P + W)
          /\ mem'[MetaPage + 12][0] = Entry(MetaPage + 13, P + W + U)
      BY <1>6, <1>8, <2>1, <2>2
    <3> QED  BY <1>1, <1>3, <2>2, <2>6, <3>1, <3>2 DEF UserMapped
  <2>10. CASE ProgramLen = 0
    <3>1. step' = "os_init_copy" /\ ptbr' = x4'  BY <1>1, <2>2, <2>10
    <3>2. KernelRoot(ptbr)'  BY <2>7, <3>1
    <3>3. Bumped(13)'
      <4>1. 8 + Wanted' = 13  BY <1>3, <1>6, <1>8
      <4> QED  BY <1>4, <4>1
    <3>4. InitCopy'  BY <1>1, <1>8, <2>8, <2>9, <3>1, <3>3 DEF InitCopy
    <3> QED
      BY <1>1, <1>2, <1>5, <2>1, <2>4, <2>7, <3>1, <3>2, <3>4 DEF PageInv, Paging
  <2>11. CASE ProgramLen # 0
    <3>1. step' = "user" /\ ptbr' = MetaPage + 9  BY <1>1, <2>2, <2>11
    <3>2. KernelRoot(ptbr)' /\ UserMapped(ptbr)'  BY <2>8, <2>9, <3>1 DEF KernelRoot, UserMapped
    <3> QED
      BY <1>1, <1>2, <1>4, <1>5, <2>1, <2>4, <2>7, <3>1, <3>2 DEF PageInv, Paging
  <2> QED  BY <2>10, <2>11
<1>9. CASE variant # "os"
  <2>1. Wanted = 2 /\ Pt4 = MetaPage + 9 /\ UserFrame = MetaPage + 10 /\ Pt4 # Pd
    BY <1>3, <1>6, <1>7, <1>9 DEF Wanted
  <2>2. /\ mem' \in [Pages -> [0 .. Ptes - 1 -> Nat]]
        /\ mem'[Pd][4] = Entry(Pt4, P + W) /\ mem'[Pt4][0] = Entry(UserFrame, P + U)
        /\ \A p \in Pages : p \notin {Pd, Pt4} => mem'[p] = mem[p]
        /\ \A i \in 0 .. Ptes - 1 : i # 4 => mem'[Pd][i] = mem[Pd][i]
    BY <1>1, <1>6, <1>9, <2>1, OwnMem
  <2>3. ptbr' = MetaPage + 2 /\ step' = "user"
    <3>1. ProgramLen # 0  BY <1>1, <1>9, IsaAssumption DEF ProgramLen
    <3> QED  BY <1>1, <1>9, <3>1
  <2>4. KernelTables'
    <3> SUFFICES ASSUME NEW k \in 0 .. 3, NEW i \in 0 .. Ptes - 1
                 PROVE  mem'[MetaPage + 5 + k][i] = Entry(k * Ptes + i, P + W)
      BY DEF KernelTables
    <3>1. MetaPage + 5 + k \notin {Pd, Pt4}  BY <1>3, <1>7, <2>1
    <3>2. MetaPage + 5 + k \in Pages  BY <1>7
    <3>3. mem'[MetaPage + 5 + k] = mem[MetaPage + 5 + k]  BY <2>2, <3>1, <3>2
    <3>4. mem[MetaPage + 5 + k][i] = Entry(k * Ptes + i, P + W)  BY <1>1 DEF KernelTables
    <3> QED  BY <3>3, <3>4
  <2>5. mem'[MetaPage + 2] = mem[MetaPage + 2] /\ mem'[MetaPage + 3] = mem[MetaPage + 3]
    <3>1. MetaPage + 2 \notin {Pd, Pt4} /\ MetaPage + 3 \notin {Pd, Pt4}
      BY <1>3, <1>7, <2>1
    <3> QED  BY <1>7, <2>2, <3>1
  <2>6. MetaPage + 2 + 1 = MetaPage + 3 /\ MetaPage + 2 + 2 = MetaPage + 4  BY <1>3
  <2>7. \A i \in 0 .. 3 : mem'[MetaPage + 4][i] = mem[MetaPage + 4][i]
    <3>1. \A i \in 0 .. 3 : i \in 0 .. Ptes - 1 /\ i # 4  BY PageFacts
    <3> QED  BY <1>7, <2>2, <3>1
  <2>8. KernelRoot(x4)' /\ KernelRoot(ptbr)'
    <3>1. x4' = MetaPage + 2 /\ ptbr' = MetaPage + 2 /\ x4 = MetaPage + 2  BY <1>1, <2>3
    <3>2. /\ mem[MetaPage + 2][0] = Entry(MetaPage + 3, P + W)
          /\ mem[MetaPage + 3][0] = Entry(MetaPage + 4, P + W)
          /\ \A i \in 0 .. 3 : mem[MetaPage + 4][i] = Entry(MetaPage + 5 + i, P + W)
      BY <1>1, <2>6, <3>1 DEF KernelRoot
    <3>3. /\ mem'[MetaPage + 2][0] = Entry(MetaPage + 3, P + W)
          /\ mem'[MetaPage + 3][0] = Entry(MetaPage + 4, P + W)
          /\ \A i \in 0 .. 3 : mem'[MetaPage + 4][i] = Entry(MetaPage + 5 + i, P + W)
      BY <2>5, <2>7, <3>2
    <3> QED  BY <2>6, <3>1, <3>3 DEF KernelRoot
  <2>9. UserMapped(ptbr)'
    <3>1. MetaPage + 7 + Wanted = MetaPage + 9 /\ MetaPage + 9 + 1 = MetaPage + 10
      BY <1>3, <2>1
    <3>2. mem'[MetaPage + 4][4] = Entry(MetaPage + 9, P + W)
          /\ mem'[MetaPage + 9][0] = Entry(MetaPage + 10, P + U)
      BY <1>7, <2>1, <2>2
    <3> QED  BY <1>1, <1>3, <2>3, <2>6, <3>1, <3>2 DEF UserMapped
  <2> QED
    BY <1>1, <1>2, <1>4, <1>5, <1>9, <2>2, <2>3, <2>4, <2>8, <2>9 DEF PageInv, Paging
<1> QED  BY <1>8, <1>9

\* The copy that overruns takes one page more and leaves the tables alone.
LEMMA CopyOverrunsPages ==
  ASSUME PageInv, CopyOverruns
  PROVE  PageInv'
<1>1. /\ step = "os_init_copy" /\ step' = "user" /\ InitCopy /\ AllocPage(next_page)
      /\ ptbr' = tbl[1] /\ DOMAIN data' = Pages /\ handed \in [Pages -> Nat]
      /\ mem \in [Pages -> [0 .. Ptes - 1 -> Nat]] /\ TblInv /\ KernelRoot(x4) /\ KernelTables
      /\ UNCHANGED <<x4, x14, tbl, variant>> /\ x4 = MetaPage + 2 /\ x14 = MetaPage + 1
  BY DEF CopyOverruns, At, Goto, PageInv, Paging
<1>2. /\ variant = "os" /\ Wanted = 5 /\ Wanted' = 5 /\ Len(tbl) = Wanted /\ MetaPage \in Nat
      /\ Bumped(13) /\ KernelRoot(MetaPage + 9) /\ UserMapped(MetaPage + 9)
  BY <1>1, PageFacts DEF InitCopy, Wanted, UserMapped
<1>3. tbl[1] = MetaPage + 9  BY <1>1, <1>2, ProgramPages
<1>4. /\ Bumped(13 + 1)' /\ mem' = mem /\ handed' \in [Pages -> Nat]
  <2>1. /\ free_head = 0 /\ next_page = MetaPage + 1 + 13
        /\ \A p \in Pages : handed[p] = IF p \in MetaPage + 1 .. MetaPage + 13 THEN 1 ELSE 0
    BY <1>2 DEF Bumped
  <2>2. /\ x2' = MetaPage + 1 + 13 /\ next_page' = x2' + 1 /\ free_head' = 0 /\ mem' = mem
        /\ handed' = [handed EXCEPT ![x2'] = @ + 1]
    BY <1>1, <2>1 DEF AllocPage
  <2>3. 13 \in 0 .. 13  OBVIOUS
  <2> QED  BY <1>1, <2>1, <2>2, <2>3, PageBumps
<1>5. \E n \in 8 .. 14 : Bumped(n)'
  <2>1. 13 + 1 = 14 /\ 14 \in 8 .. 14  OBVIOUS
  <2> QED  BY <1>4, <2>1
<1>6. TblInv'  BY <1>1, <1>2 DEF TblInv
<1>7. KernelRoot(x4)' /\ KernelTables' /\ KernelRoot(ptbr)'
  BY <1>1, <1>2, <1>3, <1>4 DEF KernelRoot, KernelTables
<1>8. UserMapped(ptbr)'  BY <1>1, <1>2, <1>3, <1>4 DEF UserMapped
<1> QED  BY <1>1, <1>3, <1>4, <1>5, <1>6, <1>7, <1>8 DEF PageInv, Paging

\* The timer leaves the pages alone.
LEMMA TimerTickPages ==
  ASSUME PageInv, TimerTick
  PROVE  PageInv'
<1>1. /\ step = "user" /\ step' \in {"user", "done"} /\ \E n \in 8 .. 14 : Bumped(n)
      /\ UNCHANGED <<next_page, free_head, mem, data, x2, x4, x14, tbl, ptbr, handed, variant>>
      /\ TblInv /\ KernelRoot(x4) /\ KernelTables /\ KernelRoot(ptbr) /\ UserMapped(ptbr)
      /\ ptbr \in {x4, MetaPage + 9} /\ x4 = MetaPage + 2 /\ x14 = MetaPage + 1
  BY DEF TimerTick, At, Goto, PageInv, Paging, pageVars
<1>2. Wanted' = Wanted  BY <1>1 DEF Wanted
<1>3. \E n \in 8 .. 14 : Bumped(n)'  BY <1>1 DEF Bumped
<1>4. TblInv'  BY <1>1, <1>2 DEF TblInv
<1>5. KernelRoot(x4)' /\ KernelTables' /\ KernelRoot(ptbr)'
  BY <1>1 DEF KernelRoot, KernelTables
<1>6. UserMapped(ptbr)'  BY <1>1, <1>2 DEF UserMapped
<1>7. /\ mem' \in [Pages -> [0 .. Ptes - 1 -> Nat]]
      /\ handed' \in [Pages -> Nat] /\ DOMAIN data' = Pages
  BY <1>1 DEF PageInv
<1> QED  BY <1>1, <1>3, <1>4, <1>5, <1>6, <1>7 DEF PageInv, Paging

\* Every step of the build and the boot keeps what the pages are.
LEMMA NextPages ==
  ASSUME PageInv, [Next]_vars
  PROVE  PageInv'
<1>1. CASE UNCHANGED vars  BY <1>1, PagesKept DEF vars, bootVars
<1>2. CASE AsmNext /\ UNCHANGED <<linkVars, bootVars>>  BY <1>2, PagesKept DEF bootVars
<1>3. CASE NextProgram  BY <1>3, PagesKept DEF NextProgram
<1>4. CASE Build  BY <1>4, PagesKept DEF Build, bootVars
<1>5. CASE Boot
  BY <1>5, PowerOnPages, AfterAllocPages, AfterPgtblPages, FillPages, FreeDemoPages,
     ReallocPages, AllocForUserPages, EnterProgramPages, CopyOverrunsPages, TimerTickPages
  DEF Boot
<1> QED  BY <1>1, <1>2, <1>3, <1>4, <1>5 DEF Next

\* At first nothing is handed out.
LEMMA InitPages ==
  ASSUME Init
  PROVE  PageInv
<1>1. /\ step = "off" /\ ptbr = 0 /\ tbl = <<>> /\ next_page = 0 /\ free_head = 0
      /\ handed = [p \in Pages |-> 0] /\ mem = [p \in Pages |-> ZeroPage]
      /\ data = [p \in Pages |-> <<>>]
  BY DEF Init
<1>2. ZeroPage \in [0 .. Ptes - 1 -> Nat]  BY DEF ZeroPage
<1>3. TblInv  BY <1>1, PageFacts DEF TblInv
<1> QED  BY <1>1, <1>2, <1>3 DEF PageInv, Paging

\* Allocation and page tables are what boot left them to be, always.
THEOREM PagesInvariant == Spec => []PageInv
<1>1. Init => PageInv  BY InitPages
<1>2. PageInv /\ [Next]_vars => PageInv'  BY NextPages
<1> QED  BY <1>1, <1>2, PTL DEF Spec

\* What is handed out at each step of the boot.
LEMMA HandedOut ==
  ASSUME PageInv
  PROVE  \/ step = "off" /\ next_page = 0 /\ free_head = 0 /\ \A p \in Pages : handed[p] = 0
         \/ Freed
         \/ \E n \in 1 .. 14 : Bumped(n)
<1>1. CASE step \in {"after_alloc", "after_pgtbl", "fill"}
  <2>1. 1 \in 1 .. 14 /\ 2 \in 1 .. 14 /\ 8 \in 1 .. 14  OBVIOUS
  <2>2. \E n \in 1 .. 14 : Bumped(n)  BY <1>1, <2>1 DEF PageInv
  <2> QED  BY <2>2
<1>2. CASE step = "after_paging"
  <2>1. Bumped(8 + Len(tbl)) /\ TblInv /\ Wanted \in {2, 5}  BY <1>2, PageFacts DEF PageInv, Paging
  <2>2. PICK l \in Nat, w \in {2, 5} : l = Len(tbl) /\ w = Wanted /\ l <= w
    BY <2>1 DEF TblInv
  <2>3. 8 + l \in 1 .. 14  BY <2>2
  <2> QED  BY <2>1, <2>2, <2>3
<1>3. CASE step \in {"after_free", "done", "os_init_copy", "user"}
  <2>1. 13 \in 8 .. 14 /\ 8 .. 14 \subseteq 1 .. 14  OBVIOUS
  <2>2. Freed \/ \E n \in 8 .. 14 : Bumped(n)  BY <1>3, <2>1 DEF PageInv, InitCopy
  <2> QED  BY <2>1, <2>2
<1>4. CASE step = "off"  BY <1>4 DEF PageInv
<1> QED  BY <1>1, <1>2, <1>3, <1>4 DEF PageInv, Paging

\* No page is handed out twice.
THEOREM PagesHandedOnce == Spec => []HandedOnce
<1>1. PageInv => HandedOnce
  <2> SUFFICES ASSUME PageInv, NEW p \in Pages
               PROVE  /\ handed[p] \in 0 .. IF p = free_head THEN 0 ELSE 1
                      /\ handed[p] > 0 \/ p = free_head => p < next_page
    BY DEF HandedOnce
  <2>1. p \in Nat /\ MetaPage \in Nat /\ p >= MetaPage  BY PageFacts
  <2>2. MetaPage > 0  BY BootAssumption
  <2>3. CASE \A q \in Pages : handed[q] = 0 /\ free_head = 0
    BY <2>1, <2>2, <2>3
  <2>4. CASE Freed
    <3>1. p \in MetaPage + 2 .. MetaPage + 8 => p # MetaPage + 1 /\ p < MetaPage + 9
      BY <2>1
    <3> QED  BY <2>1, <2>4, <3>1 DEF Freed
  <2>5. ASSUME NEW n \in 1 .. 14, Bumped(n)
        PROVE  /\ handed[p] \in 0 .. IF p = free_head THEN 0 ELSE 1
               /\ handed[p] > 0 \/ p = free_head => p < next_page
    BY <2>1, <2>2, <2>5 DEF Bumped
  <2> QED  BY <2>3, <2>4, <2>5, HandedOut
<1> QED  BY <1>1, PagesInvariant, PTL

\* A walk reaches the page directory of the table at PTBR.
LEMMA WalkRoot ==
  ASSUME ptbr \in {MetaPage + 2, MetaPage + 9}, KernelRoot(ptbr)
  PROVE  /\ PageOf(Step(PageOf(Step(ptbr, 0)), 0)) = ptbr + 2
         /\ ptbr + 2 \in Pages /\ MetaPage \in Nat
<1>1. /\ MetaPage \in Nat /\ ptbr \in Nat
      /\ ptbr \in Pages /\ ptbr + 1 \in Pages /\ ptbr + 2 \in Pages
  <2>1. /\ MetaPage + 2 \in Pages /\ MetaPage + 3 \in Pages /\ MetaPage + 4 \in Pages
        /\ MetaPage + 9 \in Pages /\ MetaPage + 10 \in Pages /\ MetaPage + 11 \in Pages
        /\ MetaPage \in Nat
    BY PageFacts
  <2>2. /\ MetaPage + 2 + 1 = MetaPage + 3 /\ MetaPage + 2 + 2 = MetaPage + 4
        /\ MetaPage + 9 + 1 = MetaPage + 10 /\ MetaPage + 9 + 2 = MetaPage + 11
    BY <2>1
  <2>3. MetaPage + 2 \in Nat /\ MetaPage + 9 \in Nat  BY <2>1
  <2> QED  BY <2>1, <2>2, <2>3
<1>2. PageOf(Step(ptbr, 0)) = ptbr + 1
  BY <1>1, EntryFacts DEF Step, KernelRoot
<1>3. PageOf(Step(ptbr + 1, 0)) = ptbr + 2
  BY <1>1, EntryFacts DEF Step, KernelRoot
<1> QED  BY <1>1, <1>2, <1>3

\* A walk through a table whose lower half is the kernel's finds a page below
\* USER_VA at its own address.
LEMMA WalkLow ==
  ASSUME ptbr \in {MetaPage + 2, MetaPage + 9}, KernelRoot(ptbr), KernelTables,
         NEW v \in 0 .. UserPage - 1
  PROVE  Walk(v) = Entry(v, P + W)
<1> DEFINE k == v \div Ptes
           i == v % Ptes
<1>1. k \in 0 .. 3 /\ i \in 0 .. Ptes - 1 /\ k * Ptes + i = v  BY SplitPage
<1>2. /\ PageOf(Step(PageOf(Step(ptbr, 0)), 0)) = ptbr + 2
      /\ ptbr + 2 \in Pages /\ MetaPage \in Nat
  BY WalkRoot
<1>3. MetaPage + 5 + k \in Pages /\ MetaPage + 5 + k \in Nat
  <2>1. 5 + k \in 0 .. 14 /\ MetaPage + (5 + k) = MetaPage + 5 + k  BY <1>1, <1>2
  <2> QED  BY <1>2, <2>1, PageFacts
<1> HIDE DEF k, i
<1>4. PageOf(Step(ptbr + 2, k)) = MetaPage + 5 + k
  BY <1>1, <1>2, <1>3, EntryFacts DEF Step, KernelRoot
<1>5. Step(MetaPage + 5 + k, i) = Entry(v, P + W)
  BY <1>1, <1>3 DEF Step, KernelTables
<1> QED  BY <1>2, <1>4, <1>5 DEF Walk, k, i

\* Once paging is on the kernel sees itself, and what it has handed out, at
\* its own addresses.
THEOREM KernelAlwaysSeesItself == Spec => []KernelSeesItself
<1>1. PageInv => KernelSeesItself
  <2> SUFFICES ASSUME PageInv, ptbr # 0,
                      NEW p \in 0 .. MetaPage \cup {q \in Pages : handed[q] > 0}
               PROVE  PageOf(Walk(p)) = p /\ Has(Walk(p), P) /\ Has(Walk(p), W)
    BY DEF KernelSeesItself
  <2>1. step \in Paging  BY DEF PageInv
  <2>2. /\ ptbr \in {MetaPage + 2, MetaPage + 9} /\ KernelRoot(ptbr) /\ KernelTables
    BY <2>1 DEF PageInv
  <2>3. p \in 0 .. UserPage - 1
    <3>1. UserPage \in Nat /\ MetaPage \in Nat /\ MetaPage < UserPage
      BY BootAssumption DEF UserPage
    <3> QED  BY <3>1 DEF Pages
  <2>4. Walk(p) = Entry(p, P + W)  BY <2>2, <2>3, WalkLow
  <2>5. p \in Nat /\ P + W # P + U  BY <2>3 DEF P, W, U
  <2> QED  BY <2>4, <2>5, EntryFacts
<1> QED  BY <1>1, PagesInvariant, PTL

-----------------------------------------------------------------------------
(* The code of the kernel *)

IsLabel(m) == calls[m].call = "label"
IsFixup(m) == calls[m].call \in Branches \cup {"li"} /\ calls[m].name # "none"

\* The words in front of a call.
Words(m) == Cardinality({k \in 1 .. m - 1 : calls[k].call # "label"})

CallSet == [call : STRING, name : STRING, slot : STRING]

\* Every call but a label adds a word.
LEMMA WordsStep ==
  ASSUME calls \in Seq(CallSet)
  PROVE  /\ Words(1) = 0
         /\ \A m \in 1 .. Len(calls) + 1 : Words(m) \in Nat
         /\ \A m \in 1 .. Len(calls) :
               Words(m + 1) = IF IsLabel(m) THEN Words(m) ELSE Words(m) + 1
<1> DEFINE E(m) == {k \in 1 .. m - 1 : calls[k].call # "label"}
<1>1. \A m \in 1 .. Len(calls) + 1 : IsFiniteSet(E(m))
  <2> SUFFICES ASSUME NEW m \in 1 .. Len(calls) + 1 PROVE IsFiniteSet(E(m))
    OBVIOUS
  <2>1. IsFiniteSet(1 .. m - 1)  BY FS_Interval
  <2>2. E(m) \subseteq 1 .. m - 1  OBVIOUS
  <2> QED  BY <2>1, <2>2, FS_Subset
<1>2. \A m \in 1 .. Len(calls) + 1 : Words(m) = Cardinality(E(m))  BY DEF Words
<1>3. Words(1) = 0
  <2>1. E(1) = {} /\ 1 \in 1 .. Len(calls) + 1  OBVIOUS
  <2> QED  BY <1>2, <2>1, FS_EmptySet
<1>4. \A m \in 1 .. Len(calls) + 1 : Words(m) \in Nat
  BY <1>1, <1>2, FS_CardinalityType
<1>5. ASSUME NEW m \in 1 .. Len(calls)
      PROVE  Words(m + 1) = IF IsLabel(m) THEN Words(m) ELSE Words(m) + 1
  <2>1. m \in 1 .. Len(calls) + 1 /\ m + 1 \in 1 .. Len(calls) + 1  OBVIOUS
  <2>2. CASE IsLabel(m)
    <3>1. E(m + 1) = E(m)  BY <2>2 DEF IsLabel
    <3> QED  BY <1>2, <2>1, <2>2, <3>1
  <2>3. CASE ~IsLabel(m)
    <3>1. E(m + 1) = E(m) \cup {m} /\ m \notin E(m)  BY <2>3 DEF IsLabel
    <3>2. Cardinality(E(m) \cup {m}) = Cardinality(E(m)) + 1
      BY <1>1, <2>1, <3>1, FS_AddElement
    <3>3. Words(m + 1) = Cardinality(E(m + 1)) /\ Words(m) = Cardinality(E(m))
      BY <1>2, <2>1
    <3> QED  BY <2>3, <3>1, <3>2, <3>3
  <2> QED  BY <2>2, <2>3
<1> QED  BY <1>3, <1>4, <1>5

\* The words in front of a call are no fewer than those in front of an earlier
\* one, and more when that one is a word.
LEMMA WordsOrder ==
  ASSUME calls \in Seq(CallSet)
  PROVE  /\ \A m, n \in 1 .. Len(calls) + 1 : m <= n => Words(m) <= Words(n)
         /\ \A m \in 1 .. Len(calls) : \A n \in 1 .. Len(calls) + 1 :
               m < n /\ ~IsLabel(m) => Words(m) < Words(n)
         /\ \A m, n \in 1 .. Len(calls) :
               ~IsLabel(m) /\ ~IsLabel(n) /\ Words(m) = Words(n) => m = n
         /\ \A m \in 1 .. Len(calls) + 1 : Words(m) <= m - 1
<1> DEFINE E(m) == {k \in 1 .. m - 1 : calls[k].call # "label"}
<1>1. ASSUME NEW m \in 1 .. Len(calls) + 1, NEW n \in 1 .. Len(calls) + 1, m <= n
      PROVE  Words(m) <= Words(n)
  <2>1. IsFiniteSet(1 .. n - 1)  BY FS_Interval
  <2>2. E(n) \subseteq 1 .. n - 1  OBVIOUS
  <2>3. IsFiniteSet(E(n))  BY <2>1, <2>2, FS_Subset
  <2>4. E(m) \subseteq E(n)  BY <1>1
  <2>5. Cardinality(E(m)) <= Cardinality(E(n))  BY <2>3, <2>4, FS_Subset
  <2> QED  BY <2>5 DEF Words
<1>2. ASSUME NEW m \in 1 .. Len(calls), NEW n \in 1 .. Len(calls) + 1, m < n, ~IsLabel(m)
      PROVE  Words(m) < Words(n)
  <2>1. m + 1 \in 1 .. Len(calls) + 1 /\ m \in 1 .. Len(calls) + 1 /\ m + 1 <= n  BY <1>2
  <2>2. Words(m + 1) <= Words(n)  BY <1>1, <2>1
  <2>3. Words(m + 1) = Words(m) + 1 /\ Words(m) \in Nat /\ Words(n) \in Nat
    BY <1>2, <2>1, WordsStep
  <2> QED  BY <2>2, <2>3
<1>3. ASSUME NEW m \in 1 .. Len(calls), NEW n \in 1 .. Len(calls), ~IsLabel(m), ~IsLabel(n),
             Words(m) = Words(n)
      PROVE  m = n
  <2>1. m \in 1 .. Len(calls) + 1 /\ n \in 1 .. Len(calls) + 1  OBVIOUS
  <2>2. Words(m) \in Nat /\ Words(n) \in Nat  BY <2>1, WordsStep
  <2>3. ~(m < n) /\ ~(n < m)  BY <1>2, <1>3, <2>1, <2>2
  <2> QED  BY <2>1, <2>3
<1>4. ASSUME NEW m \in 1 .. Len(calls) + 1
      PROVE  Words(m) <= m - 1
  <2>1. IsFiniteSet(1 .. m - 1) /\ Cardinality(1 .. m - 1) = m - 1
    <3>1. 1 \in Int /\ m - 1 \in Int  OBVIOUS
    <3>2. /\ IsFiniteSet(1 .. m - 1)
          /\ Cardinality(1 .. m - 1) = IF 1 > m - 1 THEN 0 ELSE (m - 1) - 1 + 1
      BY <3>1, FS_Interval
    <3> QED  BY <3>2
  <2>2. E(m) \subseteq 1 .. m - 1  OBVIOUS
  <2>3. Cardinality(E(m)) <= m - 1  BY <2>1, <2>2, FS_Subset
  <2> QED  BY <2>3 DEF Words
<1> QED  BY <1>1, <1>2, <1>3, <1>4

\* A sequence, whatever its elements.
IsSeq(s) == s \in Seq({s[i] : i \in DOMAIN s})

\* The calls made so far.
Done == IF kphase = "emit" THEN at - 1 ELSE Len(calls)

Word == [op : STRING, rd : Int, rs1 : Int, rs2 : Int, imm : Nat]

\* Every call but a label has left its word.
CodeInv ==
  /\ code \in Seq(Word) /\ Len(code) = Words(Done + 1)
  /\ \A m \in 1 .. Done : ~IsLabel(m) => code[Words(m) + 1].op = calls[m].call

\* A label is where it was last defined.
LastLabel(l, m) ==
  /\ IsLabel(m) /\ calls[m].name = l
  /\ \A k \in m + 1 .. Done : ~(IsLabel(k) /\ calls[k].name = l)
NamesInv ==
  /\ \A m \in 1 .. Done : IsLabel(m) => calls[m].name \in DOMAIN names
  /\ \A l \in DOMAIN names : \E m \in 1 .. Done : LastLabel(l, m) /\ names[l] = Words(m)

\* The fixups are the calls that name a label.
FixInv ==
  /\ unresolved \in Seq(Nat \X STRING)
  /\ \A u \in DOMAIN unresolved : \E m \in 1 .. Done :
        IsFixup(m) /\ unresolved[u] = <<Words(m), calls[m].name>>
  /\ \A m \in 1 .. Done : IsFixup(m) =>
        \E u \in DOMAIN unresolved : unresolved[u] = <<Words(m), calls[m].name>>

\* A slot is the place of a word that remembers it.
SlotInv ==
  /\ \A s \in DOMAIN slots : \E m \in 1 .. Done :
        ~IsLabel(m) /\ calls[m].slot = s /\ s # "none" /\ slots[s] = Words(m)
  /\ \A m \in 1 .. Done : ~IsLabel(m) /\ calls[m].slot # "none" => calls[m].slot \in DOMAIN slots

\* The fixups up to at are resolved.
ResolvedInv ==
  \A u \in DOMAIN unresolved :
     u < at => /\ unresolved[u][2] \in DOMAIN names
               /\ code[unresolved[u][1] + 1].imm =
                     FixupImm(unresolved[u][1], names[unresolved[u][2]]) % ImmSpan

\* The image is the code and the programs, and the slots say where they are.
LinkedInv ==
  /\ at > Len(unresolved) /\ Len(Programs) = 2
  /\ \A k \in 1 .. 2 : IsSeq(Programs[k]) /\ Len(Programs[k]) <= PageBytes
  /\ image = (Cells(code) \o Programs[1]) \o Programs[2]
  /\ \A s \in DOMAIN slots \cap PatchedSlots :
        code[slots[s] + 1].imm = PatchValue(s, Programs[1], Programs[2]) % ImmSpan

LinkInv ==
  /\ calls \in Kernels /\ BodyOf(variant, calls)
  /\ kphase \in {"emit", "resolve", "linked", "panic"}
  /\ at \in Nat \ {0} /\ (kphase = "emit" => at <= Len(calls) + 1)
  /\ CodeInv /\ NamesInv /\ FixInv /\ SlotInv
  /\ kphase \in {"resolve", "linked"} => ResolvedInv
  /\ kphase = "linked" => LinkedInv

\* What the kernel's calls are.
LEMMA CallFacts ==
  ASSUME calls \in Kernels
  PROVE  /\ calls \in Seq(CallSet) /\ Len(calls) \in Nat
         /\ \A m \in 1 .. Len(calls) : /\ calls[m].call \in STRING /\ calls[m].name \in STRING
                                       /\ calls[m].slot \in STRING
                                       /\ calls[m].slot # "none" => ~IsLabel(m) /\ ~IsFixup(m)
                                       /\ IsFixup(m) => ~IsLabel(m)
<1>1. /\ calls \in Seq([call : STRING, name : STRING, slot : STRING])
      /\ \A m \in DOMAIN calls :
            calls[m].slot # "none" => calls[m].call = "li" /\ calls[m].name = "none"
  BY KernelAssumption
<1>2. calls \in Seq(CallSet)  BY <1>1 DEF CallSet
<1>3. Len(calls) \in Nat /\ DOMAIN calls = 1 .. Len(calls)  BY <1>2
<1>4. ASSUME NEW m \in 1 .. Len(calls)
      PROVE  /\ calls[m].call \in STRING /\ calls[m].name \in STRING /\ calls[m].slot \in STRING
             /\ calls[m].slot # "none" => ~IsLabel(m) /\ ~IsFixup(m)
             /\ IsFixup(m) => ~IsLabel(m)
  <2>1. calls[m] \in CallSet  BY <1>2
  <2>2. /\ calls[m].call \in STRING /\ calls[m].name \in STRING /\ calls[m].slot \in STRING
    BY <2>1 DEF CallSet
  <2>3. calls[m].slot # "none" => ~IsLabel(m) /\ ~IsFixup(m)
    BY <1>1, <1>3 DEF IsLabel, IsFixup, Branches
  <2>4. IsFixup(m) => ~IsLabel(m)  BY DEF IsLabel, IsFixup, Branches
  <2> QED  BY <2>2, <2>3, <2>4
<1> QED  BY <1>2, <1>3, <1>4

\* The fixups after a call, where the calls are the same.
LEMMA FixNext ==
  ASSUME calls' = calls, unresolved' \in Seq(Nat \X STRING),
         \A m : Words(m)' = Words(m) /\ IsLabel(m)' = IsLabel(m) /\ IsFixup(m)' = IsFixup(m),
         \A u \in DOMAIN unresolved' : \E m \in 1 .. Done' :
            IsFixup(m) /\ unresolved'[u] = <<Words(m), calls[m].name>>,
         \A m \in 1 .. Done' : IsFixup(m) =>
            \E u \in DOMAIN unresolved' : unresolved'[u] = <<Words(m), calls[m].name>>
  PROVE  FixInv'
BY DEF FixInv

\* A label takes the place of an earlier one of its name.
LEMMA LabelKeeps ==
  ASSUME LinkInv, kphase = "emit", at <= Len(calls), Label(calls[at]), Next1,
         kphase' = kphase, variant' = variant
  PROVE  LinkInv'
<1>1. /\ calls \in Kernels /\ calls' = calls /\ at \in 1 .. Len(calls) /\ at' = at + 1
      /\ code' = code /\ unresolved' = unresolved /\ slots' = slots
      /\ names' = With(names, calls[at].name, Len(code))
      /\ IsLabel(at) /\ Done = at - 1 /\ Done' = at
      /\ CodeInv /\ NamesInv /\ FixInv /\ SlotInv /\ BodyOf(variant, calls)
  BY CallFacts DEF LinkInv, Label, Next1, Done, IsLabel
<1>2. /\ calls \in Seq(CallSet) /\ Len(calls) \in Nat
      /\ Words(at) \in Nat /\ Words(at + 1) = Words(at) /\ Len(code) = Words(at)
  <2>1. calls \in Seq(CallSet) /\ Len(calls) \in Nat  BY <1>1, CallFacts
  <2>2. at \in 1 .. Len(calls) + 1 /\ at - 1 + 1 = at  BY <1>1, <2>1
  <2>3. Len(code) = Words(at)  BY <1>1, <2>2 DEF CodeInv
  <2> QED  BY <1>1, <2>1, <2>2, <2>3, WordsStep
<1>3. /\ \A m : Words(m)' = Words(m) /\ IsLabel(m)' = IsLabel(m) /\ IsFixup(m)' = IsFixup(m)
  BY <1>1 DEF Words, IsLabel, IsFixup
<1>4. 1 .. Done' = 1 .. Done \cup {at}  BY <1>1
<1>5. CodeInv'
  <2>1. Words(Done + 1)' = Len(code)
    <3>1. Words(Done + 1)' = Words(at + 1)  BY <1>1 DEF Words
    <3> QED  BY <1>2, <3>1
  <2> QED  BY <1>1, <1>3, <1>4, <2>1 DEF CodeInv
<1>6. FixInv'
  <2>1. \A m \in 1 .. Done' : IsFixup(m) => m \in 1 .. Done
    BY <1>1, <1>4 DEF IsLabel, IsFixup, Branches
  <2>2. /\ unresolved \in Seq(Nat \X STRING)
        /\ \A u \in DOMAIN unresolved : \E m \in 1 .. Done :
              IsFixup(m) /\ unresolved[u] = <<Words(m), calls[m].name>>
        /\ \A m \in 1 .. Done : IsFixup(m) =>
              \E u \in DOMAIN unresolved : unresolved[u] = <<Words(m), calls[m].name>>
    BY <1>1 DEF FixInv
  <2>3. /\ \A u \in DOMAIN unresolved : \E m \in 1 .. Done' :
              IsFixup(m) /\ unresolved[u] = <<Words(m), calls[m].name>>
        /\ \A m \in 1 .. Done' : IsFixup(m) =>
              \E u \in DOMAIN unresolved : unresolved[u] = <<Words(m), calls[m].name>>
    BY <1>4, <2>1, <2>2
  <2>4. unresolved' = unresolved /\ calls' = calls  BY <1>1
  <2> QED  BY <1>3, <2>2, <2>3, <2>4, FixNext
<1>7. SlotInv'
  <2>1. \A m \in 1 .. Done' : ~IsLabel(m) => m \in 1 .. Done  BY <1>1, <1>4
  <2> QED  BY <1>1, <1>3, <1>4, <2>1 DEF SlotInv
<1>8. NamesInv'
  <2>1. DOMAIN names' = DOMAIN names \cup {calls[at].name}
        /\ \A l \in DOMAIN names' : names'[l] = IF l = calls[at].name THEN Len(code) ELSE names[l]
    BY <1>1 DEF With
  <2>2. \A m \in 1 .. Done' : IsLabel(m) => calls[m].name \in DOMAIN names'
    BY <1>1, <1>4, <2>1 DEF NamesInv
  <2>3. ASSUME NEW l, l = calls[at].name, NEW m \in 1 .. Done', m = at
        PROVE  LastLabel(l, m)'
    <3>1. m + 1 .. Done' = {}  BY <1>1, <2>3
    <3>2. IsLabel(m)  BY <1>1, <2>3
    <3>3. calls'[m].name = l  BY <1>1, <2>3
    <3> QED  BY <1>3, <3>1, <3>2, <3>3 DEF LastLabel
  <2>4. ASSUME NEW l \in DOMAIN names, l # calls[at].name, NEW m \in 1 .. Done, LastLabel(l, m)
        PROVE  LastLabel(l, m)'
    <3>1. IsLabel(m) /\ calls[m].name = l
          /\ \A k \in m + 1 .. Done : ~(IsLabel(k) /\ calls[k].name = l)
      BY <2>4 DEF LastLabel
    <3>2. m + 1 .. Done' = m + 1 .. Done \cup {at}  BY <1>1
    <3> QED  BY <1>1, <1>3, <2>4, <3>1, <3>2 DEF LastLabel
  <2>5. ASSUME NEW l \in DOMAIN names'
        PROVE  \E m \in 1 .. Done' : LastLabel(l, m)' /\ names'[l] = Words(m)
    <3>1. CASE l = calls[at].name
      <4>1. PICK m \in 1 .. Done' : m = at  BY <1>1
      <4>2. LastLabel(l, m)'  BY <2>3, <3>1, <4>1
      <4>3. names'[l] = Words(m)  BY <1>1, <1>2, <2>1, <3>1, <4>1
      <4> QED  BY <4>2, <4>3
    <3>2. CASE l # calls[at].name
      <4>1. l \in DOMAIN names /\ names'[l] = names[l]  BY <2>1, <3>2
      <4>2. PICK m \in 1 .. Done : LastLabel(l, m) /\ names[l] = Words(m)
        BY <4>1 DEF NamesInv, LinkInv
      <4>3. LastLabel(l, m)'  BY <2>4, <3>2, <4>1, <4>2
      <4> QED  BY <1>4, <4>1, <4>2, <4>3
    <3> QED  BY <3>1, <3>2
  <2> QED  BY <1>1, <1>3, <2>2, <2>5 DEF NamesInv
<1>9. kphase' = "emit" /\ at' \in Nat \ {0} /\ at' <= Len(calls') + 1  BY <1>1, <1>2
<1>10. calls' \in Kernels /\ BodyOf(variant, calls)'  BY <1>1
<1> QED  BY <1>5, <1>6, <1>7, <1>8, <1>9, <1>10 DEF LinkInv

\* A word, its fixup and its slot.
LEMMA EmitKeeps ==
  ASSUME LinkInv, kphase = "emit", at <= Len(calls), Emit(calls[at]), Next1,
         kphase' = kphase, variant' = variant
  PROVE  LinkInv'
<1>1. /\ calls \in Kernels /\ calls' = calls /\ at \in 1 .. Len(calls) /\ at' = at + 1
      /\ names' = names /\ ~IsLabel(at) /\ Done = at - 1 /\ Done' = at
      /\ CodeInv /\ NamesInv /\ FixInv /\ SlotInv /\ BodyOf(variant, calls)
      /\ code' = Append(code, Encode(calls[at].call, 0, 0, 0, 0))
      /\ unresolved' = IF IsFixup(at) THEN Append(unresolved, <<Len(code), calls[at].name>>)
                       ELSE unresolved
      /\ slots' = IF calls[at].slot = "none" THEN slots
                  ELSE With(slots, calls[at].slot, Len(code))
  BY CallFacts DEF LinkInv, Emit, Next1, Done, IsLabel, IsFixup
<1>2. /\ calls \in Seq(CallSet) /\ Len(calls) \in Nat /\ code \in Seq(Word)
      /\ Words(at) \in Nat /\ Words(at + 1) = Words(at) + 1 /\ Len(code) = Words(at)
      /\ calls[at].call \in STRING /\ calls[at].name \in STRING
  <2>1. calls \in Seq(CallSet) /\ Len(calls) \in Nat
        /\ calls[at].call \in STRING /\ calls[at].name \in STRING
    BY <1>1, CallFacts
  <2>2. at \in 1 .. Len(calls) + 1 /\ at - 1 + 1 = at  BY <1>1, <2>1
  <2>3. Len(code) = Words(at) /\ code \in Seq(Word)  BY <1>1, <2>2 DEF CodeInv
  <2> QED  BY <1>1, <2>1, <2>2, <2>3, WordsStep
<1>3. /\ \A m : Words(m)' = Words(m) /\ IsLabel(m)' = IsLabel(m) /\ IsFixup(m)' = IsFixup(m)
  BY <1>1 DEF Words, IsLabel, IsFixup
<1>4. 1 .. Done' = 1 .. Done \cup {at}  BY <1>1
<1>5. CodeInv'
  <2> DEFINE w == Encode(calls[at].call, 0, 0, 0, 0)
  <2>1. w \in Word /\ w.op = calls[at].call
    <3>1. 0 % ImmSpan \in Nat  BY IsaAssumption
    <3> QED  BY <1>2, <3>1 DEF Encode, Word
  <2> HIDE DEF w
  <2>2. code' = Append(code, w)  BY <1>1 DEF w
  <2>3. code' \in Seq(Word) /\ Len(code') = Words(at) + 1  BY <1>2, <2>1, <2>2
  <2>4. Words(Done + 1)' = Words(at) + 1
    <3>1. Words(Done + 1)' = Words(at + 1)  BY <1>1 DEF Words
    <3> QED  BY <1>2, <3>1
  <2>5. ASSUME NEW m \in 1 .. Done', ~IsLabel(m)
        PROVE  code'[Words(m) + 1].op = calls[m].call
    <3>1. CASE m = at
      <4>1. code \in Seq(Word)  BY <1>2
      <4>2. code'[Len(code) + 1] = w  BY <2>1, <2>2, <4>1
      <4>3. Words(m) + 1 = Len(code) + 1  BY <1>2, <3>1
      <4> QED  BY <2>1, <3>1, <4>2, <4>3
    <3>2. CASE m # at
      <4>1. m \in 1 .. Done /\ m \in 1 .. Len(calls) /\ m \in 1 .. Len(calls) + 1
            /\ m < at /\ at \in 1 .. Len(calls) + 1
        BY <1>1, <1>2, <3>2
      <4>2. Words(m) < Words(at) /\ Words(m) \in Nat
        BY <1>2, <2>5, <4>1, WordsOrder, WordsStep
      <4>3. Words(m) + 1 \in 1 .. Len(code)  BY <1>2, <4>2
      <4>4. code'[Words(m) + 1] = code[Words(m) + 1]  BY <1>2, <2>1, <2>2, <4>3
      <4> QED  BY <1>1, <2>5, <4>1, <4>4 DEF CodeInv
    <3> QED  BY <3>1, <3>2
  <2> QED  BY <1>1, <1>3, <2>3, <2>4, <2>5 DEF CodeInv
<1>6. FixInv'
  <2> DEFINE f == <<Len(code), calls[at].name>>
  <2>1. f \in Nat \X STRING /\ f = <<Words(at), calls[at].name>>  BY <1>2
  <2> HIDE DEF f
  <2>2. unresolved \in Seq(Nat \X STRING)  BY <1>1 DEF FixInv
  <2>3. CASE ~IsFixup(at)
    <3>1. unresolved' = unresolved  BY <1>1, <2>3
    <3>2. \A m \in 1 .. Done' : IsFixup(m) => m \in 1 .. Done  BY <1>1, <1>4, <2>3
    <3>3. \A u \in DOMAIN unresolved : \E m \in 1 .. Done' :
             IsFixup(m) /\ unresolved[u] = <<Words(m), calls[m].name>>
      BY <1>1, <1>4 DEF FixInv
    <3>4. \A m \in 1 .. Done' : IsFixup(m) =>
             \E u \in DOMAIN unresolved : unresolved[u] = <<Words(m), calls[m].name>>
      BY <1>1, <3>2 DEF FixInv
    <3>5. /\ unresolved' \in Seq(Nat \X STRING)
          /\ \A u \in DOMAIN unresolved' : \E m \in 1 .. Done' :
                IsFixup(m) /\ unresolved'[u] = <<Words(m), calls[m].name>>
          /\ \A m \in 1 .. Done' : IsFixup(m) =>
                \E u \in DOMAIN unresolved' : unresolved'[u] = <<Words(m), calls[m].name>>
      BY <2>2, <3>1, <3>3, <3>4
    <3>6. calls' = calls  BY <1>1
    <3> QED  BY <1>3, <3>5, <3>6, FixNext
  <2>4. CASE IsFixup(at)
    <3>1. unresolved' = Append(unresolved, f)  BY <1>1, <2>4 DEF f
    <3>2. /\ unresolved' \in Seq(Nat \X STRING) /\ Len(unresolved') = Len(unresolved) + 1
          /\ unresolved'[Len(unresolved) + 1] = f
          /\ \A u \in 1 .. Len(unresolved) : unresolved'[u] = unresolved[u]
      BY <2>1, <2>2, <3>1
    <3>3. /\ DOMAIN unresolved = 1 .. Len(unresolved) /\ Len(unresolved) \in Nat
          /\ DOMAIN unresolved' = 1 .. Len(unresolved) + 1
      BY <2>2, <3>2
    <3>4. ASSUME NEW u \in DOMAIN unresolved'
          PROVE  \E m \in 1 .. Done' :
                    IsFixup(m) /\ unresolved'[u] = <<Words(m), calls[m].name>>
      <4>1. CASE u \in DOMAIN unresolved
        <5>1. PICK m \in 1 .. Done : IsFixup(m) /\ unresolved[u] = <<Words(m), calls[m].name>>
          BY <1>1, <4>1 DEF FixInv
        <5> QED  BY <1>4, <3>2, <3>3, <4>1, <5>1
      <4>2. CASE u \notin DOMAIN unresolved
        <5>1. u = Len(unresolved) + 1  BY <3>3, <4>2
        <5> QED  BY <1>4, <2>1, <2>4, <3>2, <5>1
      <4> QED  BY <4>1, <4>2
    <3>5. ASSUME NEW m \in 1 .. Done', IsFixup(m)
          PROVE  \E u \in DOMAIN unresolved' : unresolved'[u] = <<Words(m), calls[m].name>>
      <4>1. CASE m = at
        <5>1. Len(unresolved) + 1 \in DOMAIN unresolved'  BY <3>3
        <5> QED  BY <2>1, <3>2, <4>1, <5>1
      <4>2. CASE m # at
        <5>1. m \in 1 .. Done  BY <1>4, <4>2
        <5>2. PICK u \in DOMAIN unresolved : unresolved[u] = <<Words(m), calls[m].name>>
          BY <1>1, <3>5, <5>1 DEF FixInv
        <5>3. u \in DOMAIN unresolved' /\ unresolved'[u] = unresolved[u]  BY <3>2, <3>3
        <5> QED  BY <5>2, <5>3
      <4> QED  BY <4>1, <4>2
    <3>6. calls' = calls  BY <1>1
    <3>7. unresolved' \in Seq(Nat \X STRING)  BY <3>2
    <3>8. \A m \in 1 .. Done' : IsFixup(m) =>
             \E u \in DOMAIN unresolved' : unresolved'[u] = <<Words(m), calls[m].name>>
      BY <3>5
    <3> QED  BY <1>3, <3>4, <3>6, <3>7, <3>8, FixNext
  <2> QED  BY <2>3, <2>4
<1>7. SlotInv'
  <2>1. CASE calls[at].slot = "none"
    <3>1. slots' = slots  BY <1>1, <2>1
    <3> QED  BY <1>1, <1>3, <1>4, <2>1, <3>1 DEF SlotInv
  <2>2. CASE calls[at].slot # "none"
    <3>1. slots' = With(slots, calls[at].slot, Len(code))  BY <1>1, <2>2
    <3>2. DOMAIN slots' = DOMAIN slots \cup {calls[at].slot}
          /\ \A s \in DOMAIN slots' : slots'[s] = IF s = calls[at].slot THEN Len(code) ELSE slots[s]
      BY <3>1 DEF With
    <3>3. ASSUME NEW s \in DOMAIN slots'
          PROVE  \E m \in 1 .. Done' :
                    ~IsLabel(m) /\ calls[m].slot = s /\ s # "none" /\ slots'[s] = Words(m)
      <4>1. CASE s = calls[at].slot
        BY <1>1, <1>2, <1>4, <2>2, <3>2, <4>1
      <4>2. CASE s # calls[at].slot
        BY <1>1, <1>4, <3>2, <4>2 DEF SlotInv
      <4> QED  BY <4>1, <4>2
    <3>4. ASSUME NEW m \in 1 .. Done', ~IsLabel(m), calls[m].slot # "none"
          PROVE  calls[m].slot \in DOMAIN slots'
      BY <1>1, <1>4, <3>2, <3>4 DEF SlotInv
    <3> QED  BY <1>1, <1>3, <3>3, <3>4 DEF SlotInv
  <2> QED  BY <2>1, <2>2
<1>8. NamesInv'
  <2>1. \A m \in 1 .. Done' : IsLabel(m) => m \in 1 .. Done  BY <1>1, <1>4
  <2>2. ASSUME NEW l, NEW m \in 1 .. Done, LastLabel(l, m)
        PROVE  LastLabel(l, m)'
    <3>1. IsLabel(m) /\ calls[m].name = l
          /\ \A k \in m + 1 .. Done : ~(IsLabel(k) /\ calls[k].name = l)
      BY <2>2 DEF LastLabel
    <3>2. m + 1 .. Done' = m + 1 .. Done \cup {at}  BY <1>1
    <3> QED  BY <1>1, <1>3, <3>1, <3>2 DEF LastLabel
  <2>3. ASSUME NEW l \in DOMAIN names'
        PROVE  \E m \in 1 .. Done' : LastLabel(l, m)' /\ names'[l] = Words(m)
    <3>1. l \in DOMAIN names  BY <1>1
    <3>2. PICK m \in 1 .. Done : LastLabel(l, m) /\ names[l] = Words(m)
      BY <1>1, <3>1 DEF NamesInv
    <3>3. LastLabel(l, m)'  BY <2>2, <3>2
    <3> QED  BY <1>1, <1>4, <3>2, <3>3
  <2> QED  BY <1>1, <1>3, <1>4, <2>1, <2>3 DEF NamesInv
<1>9. kphase' = "emit" /\ at' \in Nat \ {0} /\ at' <= Len(calls') + 1  BY <1>1, <1>2
<1>10. calls' \in Kernels /\ BodyOf(variant, calls)'  BY <1>1
<1> QED  BY <1>5, <1>6, <1>7, <1>8, <1>9, <1>10 DEF LinkInv

\* Where the words of a fixup and of a slot are.
LEMMA Places ==
  ASSUME LinkInv, kphase # "emit"
  PROVE  /\ code \in Seq(Word) /\ Done = Len(calls)
         /\ \A m \in 1 .. Len(calls) : ~IsLabel(m) => Words(m) \in Nat /\ Words(m) + 1 \in DOMAIN code
         /\ \A u \in DOMAIN unresolved :
               /\ unresolved[u][1] \in Nat /\ unresolved[u][1] + 1 \in DOMAIN code
               /\ \E m \in 1 .. Len(calls) :
                     IsFixup(m) /\ unresolved[u] = <<Words(m), calls[m].name>>
         /\ \A s \in DOMAIN slots : slots[s] \in Nat /\ slots[s] + 1 \in DOMAIN code
         /\ \A s \in DOMAIN slots, r \in DOMAIN slots : slots[s] = slots[r] => s = r
         /\ \A s \in DOMAIN slots : \A u \in DOMAIN unresolved : slots[s] # unresolved[u][1]
<1>1. /\ calls \in Kernels /\ Done = Len(calls) /\ CodeInv /\ FixInv /\ SlotInv
  BY DEF LinkInv, Done
<1>2. /\ calls \in Seq(CallSet) /\ Len(calls) \in Nat /\ code \in Seq(Word)
      /\ Len(code) = Words(Len(calls) + 1)
  BY <1>1, CallFacts DEF CodeInv
<1>3. ASSUME NEW m \in 1 .. Len(calls), ~IsLabel(m)
      PROVE  Words(m) \in Nat /\ Words(m) + 1 \in DOMAIN code
  <2>1. m \in 1 .. Len(calls) + 1 /\ Len(calls) + 1 \in 1 .. Len(calls) + 1
        /\ m < Len(calls) + 1
    BY <1>2
  <2>2. Words(m) < Words(Len(calls) + 1)  BY <1>2, <1>3, <2>1, WordsOrder
  <2>3. Words(m) \in Nat /\ Words(Len(calls) + 1) \in Nat  BY <1>2, <2>1, WordsStep
  <2>4. DOMAIN code = 1 .. Len(code)  BY <1>2
  <2> QED  BY <1>2, <2>2, <2>3, <2>4
<1>4. \A m \in 1 .. Len(calls) : /\ IsFixup(m) => ~IsLabel(m)
                                 /\ calls[m].slot # "none" => ~IsFixup(m)
  BY <1>1, CallFacts
<1>5. ASSUME NEW u \in DOMAIN unresolved
      PROVE  \E m \in 1 .. Len(calls) :
                IsFixup(m) /\ unresolved[u] = <<Words(m), calls[m].name>>
  BY <1>1 DEF FixInv
<1>6. ASSUME NEW s \in DOMAIN slots
      PROVE  \E m \in 1 .. Len(calls) :
                ~IsLabel(m) /\ calls[m].slot = s /\ s # "none" /\ slots[s] = Words(m)
  BY <1>1 DEF SlotInv
<1>7. ASSUME NEW m \in 1 .. Len(calls), NEW n \in 1 .. Len(calls),
             ~IsLabel(m), ~IsLabel(n), Words(m) = Words(n)
      PROVE  m = n
  BY <1>2, <1>7, WordsOrder
<1>8. ASSUME NEW u \in DOMAIN unresolved
      PROVE  unresolved[u][1] \in Nat /\ unresolved[u][1] + 1 \in DOMAIN code
  <2>1. PICK m \in 1 .. Len(calls) :
                IsFixup(m) /\ unresolved[u] = <<Words(m), calls[m].name>>
    BY <1>5
  <2>2. unresolved[u][1] = Words(m) /\ ~IsLabel(m)  BY <1>4, <2>1
  <2> QED  BY <1>3, <2>2
<1>9. ASSUME NEW s \in DOMAIN slots
      PROVE  slots[s] \in Nat /\ slots[s] + 1 \in DOMAIN code
  BY <1>3, <1>6
<1>10. ASSUME NEW s \in DOMAIN slots, NEW r \in DOMAIN slots, slots[s] = slots[r]
       PROVE  s = r
  <2>1. PICK m \in 1 .. Len(calls) :
                ~IsLabel(m) /\ calls[m].slot = s /\ s # "none" /\ slots[s] = Words(m)
    BY <1>6
  <2>2. PICK n \in 1 .. Len(calls) :
                ~IsLabel(n) /\ calls[n].slot = r /\ r # "none" /\ slots[r] = Words(n)
    BY <1>6
  <2>3. m = n  BY <1>7, <1>10, <2>1, <2>2
  <2> QED  BY <2>1, <2>2, <2>3
<1>11. ASSUME NEW s \in DOMAIN slots, NEW u \in DOMAIN unresolved, slots[s] = unresolved[u][1]
       PROVE  FALSE
  <2>1. PICK m \in 1 .. Len(calls) :
                ~IsLabel(m) /\ calls[m].slot = s /\ s # "none" /\ slots[s] = Words(m)
    BY <1>6
  <2>2. PICK n \in 1 .. Len(calls) :
                IsFixup(n) /\ unresolved[u] = <<Words(n), calls[n].name>>
    BY <1>5
  <2>3. unresolved[u][1] = Words(n) /\ ~IsLabel(n)  BY <1>4, <2>2
  <2>4. m = n  BY <1>7, <1>11, <2>1, <2>3
  <2> QED  BY <1>4, <2>1, <2>2, <2>4
<1> QED  BY <1>1, <1>2, <1>3, <1>5, <1>8, <1>9, <1>10, <1>11

\* The fixups are still to be resolved.
LEMMA EndKeeps ==
  ASSUME LinkInv, EndOfCalls, variant' = variant
  PROVE  LinkInv'
<1>1. /\ kphase = "emit" /\ kphase' = "resolve" /\ at' = 1 /\ at = Len(calls) + 1
      /\ UNCHANGED <<calls, code, names, unresolved, slots, image, variant>>
      /\ calls \in Kernels /\ BodyOf(variant, calls)
      /\ CodeInv /\ NamesInv /\ FixInv /\ SlotInv /\ Len(calls) \in Nat
  BY CallFacts DEF LinkInv, EndOfCalls
<1>2. Done' = Done  BY <1>1 DEF Done
<1>3. \A m : Words(m)' = Words(m) /\ IsLabel(m)' = IsLabel(m) /\ IsFixup(m)' = IsFixup(m)
  BY <1>1 DEF Words, IsLabel, IsFixup
<1>4. CodeInv'
  <2>1. Words(Done + 1)' = Words(Done + 1)  BY <1>1, <1>2 DEF Words
  <2> QED  BY <1>1, <1>2, <1>3, <2>1 DEF CodeInv
<1>5. NamesInv'
  <2>1. \A l, m : LastLabel(l, m) => LastLabel(l, m)'
    BY <1>1, <1>2 DEF LastLabel, IsLabel
  <2> QED  BY <1>1, <1>2, <1>3, <2>1 DEF NamesInv
<1>6. FixInv' /\ SlotInv'
  BY <1>1, <1>2, <1>3 DEF FixInv, SlotInv
<1>7. ResolvedInv'
  <2>1. \A u \in DOMAIN unresolved' : u \in Nat /\ u >= 1  BY <1>1 DEF FixInv
  <2>2. \A u \in DOMAIN unresolved' : ~(u < at')  BY <1>1, <2>1
  <2> QED  BY <2>2 DEF ResolvedInv
<1> QED  BY <1>1, <1>4, <1>5, <1>6, <1>7 DEF LinkInv, BodyOf

\* Patching words leaves their opcodes, and what does not depend on them.
LEMMA PatchKeeps ==
  ASSUME LinkInv, kphase # "emit", kphase' # "emit", code' \in Seq(Word),
         Len(code') = Len(code), \A k \in DOMAIN code : code'[k].op = code[k].op,
         UNCHANGED <<calls, names, unresolved, slots, variant>>
  PROVE  /\ calls' \in Kernels /\ BodyOf(variant, calls)'
         /\ CodeInv' /\ NamesInv' /\ FixInv' /\ SlotInv'
<1>1. /\ calls \in Kernels /\ BodyOf(variant, calls)
      /\ CodeInv /\ NamesInv /\ FixInv /\ SlotInv /\ Len(calls) \in Nat
      /\ Done' = Done /\ Done = Len(calls)
  BY CallFacts DEF LinkInv, Done
<1>2. \A m : Words(m)' = Words(m) /\ IsLabel(m)' = IsLabel(m) /\ IsFixup(m)' = IsFixup(m)
  BY DEF Words, IsLabel, IsFixup
<1>3. CodeInv'
  <2>1. Words(Done + 1)' = Words(Done + 1)  BY <1>1 DEF Words
  <2>2. \A m \in 1 .. Done : ~IsLabel(m) => Words(m) + 1 \in DOMAIN code  BY <1>1, Places
  <2> QED  BY <1>1, <1>2, <2>1, <2>2 DEF CodeInv
<1>4. NamesInv'
  <2>1. \A l, m : LastLabel(l, m) => LastLabel(l, m)'
    BY <1>1 DEF LastLabel, IsLabel
  <2> QED  BY <1>1, <1>2, <2>1 DEF NamesInv
<1>5. FixInv' /\ SlotInv'
  BY <1>1, <1>2 DEF FixInv, SlotInv
<1> QED  BY <1>1, <1>3, <1>4, <1>5 DEF BodyOf

\* A word whose immediate is replaced is a word.
LEMMA PatchedWord ==
  ASSUME NEW w \in Word, NEW n \in Int
  PROVE  /\ Patched(w, n) \in Word /\ Patched(w, n).op = w.op
         /\ Patched(w, n).imm = n % ImmSpan
<1>1. n % ImmSpan \in Nat  BY IsaAssumption
<1>2. DOMAIN w = {"op", "rd", "rs1", "rs2", "imm"}  BY DEF Word
<1>3. Patched(w, n) = [w EXCEPT !.imm = n % ImmSpan]  BY DEF Patched
<1> QED  BY <1>1, <1>2, <1>3 DEF Word

\* The words a label's place fills are in range.
LEMMA NamePlaces ==
  ASSUME LinkInv, NEW l \in DOMAIN names
  PROVE  names[l] \in Nat
<1>1. PICK m \in 1 .. Done : names[l] = Words(m)  BY DEF LinkInv, NamesInv
<1>2. /\ Done <= Len(calls) /\ Done \in Int /\ Len(calls) \in Nat /\ calls \in Seq(CallSet)
  BY CallFacts DEF LinkInv, Done
<1>3. m \in 1 .. Len(calls) + 1  BY <1>2
<1> QED  BY <1>1, <1>2, <1>3, WordsStep

\* The immediate of a fixup is an integer, and only the opcode tells which.
LEMMA FixupImmFacts ==
  ASSUME LinkInv, kphase # "emit", NEW u \in DOMAIN unresolved,
         unresolved[u][2] \in DOMAIN names
  PROVE  FixupImm(unresolved[u][1], names[unresolved[u][2]]) \in Int
<1>1. unresolved[u][1] \in Nat /\ names[unresolved[u][2]] \in Nat
  BY Places, NamePlaces
<1>2. WordBytes \in Nat /\ LoadAddr \in Nat  BY IsaAssumption, KernelAssumption
<1> QED  BY <1>1, <1>2 DEF FixupImm

\* A fixup is resolved, or the kernel names no such label.
LEMMA FixupKeeps ==
  ASSUME LinkInv, Fixup, variant' = variant
  PROVE  LinkInv'
<1> DEFINE idx == unresolved[at][1]
           target == unresolved[at][2]
<1>1. /\ kphase = "resolve" /\ at <= Len(unresolved) /\ at' = at + 1 /\ at \in Nat \ {0}
      /\ UNCHANGED <<calls, image, names, unresolved, slots, variant>>
      /\ kphase' \in {"resolve", "panic"} /\ unresolved \in Seq(Nat \X STRING)
      /\ ResolvedInv
  BY DEF Fixup, Next1, LinkInv, FixInv
<1>2. at \in DOMAIN unresolved  BY <1>1
<1>3. /\ code \in Seq(Word) /\ idx + 1 \in DOMAIN code /\ idx \in Nat
      /\ \A u \in DOMAIN unresolved : unresolved[u][1] + 1 \in DOMAIN code
  BY <1>1, <1>2, Places
<1>4. CASE target \notin DOMAIN names
  <2>1. code' = code /\ kphase' = "panic"  BY <1>1, <1>4 DEF Fixup
  <2>2. /\ calls' \in Kernels /\ BodyOf(variant, calls)'
        /\ CodeInv' /\ NamesInv' /\ FixInv' /\ SlotInv'
    BY <1>1, <1>3, <2>1, PatchKeeps
  <2> QED  BY <1>1, <2>1, <2>2 DEF LinkInv
<1>5. CASE target \in DOMAIN names
  <2> DEFINE n == FixupImm(idx, names[target])
             w == Patched(code[idx + 1], n)
  <2>1. code' = [code EXCEPT ![idx + 1] = w] /\ kphase' = "resolve"
    BY <1>1, <1>5 DEF Fixup
  <2>2. n \in Int  BY <1>1, <1>2, <1>5, FixupImmFacts
  <2>3. w \in Word /\ w.op = code[idx + 1].op /\ w.imm = n % ImmSpan
    <3>1. code[idx + 1] \in Word  BY <1>3
    <3> QED  BY <2>2, <3>1, PatchedWord
  <2> HIDE DEF w, idx, target
  <2>4. /\ code' \in Seq(Word) /\ Len(code') = Len(code)
        /\ code'[idx + 1] = w
        /\ \A k \in DOMAIN code : k # idx + 1 => code'[k] = code[k]
    BY <1>3, <2>1, <2>3
  <2>5. \A k \in DOMAIN code : code'[k].op = code[k].op
    BY <2>3, <2>4
  <2>6. /\ calls' \in Kernels /\ BodyOf(variant, calls)'
        /\ CodeInv' /\ NamesInv' /\ FixInv' /\ SlotInv'
    BY <1>1, <2>1, <2>4, <2>5, PatchKeeps
  <2>7. ASSUME NEW u \in DOMAIN unresolved, u < at + 1
        PROVE  /\ unresolved[u][2] \in DOMAIN names
               /\ code'[unresolved[u][1] + 1].imm =
                     FixupImm(unresolved[u][1], names[unresolved[u][2]]) % ImmSpan
    <3>1. CASE unresolved[u][1] = idx
      <4>1. PICK m \in 1 .. Len(calls) :
                IsFixup(m) /\ unresolved[u] = <<Words(m), calls[m].name>>
        BY <1>1, Places
      <4>2. PICK k \in 1 .. Len(calls) :
                IsFixup(k) /\ unresolved[at] = <<Words(k), calls[k].name>>
        BY <1>1, <1>2, Places
      <4>3. Words(m) = Words(k)  BY <3>1, <4>1, <4>2 DEF idx
      <4>4. m = k
        <5>1. calls \in Seq(CallSet) /\ ~IsLabel(m) /\ ~IsLabel(k)
          BY <4>1, <4>2, CallFacts DEF LinkInv
        <5> QED  BY <4>3, <5>1, WordsOrder
      <4>5. unresolved[u][2] = target  BY <4>1, <4>2, <4>4 DEF target
      <4> QED  BY <1>5, <2>3, <2>4, <3>1, <4>5
    <3>2. CASE unresolved[u][1] # idx
      <4>1. u # at  BY <3>2 DEF idx
      <4>2. u < at
        <5>1. u \in Nat /\ at \in Nat  BY <1>1
        <5> QED  BY <2>7, <4>1, <5>1
      <4>3. unresolved[u][1] + 1 \in DOMAIN code /\ unresolved[u][1] + 1 # idx + 1
        BY <1>1, <1>3, <3>2, Places
      <4> QED  BY <1>1, <2>4, <4>2, <4>3 DEF ResolvedInv
    <3> QED  BY <3>1, <3>2
  <2>8. ResolvedInv'
    <3>1. \A u \in DOMAIN unresolved : unresolved[u][1] + 1 \in DOMAIN code  BY <1>3
    <3>2. \A u \in DOMAIN unresolved : \A t :
             FixupImm(unresolved[u][1], t)' = FixupImm(unresolved[u][1], t)
      BY <1>1, <2>5, <3>1 DEF FixupImm
    <3> QED  BY <1>1, <2>7, <3>2 DEF ResolvedInv
  <2> QED  BY <1>1, <2>1, <2>6, <2>8 DEF LinkInv
<1> QED  BY <1>4, <1>5

\* A function on 1 .. n is a sequence.
LEMMA FunSeq ==
  ASSUME NEW s, NEW n \in Nat, DOMAIN s = 1 .. n, s = [i \in 1 .. n |-> s[i]]
  PROVE  IsSeq(s) /\ Len(s) = n
<1> DEFINE S == {s[i] : i \in DOMAIN s}
<1>1. \A i \in 1 .. n : s[i] \in S  OBVIOUS
<1> HIDE DEF S
<1>2. s \in [1 .. n -> S]  BY <1>1
<1>3. s \in Seq(S) /\ Len(s) = n  BY <1>2
<1> QED  BY <1>3 DEF IsSeq, S

\* A sequence of the elements of any set.
LEMMA SeqIn ==
  ASSUME NEW S, NEW s \in Seq(S)
  PROVE  /\ IsSeq(s) /\ Len(s) \in Nat /\ DOMAIN s = 1 .. Len(s)
<1>1. /\ Len(s) \in Nat /\ DOMAIN s = 1 .. Len(s) /\ s = [i \in 1 .. Len(s) |-> s[i]]  OBVIOUS
<1> QED  BY <1>1, FunSeq

\* What a sequence is.
LEMMA SeqIs ==
  ASSUME NEW s, IsSeq(s)
  PROVE  Len(s) \in Nat /\ DOMAIN s = 1 .. Len(s) /\ s = [i \in 1 .. Len(s) |-> s[i]]
BY DEF IsSeq

\* Sequences behind each other.
LEMMA SeqJoin ==
  ASSUME NEW s, NEW t, IsSeq(s), IsSeq(t)
  PROVE  /\ IsSeq(s \o t) /\ Len(s \o t) = Len(s) + Len(t)
         /\ \A i \in 1 .. Len(s) : (s \o t)[i] = s[i]
         /\ \A i \in 1 .. Len(t) : (s \o t)[Len(s) + i] = t[i]
<1> DEFINE S == {s[i] : i \in DOMAIN s} \cup {t[i] : i \in DOMAIN t}
<1>1. s \in Seq(S) /\ t \in Seq(S)
  <2>1. Len(s) \in Nat /\ DOMAIN s = 1 .. Len(s) /\ s = [i \in 1 .. Len(s) |-> s[i]]
    BY SeqIs
  <2>2. Len(t) \in Nat /\ DOMAIN t = 1 .. Len(t) /\ t = [i \in 1 .. Len(t) |-> t[i]]
    BY SeqIs
  <2>3. (\A i \in 1 .. Len(s) : s[i] \in S) /\ \A i \in 1 .. Len(t) : t[i] \in S
    BY <2>1, <2>2
  <2> HIDE DEF S
  <2>4. s \in [1 .. Len(s) -> S] /\ t \in [1 .. Len(t) -> S]  BY <2>1, <2>2, <2>3
  <2> QED  BY <2>1, <2>2, <2>4
<1> HIDE DEF S
<1>2. s \o t \in Seq(S)  BY <1>1
<1>3. Len(s \o t) = Len(s) + Len(t)  BY <1>1
<1>4. /\ \A i \in 1 .. Len(s) : (s \o t)[i] = s[i]
      /\ \A i \in 1 .. Len(t) : (s \o t)[Len(s) + i] = t[i]
  BY <1>1
<1> QED  BY <1>2, <1>3, <1>4, SeqIn

\* A part of a sequence.
LEMMA SeqPart ==
  ASSUME NEW s, NEW t, NEW n \in Nat, IsSeq(s), IsSeq(t), n + Len(t) <= Len(s),
         \A i \in 1 .. Len(t) : s[n + i] = t[i]
  PROVE  SubSeq(s, n + 1, n + Len(t)) = t
<1> DEFINE S == {s[i] : i \in DOMAIN s}
<1>1. s \in Seq(S)  BY DEF IsSeq
<1>2. /\ Len(s) \in Nat /\ DOMAIN s = 1 .. Len(s) /\ s = [i \in 1 .. Len(s) |-> s[i]]
      /\ Len(t) \in Nat /\ DOMAIN t = 1 .. Len(t) /\ t = [i \in 1 .. Len(t) |-> t[i]]
  BY SeqIs
<1> HIDE DEF S
<1>3. /\ SubSeq(s, n + 1, n + Len(t)) \in Seq(S)
      /\ Len(SubSeq(s, n + 1, n + Len(t))) = Len(t)
      /\ \A i \in 1 .. Len(t) : SubSeq(s, n + 1, n + Len(t))[i] = s[n + i]
  <2>1. PICK k \in Nat : k = Len(t) /\ n + k <= Len(s)  BY <1>2
  <2>2. /\ n + 1 \in Int /\ n + k \in Int /\ (n + k) - (n + 1) + 1 = k
        /\ \A i \in 1 .. k : n + 1 + i - 1 = n + i
        /\ n + 1 <= n + k \/ k = 0
    OBVIOUS
  <2>3. \A i \in n + 1 .. n + k : s[i] \in S
    <3>1. \A i \in n + 1 .. n + k : i \in 1 .. Len(s)  BY <1>2, <2>1
    <3> QED  BY <1>1, <3>1
  <2>4. /\ SubSeq(s, n + 1, n + k) \in Seq(S)
        /\ Len(SubSeq(s, n + 1, n + k)) = IF n + 1 <= n + k THEN (n + k) - (n + 1) + 1 ELSE 0
        /\ \A i \in 1 .. (n + k) - (n + 1) + 1 : SubSeq(s, n + 1, n + k)[i] = s[n + 1 + i - 1]
    BY <2>2, <2>3, SubSeqProperties
  <2> QED  BY <2>1, <2>2, <2>4
<1>4. IsSeq(SubSeq(s, n + 1, n + Len(t)))  BY <1>3, SeqIn
<1>5. SubSeq(s, n + 1, n + Len(t)) =
        [i \in 1 .. Len(t) |-> SubSeq(s, n + 1, n + Len(t))[i]]
  BY <1>3, <1>4, SeqIs
<1>6. \A i \in 1 .. Len(t) : SubSeq(s, n + 1, n + Len(t))[i] = t[i]  BY <1>3
<1> QED  BY <1>2, <1>5, <1>6

\* The bytes of words: the word at an index is fetched at its address.
LEMMA CellsFacts ==
  ASSUME NEW words, Len(words) \in Nat
  PROVE  /\ IsSeq(Cells(words)) /\ Len(Cells(words)) = WordBytes * Len(words)
         /\ \A k \in 0 .. Len(words) - 1 :
               /\ WordBytes * k + 1 \in 1 .. WordBytes * Len(words)
               /\ Cells(words)[WordBytes * k + 1][2] = words[k + 1]
<1> DEFINE W8 == WordBytes
           n == Len(words)
<1>1. W8 \in Nat \ {0} /\ n \in Nat /\ W8 * n \in Nat  BY IsaAssumption
<1>2. /\ DOMAIN Cells(words) = 1 .. W8 * n
      /\ Cells(words) = [i \in 1 .. W8 * n |-> Cells(words)[i]]
  BY DEF Cells
<1>3. ASSUME NEW k \in 0 .. n - 1
      PROVE  W8 * k + 1 \in 1 .. W8 * n /\ Cells(words)[W8 * k + 1][2] = words[k + 1]
  <2>1. k \in Nat /\ k + 1 <= n /\ 0 \in 0 .. W8 - 1  BY <1>1
  <2>2. W8 * k \in Nat /\ W8 * k + W8 <= W8 * n
    <3>1. W8 * (k + 1) <= W8 * n  BY <1>1, <2>1
    <3>2. W8 * (k + 1) = W8 * k + W8  BY <1>1, <2>1
    <3>3. W8 * k \in Nat  BY <1>1, <2>1
    <3> QED  BY <3>1, <3>2, <3>3
  <2>3. W8 * k + 1 \in 1 .. W8 * n  BY <1>1, <2>2
  <2>4. (W8 * k + 1) - 1 = W8 * k + 0  BY <2>2
  <2>5. (W8 * k + 0) \div W8 = k /\ (W8 * k + 0) % W8 = 0
    <3>1. k \in Int  BY <2>1
    <3> HIDE DEF W8
    <3> QED  BY <1>1, <2>1, <3>1, DivUnique
  <2>6. 1 \in 1 .. W8  BY <1>1
  <2> DEFINE b == W8 * k + 1
  <2>7. (b - 1) \div W8 = k /\ ((b - 1) % W8) + 1 = 1 /\ b \in 1 .. W8 * n
    BY <2>3, <2>4, <2>5
  <2>8. Cells(words)[b] = WordCells(words[((b - 1) \div W8) + 1])[((b - 1) % W8) + 1]
    BY <2>7 DEF Cells
  <2>9. Cells(words)[b] = WordCells(words[k + 1])[1]  BY <2>7, <2>8
  <2>10. WordCells(words[k + 1])[1] = <<"code", words[k + 1], 1>>  BY <2>6 DEF WordCells
  <2> QED  BY <2>3, <2>9, <2>10
<1> QED  BY <1>1, <1>2, <1>3, FunSeq

\* The binary is the code, init and prog1, and the slots say where they are.
LEMMA LinkKeeps ==
  ASSUME LinkInv, Link(Programs[1], Programs[2], PatchedSlots), Len(Programs) = 2,
         \A k \in 1 .. 2 : IsSeq(Programs[k]) /\ Len(Programs[k]) <= PageBytes,
         UNCHANGED <<variant, bins>>
  PROVE  LinkInv'
<1> DEFINE hit(k) == {s \in DOMAIN slots \cap PatchedSlots : slots[s] + 1 = k}
           value(s) == PatchValue(s, Programs[1], Programs[2])
           word(k) == IF hit(k) = {} THEN code[k]
                      ELSE Patched(code[k], value(CHOOSE s \in hit(k) : TRUE))
<1>1. /\ kphase = "resolve" /\ kphase' = "linked" /\ at > Len(unresolved)
      /\ UNCHANGED <<calls, at, names, unresolved, slots>>
      /\ code' = [k \in DOMAIN code |-> word(k)]
      /\ image' = (Cells(code') \o Programs[1]) \o Programs[2]
      /\ at \in Nat \ {0} /\ ResolvedInv
  BY DEF Link, LinkInv
<1>2. Programs' = Programs /\ PatchedSlots' = PatchedSlots
  BY <1>1 DEF Programs, PatchedSlots
<1>3. /\ code \in Seq(Word) /\ DOMAIN code = 1 .. Len(code) /\ Len(code) \in Nat
      /\ \A s \in DOMAIN slots : slots[s] \in Nat /\ slots[s] + 1 \in DOMAIN code
      /\ \A u \in DOMAIN unresolved : unresolved[u][1] \in Nat /\ unresolved[u][1] + 1 \in DOMAIN code
  BY <1>1, Places
<1>4. ASSUME NEW s PROVE value(s) \in Int
  <2>1. Len(Programs[1]) \in Nat /\ Len(Programs[2]) \in Nat  BY SeqIs
  <2>2. LoadAddr + WordBytes * Len(code) \in Nat
    <3>1. LoadAddr \in Nat /\ WordBytes \in Nat  BY KernelAssumption, IsaAssumption
    <3>2. WordBytes * Len(code) \in Nat  BY <1>3, <3>1
    <3> QED  BY <3>1, <3>2
  <2> QED  BY <2>1, <2>2 DEF PatchValue
<1> HIDE DEF value
<1>5. ASSUME NEW k \in DOMAIN code
      PROVE  word(k) \in Word /\ word(k).op = code[k].op
  <2>1. code[k] \in Word  BY <1>3
  <2>2. CASE hit(k) = {}  BY <2>1, <2>2
  <2>3. CASE hit(k) # {}
    <3>1. word(k) = Patched(code[k], value(CHOOSE s \in hit(k) : TRUE))  BY <2>3
    <3>2. value(CHOOSE s \in hit(k) : TRUE) \in Int  BY <1>4
    <3> QED  BY <2>1, <3>1, <3>2, PatchedWord
  <2> QED  BY <2>2, <2>3
<1>6. ASSUME NEW u \in DOMAIN unresolved
      PROVE  word(unresolved[u][1] + 1) = code[unresolved[u][1] + 1]
  <2>1. \A s \in DOMAIN slots : slots[s] # unresolved[u][1]  BY <1>1, Places
  <2>2. hit(unresolved[u][1] + 1) = {}  BY <1>3, <2>1
  <2> QED  BY <2>2
<1>7. ASSUME NEW s \in DOMAIN slots \cap PatchedSlots
      PROVE  word(slots[s] + 1).imm = value(s) % ImmSpan
  <2>1. \A r \in DOMAIN slots : slots[r] = slots[s] => r = s  BY <1>1, Places
  <2>2. hit(slots[s] + 1) = {s}  BY <1>3, <2>1
  <2>3. word(slots[s] + 1) = Patched(code[slots[s] + 1], value(s))  BY <2>2
  <2>4. code[slots[s] + 1] \in Word /\ value(s) \in Int  BY <1>3, <1>4
  <2> QED  BY <2>3, <2>4, PatchedWord
<1> HIDE DEF word, hit
<1>8. /\ code' \in Seq(Word) /\ Len(code') = Len(code)
      /\ \A k \in DOMAIN code : code'[k] = word(k)
  <2>1. code' \in [1 .. Len(code) -> Word]  BY <1>1, <1>3, <1>5
  <2> QED  BY <1>1, <1>3, <2>1
<1>9. /\ calls' \in Kernels /\ BodyOf(variant, calls)'
      /\ CodeInv' /\ NamesInv' /\ FixInv' /\ SlotInv'
  BY <1>1, <1>5, <1>8, PatchKeeps
<1>10. ResolvedInv'
  <2> SUFFICES ASSUME NEW u \in DOMAIN unresolved', u < at'
               PROVE  /\ unresolved'[u][2] \in DOMAIN names'
                      /\ code'[unresolved'[u][1] + 1].imm =
                            FixupImm(unresolved[u][1], names[unresolved[u][2]])' % ImmSpan
    BY DEF ResolvedInv
  <2>1. u \in DOMAIN unresolved /\ u < at  BY <1>1
  <2>2. code'[unresolved[u][1] + 1] = code[unresolved[u][1] + 1]  BY <1>3, <1>6, <1>8, <2>1
  <2>3. FixupImm(unresolved[u][1], names[unresolved[u][2]])' =
           FixupImm(unresolved[u][1], names[unresolved[u][2]])
    BY <1>1, <2>2 DEF FixupImm
  <2> QED  BY <1>1, <2>1, <2>2, <2>3 DEF ResolvedInv
<1>11. LinkedInv'
  <2>1. ASSUME NEW s \in DOMAIN slots \cap PatchedSlots
        PROVE  code'[slots[s] + 1].imm = PatchValue(s, Programs[1], Programs[2])' % ImmSpan
    <3>1. PatchValue(s, Programs[1], Programs[2])' = value(s)
      BY <1>2, <1>8 DEF PatchValue, value
    <3>2. slots[s] + 1 \in DOMAIN code  BY <1>3
    <3> QED  BY <1>7, <1>8, <3>1, <3>2
  <2> QED  BY <1>1, <1>2, <2>1 DEF LinkedInv
<1> QED  BY <1>1, <1>9, <1>10, <1>11 DEF LinkInv

\* What the build does not touch, the others keep.
LEMMA LinkIdle ==
  ASSUME LinkInv, UNCHANGED linkVars, variant' = variant,
         kphase = "linked" => Programs' = Programs
  PROVE  LinkInv'
<1>1. /\ UNCHANGED <<calls, kphase, at, code, names, unresolved, slots, image, variant>>
      /\ Done' = Done /\ PatchedSlots' = PatchedSlots
  BY DEF linkVars, Done, PatchedSlots
<1>2. \A m : Words(m)' = Words(m) /\ IsLabel(m)' = IsLabel(m) /\ IsFixup(m)' = IsFixup(m)
  BY <1>1 DEF Words, IsLabel, IsFixup
<1>3. CodeInv => CodeInv'
  <2>1. Words(Done + 1)' = Words(Done + 1)  BY <1>1 DEF Words
  <2> QED  BY <1>1, <1>2, <2>1 DEF CodeInv
<1>4. NamesInv => NamesInv'
  <2>1. \A l, m : LastLabel(l, m) => LastLabel(l, m)'
    BY <1>1 DEF LastLabel, IsLabel
  <2> QED  BY <1>1, <1>2, <2>1 DEF NamesInv
<1>5. (FixInv => FixInv') /\ (SlotInv => SlotInv')
  BY <1>1, <1>2 DEF FixInv, SlotInv
<1>6. ResolvedInv => ResolvedInv'  BY <1>1 DEF ResolvedInv, FixupImm
<1>7. kphase = "linked" /\ LinkedInv => LinkedInv'
  BY <1>1 DEF LinkedInv, PatchValue
<1> QED  BY <1>1, <1>3, <1>4, <1>5, <1>6, <1>7 DEF LinkInv, BodyOf

\* What mik-asm makes is a sequence of bytes.
AsmSeqs ==
  /\ IsProgram(source) /\ line \in Nat \ {0}
  /\ IsSeq(items) /\ \A k \in DOMAIN items : items[k].op = ".string" => IsSeq(items[k].text)
  /\ IsSeq(binary)
  /\ IsSeq(bins) /\ Len(bins) <= 2 /\ \A k \in DOMAIN bins : IsSeq(bins[k])

\* The source, the items and the bytes as sequences.
LEMMA AsmLens ==
  ASSUME AsmSeqs
  PROVE  /\ IsProgram(source) /\ Len(source) \in Nat /\ DOMAIN source = 1 .. Len(source)
         /\ line \in Nat \ {0} /\ IsSeq(binary)
         /\ IsSeq(items) /\ Len(items) \in Nat /\ DOMAIN items = 1 .. Len(items)
<1>1. IsProgram(source) /\ line \in Nat \ {0} /\ IsSeq(items) /\ IsSeq(binary)
  BY DEF AsmSeqs
<1>2. Len(source) \in Nat /\ DOMAIN source = 1 .. Len(source)  BY <1>1 DEF IsProgram
<1>3. Len(items) \in Nat /\ DOMAIN items = 1 .. Len(items)  BY <1>1, SeqIs
<1> QED  BY <1>1, <1>2, <1>3

\* An element behind a sequence.
LEMMA SeqAdd ==
  ASSUME NEW s, NEW e, IsSeq(s)
  PROVE  /\ IsSeq(Append(s, e)) /\ Len(Append(s, e)) = Len(s) + 1
         /\ Append(s, e)[Len(s) + 1] = e
         /\ \A i \in 1 .. Len(s) : Append(s, e)[i] = s[i]
<1> DEFINE S == {s[i] : i \in DOMAIN s} \cup {e}
<1>1. s \in Seq(S)
  <2>1. Len(s) \in Nat /\ DOMAIN s = 1 .. Len(s) /\ s = [i \in 1 .. Len(s) |-> s[i]]
    BY SeqIs
  <2>2. \A i \in 1 .. Len(s) : s[i] \in S  BY <2>1
  <2> HIDE DEF S
  <2>3. s \in [1 .. Len(s) -> S]  BY <2>1, <2>2
  <2> QED  BY <2>1, <2>3
<1>2. e \in S  OBVIOUS
<1> HIDE DEF S
<1>3. /\ Append(s, e) \in Seq(S) /\ Len(Append(s, e)) = Len(s) + 1
      /\ Append(s, e)[Len(s) + 1] = e
      /\ \A i \in 1 .. Len(s) : Append(s, e)[i] = s[i]
  BY <1>1, <1>2
<1> QED  BY <1>3, SeqIn

\* The empty sequence.
LEMMA SeqEmpty == IsSeq(<<>>) /\ Len(<<>>) = 0 /\ DOMAIN <<>> = {}
<1>1. <<>> \in Seq({})  OBVIOUS
<1>2. IsSeq(<<>>)  BY <1>1, SeqIn
<1> QED  BY <1>2

\* The text of a .string becomes a text no longer than it.
LEMMA JoinedText ==
  ASSUME NEW text \in Seq(STRING)
  PROVE  IsSeq(Joined(text)) /\ Len(Joined(text)) \in Nat /\ Len(Joined(text)) <= Len(text)
<1> DEFINE kept == {i \in DOMAIN text : Blank(text[i]) => i = 1 \/ ~Blank(text[i - 1])}
           place(j) == CHOOSE i \in kept : Cardinality(kept \cap 1 .. i) = j
<1>1. Len(text) \in Nat /\ DOMAIN text = 1 .. Len(text)  OBVIOUS
<1>2. IsFiniteSet(1 .. Len(text)) /\ Cardinality(1 .. Len(text)) = Len(text)
  <2>1. 1 \in Int /\ Len(text) \in Int  BY <1>1
  <2>2. /\ IsFiniteSet(1 .. Len(text))
        /\ Cardinality(1 .. Len(text)) = IF 1 > Len(text) THEN 0 ELSE Len(text) - 1 + 1
    BY <2>1, FS_Interval
  <2> QED  BY <1>1, <2>2
<1>3. kept \subseteq 1 .. Len(text)  BY <1>1
<1>4. /\ Joined(text) = [j \in 1 .. Cardinality(kept) |->
                            IF Blank(text[place(j)]) THEN " " ELSE text[place(j)]]
  BY DEF Joined
<1> HIDE DEF kept, place
<1>5. Cardinality(kept) \in Nat /\ Cardinality(kept) <= Len(text)
  <2>1. IsFiniteSet(kept) /\ Cardinality(kept) <= Cardinality(1 .. Len(text))
    BY <1>2, <1>3, FS_Subset
  <2> QED  BY <1>2, <2>1, FS_CardinalityType
<1>6. DOMAIN Joined(text) = 1 .. Cardinality(kept)
      /\ Joined(text) = [j \in 1 .. Cardinality(kept) |-> Joined(text)[j]]
  BY <1>4
<1> QED  BY <1>5, <1>6, FunSeq

\* A statement becomes an item whose text, if it has one, is a sequence.
LEMMA StatementItem ==
  ASSUME AsmSeqs, NEW n \in DOMAIN source, NEW item \in Statement(source[n])
  PROVE  /\ item.op = source[n].op /\ item.op # None
         /\ item.op = ".string" => /\ IsSeq(item.text)
                                   /\ Len(item.text) = Len(Joined(source[n].text)) + 1
         /\ item.op # ".string" => item.args = source[n].args
<1>1. CASE source[n].op = ".string"
  <2>1. item \in StringItem(source[n].text)  BY <1>1 DEF Statement, None
  <2>2. item = [op |-> ".string", text |-> Append(Joined(source[n].text), "NUL")]
    BY <2>1 DEF StringItem
  <2>3. source[n].text \in Seq(STRING)  BY <1>1 DEF AsmSeqs, IsProgram
  <2>4. IsSeq(Joined(source[n].text))  BY <2>3, JoinedText
  <2>5. item.text = Append(Joined(source[n].text), "NUL") /\ item.op = ".string"  BY <2>2
  <2> QED  BY <1>1, <2>4, <2>5, SeqAdd DEF None
<1>2. CASE source[n].op \notin {None, ".string"}
  <2>1. item = [op |-> source[n].op, args |-> source[n].args]  BY <1>2 DEF Statement
  <2> QED  BY <1>2, <2>1
<1>3. CASE source[n].op = None  BY <1>3 DEF Statement, None
<1> QED  BY <1>1, <1>2, <1>3

\* The bytes of an item are a sequence, as long as the item.
LEMMA ItemCellsSeq ==
  ASSUME AsmSeqs, NEW k \in DOMAIN items, NEW cells \in ItemCells(k)
  PROVE  IsSeq(cells) /\ Len(cells) = Size(items[k])
<1>1. CASE items[k].op = ".string"
  <2>1. cells = [i \in DOMAIN items[k].text |-> <<"data", items[k].text[i]>>]
    BY <1>1 DEF ItemCells
  <2>2. Len(items[k].text) \in Nat /\ DOMAIN items[k].text = 1 .. Len(items[k].text)
    BY <1>1, SeqIs DEF AsmSeqs
  <2>3. DOMAIN cells = 1 .. Len(items[k].text)
        /\ cells = [i \in 1 .. Len(items[k].text) |-> cells[i]]
    BY <2>1, <2>2
  <2> QED  BY <1>1, <2>2, <2>3, FunSeq DEF Size
<1>2. CASE items[k].op # ".string"
  <2>1. PICK w : cells = WordCells(w)  BY <1>2 DEF ItemCells
  <2>2. WordBytes \in Nat  BY IsaAssumption
  <2>3. DOMAIN cells = 1 .. WordBytes /\ cells = [i \in 1 .. WordBytes |-> cells[i]]
    BY <2>1 DEF WordCells
  <2> QED  BY <1>2, <2>2, <2>3, FunSeq DEF Size
<1> QED  BY <1>1, <1>2

\* Both assemblies make sequences.
LEMMA AsmSeqsKept ==
  ASSUME AsmSeqs, AsmNext, bins' = bins
  PROVE  AsmSeqs'
<1>1. IsProgram(source)' /\ (line \in Nat \ {0})'
  <2>1. source' = source
    BY DEF AsmNext, ReadLine, EndOfSource, PlaceItem, ResolveLabels, EncodeItem, Assembled
  <2>2. line' \in {line, line + 1, 1} /\ line \in Nat \ {0}
    BY DEF AsmNext, ReadLine, EndOfSource, PlaceItem, ResolveLabels, EncodeItem, Assembled, AsmSeqs
  <2> QED  BY <2>1, <2>2 DEF AsmSeqs, IsProgram
<1>2. IsSeq(bins)' /\ (Len(bins) <= 2)' /\ (\A k \in DOMAIN bins : IsSeq(bins[k]))'
  BY DEF AsmSeqs
<1>3. CASE ReadLine
  <2>1. binary' = binary /\ line \in 1 .. Len(source) /\ Collect(source[line])
    BY <1>3 DEF ReadLine, AsmSeqs, IsProgram
  <2>2. CASE items' = items  BY <1>1, <1>2, <2>1, <2>2 DEF AsmSeqs
  <2>3. CASE \E item \in Statement(source[line]) : items' = Append(items, item)
    <3>1. PICK item \in Statement(source[line]) : items' = Append(items, item)  BY <2>3
    <3>2. line \in DOMAIN source  BY <2>1 DEF AsmSeqs, IsProgram
    <3>3. item.op = ".string" => IsSeq(item.text)  BY <3>2, StatementItem
    <3>4. /\ IsSeq(items') /\ Len(items') = Len(items) + 1 /\ items'[Len(items) + 1] = item
          /\ \A i \in 1 .. Len(items) : items'[i] = items[i]
      BY <3>1, SeqAdd DEF AsmSeqs
    <3>5. DOMAIN items' = 1 .. Len(items) + 1 /\ DOMAIN items = 1 .. Len(items)
          /\ Len(items) \in Nat
      BY <3>4, SeqIs DEF AsmSeqs
    <3>6. \A k \in DOMAIN items' : items'[k].op = ".string" => IsSeq(items'[k].text)
      BY <3>3, <3>4, <3>5 DEF AsmSeqs
    <3> QED  BY <1>1, <1>2, <2>1, <3>4, <3>6 DEF AsmSeqs
  <2> QED  BY <2>1, <2>2, <2>3 DEF Collect
<1>4. CASE EncodeItem
  <2>1. items' = items /\ line <= Len(items)  BY <1>4 DEF EncodeItem
  <2>2. CASE binary' = binary  BY <1>1, <1>2, <2>1, <2>2 DEF AsmSeqs
  <2>3. CASE \E cells \in ItemCells(line) : binary' = binary \o cells
    <3>1. PICK cells \in ItemCells(line) : binary' = binary \o cells  BY <2>3
    <3>2. IsSeq(cells)
      <4>1. line \in DOMAIN items  BY <2>1, SeqIs DEF AsmSeqs
      <4> QED  BY <4>1, ItemCellsSeq
    <3>3. IsSeq(binary')  BY <3>1, <3>2, SeqJoin DEF AsmSeqs
    <3> QED  BY <1>1, <1>2, <2>1, <3>3 DEF AsmSeqs
  <2> QED  BY <1>4, <2>2, <2>3 DEF EncodeItem
<1>5. CASE EndOfSource \/ PlaceItem \/ ResolveLabels \/ Assembled
  <2>1. items' = items /\ binary' = binary
    BY <1>5 DEF EndOfSource, PlaceItem, ResolveLabels, Assembled
  <2> QED  BY <1>1, <1>2, <2>1 DEF AsmSeqs
<1> QED  BY <1>3, <1>4, <1>5 DEF AsmNext

\* An immediate far from the sign bit is what it was.
LEMMA SextFits ==
  ASSUME NEW n \in Int, 2 * n < ImmSpan, 2 * n >= -ImmSpan, NEW w, w.imm = n % ImmSpan
  PROVE  Sext(w) = n
<1>1. ImmSpan \in Nat \ {0}  BY IsaAssumption
<1>2. CASE n >= 0
  <2>1. n \in 0 .. ImmSpan - 1 /\ n = ImmSpan * 0 + n  BY <1>1, <1>2
  <2>2. (ImmSpan * 0 + n) % ImmSpan = n  BY <1>1, <2>1, DivUnique
  <2>3. w.imm = n  BY <2>1, <2>2
  <2> QED  BY <2>3 DEF Sext
<1>3. CASE n < 0
  <2> DEFINE r == n + ImmSpan
  <2>1. r \in 0 .. ImmSpan - 1 /\ n = ImmSpan * (-1) + r /\ -1 \in Int  BY <1>1, <1>3
  <2> HIDE DEF r
  <2>2. (ImmSpan * (-1) + r) % ImmSpan = r  BY <1>1, <2>1, DivUnique
  <2>3. w.imm = r  BY <2>1, <2>2
  <2>4. ~(2 * r < ImmSpan) /\ r - ImmSpan = n  BY <1>1, <1>3 DEF r
  <2> QED  BY <2>3, <2>4 DEF Sext
<1> QED  BY <1>2, <1>3

\* The programs are sequences.
LEMMA ProgramsSeq ==
  ASSUME AsmSeqs, Len(Programs) = 2
  PROVE  \A k \in 1 .. 2 : IsSeq(Programs[k])
<1>1. \A w : IsSeq(WordCells(w)) /\ Len(WordCells(w)) = WordBytes
  <2> TAKE w
  <2>1. WordBytes \in Nat  BY IsaAssumption
  <2>2. DOMAIN WordCells(w) = 1 .. WordBytes
        /\ WordCells(w) = [i \in 1 .. WordBytes |-> WordCells(w)[i]]
    BY DEF WordCells
  <2> QED  BY <2>1, <2>2, FunSeq
<1>2. CASE variant = "os"
  <2>1. Programs = bins  BY <1>2 DEF Programs
  <2>2. DOMAIN bins = 1 .. 2  BY <2>1, SeqIs DEF AsmSeqs
  <2> QED  BY <2>1, <2>2 DEF AsmSeqs
<1>3. CASE variant = "user_mode"
  <2> DEFINE a == WordCells(Encode("trap", 0, 0, 0, 1))
             b == WordCells(Encode("trap", 0, 0, 0, 0))
  <2>1. Programs = <<a \o b, <<>>>>  BY <1>3 DEF Programs
  <2>2. IsSeq(a) /\ IsSeq(b)  BY <1>1
  <2> HIDE DEF a, b
  <2>3. IsSeq(a \o b) /\ IsSeq(<<>>)  BY <2>2, SeqJoin, SeqEmpty
  <2>4. Programs[1] = a \o b /\ Programs[2] = <<>>  BY <2>1
  <2>5. \A k \in 1 .. 2 : k = 1 \/ k = 2  OBVIOUS
  <2> QED  BY <2>3, <2>4, <2>5
<1>4. CASE variant = "timer"
  <2> DEFINE a == WordCells(Encode("jmp", 0, 0, 0, 0))
  <2>1. Programs = <<a, <<>>>>  BY <1>4 DEF Programs
  <2>2. IsSeq(a) /\ IsSeq(<<>>)  BY <1>1, SeqEmpty
  <2> HIDE DEF a
  <2> QED  BY <2>1, <2>2
<1>5. CASE variant \notin {"os", "user_mode", "timer"}
  <2>1. Programs = <<<<>>, <<>>>>  BY <1>5 DEF Programs
  <2> QED  BY <2>1, SeqEmpty
<1> QED  BY <1>2, <1>3, <1>4, <1>5

\* The lengths of the programs built in.
LEMMA ProgramLens ==
  /\ variant = "user_mode" => Len(Programs[1]) = 2 * WordBytes
  /\ variant = "timer" => Len(Programs[1]) = WordBytes
<1>1. \A w : IsSeq(WordCells(w)) /\ Len(WordCells(w)) = WordBytes
  <2> TAKE w
  <2>1. WordBytes \in Nat  BY IsaAssumption
  <2>2. DOMAIN WordCells(w) = 1 .. WordBytes
        /\ WordCells(w) = [i \in 1 .. WordBytes |-> WordCells(w)[i]]
    BY DEF WordCells
  <2> QED  BY <2>1, <2>2, FunSeq
<1>2. CASE variant = "user_mode"
  <2> DEFINE a == WordCells(Encode("trap", 0, 0, 0, 1))
             b == WordCells(Encode("trap", 0, 0, 0, 0))
  <2>1. Programs = <<a \o b, <<>>>>  BY <1>2 DEF Programs
  <2>2. IsSeq(a) /\ IsSeq(b) /\ Len(a) = WordBytes /\ Len(b) = WordBytes  BY <1>1
  <2> HIDE DEF a, b
  <2>3. Len(a \o b) = WordBytes + WordBytes /\ Programs[1] = a \o b  BY <2>1, <2>2, SeqJoin
  <2>4. WordBytes + WordBytes = 2 * WordBytes  BY IsaAssumption
  <2> QED  BY <1>2, <2>3, <2>4
<1>3. CASE variant = "timer"
  <2>1. Programs = <<WordCells(Encode("jmp", 0, 0, 0, 0)), <<>>>>  BY <1>3 DEF Programs
  <2>2. Programs[1] = WordCells(Encode("jmp", 0, 0, 0, 0))  BY <2>1
  <2> QED  BY <1>1, <1>3, <2>2
<1> QED  BY <1>2, <1>3

\* The order of the build and the boot, and the program that is copied.
BuildInv ==
  /\ LinkInv /\ AsmSeqs
  /\ step # "off" => kphase = "linked"
  /\ step = "os_init_copy" => Programs[1] = <<>>
  /\ step = "user" /\ Programs[1] # <<>> => data[UserFrame] = Programs[1]

\* The image of a linked kernel, part by part.
LEMMA ImageParts ==
  ASSUME LinkInv, kphase = "linked"
  PROVE  /\ Len(Programs[1]) \in Nat /\ Len(Programs[2]) \in Nat /\ Len(code) \in Nat
         /\ WordBytes * Len(code) \in Nat
         /\ SubSeq(image, WordBytes * Len(code) + 1, WordBytes * Len(code) + Len(Programs[1]))
               = Programs[1]
         /\ SubSeq(image, WordBytes * Len(code) + Len(Programs[1]) + 1,
                   WordBytes * Len(code) + Len(Programs[1]) + Len(Programs[2]))
               = Programs[2]
         /\ \A k \in 0 .. Len(code) - 1 : FetchAt(image, WordBytes * k) = code[k + 1]
<1> DEFINE c == Cells(code)
           p == Programs[1]
           q == Programs[2]
           n == WordBytes * Len(code)
<1>1. /\ code \in Seq(Word) /\ image = (c \o p) \o q /\ IsSeq(p) /\ IsSeq(q)
  <2>1. code \in Seq(Word)
    <3>1. kphase # "emit"  OBVIOUS
    <3> QED  BY <3>1, Places
  <2>2. image = (c \o p) \o q /\ \A k \in 1 .. 2 : IsSeq(Programs[k])
    BY DEF LinkInv, LinkedInv
  <2> QED  BY <2>1, <2>2
<1>2. Len(code) \in Nat /\ n \in Nat  BY <1>1, IsaAssumption
<1>3. /\ IsSeq(c) /\ Len(c) = n
      /\ \A k \in 0 .. Len(code) - 1 :
            WordBytes * k + 1 \in 1 .. n /\ c[WordBytes * k + 1][2] = code[k + 1]
  BY <1>2, CellsFacts
<1>4. Len(p) \in Nat /\ Len(q) \in Nat  BY <1>1, SeqIs
<1> HIDE DEF c, p, q
<1>5. /\ IsSeq(c \o p) /\ Len(c \o p) = n + Len(p)
      /\ \A i \in 1 .. n : (c \o p)[i] = c[i]
      /\ \A i \in 1 .. Len(p) : (c \o p)[n + i] = p[i]
  <2>1. /\ IsSeq(c \o p) /\ Len(c \o p) = Len(c) + Len(p)
        /\ \A i \in 1 .. Len(c) : (c \o p)[i] = c[i]
        /\ \A i \in 1 .. Len(p) : (c \o p)[Len(c) + i] = p[i]
    <3>1. IsSeq(c) /\ IsSeq(p)  BY <1>1, <1>3
    <3> QED  BY <3>1, SeqJoin
  <2>2. Len(c) = n  BY <1>3
  <2> HIDE DEF n
  <2> QED  BY <2>1, <2>2
<1>6. /\ IsSeq(image) /\ Len(image) = n + Len(p) + Len(q)
      /\ \A i \in 1 .. n + Len(p) : image[i] = (c \o p)[i]
      /\ \A i \in 1 .. Len(q) : image[n + Len(p) + i] = q[i]
  BY <1>1, <1>5, SeqJoin
<1> HIDE DEF n
<1>7. \A i \in 1 .. Len(p) : image[n + i] = p[i]
  <2> SUFFICES ASSUME NEW i \in 1 .. Len(p) PROVE image[n + i] = p[i]
    OBVIOUS
  <2>1. n + i \in 1 .. n + Len(p)  BY <1>2, <1>4
  <2> QED  BY <1>5, <1>6, <2>1
<1>8. SubSeq(image, n + 1, n + Len(p)) = p
  <2>1. n + Len(p) <= Len(image)  BY <1>2, <1>4, <1>6
  <2>2. IsSeq(image) /\ IsSeq(p) /\ n \in Nat  BY <1>1, <1>2, <1>6
  <2> QED  BY <1>7, <2>1, <2>2, SeqPart
<1>9. SubSeq(image, n + Len(p) + 1, n + Len(p) + Len(q)) = q
  <2>1. PICK m \in Nat : m = n + Len(p)  BY <1>2, <1>4
  <2>2. m + Len(q) <= Len(image) /\ \A i \in 1 .. Len(q) : image[m + i] = q[i]
    BY <1>4, <1>6, <2>1
  <2>4. IsSeq(image) /\ IsSeq(q)  BY <1>1, <1>6
  <2>3. SubSeq(image, m + 1, m + Len(q)) = q  BY <2>2, <2>4, SeqPart
  <2> QED  BY <2>1, <2>3
<1>10. ASSUME NEW k \in 0 .. Len(code) - 1
       PROVE  image[WordBytes * k + 1][2] = code[k + 1]
  <2>1. WordBytes * k + 1 \in 1 .. n /\ c[WordBytes * k + 1][2] = code[k + 1]
    BY <1>3 DEF n
  <2>2. WordBytes * k + 1 \in 1 .. n + Len(p)  BY <1>2, <1>4, <2>1
  <2> QED  BY <1>5, <1>6, <2>1, <2>2
<1>11. \A k \in 0 .. Len(code) - 1 : FetchAt(image, WordBytes * k) = code[k + 1]
  BY <1>10 DEF FetchAt
<1> QED  BY <1>2, <1>4, <1>8, <1>9, <1>11 DEF p, q, n

\* Every address of the kernel and its programs fits an immediate.
LEMMA AddressesFit ==
  ASSUME LinkInv, kphase = "linked", NEW k \in 0 .. Len(code)
  PROVE  /\ k \in Nat /\ k <= Len(calls) /\ LoadAddr + WordBytes * k \in Nat
         /\ 2 * (LoadAddr + WordBytes * k + 2 * PageBytes) < ImmSpan
         /\ 2 * k < ImmSpan
<1>1. /\ calls \in Kernels /\ calls \in Seq(CallSet) /\ Len(calls) \in Nat /\ CodeInv
      /\ Done = Len(calls)
  BY CallFacts DEF LinkInv, Done
<1>2. 2 * (LoadAddr + WordBytes * Len(calls) + 2 * PageBytes) < ImmSpan
  BY <1>1, KernelAssumption
<1>3. LoadAddr \in Nat /\ WordBytes \in Nat \ {0} /\ PageBytes \in Nat /\ ImmSpan \in Nat
  BY KernelAssumption, IsaAssumption, BootAssumption
<1>4. Len(code) \in Nat /\ Len(code) <= Len(calls)
  <2>1. Len(calls) + 1 \in 1 .. Len(calls) + 1  BY <1>1
  <2>2. Words(Len(calls) + 1) <= Len(calls) + 1 - 1  BY <1>1, <2>1, WordsOrder
  <2>3. Words(Len(calls) + 1) \in Nat  BY <1>1, <2>1, WordsStep
  <2> QED  BY <1>1, <2>2, <2>3 DEF CodeInv
<1>5. k \in Nat /\ k <= Len(calls)  BY <1>4
<1>6. WordBytes * k <= WordBytes * Len(calls) /\ WordBytes * k \in Nat
      /\ WordBytes * Len(calls) \in Nat /\ k <= WordBytes * k
  BY <1>1, <1>3, <1>5
<1> HIDE DEF Word
<1>7. PICK x \in Nat, y \in Nat : x = WordBytes * k /\ y = WordBytes * Len(calls)
  BY <1>6
<1>8. x <= y /\ k <= x /\ 2 * (LoadAddr + y + 2 * PageBytes) < ImmSpan  BY <1>2, <1>6, <1>7
<1> QED  BY <1>3, <1>5, <1>7, <1>8

\* Where the label of a fixup of a linked kernel lies, and what its word says.
LEMMA FixupLands ==
  ASSUME LinkInv, kphase = "linked", NEW m \in 1 .. Len(calls), IsFixup(m)
  PROVE  \E d \in 1 .. Len(calls) :
           /\ LastLabel(calls[m].name, d)
           /\ Words(m) \in 0 .. Len(code) - 1 /\ Words(d) \in 0 .. Len(code)
           /\ LET w == FetchAt(image, WordBytes * Words(m))
              IN  /\ w.op = calls[m].call
                  /\ Sext(w) = IF calls[m].call \in Branches THEN Words(d) - Words(m)
                               ELSE LoadAddr + WordBytes * Words(d)
<1>1. /\ calls \in Kernels /\ calls \in Seq(CallSet) /\ Len(calls) \in Nat /\ CodeInv /\ NamesInv
      /\ FixInv /\ ResolvedInv /\ Done = Len(calls) /\ at > Len(unresolved) /\ ~IsLabel(m)
      /\ at \in Nat /\ Len(code) = Words(Len(calls) + 1) /\ code \in Seq(Word)
  BY CallFacts DEF LinkInv, Done, LinkedInv, CodeInv
<1>2. PICK u \in DOMAIN unresolved : unresolved[u] = <<Words(m), calls[m].name>>
  BY <1>1 DEF FixInv
<1>3. u < at /\ unresolved[u][1] = Words(m) /\ unresolved[u][2] = calls[m].name
  <2>1. unresolved \in Seq(Nat \X STRING)  BY <1>1 DEF FixInv
  <2>2. u \in 1 .. Len(unresolved) /\ Len(unresolved) \in Nat  BY <1>2, <2>1
  <2> QED  BY <1>1, <1>2, <2>2
<1>4. /\ calls[m].name \in DOMAIN names
      /\ code[Words(m) + 1].imm = FixupImm(Words(m), names[calls[m].name]) % ImmSpan
  BY <1>1, <1>2, <1>3 DEF ResolvedInv
<1>5. PICK d \in 1 .. Len(calls) :
         LastLabel(calls[m].name, d) /\ names[calls[m].name] = Words(d)
  BY <1>1, <1>4 DEF NamesInv
<1>6. code[Words(m) + 1].op = calls[m].call  BY <1>1 DEF CodeInv
<1>7. /\ Words(m) \in Nat /\ Words(d) \in Nat /\ Len(code) \in Nat
      /\ Words(m) < Len(code) /\ Words(d) <= Len(code)
  <2>1. /\ m \in 1 .. Len(calls) + 1 /\ d \in 1 .. Len(calls) + 1
        /\ Len(calls) + 1 \in 1 .. Len(calls) + 1 /\ m < Len(calls) + 1 /\ d <= Len(calls) + 1
    BY <1>1
  <2>2. Words(m) < Words(Len(calls) + 1) /\ Words(d) <= Words(Len(calls) + 1)
    BY <1>1, <2>1, WordsOrder
  <2>3. Words(m) \in Nat /\ Words(d) \in Nat /\ Words(Len(calls) + 1) \in Nat
    BY <1>1, <2>1, WordsStep
  <2> QED  BY <1>1, <2>2, <2>3
<1> DEFINE w == FetchAt(image, WordBytes * Words(m))
           t == IF calls[m].call \in Branches THEN Words(d) - Words(m)
                ELSE LoadAddr + WordBytes * Words(d)
<1>8. w = code[Words(m) + 1]
  <2>1. PICK k \in 0 .. Len(code) - 1 : k = Words(m)  BY <1>7
  <2>2. FetchAt(image, WordBytes * k) = code[k + 1]  BY ImageParts
  <2> QED  BY <2>1, <2>2
<1>9. w.imm = t % ImmSpan
  <2>1. FixupImm(Words(m), names[calls[m].name]) = t  BY <1>5, <1>6 DEF FixupImm
  <2> QED  BY <1>4, <1>8, <2>1
<1>10. t \in Int /\ 2 * t < ImmSpan /\ 2 * t >= -ImmSpan
  <2>1. PICK a \in 0 .. Len(code), b \in 0 .. Len(code) : a = Words(m) /\ b = Words(d)
    BY <1>7
  <2>2. /\ a \in Nat /\ b \in Nat /\ 2 * a < ImmSpan /\ 2 * b < ImmSpan
        /\ LoadAddr + WordBytes * b \in Nat
        /\ 2 * (LoadAddr + WordBytes * b + 2 * PageBytes) < ImmSpan
    BY AddressesFit
  <2>3. ImmSpan \in Nat /\ PageBytes \in Nat  BY IsaAssumption, BootAssumption
  <2>4. CASE calls[m].call \in Branches
    <3>1. t = b - a  BY <2>1, <2>4
    <3> QED  BY <2>2, <2>3, <3>1
  <2>5. CASE calls[m].call \notin Branches
    <3>1. PICK x \in Nat : x = LoadAddr + WordBytes * b  BY <2>2
    <3>2. t = x /\ 2 * (x + 2 * PageBytes) < ImmSpan  BY <2>1, <2>2, <2>5, <3>1
    <3> QED  BY <2>3, <3>1, <3>2
  <2> QED  BY <2>4, <2>5
<1> HIDE DEF t
<1>11. Sext(w) = t  BY <1>9, <1>10, SextFits
<1> QED  BY <1>5, <1>6, <1>7, <1>8, <1>11 DEF t

\* A jump, branch or li of a linked kernel lands on the last label of its name.
LEMMA LinkedLabelsLand ==
  ASSUME LinkInv
  PROVE  KernelLabelsLand
<1> DEFINE defs(l) == {k \in DOMAIN calls : calls[k].call = "label" /\ calls[k].name = l}
           last(l) == CHOOSE k \in defs(l) : \A j \in defs(l) : j <= k
<1> SUFFICES ASSUME kphase = "linked", NEW m \in DOMAIN calls,
                    calls[m].call \in Branches \cup {"li"} /\ calls[m].name # "none"
             PROVE  LET pc == LoadAddr + WordBytes * Words(m)
                        there == LoadAddr + WordBytes * Words(last(calls[m].name))
                        w == FetchAt(image, pc - LoadAddr)
                    IN  (IF w.op = "li" THEN Sext(w) ELSE BranchTo(pc, w)) = there
  BY DEF KernelLabelsLand, Words
<1>1. /\ calls \in Seq(CallSet) /\ Len(calls) \in Nat /\ DOMAIN calls = 1 .. Len(calls)
      /\ IsFixup(m) /\ Done = Len(calls)
  BY CallFacts DEF LinkInv, IsFixup, Done
<1>2. PICK d \in 1 .. Len(calls) :
           /\ LastLabel(calls[m].name, d)
           /\ Words(m) \in 0 .. Len(code) - 1 /\ Words(d) \in 0 .. Len(code)
           /\ LET w == FetchAt(image, WordBytes * Words(m))
              IN  /\ w.op = calls[m].call
                  /\ Sext(w) = IF calls[m].call \in Branches THEN Words(d) - Words(m)
                               ELSE LoadAddr + WordBytes * Words(d)
  BY <1>1, FixupLands
<1>3. last(calls[m].name) = d
  <2>1. d \in defs(calls[m].name) /\ \A j \in defs(calls[m].name) : j <= d
    <3>1. IsLabel(d) /\ calls[d].name = calls[m].name
          /\ \A k \in d + 1 .. Len(calls) : ~(IsLabel(k) /\ calls[k].name = calls[m].name)
      BY <1>1, <1>2 DEF LastLabel
    <3> QED  BY <1>1, <3>1 DEF IsLabel
  <2>2. defs(calls[m].name) \subseteq Nat  BY <1>1
  <2> HIDE DEF defs
  <2>3. \A k \in defs(calls[m].name) :
           (\A j \in defs(calls[m].name) : j <= k) => k = d
    BY <2>1, <2>2
  <2> QED  BY <2>1, <2>3
<1>4. PICK a \in Nat, b \in Nat : a = Words(m) /\ b = Words(d)  BY <1>2, ImageParts
<1>5. LoadAddr \in Nat /\ WordBytes \in Nat  BY KernelAssumption, IsaAssumption
<1>6. WordBytes * a \in Nat /\ WordBytes * b \in Nat
      /\ WordBytes * (b - a) = WordBytes * b - WordBytes * a
      /\ (LoadAddr + WordBytes * a) - LoadAddr = WordBytes * a
  <2>1. WordBytes * a \in Nat /\ WordBytes * b \in Nat  BY <1>5
  <2> QED  BY <1>5, <2>1
<1> DEFINE w == FetchAt(image, WordBytes * a)
<1>7. /\ w.op = calls[m].call
      /\ Sext(w) = IF calls[m].call \in Branches THEN b - a ELSE LoadAddr + WordBytes * b
  BY <1>2, <1>4
<1> HIDE DEF w
<1>8. (IF w.op = "li" THEN Sext(w) ELSE BranchTo(LoadAddr + WordBytes * a, w))
         = LoadAddr + WordBytes * b
  <2>1. CASE calls[m].call = "li"
    <3>1. calls[m].call \notin Branches  BY <2>1 DEF Branches
    <3> QED  BY <1>7, <2>1, <3>1
  <2>2. CASE calls[m].call \in Branches
    <3>1. w.op # "li" /\ Sext(w) = b - a  BY <1>7, <2>2 DEF Branches
    <3>2. BranchTo(LoadAddr + WordBytes * a, w) =
             (LoadAddr + WordBytes * a) + WordBytes * (b - a)
      BY <3>1 DEF BranchTo
    <3> QED  BY <1>5, <1>6, <3>1, <3>2
  <2> QED  BY <2>1, <2>2
<1> QED  BY <1>3, <1>4, <1>6, <1>8 DEF w

\* What a patched slot of a linked kernel says.
LEMMA SlotSays ==
  ASSUME LinkInv, kphase = "linked", NEW s \in DOMAIN slots \cap PatchedSlots
  PROVE  ImmAt(slots[s]) = PatchValue(s, Programs[1], Programs[2])
<1> DEFINE v == PatchValue(s, Programs[1], Programs[2])
           w == FetchAt(image, WordBytes * slots[s])
<1>1. /\ slots[s] \in Nat /\ slots[s] + 1 \in DOMAIN code /\ code \in Seq(Word)
      /\ code[slots[s] + 1].imm = v % ImmSpan
      /\ Len(Programs[1]) <= PageBytes /\ Len(Programs[2]) <= PageBytes
  BY Places DEF LinkInv, LinkedInv
<1>2. w = code[slots[s] + 1]
  <2>1. PICK k \in 0 .. Len(code) - 1 : k = slots[s]
    <3>1. Len(code) \in Nat /\ DOMAIN code = 1 .. Len(code)  BY <1>1
    <3> QED  BY <1>1, <3>1
  <2>2. FetchAt(image, WordBytes * k) = code[k + 1]  BY ImageParts
  <2> QED  BY <2>1, <2>2
<1>3. /\ Len(Programs[1]) \in Nat /\ Len(Programs[2]) \in Nat /\ Len(code) \in Nat
      /\ PageBytes \in Nat /\ ImmSpan \in Nat
  BY ImageParts, BootAssumption, IsaAssumption
<1>4. /\ LoadAddr + WordBytes * Len(code) \in Nat
      /\ 2 * (LoadAddr + WordBytes * Len(code) + 2 * PageBytes) < ImmSpan
  <2>1. PICK k \in 0 .. Len(code) : k = Len(code)  BY <1>3
  <2>2. /\ LoadAddr + WordBytes * k \in Nat
        /\ 2 * (LoadAddr + WordBytes * k + 2 * PageBytes) < ImmSpan
    BY AddressesFit
  <2> QED  BY <2>1, <2>2
<1>5. v \in Nat /\ 2 * v < ImmSpan
  <2>1. PICK x \in Nat : x = LoadAddr + WordBytes * Len(code)  BY <1>4
  <2>2. v \in {Len(Programs[1]), Len(Programs[2]), x + Len(Programs[1]), x}
    BY <2>1 DEF PatchValue
  <2>3. 2 * (x + 2 * PageBytes) < ImmSpan  BY <1>4, <2>1
  <2>4. PICK l1 \in Nat, l2 \in Nat :
           /\ l1 = Len(Programs[1]) /\ l2 = Len(Programs[2])
           /\ l1 <= PageBytes /\ l2 <= PageBytes
    BY <1>1, <1>3
  <2>5. v \in {l1, l2, x + l1, x}  BY <2>2, <2>4
  <2> HIDE DEF v
  <2> QED  BY <1>3, <2>3, <2>4, <2>5
<1> HIDE DEF v
<1>6. Sext(w) = v
  <2>1. v \in Int /\ 2 * v >= -ImmSpan /\ w.imm = v % ImmSpan  BY <1>1, <1>2, <1>3, <1>5
  <2> QED  BY <1>5, <2>1, SextFits
<1> QED  BY <1>6 DEF ImmAt, v

\* The slots of kernel_os point at init and at prog1.
LEMMA LinkedProgramsFound ==
  ASSUME LinkInv
  PROVE  ProgramsFound
<1> SUFFICES ASSUME kphase = "linked", variant = "os", NEW k \in {1, 2}
             PROVE  LET first == ImmAt(slots[<<"init_addr", "exec_addr">>[k]]) - LoadAddr
                        length == ImmAt(slots[<<"init_len", "exec_len">>[k]])
                    IN  SubSeq(image, first + 1, first + length) = bins[k]
  BY DEF ProgramsFound
<1> DEFINE p == Programs[1]
           q == Programs[2]
           n == WordBytes * Len(code)
<1>1. {"init_addr", "init_len", "exec_addr", "exec_len"} \subseteq DOMAIN slots \cap PatchedSlots
  <2>1. PatchedSlots = DOMAIN slots  BY DEF PatchedSlots
  <2>2. ASSUME NEW s \in {"init_addr", "init_len", "exec_addr", "exec_len"}
        PROVE  s \in DOMAIN slots
    <3>1. s \in {calls[m].slot : m \in DOMAIN calls} /\ s # "none"
      BY DEF LinkInv, BodyOf
    <3>2. PICK m \in DOMAIN calls : calls[m].slot = s  BY <3>1
    <3>3. DOMAIN calls = 1 .. Len(calls) /\ Done = Len(calls) /\ ~IsLabel(m) /\ SlotInv
      BY <3>1, <3>2, CallFacts DEF LinkInv, Done
    <3> QED  BY <3>1, <3>2, <3>3 DEF SlotInv
  <2> QED  BY <2>1, <2>2
<1>2. /\ ImmAt(slots["init_addr"]) = LoadAddr + n
      /\ ImmAt(slots["init_len"]) = Len(p)
      /\ ImmAt(slots["exec_addr"]) = LoadAddr + n + Len(p)
      /\ ImmAt(slots["exec_len"]) = Len(q)
  BY <1>1, SlotSays DEF PatchValue
<1>3. /\ n \in Nat /\ Len(p) \in Nat /\ Len(q) \in Nat /\ LoadAddr \in Nat
      /\ SubSeq(image, n + 1, n + Len(p)) = p
      /\ SubSeq(image, n + Len(p) + 1, n + Len(p) + Len(q)) = q
  BY ImageParts, KernelAssumption
<1>4. p = bins[1] /\ q = bins[2]  BY DEF Programs
<1> HIDE DEF n, p, q
<1>5. CASE k = 1
  <2>1. (LoadAddr + n) - LoadAddr = n  BY <1>3
  <2> QED  BY <1>2, <1>3, <1>4, <1>5, <2>1
<1>6. CASE k = 2
  <2>1. (LoadAddr + n + Len(p)) - LoadAddr = n + Len(p)  BY <1>3
  <2> QED  BY <1>2, <1>3, <1>4, <1>6, <2>1
<1> QED  BY <1>5, <1>6

\* A program is as long as the boot code takes it to be.
LEMMA LengthRead ==
  ASSUME LinkInv, kphase = "linked", variant \in {"user_mode", "timer", "os"}
  PROVE  /\ ProgramLen = Len(Programs[1])
         /\ ProgramLen = 0 => Programs[1] = <<>>
<1>1. ProgramLen = Len(Programs[1])
  <2>1. CASE variant = "os"
    <3>1. "init_len" \in DOMAIN slots \cap PatchedSlots
      <4>1. "init_len" \in {calls[m].slot : m \in DOMAIN calls}  BY <2>1 DEF LinkInv, BodyOf
      <4>2. PICK m \in DOMAIN calls : calls[m].slot = "init_len"  BY <4>1
      <4>3. DOMAIN calls = 1 .. Len(calls) /\ Done = Len(calls) /\ ~IsLabel(m) /\ SlotInv
        BY <4>2, CallFacts DEF LinkInv, Done
      <4>4. "init_len" \in DOMAIN slots  BY <4>2, <4>3 DEF SlotInv
      <4> QED  BY <2>1, <4>4 DEF PatchedSlots
    <3> QED  BY <2>1, <3>1, SlotSays DEF PatchValue, ProgramLen
  <2>2. CASE variant \in {"user_mode", "timer"}  BY <2>2, ProgramLens DEF ProgramLen
  <2> QED  BY <2>1, <2>2
<1>2. IsSeq(Programs[1])  BY DEF LinkInv, LinkedInv
<1> QED  BY <1>1, <1>2, EmptySeq DEF IsSeq

\* What the boot code copies is the first program.
LEMMA CopiesProgram ==
  ASSUME LinkInv, kphase = "linked", variant \in {"user_mode", "timer", "os"}
  PROVE  Copied = Programs[1]
<1> DEFINE p == Programs[1]
           n == WordBytes * Len(code)
<1>1. /\ n \in Nat /\ Len(p) \in Nat /\ LoadAddr \in Nat
      /\ SubSeq(image, n + 1, n + Len(p)) = p
  BY ImageParts, KernelAssumption
<1>2. CASE variant = "os"
  <2>1. Copied = SubSeq(image, ImmAt(slots["init_addr"]) - LoadAddr + 1,
                        ImmAt(slots["init_addr"]) - LoadAddr + ImmAt(slots["init_len"]))
    BY <1>2 DEF Copied, ProgramAddr, ProgramLen
  <2>2. ProgramsFound  BY LinkedProgramsFound
  <2>3. 1 \in {1, 2} /\ <<"init_addr", "exec_addr">>[1] = "init_addr"
        /\ <<"init_len", "exec_len">>[1] = "init_len"
    OBVIOUS
  <2>4. SubSeq(image, ImmAt(slots["init_addr"]) - LoadAddr + 1,
               ImmAt(slots["init_addr"]) - LoadAddr + ImmAt(slots["init_len"])) = bins[1]
    BY <1>2, <2>2, <2>3 DEF ProgramsFound
  <2>5. Programs[1] = bins[1]  BY <1>2 DEF Programs
  <2> QED  BY <2>1, <2>4, <2>5
<1>3. CASE variant \in {"user_mode", "timer"}
  <2>1. /\ calls \in Seq(CallSet) /\ Len(calls) \in Nat /\ DOMAIN calls = 1 .. Len(calls)
        /\ CodeInv /\ FixInv /\ Done = Len(calls)
    BY CallFacts DEF LinkInv, Done
  <2>2. PICK m \in 1 .. Len(calls) - 1 :
           /\ {k \in DOMAIN calls : calls[k].name = "user_code_data"} = {m, Len(calls)}
           /\ calls[m].call = "li" /\ calls[Len(calls)].call = "label"
    BY <1>3 DEF LinkInv, BodyOf
  <2>3. /\ m \in 1 .. Len(calls) /\ Len(calls) \in 1 .. Len(calls)
        /\ calls[m].name = "user_code_data" /\ calls[Len(calls)].name = "user_code_data"
        /\ IsFixup(m) /\ IsLabel(Len(calls)) /\ calls[m].call \notin Branches
        /\ \A k \in 1 .. Len(calls) : calls[k].name = "user_code_data" => k \in {m, Len(calls)}
    BY <2>1, <2>2 DEF IsFixup, IsLabel, Branches
  <2>4. PICK d \in 1 .. Len(calls) :
           /\ LastLabel("user_code_data", d)
           /\ LET w == FetchAt(image, WordBytes * Words(m))
              IN  Sext(w) = LoadAddr + WordBytes * Words(d)
    BY <2>3, FixupLands
  <2>5. d = Len(calls)
    BY <2>2, <2>3, <2>4 DEF LastLabel, IsLabel
  <2>6. Words(d) = Len(code)
    <3>1. Words(Len(calls) + 1) = Words(Len(calls))  BY <2>1, <2>3, WordsStep
    <3> QED  BY <2>1, <2>5, <3>1 DEF CodeInv
  <2>7. ImmAt(Words(m)) = LoadAddr + n  BY <2>4, <2>6 DEF ImmAt
  <2>8. ASSUME NEW f \in ToSet(unresolved), f[2] = "user_code_data"
        PROVE  f[1] = Words(m)
    <3>1. PICK u \in DOMAIN unresolved : unresolved[u] = f  BY DEF ToSet
    <3>2. PICK k \in 1 .. Len(calls) : IsFixup(k) /\ f = <<Words(k), calls[k].name>>
      BY <2>1, <3>1 DEF FixInv
    <3>3. calls[k].name = "user_code_data" /\ ~IsLabel(k)
      BY <2>8, <3>2 DEF IsFixup, IsLabel, Branches
    <3>4. k = m  BY <2>3, <3>3
    <3> QED  BY <3>2, <3>4
  <2>9. \E f \in ToSet(unresolved) : f[2] = "user_code_data"
    <3>1. PICK u \in DOMAIN unresolved : unresolved[u] = <<Words(m), calls[m].name>>
      BY <2>1, <2>3 DEF FixInv
    <3> QED  BY <2>3, <3>1 DEF ToSet
  <2>10. (CHOOSE f \in ToSet(unresolved) : f[2] = "user_code_data")[1] = Words(m)
    BY <2>8, <2>9
  <2>11. ProgramAddr = LoadAddr + n  BY <1>3, <2>7, <2>10 DEF ProgramAddr
  <2>12. ProgramLen = Len(p)
    BY <1>3, ProgramLens DEF ProgramLen
  <2> HIDE DEF n, p
  <2>13. (LoadAddr + n) - LoadAddr = n  BY <1>1
  <2> QED  BY <1>1, <2>11, <2>12, <2>13 DEF Copied, p
<1> QED  BY <1>2, <1>3

\* mik-asm at work leaves the kernel alone.
LEMMA AsmBuilds ==
  ASSUME BuildInv, AsmNext, UNCHANGED <<linkVars, bootVars>>
  PROVE  BuildInv'
<1>1. UNCHANGED <<kphase, bins, variant, step, data, tbl>> /\ UNCHANGED linkVars
  BY DEF linkVars, bootVars, pageVars
<1>2. Programs' = Programs /\ UserFrame' = UserFrame
  BY <1>1 DEF Programs, UserFrame
<1>3. LinkInv'  BY <1>1, <1>2, LinkIdle DEF BuildInv
<1>4. AsmSeqs'  BY <1>1, AsmSeqsKept DEF BuildInv
<1> QED  BY <1>1, <1>2, <1>3, <1>4 DEF BuildInv

\* The binary of a program is kept, and the next is read.
LEMMA NextProgramBuilds ==
  ASSUME BuildInv, NextProgram
  PROVE  BuildInv'
<1>1. /\ UNCHANGED linkVars /\ UNCHANGED <<kphase, variant, step, data, tbl>>
      /\ bins' = Append(bins, binary) /\ Len(bins) < 2 /\ line' = 1
      /\ items' = <<>> /\ binary' = <<>> /\ source' \in Seconds \cup {<<>>}
      /\ LinkInv /\ AsmSeqs
  BY DEF NextProgram, linkVars, pageVars, BuildInv
<1>2. kphase = "linked" => Programs' = Programs
  <2>1. kphase = "linked" => variant # "os"
    <3> SUFFICES ASSUME kphase = "linked", variant = "os" PROVE FALSE
      OBVIOUS
    <3>1. Len(Programs) = 2  BY DEF BuildInv, LinkInv, LinkedInv
    <3>2. Programs = bins  BY DEF Programs
    <3> QED  BY <1>1, <3>1, <3>2
  <2> QED  BY <1>1, <2>1 DEF Programs
<1>3. LinkInv'  BY <1>1, <1>2, LinkIdle
<1>4. IsProgram(source')
  <2>1. CASE source' \in Seconds  BY <2>1, BootAssumption
  <2>2. CASE source' = <<>>
    <3>1. PICK longest \in WordBytes .. ImmSpan :
             \A b \in Bases : 2 * (b + longest * Len(source)) < ImmSpan
      BY <1>1 DEF AsmSeqs, IsProgram
    <3>2. longest \in Nat /\ Len(source) \in Nat  BY <1>1, IsaAssumption DEF AsmSeqs, IsProgram
    <3>3. \A b \in Bases : 2 * (b + longest * 0) < ImmSpan
      <4>1. longest * Len(source) \in Nat /\ longest * 0 = 0  BY <3>2
      <4>2. \A b \in Bases : b \in Nat  BY SourceAssumption
      <4>3. ImmSpan \in Nat  BY IsaAssumption
      <4> QED  BY <3>1, <4>1, <4>2, <4>3
    <3>4. Len(source') = 0 /\ DOMAIN source' = {} /\ 1 .. 0 = {}  BY <2>2, SeqEmpty
    <3> QED  BY <3>3, <3>4 DEF IsProgram
  <2> QED  BY <1>1, <2>1, <2>2
<1>5. AsmSeqs'
  <2>1. /\ IsSeq(bins') /\ Len(bins') = Len(bins) + 1 /\ bins'[Len(bins) + 1] = binary
        /\ \A i \in 1 .. Len(bins) : bins'[i] = bins[i]
    BY <1>1, SeqAdd DEF AsmSeqs
  <2>2. /\ DOMAIN bins' = 1 .. Len(bins) + 1 /\ DOMAIN bins = 1 .. Len(bins)
        /\ Len(bins) \in Nat
    BY <1>1, <2>1, SeqIs DEF AsmSeqs
  <2>3. \A k \in DOMAIN bins' : IsSeq(bins'[k])  BY <1>1, <2>1, <2>2 DEF AsmSeqs
  <2>4. IsSeq(<<>>) /\ DOMAIN items' = {}  BY <1>1, SeqEmpty
  <2> QED  BY <1>1, <1>4, <2>1, <2>2, <2>3, <2>4 DEF AsmSeqs
<1>6. /\ step = "user" /\ Programs'[1] # <<>> => data'[UserFrame'] = Programs'[1]
      /\ step = "os_init_copy" => Programs'[1] = <<>>
  <2>1. UserFrame' = UserFrame  BY <1>1 DEF UserFrame
  <2>2. step \in {"user", "os_init_copy"} => Programs' = Programs  BY <1>2 DEF BuildInv
  <2> QED  BY <1>1, <2>1, <2>2 DEF BuildInv
<1> QED  BY <1>1, <1>3, <1>5, <1>6 DEF BuildInv

\* A step of the kernel's build.
LEMMA BuildBuilds ==
  ASSUME BuildInv, Build
  PROVE  BuildInv'
<1>1. /\ UNCHANGED <<source, line, items, binary, bins, variant, step>> /\ Len(Programs) = 2
      /\ \A k \in 1 .. 2 : Len(Programs[k]) <= PageBytes
      /\ Call \/ EndOfCalls \/ Fixup \/ Link(Programs[1], Programs[2], PatchedSlots)
      /\ LinkInv /\ AsmSeqs /\ at \in Nat \ {0}
  BY DEF Build, asmVars, bootVars, BuildInv, LinkInv
<1>2. AsmSeqs'  BY <1>1 DEF AsmSeqs
<1>3. step = "off"
  <2>1. kphase # "linked"  BY <1>1 DEF Call, EndOfCalls, Fixup, Link
  <2> QED  BY <2>1 DEF BuildInv
<1>4. LinkInv'
  <2>1. CASE Call
    BY <1>1, <2>1, LabelKeeps, EmitKeeps DEF Call
  <2>2. CASE EndOfCalls  BY <1>1, <2>2, EndKeeps
  <2>3. CASE Fixup  BY <1>1, <2>3, FixupKeeps
  <2>4. CASE Link(Programs[1], Programs[2], PatchedSlots)
    BY <1>1, <2>4, ProgramsSeq, LinkKeeps
  <2> QED  BY <1>1, <2>1, <2>2, <2>3, <2>4
<1> QED  BY <1>1, <1>2, <1>3, <1>4 DEF BuildInv

\* A step of the boot: the binary is there, and the program is copied whole.
LEMMA BootBuilds ==
  ASSUME BuildInv, PageInv, Boot
  PROVE  BuildInv'
<1>1. /\ UNCHANGED <<asmVars, linkVars, bins, variant>>
      /\ kphase = "linked"
  <2>1. UNCHANGED <<asmVars, linkVars, bins, variant>>
    BY DEF Boot, PowerOn, AfterAlloc, AfterPgtbl, FillAndTurnOn, FreeDemo, Realloc,
           AllocForUser, EnterProgram, CopyOverruns, TimerTick, Goto
  <2>2. kphase = "linked"
    BY DEF Boot, PowerOn, AfterAlloc, AfterPgtbl, FillAndTurnOn, FreeDemo, Realloc,
           AllocForUser, EnterProgram, CopyOverruns, TimerTick, At, BuildInv
  <2> QED  BY <2>1, <2>2
<1>2. UNCHANGED <<source, line, items, binary>> /\ kphase' = kphase
  BY <1>1 DEF asmVars, linkVars
<1>3. Programs' = Programs  BY <1>1 DEF Programs
<1>4. LinkInv'  BY <1>1, <1>3, LinkIdle DEF BuildInv
<1>5. AsmSeqs'  BY <1>1, <1>2 DEF BuildInv, AsmSeqs
<1>6. ASSUME step' = "os_init_copy"
      PROVE  Programs[1] = <<>>
  <2>1. /\ EnterProgram /\ variant \in {"user_mode", "timer", "os"}
    BY <1>6 DEF Boot, PowerOn, AfterAlloc, AfterPgtbl, FillAndTurnOn, FreeDemo, Realloc,
                AllocForUser, EnterProgram, CopyOverruns, TimerTick, Goto
  <2>2. ProgramLen = 0  BY <1>6, <2>1 DEF EnterProgram, Goto
  <2> QED  BY <1>1, <2>1, <2>2, LengthRead DEF BuildInv
<1>7. ASSUME step' = "user", Programs[1] # <<>>
      PROVE  data'[UserFrame'] = Programs[1]
  <2>1. EnterProgram \/ CopyOverruns \/ TimerTick
    BY <1>7 DEF Boot, PowerOn, AfterAlloc, AfterPgtbl, FillAndTurnOn, FreeDemo, Realloc,
                AllocForUser, EnterProgram, CopyOverruns, TimerTick, Goto
  <2>2. CASE EnterProgram
    <3>1. /\ variant \in {"user_mode", "timer", "os"} /\ step = "after_paging"
          /\ tbl' = tbl /\ Len(tbl) = Wanted /\ data' = [data EXCEPT ![UserFrame] = Copied]
      BY <1>7, <2>2 DEF EnterProgram, At, Goto
    <3>2. UserFrame \in Pages  BY <3>1, ProgramPages DEF PageInv
    <3>3. UserFrame' = UserFrame /\ UserFrame \in DOMAIN data
      BY <3>1, <3>2 DEF UserFrame, PageInv
    <3>4. data'[UserFrame] = Copied  BY <3>1, <3>3
    <3>5. Copied = Programs[1]  BY <1>1, <3>1, CopiesProgram DEF BuildInv
    <3> QED  BY <3>3, <3>4, <3>5
  <2>3. CASE CopyOverruns
    <3>1. step = "os_init_copy"  BY <2>3 DEF CopyOverruns, At
    <3> QED  BY <1>7, <3>1 DEF BuildInv
  <2>4. CASE TimerTick
    <3>1. step = "user" /\ data' = data /\ tbl' = tbl
      BY <2>4 DEF TimerTick, At, pageVars
    <3>2. UserFrame' = UserFrame  BY <3>1 DEF UserFrame
    <3> QED  BY <1>7, <3>1, <3>2 DEF BuildInv
  <2> QED  BY <2>1, <2>2, <2>3, <2>4
<1> QED  BY <1>1, <1>2, <1>3, <1>4, <1>5, <1>6, <1>7 DEF BuildInv

\* At first nothing is built.
LEMMA InitBuilds ==
  ASSUME Init
  PROVE  BuildInv
<1>1. /\ source \in Sources /\ line = 1 /\ items = <<>> /\ binary = <<>> /\ bins = <<>>
      /\ calls \in Kernels /\ kphase = "emit" /\ at = 1 /\ code = <<>> /\ names = <<>>
      /\ unresolved = <<>> /\ slots = <<>> /\ BodyOf(variant, calls) /\ step = "off"
  BY DEF Init, AsmInit, LinkInit
<1>2. AsmSeqs
  <2>1. IsProgram(source)  BY <1>1, SourceAssumption
  <2>2. IsSeq(<<>>) /\ Len(<<>>) = 0 /\ DOMAIN items = {} /\ DOMAIN bins = {}
    BY <1>1, SeqEmpty
  <2> QED  BY <1>1, <2>1, <2>2 DEF AsmSeqs
<1>3. calls \in Seq(CallSet) /\ Len(calls) \in Nat  BY <1>1, CallFacts
<1>4. Done = 0 /\ 1 .. Done = {}  BY <1>1 DEF Done
<1>5. DOMAIN names = {} /\ DOMAIN unresolved = {} /\ DOMAIN slots = {}  BY <1>1
<1>6. CodeInv
  <2>1. Words(Done + 1) = 0
    <3>1. Done + 1 = 1  BY <1>4
    <3> QED  BY <1>3, <3>1, WordsStep
  <2> QED  BY <1>1, <1>4, <2>1 DEF CodeInv
<1>7. NamesInv /\ FixInv /\ SlotInv
  <2>1. unresolved \in Seq(Nat \X STRING)  BY <1>1
  <2> QED  BY <1>4, <1>5, <2>1 DEF NamesInv, FixInv, SlotInv
<1> QED  BY <1>1, <1>2, <1>3, <1>6, <1>7 DEF BuildInv, LinkInv

\* Every step of the build and the boot keeps what was built.
LEMMA NextBuilds ==
  ASSUME BuildInv, PageInv, [Next]_vars
  PROVE  BuildInv'
<1>1. CASE UNCHANGED vars
  <2>1. UNCHANGED <<asmVars, linkVars, bins, variant, step, data, tbl>>
    BY <1>1 DEF vars, bootVars, pageVars
  <2>2. UNCHANGED <<source, line, items, binary>> /\ kphase' = kphase
    BY <2>1 DEF asmVars, linkVars
  <2>3. Programs' = Programs /\ UserFrame' = UserFrame  BY <2>1 DEF Programs, UserFrame
  <2>4. LinkInv'  BY <2>1, <2>3, LinkIdle DEF BuildInv
  <2>5. AsmSeqs'  BY <2>1, <2>2 DEF BuildInv, AsmSeqs
  <2> QED  BY <2>1, <2>2, <2>3, <2>4, <2>5 DEF BuildInv
<1>2. CASE AsmNext /\ UNCHANGED <<linkVars, bootVars>>  BY <1>2, AsmBuilds
<1>3. CASE NextProgram  BY <1>3, NextProgramBuilds
<1>4. CASE Build  BY <1>4, BuildBuilds
<1>5. CASE Boot  BY <1>5, BootBuilds
<1> QED  BY <1>1, <1>2, <1>3, <1>4, <1>5 DEF Next

\* What is built and copied is what it should be, always.
THEOREM BuildInvariant == Spec => []BuildInv
<1>1. Init => BuildInv  BY InitBuilds
<1>2. BuildInv /\ PageInv /\ [Next]_vars => BuildInv'  BY NextBuilds
<1> QED  BY <1>1, <1>2, PagesInvariant, PTL DEF Spec

\* In the kernel every jump, branch and li lands on the last label of its name.
THEOREM KernelLabelsAlwaysLand == Spec => []KernelLabelsLand
<1>1. BuildInv => KernelLabelsLand  BY LinkedLabelsLand DEF BuildInv
<1> QED  BY <1>1, BuildInvariant, PTL

\* The words patched into kernel_os point at what mik-asm made of init and prog1.
THEOREM ProgramsAlwaysFound == Spec => []ProgramsFound
<1>1. BuildInv => ProgramsFound  BY LinkedProgramsFound DEF BuildInv
<1> QED  BY <1>1, BuildInvariant, PTL

\* User mode runs the first program, if it has a byte, alone in its page.
THEOREM AlwaysRunsItsProgram == Spec => []RunsItsProgram
<1>1. PageInv /\ BuildInv => RunsItsProgram
  <2> SUFFICES ASSUME PageInv, BuildInv, step = "user", Programs[1] # <<>>
               PROVE  LET e == Walk(UserPage)
                      IN  /\ Has(e, P) /\ Has(e, U) /\ data[PageOf(e)] = Programs[1]
                          /\ \A p \in 0 .. UserPage - 1 : ~Has(Walk(p), U)
    BY DEF RunsItsProgram
  <2>1. /\ ptbr \in {MetaPage + 2, MetaPage + 9} /\ KernelRoot(ptbr) /\ KernelTables
        /\ UserMapped(ptbr) /\ TblInv
    BY DEF PageInv, Paging
  <2>2. \A p \in 0 .. UserPage - 1 : ~Has(Walk(p), U)
    <3> SUFFICES ASSUME NEW p \in 0 .. UserPage - 1 PROVE ~Has(Walk(p), U)
      OBVIOUS
    <3>1. Walk(p) = Entry(p, P + W) /\ p \in Nat  BY <2>1, WalkLow
    <3> QED  BY <3>1, EntryFacts
  <2> DEFINE pt4 == MetaPage + 7 + Wanted
  <2>3. /\ pt4 \in Pages /\ pt4 \in Nat /\ UserFrame = pt4 + 1 /\ pt4 + 1 \in Nat
    <3>1. Len(tbl) = Wanted  BY <2>1 DEF UserMapped
    <3>2. /\ Pt4 = MetaPage + 7 + Wanted /\ UserFrame = MetaPage + 8 + Wanted
          /\ Pt4 \in Pages /\ Pt4 \in Nat /\ MetaPage \in Nat /\ Wanted \in {2, 5}
      BY <2>1, <3>1, ProgramPages, PageFacts
    <3>3. MetaPage + 7 + Wanted + 1 = MetaPage + 8 + Wanted  BY <3>2
    <3> QED  BY <3>2, <3>3
  <2>4. /\ mem[ptbr + 2][4] = Entry(pt4, P + W)
        /\ \E f \in {P + U, P + W + U} : mem[pt4][0] = Entry(pt4 + 1, f)
    BY <2>1 DEF UserMapped
  <2> HIDE DEF pt4
  <2>5. Walk(UserPage) = mem[pt4][0]
    <3>1. /\ PageOf(Step(PageOf(Step(ptbr, 0)), 0)) = ptbr + 2 /\ ptbr + 2 \in Pages
      BY <2>1, WalkRoot
    <3>2. PageOf(Step(ptbr + 2, 4)) = pt4  BY <2>3, <2>4, <3>1, EntryFacts DEF Step
    <3>3. Step(pt4, 0) = mem[pt4][0]  BY <2>3 DEF Step
    <3> QED  BY <3>1, <3>2, <3>3, SplitUserPage DEF Walk
  <2>6. PICK f \in {P + U, P + W + U} : Walk(UserPage) = Entry(pt4 + 1, f)
    BY <2>4, <2>5
  <2>7. /\ Has(Walk(UserPage), P) /\ Has(Walk(UserPage), U)
        /\ PageOf(Walk(UserPage)) = pt4 + 1
    <3>1. f # P + W  BY <2>6 DEF P, W, U
    <3>2. pt4 + 1 \in Nat /\ Walk(UserPage) = Entry(pt4 + 1, f)  BY <2>3, <2>6
    <3> HIDE DEF pt4
    <3>3. PICK q \in Nat : q = pt4 + 1 /\ Walk(UserPage) = Entry(q, f)  BY <3>2
    <3>4. Has(Entry(q, f), P) /\ Has(Entry(q, f), U) /\ PageOf(Entry(q, f)) = q
      BY <2>6, <3>1, EntryFacts
    <3> QED  BY <3>3, <3>4
  <2>8. data[UserFrame] = Programs[1]  BY DEF BuildInv
  <2> QED  BY <2>2, <2>3, <2>7, <2>8
<1> QED  BY <1>1, PagesInvariant, BuildInvariant, PTL

-----------------------------------------------------------------------------
(* The programs *)

\* The items of the lines in front of a line.
HasItem(n) == source[n].op # None
Items(n) == Cardinality({m \in 1 .. n - 1 : source[m].op # None})

\* The lines read so far.
Read == IF phase = "read" THEN line - 1 ELSE Len(source)

\* Every statement read has left its item.
ItemsInv ==
  /\ Len(items) = Items(Read + 1)
  /\ \A n \in 1 .. Read : HasItem(n) =>
        /\ items[Items(n) + 1].op = source[n].op
        /\ Size(items[Items(n) + 1]) = Span(source[n])
        /\ source[n].op # ".string" => items[Items(n) + 1].args = source[n].args

\* A label has the place of the last line it is at.
LastAt(l, n) == source[n].label = l /\ \A m \in n + 1 .. Read : source[m].label # l
LabelsInv ==
  \A l \in DOMAIN labels :
     l # None /\ \E n \in 1 .. Read : LastAt(l, n) /\ labels[l] = Items(n) + 1

\* What is placed is as far behind the base as in the source.
PlaceInv ==
  /\ IsSeq(item_addrs) /\ Len(item_addrs) <= Len(items)
  /\ \A n \in 1 .. Len(source) + 1 : Items(n) = Len(item_addrs) => addr = base + Offset(n)
  /\ \A n \in 1 .. Len(source) :
        Items(n) < Len(item_addrs) => item_addrs[Items(n) + 1] = base + Offset(n)

\* A label's address is that of the item it stands at.
AddrsInv ==
  /\ Len(item_addrs) = Len(items)
  /\ \A l \in DOMAIN label_addrs :
        l \in DOMAIN labels /\ labels[l] <= Len(items) /\ label_addrs[l] = item_addrs[labels[l]]

\* What is encoded is as far into the binary as in the source.
EncodeInv ==
  /\ line <= Len(items) + 1
  /\ \A n \in 1 .. Len(source) + 1 : Items(n) = line - 1 => Len(binary) = Offset(n)
  /\ \A n \in 1 .. Len(source) :
        HasItem(n) /\ source[n].op # ".string" /\ Items(n) < line - 1 =>
           /\ Offset(n) + 1 \in 1 .. Len(binary)
           /\ FetchAt(binary, Offset(n)) \in
                 EncodeInstruction(source[n].op, source[n].args, label_addrs, base + Offset(n))

AsmInv ==
  /\ base \in Bases
  /\ phase \in {"read", "place", "encode", "ok", "built", "err", "panic"}
  /\ phase = "read" => /\ line <= Len(source) + 1
                       /\ item_addrs = <<>> /\ addr = base
  /\ phase \in {"read", "place"} => binary = <<>>
  /\ phase \in {"read", "place", "encode", "ok"} => ItemsInv /\ LabelsInv
  /\ phase \in {"place", "encode", "ok"} => PlaceInv
  /\ phase \in {"encode", "ok"} => AddrsInv /\ EncodeInv
  /\ phase = "ok" => line > Len(items)

\* Every line with a statement adds an item.
LEMMA ItemsStep ==
  ASSUME IsProgram(source)
  PROVE  /\ Items(1) = 0
         /\ \A n \in 1 .. Len(source) + 1 : Items(n) \in Nat
         /\ \A n \in 1 .. Len(source) :
               Items(n + 1) = IF HasItem(n) THEN Items(n) + 1 ELSE Items(n)
<1> DEFINE E(n) == {k \in 1 .. n - 1 : source[k].op # None}
<1>0. Len(source) \in Nat  BY DEF IsProgram
<1>1. \A n \in 1 .. Len(source) + 1 : IsFiniteSet(E(n))
  <2> SUFFICES ASSUME NEW n \in 1 .. Len(source) + 1 PROVE IsFiniteSet(E(n))
    OBVIOUS
  <2>1. IsFiniteSet(1 .. n - 1)
    <3>1. 1 \in Int /\ n - 1 \in Int  BY <1>0
    <3> QED  BY <3>1, FS_Interval
  <2>2. E(n) \subseteq 1 .. n - 1  OBVIOUS
  <2> QED  BY <2>1, <2>2, FS_Subset
<1>2. \A n \in 1 .. Len(source) + 1 : Items(n) = Cardinality(E(n))  BY DEF Items
<1>3. Items(1) = 0
  <2>1. E(1) = {} /\ 1 \in 1 .. Len(source) + 1  BY <1>0
  <2> QED  BY <1>2, <2>1, FS_EmptySet
<1>4. \A n \in 1 .. Len(source) + 1 : Items(n) \in Nat
  BY <1>1, <1>2, FS_CardinalityType
<1>5. ASSUME NEW n \in 1 .. Len(source)
      PROVE  Items(n + 1) = IF HasItem(n) THEN Items(n) + 1 ELSE Items(n)
  <2>1. n \in 1 .. Len(source) + 1 /\ n + 1 \in 1 .. Len(source) + 1  BY <1>0
  <2>2. Items(n + 1) = Cardinality(E(n + 1)) /\ Items(n) = Cardinality(E(n))
    BY <1>2, <2>1
  <2>3. CASE ~HasItem(n)
    <3>1. E(n + 1) = E(n)  BY <1>0, <2>3 DEF HasItem
    <3> QED  BY <2>2, <2>3, <3>1
  <2>4. CASE HasItem(n)
    <3>1. E(n + 1) = E(n) \cup {n} /\ n \notin E(n)  BY <1>0, <2>4 DEF HasItem
    <3>2. Cardinality(E(n) \cup {n}) = Cardinality(E(n)) + 1
      BY <1>1, <2>1, <3>1, FS_AddElement
    <3> QED  BY <2>2, <2>4, <3>1, <3>2
  <2> QED  BY <2>3, <2>4
<1> QED  BY <1>3, <1>4, <1>5

\* Later lines have no fewer items in front, and more behind an item.
LEMMA ItemsOrder ==
  ASSUME IsProgram(source)
  PROVE  /\ \A m, n \in 1 .. Len(source) + 1 : m <= n => Items(m) <= Items(n)
         /\ \A m \in 1 .. Len(source) : \A n \in 1 .. Len(source) + 1 :
               m < n /\ HasItem(m) => Items(m) < Items(n)
         /\ \A m, n \in 1 .. Len(source) :
               HasItem(m) /\ HasItem(n) /\ Items(m) = Items(n) => m = n
<1> DEFINE E(n) == {k \in 1 .. n - 1 : source[k].op # None}
<1>0. Len(source) \in Nat  BY DEF IsProgram
<1>1. ASSUME NEW m \in 1 .. Len(source) + 1, NEW n \in 1 .. Len(source) + 1, m <= n
      PROVE  Items(m) <= Items(n)
  <2>1. IsFiniteSet(1 .. n - 1)
    <3>1. 1 \in Int /\ n - 1 \in Int  BY <1>0
    <3> QED  BY <3>1, FS_Interval
  <2>2. E(n) \subseteq 1 .. n - 1  OBVIOUS
  <2>3. IsFiniteSet(E(n))  BY <2>1, <2>2, FS_Subset
  <2>4. E(m) \subseteq E(n)  BY <1>0, <1>1
  <2>5. Cardinality(E(m)) <= Cardinality(E(n))  BY <2>3, <2>4, FS_Subset
  <2> QED  BY <2>5 DEF Items
<1>2. ASSUME NEW m \in 1 .. Len(source), NEW n \in 1 .. Len(source) + 1, m < n, HasItem(m)
      PROVE  Items(m) < Items(n)
  <2>1. m + 1 \in 1 .. Len(source) + 1 /\ m \in 1 .. Len(source) + 1 /\ m + 1 <= n
    BY <1>0, <1>2
  <2>2. Items(m + 1) <= Items(n)  BY <1>1, <2>1
  <2>3. Items(m + 1) = Items(m) + 1 /\ Items(m) \in Nat /\ Items(n) \in Nat
    BY <1>2, <2>1, ItemsStep
  <2> QED  BY <2>2, <2>3
<1>3. ASSUME NEW m \in 1 .. Len(source), NEW n \in 1 .. Len(source), HasItem(m), HasItem(n),
             Items(m) = Items(n)
      PROVE  m = n
  <2>1. m \in 1 .. Len(source) + 1 /\ n \in 1 .. Len(source) + 1  BY <1>0
  <2>2. Items(m) \in Nat /\ Items(n) \in Nat  BY <2>1, ItemsStep
  <2>3. ~(m < n) /\ ~(n < m)  BY <1>2, <1>3, <2>1, <2>2
  <2> QED  BY <1>0, <2>1, <2>3
<1> QED  BY <1>1, <1>2, <1>3

\* What a line adds to the binary.
LEMMA SpanFacts ==
  ASSUME IsProgram(source)
  PROVE  /\ \A n \in 1 .. Len(source) : /\ Span(source[n]) \in Nat
                                        /\ ~HasItem(n) => Span(source[n]) = 0
         /\ \E longest \in Nat :
               /\ \A n \in 1 .. Len(source) : Span(source[n]) <= longest
               /\ \A b \in Bases : b \in Nat /\ 2 * (b + longest * Len(source)) < ImmSpan
<1>1. /\ Len(source) \in Nat /\ DOMAIN source = 1 .. Len(source)
      /\ WordBytes \in Nat /\ \A b \in Bases : b \in Nat
  BY IsaAssumption, SourceAssumption DEF IsProgram
<1>2. PICK longest \in WordBytes .. ImmSpan :
         /\ \A n \in DOMAIN source : source[n].op = ".string" => Len(source[n].text) < longest
         /\ \A b \in Bases : 2 * (b + longest * Len(source)) < ImmSpan
  BY DEF IsProgram
<1>3. longest \in Nat /\ WordBytes <= longest  BY <1>1, <1>2, IsaAssumption
<1>4. ASSUME NEW n \in 1 .. Len(source)
      PROVE  /\ Span(source[n]) \in Nat /\ Span(source[n]) <= longest
             /\ ~HasItem(n) => Span(source[n]) = 0
  <2>1. CASE source[n].op = None  BY <1>3, <2>1 DEF Span, None
  <2>2. CASE source[n].op = ".string"
    <3>1. source[n].text \in Seq(STRING) /\ Len(source[n].text) < longest
      BY <1>1, <1>2, <2>2 DEF IsProgram
    <3>2. /\ Len(Joined(source[n].text)) \in Nat
          /\ Len(Joined(source[n].text)) <= Len(source[n].text) /\ Len(source[n].text) \in Nat
      BY <3>1, JoinedText
    <3>3. Span(source[n]) = Len(Joined(source[n].text)) + 1 /\ HasItem(n)
      BY <2>2 DEF Span, None, HasItem
    <3> QED  BY <1>3, <3>1, <3>2, <3>3
  <2>3. CASE source[n].op \notin {None, ".string"}
    <3>1. Span(source[n]) = WordBytes /\ HasItem(n)  BY <2>3 DEF Span, HasItem
    <3> QED  BY <1>1, <1>3, <3>1
  <2> QED  BY <2>1, <2>2, <2>3
<1> QED  BY <1>1, <1>2, <1>3, <1>4

\* The bytes of a line, each by the line and its place in it.
Bytes(n) == {n} \X (1 .. Span(source[n]))
Before(n) == UNION {Bytes(m) : m \in 1 .. n - 1}

\* A line adds its span, and the offset of every line is far from the sign bit.
LEMMA OffsetStep ==
  ASSUME IsProgram(source)
  PROVE  /\ Offset(1) = 0
         /\ \A n \in 1 .. Len(source) + 1 :
               /\ Offset(n) \in Nat
               /\ \A b \in Bases : b \in Nat /\ 2 * (b + Offset(n)) < ImmSpan
         /\ \A n \in 1 .. Len(source) : Offset(n + 1) = Offset(n) + Span(source[n])
<1>0. Len(source) \in Nat  BY DEF IsProgram
<1>1. \A n : Offset(n) = Cardinality(Before(n))  BY DEF Offset, Before, Bytes
<1>2. PICK longest \in Nat :
         /\ \A n \in 1 .. Len(source) : Span(source[n]) \in Nat /\ Span(source[n]) <= longest
         /\ \A b \in Bases : b \in Nat /\ 2 * (b + longest * Len(source)) < ImmSpan
  BY SpanFacts
<1>3. ASSUME NEW k \in Nat
      PROVE  IsFiniteSet(1 .. k) /\ Cardinality(1 .. k) = k
  <2>1. 1 \in Int /\ k \in Int  OBVIOUS
  <2>2. IsFiniteSet(1 .. k) /\ Cardinality(1 .. k) = IF 1 > k THEN 0 ELSE k - 1 + 1
    BY <2>1, FS_Interval
  <2> QED  BY <2>2
<1>4. ASSUME NEW n \in 1 .. Len(source) + 1
      PROVE  IsFiniteSet(Before(n)) /\ Cardinality(Before(n)) <= Len(source) * longest
  <2> DEFINE Box == (1 .. Len(source)) \X (1 .. longest)
  <2>1. IsFiniteSet(Box) /\ Cardinality(Box) = Len(source) * longest
    <3> DEFINE A == 1 .. Len(source)
               B == 1 .. longest
    <3>1. IsFiniteSet(A) /\ Cardinality(A) = Len(source)  BY <1>0, <1>3
    <3>2. IsFiniteSet(B) /\ Cardinality(B) = longest  BY <1>3
    <3>3. Box = A \X B  OBVIOUS
    <3> HIDE DEF A, B, Box
    <3>4. IsFiniteSet(A \X B) /\ Cardinality(A \X B) = Cardinality(A) * Cardinality(B)
      BY <3>1, <3>2, FS_Product
    <3> QED  BY <3>1, <3>2, <3>3, <3>4
  <2>2. Before(n) \subseteq Box
    <3> SUFFICES ASSUME NEW m \in 1 .. n - 1, NEW x \in Bytes(m) PROVE x \in Box
      BY DEF Before
    <3>1. m \in 1 .. Len(source)  BY <1>0
    <3>2. Span(source[m]) \in Nat /\ Span(source[m]) <= longest  BY <1>2, <3>1
    <3>3. PICK i \in 1 .. Span(source[m]) : x = <<m, i>>  BY DEF Bytes
    <3>4. i \in 1 .. longest  BY <1>2, <3>2
    <3> QED  BY <3>1, <3>3, <3>4
  <2> HIDE DEF Box
  <2> QED  BY <2>1, <2>2, FS_Subset
<1>5. Offset(1) = 0
  <2>1. Before(1) = {}  BY DEF Before
  <2> QED  BY <1>1, <2>1, FS_EmptySet
<1>6. ASSUME NEW n \in 1 .. Len(source) + 1
      PROVE  /\ Offset(n) \in Nat
             /\ \A b \in Bases : b \in Nat /\ 2 * (b + Offset(n)) < ImmSpan
  <2>1. Offset(n) \in Nat /\ Offset(n) <= Len(source) * longest
    BY <1>1, <1>4, FS_CardinalityType
  <2>2. PICK y \in Nat : y = longest * Len(source) /\ y = Len(source) * longest
    BY <1>0, <1>2
  <2>3. ImmSpan \in Nat  BY IsaAssumption
  <2>4. ASSUME NEW b \in Bases PROVE b \in Nat /\ 2 * (b + Offset(n)) < ImmSpan
    <3>1. b \in Nat /\ 2 * (b + y) < ImmSpan  BY <1>2, <2>2
    <3> QED  BY <2>1, <2>2, <2>3, <3>1
  <2> QED  BY <2>1, <2>4
<1>7. ASSUME NEW n \in 1 .. Len(source)
      PROVE  Offset(n + 1) = Offset(n) + Span(source[n])
  <2>1. n \in 1 .. Len(source) + 1 /\ n + 1 \in 1 .. Len(source) + 1
        /\ 1 .. (n + 1) - 1 = (1 .. n - 1) \cup {n}
    BY <1>0
  <2>2. Before(n + 1) = Before(n) \cup Bytes(n)  BY <2>1 DEF Before
  <2>3. Before(n) \cap Bytes(n) = {}
    <3> SUFFICES ASSUME NEW m \in 1 .. n - 1, NEW x \in Bytes(m), x \in Bytes(n)
                 PROVE  FALSE
      BY DEF Before
    <3>1. x[1] = m /\ x[1] = n  BY DEF Bytes
    <3> QED  BY <3>1
  <2>4. IsFiniteSet(Bytes(n)) /\ Cardinality(Bytes(n)) = Span(source[n])
    <3>1. Span(source[n]) \in Nat  BY <1>2
    <3>2. /\ IsFiniteSet(1 .. Span(source[n]))
          /\ Cardinality(1 .. Span(source[n])) = Span(source[n])
      BY <1>3, <3>1
    <3>3. IsFiniteSet({n}) /\ Cardinality({n}) = 1  BY FS_Singleton
    <3> DEFINE A == {n}
               B == 1 .. Span(source[n])
    <3>5. Bytes(n) = A \X B  BY DEF Bytes
    <3>6. IsFiniteSet(A) /\ Cardinality(A) = 1 /\ IsFiniteSet(B)  BY <3>2, <3>3
    <3>7. Cardinality(B) = Span(source[n])  BY <3>2
    <3> HIDE DEF A, B
    <3>4. IsFiniteSet(A \X B) /\ Cardinality(A \X B) = Cardinality(A) * Cardinality(B)
      BY <3>6, FS_Product
    <3>8. 1 * Cardinality(B) = Cardinality(B)  BY <3>1, <3>7
    <3> QED  BY <3>4, <3>5, <3>6, <3>7, <3>8
  <2>5. Cardinality(Before(n) \cup Bytes(n)) =
           Cardinality(Before(n)) + Cardinality(Bytes(n)) - Cardinality({})
    BY <1>4, <2>1, <2>3, <2>4, FS_Union
  <2>6. Cardinality({}) = 0 /\ Cardinality(Before(n)) \in Nat /\ Span(source[n]) \in Nat
    BY <1>2, <1>4, <2>1, FS_EmptySet, FS_CardinalityType
  <2>7. /\ Offset(n) = Cardinality(Before(n))
        /\ Offset(n + 1) = Cardinality(Before(n) \cup Bytes(n))
    BY <1>1, <2>2
  <2>8. PICK c \in Nat : c = Cardinality(Before(n))  BY <2>6
  <2>9. Cardinality(Before(n) \cup Bytes(n)) = c + Span(source[n]) - 0
    BY <2>4, <2>5, <2>6, <2>8
  <2>10. c + Span(source[n]) - 0 = c + Span(source[n])  BY <2>6, <2>8
  <2> QED  BY <2>7, <2>8, <2>9, <2>10
<1> QED  BY <1>5, <1>6, <1>7

\* Lines with as many items in front have as many bytes in front.
LEMMA SameOffset ==
  ASSUME IsProgram(source)
  PROVE  \A m, n \in 1 .. Len(source) + 1 : Items(m) = Items(n) => Offset(m) = Offset(n)
<1>0. Len(source) \in Nat  BY DEF IsProgram
<1>1. \A n : Offset(n) = Cardinality(Before(n))  BY DEF Offset, Before, Bytes
<1>2. ASSUME NEW m \in 1 .. Len(source) + 1, NEW n \in 1 .. Len(source) + 1, m <= n,
             Items(m) = Items(n)
      PROVE  Offset(m) = Offset(n)
  <2>1. ASSUME NEW k \in 1 .. n - 1, k \notin 1 .. m - 1
        PROVE  Bytes(k) = {}
    <3>1. k \in 1 .. Len(source) /\ k \in 1 .. Len(source) + 1 /\ m <= k /\ k < n
      BY <1>0, <2>1
    <3>2. Items(m) <= Items(k) /\ Items(m) \in Nat /\ Items(k) \in Nat
      BY <3>1, ItemsOrder, ItemsStep
    <3>3. HasItem(k) => Items(k) < Items(n)  BY <3>1, ItemsOrder
    <3>4. ~HasItem(k)  BY <1>2, <3>2, <3>3
    <3>5. Span(source[k]) = 0  BY <3>1, <3>4, SpanFacts
    <3>6. 1 .. 0 = {}  OBVIOUS
    <3> QED  BY <3>5, <3>6 DEF Bytes
  <2>2. \A k \in 1 .. m - 1 : k \in 1 .. n - 1  BY <1>0, <1>2
  <2>3. Before(m) = Before(n)
    <3>1. Before(m) \subseteq Before(n)  BY <2>2 DEF Before
    <3>2. Before(n) \subseteq Before(m)
      <4> SUFFICES ASSUME NEW k \in 1 .. n - 1, NEW x \in Bytes(k)
                   PROVE  \E j \in 1 .. m - 1 : x \in Bytes(j)
        BY DEF Before
      <4>1. k \in 1 .. m - 1  BY <2>1
      <4> QED  BY <4>1
    <3> QED  BY <3>1, <3>2
  <2> QED  BY <1>1, <2>3
<1> SUFFICES ASSUME NEW m \in 1 .. Len(source) + 1, NEW n \in 1 .. Len(source) + 1,
                    Items(m) = Items(n)
             PROVE  Offset(m) = Offset(n)
  OBVIOUS
<1>3. m <= n \/ n <= m  BY <1>0
<1> QED  BY <1>2, <1>3

\* Every item is that of a line.
LEMMA ItemLine ==
  ASSUME IsProgram(source)
  PROVE  \A k \in 1 .. Items(Len(source) + 1) :
            \E n \in 1 .. Len(source) : HasItem(n) /\ Items(n) = k - 1
<1> SUFFICES ASSUME NEW k \in 1 .. Items(Len(source) + 1)
             PROVE  \E n \in 1 .. Len(source) : HasItem(n) /\ Items(n) = k - 1
  OBVIOUS
<1>0. Len(source) \in Nat /\ Len(source) + 1 \in 1 .. Len(source) + 1  BY DEF IsProgram
<1>1. k \in Nat /\ k >= 1 /\ Items(Len(source) + 1) \in Nat  BY <1>0, ItemsStep
<1> DEFINE S == {n \in 1 .. Len(source) + 1 : Items(n) >= k}
           R == {ss \in Nat \X Nat : ss[1] < ss[2]}
<1>2. S \subseteq Nat /\ S # {}  BY <1>0, <1>1
<1>3. IsWellFoundedOn(R, Nat)  BY NatLessThanWellFounded DEF OpToRel
<1>4. PICK x \in S : \A y \in S : ~(<<y, x>> \in R)
  <2> HIDE DEF R, S
  <2> QED  BY <1>2, <1>3, WFMin
<1>5. x \in 1 .. Len(source) + 1 /\ Items(x) >= k /\ Items(x) \in Nat  BY ItemsStep
<1>6. x # 1
  <2>1. Items(1) = 0  BY ItemsStep
  <2> QED  BY <1>1, <1>5, <2>1
<1>7. PICK n \in 1 .. Len(source) : x = n + 1
  <2>1. x - 1 \in 1 .. Len(source) /\ x = (x - 1) + 1  BY <1>0, <1>5, <1>6
  <2> QED  BY <2>1
<1>8. n \in 1 .. Len(source) + 1 /\ n \in Nat /\ n < x  BY <1>0, <1>7
<1>9. ~(Items(n) >= k) /\ Items(n) \in Nat
  <2>1. <<n, x>> \in R  BY <1>5, <1>8
  <2>2. n \notin S  BY <1>4, <2>1
  <2> QED  BY <1>8, <2>2, ItemsStep
<1>10. Items(x) = IF HasItem(n) THEN Items(n) + 1 ELSE Items(n)  BY <1>7, ItemsStep
<1>11. HasItem(n) /\ Items(n) = k - 1  BY <1>1, <1>5, <1>9, <1>10
<1> QED  BY <1>11

\* The lines in front of a line stay as long as the source does.
LEMMA SourceKept ==
  ASSUME source' = source
  PROVE  \A n : HasItem(n)' = HasItem(n) /\ Items(n)' = Items(n) /\ Offset(n)' = Offset(n)
BY DEF HasItem, Items, Offset, Span

\* Reading a line: its item and its label are recorded.
LEMMA ReadLineAsm ==
  ASSUME AsmInv, AsmSeqs, ReadLine
  PROVE  AsmInv'
<1>1. /\ phase = "read" /\ line <= Len(source) /\ labels' = Recorded(source[line])
      /\ Collect(source[line]) /\ line' = line + 1
      /\ source' = source /\ base' = base /\ item_addrs' = item_addrs /\ addr' = addr
      /\ binary' = binary
  BY DEF ReadLine
<1>2. /\ IsProgram(source) /\ line \in 1 .. Len(source) /\ Len(source) \in Nat
      /\ DOMAIN source = 1 .. Len(source) /\ IsSeq(items)
      /\ Len(items) \in Nat /\ DOMAIN items = 1 .. Len(items)
  BY <1>1, AsmLens
<1>3. phase' \in {"read", "err", "panic"}  BY <1>1 DEF Collect
<1>4. CASE phase' \in {"err", "panic"}  BY <1>1, <1>4 DEF AsmInv
<1>5. CASE phase' = "read"
  <2>1. Read = line - 1 /\ Read' = line /\ Read + 1 = line
    BY <1>1, <1>2, <1>5 DEF Read
  <2>2. ItemsInv /\ LabelsInv  BY <1>1 DEF AsmInv
  <2>3. Items(line) = Len(items) /\ Items(line) \in Nat
    BY <1>2, <2>1, <2>2 DEF ItemsInv
  <2>4. \/ ~HasItem(line) /\ items' = items
        \/ HasItem(line) /\ \E item \in Statement(source[line]) : items' = Append(items, item)
    <3>1. phase' \notin {"err", "panic"}  BY <1>5
    <3>2. CASE source[line].op = None
      <4>1. Statement(source[line]) = {}  BY <3>2 DEF Statement, None
      <4> QED  BY <1>1, <3>1, <3>2, <4>1 DEF Collect, HasItem
    <3>3. CASE source[line].op # None
      BY <1>1, <3>1, <3>3 DEF Collect, HasItem
    <3> QED  BY <3>2, <3>3
  <2>5. /\ Len(items') = Items(line + 1)
        /\ \A i \in 1 .. Len(items) : items'[i] = items[i]
        /\ HasItem(line) =>
              /\ items'[Items(line) + 1].op = source[line].op
              /\ Size(items'[Items(line) + 1]) = Span(source[line])
              /\ source[line].op # ".string" => items'[Items(line) + 1].args = source[line].args
    <3>1. CASE ~HasItem(line) /\ items' = items
      <4>1. Items(line + 1) = Items(line)  BY <1>2, <3>1, ItemsStep
      <4> QED  BY <2>3, <3>1, <4>1
    <3>2. CASE HasItem(line) /\ \E item \in Statement(source[line]) : items' = Append(items, item)
      <4>1. PICK item \in Statement(source[line]) : items' = Append(items, item)  BY <3>2
      <4>2. /\ Len(items') = Len(items) + 1 /\ items'[Len(items) + 1] = item
            /\ \A i \in 1 .. Len(items) : items'[i] = items[i]
        BY <1>2, <4>1, SeqAdd
      <4>3. Items(line + 1) = Items(line) + 1  BY <1>2, <3>2, ItemsStep
      <4>4. /\ item.op = source[line].op
            /\ item.op = ".string" => Len(item.text) = Len(Joined(source[line].text)) + 1
            /\ item.op # ".string" => item.args = source[line].args
        BY <1>2, StatementItem
      <4>5. Size(item) = Span(source[line])
        BY <3>2, <4>4 DEF Size, Span, HasItem
      <4> QED  BY <2>3, <4>2, <4>3, <4>4, <4>5
    <3> QED  BY <2>4, <3>1, <3>2
  <2>6. ItemsInv'
    <3>1. (Len(items) = Items(Read + 1))'
      BY <1>1, <2>1, <2>5, SourceKept DEF Items
    <3>2. ASSUME NEW n \in 1 .. line, HasItem(n)
          PROVE  /\ items'[Items(n) + 1].op = source[n].op
                 /\ Size(items'[Items(n) + 1]) = Span(source[n])
                 /\ source[n].op # ".string" => items'[Items(n) + 1].args = source[n].args
      <4>1. CASE n = line  BY <2>5, <3>2, <4>1
      <4>2. CASE n # line
        <5>1. /\ n \in 1 .. Read /\ n \in 1 .. Len(source) /\ n < line
              /\ line \in 1 .. Len(source) + 1 /\ n \in 1 .. Len(source) + 1
          BY <1>2, <2>1, <4>2
        <5>2. Items(n) < Items(line) /\ Items(n) \in Nat  BY <1>2, <3>2, <5>1, ItemsOrder, ItemsStep
        <5>3. Items(n) + 1 \in 1 .. Len(items)  BY <1>2, <2>3, <5>2
        <5>4. items'[Items(n) + 1] = items[Items(n) + 1]  BY <2>5, <5>3
        <5> QED  BY <2>2, <3>2, <5>1, <5>4 DEF ItemsInv
      <4> QED  BY <4>1, <4>2
    <3>3. \A n \in 1 .. line : (HasItem(n) =>
        /\ items[Items(n) + 1].op = source[n].op
        /\ Size(items[Items(n) + 1]) = Span(source[n])
        /\ source[n].op # ".string" => items[Items(n) + 1].args = source[n].args)'
      BY <1>1, <3>2, SourceKept DEF Size, Span
    <3> QED  BY <2>1, <3>1, <3>3 DEF ItemsInv
  <2>7. LabelsInv'
    <3> SUFFICES ASSUME NEW l \in DOMAIN labels'
                 PROVE  l # None /\ \E n \in 1 .. line :
                           LastAt(l, n)' /\ labels'[l] = Items(n) + 1
      BY <1>1, <2>1, SourceKept DEF LabelsInv
    <3>1. /\ DOMAIN labels' = DOMAIN labels \cup ({source[line].label} \ {None})
          /\ labels'[l] = IF l = source[line].label THEN Len(items) + 1 ELSE labels[l]
      BY <1>1 DEF Recorded
    <3>2. PICK k \in 1 .. Len(source) : k = line  BY <1>2
    <3>3. CASE l = source[line].label
      <4>1. LastAt(l, k)'
        <5>1. source'[k].label = l  BY <1>1, <3>2, <3>3
        <5>2. Read' = k /\ k + 1 .. k = {}  BY <2>1, <3>2
        <5> QED  BY <5>1, <5>2 DEF LastAt
      <4>2. labels'[l] = Items(k) + 1 /\ l # None
        BY <2>2, <2>3, <3>1, <3>2, <3>3 DEF LabelsInv
      <4> QED  BY <1>2, <3>2, <4>1, <4>2
    <3>4. CASE l # source[line].label
      <4>1. l \in DOMAIN labels /\ labels'[l] = labels[l]  BY <3>1, <3>4
      <4>2. PICK n \in 1 .. Read : LastAt(l, n) /\ labels[l] = Items(n) + 1 /\ l # None
        BY <2>2, <4>1 DEF LabelsInv
      <4>3. n \in 1 .. line /\ n \in Nat  BY <1>2, <2>1, <4>2
      <4>4. LastAt(l, n)'
        <5>1. source'[n].label = l  BY <1>1, <4>2 DEF LastAt
        <5>2. \A m \in n + 1 .. line : source'[m].label # l
          <6> SUFFICES ASSUME NEW m \in n + 1 .. line PROVE source[m].label # l
            BY <1>1
          <6>1. m = line \/ m \in n + 1 .. Read  BY <1>2, <2>1, <4>3
          <6> QED  BY <3>4, <4>2, <6>1 DEF LastAt
        <5> QED  BY <2>1, <5>1, <5>2 DEF LastAt
      <4> QED  BY <4>1, <4>2, <4>3, <4>4
    <3> QED  BY <3>3, <3>4
  <2> QED  BY <1>1, <1>2, <1>5, <2>6, <2>7 DEF AsmInv
<1> QED  BY <1>3, <1>4, <1>5

\* The labels stand where they stood while the source and what is read stay.
LEMMA LabelsKept ==
  ASSUME LabelsInv, source' = source, labels' = labels, Read' = Read
  PROVE  LabelsInv'
<1> SUFFICES ASSUME NEW l \in DOMAIN labels
             PROVE  l # None /\ \E n \in 1 .. Read : LastAt(l, n)' /\ labels[l] = Items(n)' + 1
  BY DEF LabelsInv
<1>1. PICK n \in 1 .. Read : LastAt(l, n) /\ labels[l] = Items(n) + 1 /\ l # None
  BY DEF LabelsInv
<1>2. LastAt(l, n)'  BY <1>1 DEF LastAt
<1> QED  BY <1>1, <1>2, SourceKept

\* All lines are read.
LEMMA EndOfSourceAsm ==
  ASSUME AsmInv, AsmSeqs, EndOfSource
  PROVE  AsmInv'
<1>1. /\ phase = "read" /\ line > Len(source) /\ phase' = "place"
      /\ UNCHANGED <<source, base, items, labels, item_addrs, addr, binary>>
  BY DEF EndOfSource
<1>2. IsProgram(source) /\ line \in Nat /\ Len(source) \in Nat  BY DEF AsmSeqs, IsProgram
<1>3. /\ base \in Bases /\ base \in Nat /\ line <= Len(source) + 1 /\ item_addrs = <<>>
      /\ addr = base /\ binary = <<>> /\ ItemsInv /\ LabelsInv
  BY <1>1, SourceAssumption DEF AsmInv
<1>4. Read' = Len(source) /\ Read = Len(source)  BY <1>1, <1>2, <1>3 DEF Read
<1>5. ItemsInv'
  BY <1>1, <1>3, <1>4, SourceKept DEF ItemsInv, HasItem, Items, Size, Span
<1>6. LabelsInv'
  BY <1>1, <1>3, <1>4, LabelsKept
<1>7. PlaceInv'
  <2>1. IsSeq(<<>>) /\ Len(item_addrs) = 0 /\ Len(item_addrs') = 0 /\ item_addrs' = <<>>
    BY <1>1, <1>3, SeqEmpty
  <2>2. Len(items') \in Nat /\ Len(items') = Len(items)
    BY <1>1, SeqIs DEF AsmSeqs
  <2>3. \A n \in 1 .. Len(source) + 1 : Items(n) = 0 => addr = base + Offset(n)
    <3> SUFFICES ASSUME NEW n \in 1 .. Len(source) + 1, Items(n) = 0
                 PROVE  addr = base + Offset(n)
      OBVIOUS
    <3>1. 1 \in 1 .. Len(source) + 1  BY <1>2
    <3>2. Items(1) = 0 /\ Offset(1) = 0  BY <1>2, ItemsStep, OffsetStep
    <3>3. Offset(n) = Offset(1)  BY <1>2, <3>1, <3>2, SameOffset
    <3> QED  BY <1>3, <3>2, <3>3
  <2>4. \A n \in 1 .. Len(source) : ~(Items(n) < 0)
    <3> SUFFICES ASSUME NEW n \in 1 .. Len(source) PROVE ~(Items(n) < 0)
      OBVIOUS
    <3>1. n \in 1 .. Len(source) + 1  BY <1>2
    <3>2. Items(n) \in Nat  BY <1>2, <3>1, ItemsStep
    <3> QED  BY <3>2
  <2>5. IsSeq(item_addrs)'  BY <2>1 DEF IsSeq
  <2> QED  BY <1>1, <2>1, <2>2, <2>3, <2>4, <2>5, SourceKept DEF PlaceInv
<1> QED  BY <1>1, <1>3, <1>5, <1>6, <1>7 DEF AsmInv

\* Every item is as long as its line in the source.
LEMMA ItemSpan ==
  ASSUME IsProgram(source), ItemsInv, phase # "read", NEW k \in 1 .. Len(items)
  PROVE  \E n \in 1 .. Len(source) :
            /\ HasItem(n) /\ Items(n) = k - 1 /\ Items(n + 1) = k
            /\ n \in 1 .. Len(source) + 1 /\ n + 1 \in 1 .. Len(source) + 1
            /\ items[k].op = source[n].op /\ Size(items[k]) = Span(source[n])
            /\ source[n].op # ".string" => items[k].args = source[n].args
            /\ Offset(n + 1) = Offset(n) + Size(items[k]) /\ Size(items[k]) \in Nat
<1>1. Read = Len(source) /\ Len(source) \in Nat  BY DEF Read, IsProgram
<1>2. Len(items) = Items(Len(source) + 1)  BY <1>1 DEF ItemsInv
<1>3. PICK n \in 1 .. Len(source) : HasItem(n) /\ Items(n) = k - 1  BY <1>2, ItemLine
<1>4. k \in Nat /\ Items(n) + 1 = k  BY <1>3
<1>5. Items(n + 1) = k  BY <1>3, <1>4, ItemsStep
<1>6. n \in 1 .. Len(source) + 1 /\ n + 1 \in 1 .. Len(source) + 1  BY <1>1
<1>7. /\ items[k].op = source[n].op /\ Size(items[k]) = Span(source[n])
      /\ source[n].op # ".string" => items[k].args = source[n].args
  BY <1>1, <1>3, <1>4 DEF ItemsInv
<1>8. Offset(n + 1) = Offset(n) + Span(source[n]) /\ Span(source[n]) \in Nat
  BY OffsetStep, SpanFacts
<1> QED  BY <1>3, <1>5, <1>6, <1>7, <1>8

\* An item gets its address.
LEMMA PlaceItemAsm ==
  ASSUME AsmInv, AsmSeqs, PlaceItem
  PROVE  AsmInv'
<1>1. /\ phase = "place" /\ phase' = phase /\ Len(item_addrs) < Len(items)
      /\ item_addrs' = Append(item_addrs, addr)
      /\ addr' = addr + Size(items[Len(item_addrs) + 1])
      /\ UNCHANGED <<source, base, items, labels, binary>>
  BY DEF PlaceItem
<1>2. IsProgram(source) /\ Len(source) \in Nat /\ Len(items) \in Nat
  BY AsmLens
<1>3. /\ base \in Bases /\ base \in Nat /\ binary = <<>> /\ ItemsInv /\ LabelsInv /\ PlaceInv
  BY <1>1, SourceAssumption DEF AsmInv
<1>4. Read' = Len(source) /\ Read = Len(source)  BY <1>1 DEF Read
<1>5. ItemsInv'
  BY <1>1, <1>3, <1>4, SourceKept DEF ItemsInv, HasItem, Items, Size, Span
<1>6. LabelsInv'
  BY <1>1, <1>3, <1>4, LabelsKept
<1>7. PICK i \in Nat : i = Len(item_addrs) /\ IsSeq(item_addrs)
  BY <1>3, SeqIs DEF PlaceInv
<1>8. /\ IsSeq(item_addrs') /\ Len(item_addrs') = i + 1 /\ item_addrs'[i + 1] = addr
      /\ \A j \in 1 .. i : item_addrs'[j] = item_addrs[j]
  BY <1>1, <1>7, SeqAdd
<1>9. PICK k \in 1 .. Len(items) : k = i + 1 /\ k - 1 = i /\ phase # "read"
  BY <1>1, <1>2, <1>7
<1>10. PICK n \in 1 .. Len(source) :
         /\ HasItem(n) /\ Items(n) = i /\ Items(n + 1) = i + 1
         /\ n \in 1 .. Len(source) + 1 /\ n + 1 \in 1 .. Len(source) + 1
         /\ Offset(n + 1) = Offset(n) + Size(items[i + 1]) /\ Size(items[i + 1]) \in Nat
  <2>1. PICK n \in 1 .. Len(source) :
          /\ HasItem(n) /\ Items(n) = k - 1 /\ Items(n + 1) = k
          /\ n \in 1 .. Len(source) + 1 /\ n + 1 \in 1 .. Len(source) + 1
          /\ Offset(n + 1) = Offset(n) + Size(items[k]) /\ Size(items[k]) \in Nat
    BY <1>2, <1>3, <1>9, ItemSpan
  <2> QED  BY <1>9, <2>1
<1>11. addr = base + Offset(n) /\ Offset(n) \in Nat
  <2>1. Items(n) = Len(item_addrs)  BY <1>7, <1>9, <1>10
  <2> QED  BY <1>2, <1>3, <1>10, <2>1, OffsetStep DEF PlaceInv
<1>12. addr' = base + Offset(n + 1)  BY <1>1, <1>3, <1>7, <1>10, <1>11
<1>13. ASSUME NEW m \in 1 .. Len(source) + 1, Items(m) = i + 1
       PROVE  addr' = base + Offset(m)
  <2>1. Offset(m) = Offset(n + 1)  BY <1>2, <1>10, <1>13, SameOffset
  <2> QED  BY <1>12, <2>1
<1>14. ASSUME NEW m \in 1 .. Len(source), Items(m) < i + 1
       PROVE  item_addrs'[Items(m) + 1] = base + Offset(m)
  <2>1. m \in 1 .. Len(source) + 1  BY <1>2
  <2>2. Items(m) \in Nat  BY <1>2, <2>1, ItemsStep
  <2>3. CASE Items(m) = i
    <3>1. Offset(m) = Offset(n)  BY <1>2, <1>9, <1>10, <2>1, <2>3, SameOffset
    <3> QED  BY <1>8, <1>11, <2>3, <3>1
  <2>4. CASE Items(m) < i
    <3>1. item_addrs[Items(m) + 1] = base + Offset(m)  BY <1>3, <1>7, <2>4 DEF PlaceInv
    <3>2. Items(m) + 1 \in 1 .. i  BY <2>2, <2>4
    <3> QED  BY <1>8, <3>1, <3>2
  <2> QED  BY <1>14, <2>2, <2>3, <2>4
<1>15. PlaceInv'
  <2>1. IsSeq(item_addrs)' /\ (Len(item_addrs) <= Len(items))'
    BY <1>1, <1>2, <1>7, <1>8 DEF IsSeq
  <2> QED  BY <1>1, <1>8, <1>13, <1>14, <2>1, SourceKept DEF PlaceInv
<1> QED  BY <1>1, <1>3, <1>5, <1>6, <1>15 DEF AsmInv

\* The labels get their addresses.
LEMMA ResolveLabelsAsm ==
  ASSUME AsmInv, AsmSeqs, ResolveLabels
  PROVE  AsmInv'
<1>1. /\ phase = "place" /\ Len(item_addrs) = Len(items) /\ line' = 1
      /\ UNCHANGED <<source, base, items, labels, item_addrs, addr, binary>>
      /\ \/ phase' = "panic"
         \/ /\ phase' = "encode" /\ \A l \in DOMAIN labels : labels[l] <= Len(items)
            /\ label_addrs' = [l \in DOMAIN labels |-> item_addrs[labels[l]]]
  BY DEF ResolveLabels
<1>2. IsProgram(source) /\ Len(source) \in Nat /\ Len(items) \in Nat
  BY AsmLens
<1>3. /\ base \in Bases /\ binary = <<>> /\ ItemsInv /\ LabelsInv /\ PlaceInv
  BY <1>1 DEF AsmInv
<1>4. CASE phase' = "panic"  BY <1>1, <1>3, <1>4 DEF AsmInv
<1>5. CASE phase' = "encode"
  <2>1. Read' = Len(source) /\ Read = Len(source)  BY <1>1, <1>5 DEF Read
  <2>2. ItemsInv'
    BY <1>1, <1>3, <2>1, SourceKept DEF ItemsInv, HasItem, Items, Size, Span
  <2>3. LabelsInv'
    BY <1>1, <1>3, <2>1, LabelsKept
  <2>4. PlaceInv'
    BY <1>1, <1>3, SourceKept DEF PlaceInv, IsSeq
  <2>5. AddrsInv'
    BY <1>1, <1>5 DEF AddrsInv
  <2>6. Len(binary') = 0  BY <1>1, <1>3, SeqEmpty
  <2>7. \A n \in 1 .. Len(source) + 1 : Items(n) = 0 => Offset(n) = 0
    <3> SUFFICES ASSUME NEW n \in 1 .. Len(source) + 1, Items(n) = 0
                 PROVE  Offset(n) = 0
      OBVIOUS
    <3>1. 1 \in 1 .. Len(source) + 1  BY <1>2
    <3>2. Items(1) = 0 /\ Offset(1) = 0  BY <1>2, ItemsStep, OffsetStep
    <3> QED  BY <1>2, <3>1, <3>2, SameOffset
  <2>8. \A n \in 1 .. Len(source) : ~(Items(n) < 0)
    <3> SUFFICES ASSUME NEW n \in 1 .. Len(source) PROVE ~(Items(n) < 0)
      OBVIOUS
    <3>1. n \in 1 .. Len(source) + 1  BY <1>2
    <3>2. Items(n) \in Nat  BY <1>2, <3>1, ItemsStep
    <3> QED  BY <3>2
  <2>9. EncodeInv'
    <3>1. (line <= Len(items) + 1)'  BY <1>1, <1>2
    <3>2. line' - 1 = 0  BY <1>1
    <3>3. (\A n \in 1 .. Len(source) + 1 : Items(n) = line - 1 => Len(binary) = Offset(n))'
      BY <1>1, <2>6, <2>7, <3>2, SourceKept
    <3>4. \A n \in 1 .. Len(source) : ~(Items(n)' < line' - 1)
      BY <1>1, <2>8, <3>2, SourceKept
    <3> QED  BY <1>1, <3>1, <3>3, <3>4 DEF EncodeInv
  <2> QED  BY <1>1, <1>3, <1>5, <2>2, <2>3, <2>4, <2>5, <2>9 DEF AsmInv
<1> QED  BY <1>1, <1>4, <1>5

\* The first byte of a word leads to the word.
LEMMA WordIsRead ==
  ASSUME NEW w
  PROVE  1 \in 1 .. WordBytes /\ WordCells(w)[1][2] = w
<1>1. 1 \in 1 .. WordBytes  BY IsaAssumption
<1>2. WordCells(w)[1] = <<"code", w, 1>>  BY <1>1 DEF WordCells
<1> QED  BY <1>1, <1>2

\* An item is encoded, as far behind the base as its line.
LEMMA EncodeItemAsm ==
  ASSUME AsmInv, AsmSeqs, EncodeItem
  PROVE  AsmInv'
<1>1. /\ phase = "encode" /\ line <= Len(items) /\ line' = line + 1
      /\ UNCHANGED <<source, base, items, labels, item_addrs, addr, label_addrs>>
      /\ \/ phase' = "err"
         \/ phase' = "encode" /\ \E cells \in ItemCells(line) : binary' = binary \o cells
  BY DEF EncodeItem
<1>2. /\ IsProgram(source) /\ Len(source) \in Nat /\ Len(items) \in Nat /\ IsSeq(binary)
      /\ line \in 1 .. Len(items) /\ DOMAIN items = 1 .. Len(items)
  BY <1>1, AsmLens
<1>3. /\ base \in Bases /\ ItemsInv /\ LabelsInv /\ PlaceInv /\ AddrsInv /\ EncodeInv
  BY <1>1 DEF AsmInv
<1>4. CASE phase' = "err"  BY <1>1, <1>3, <1>4 DEF AsmInv
<1>5. CASE phase' = "encode" /\ \E cells \in ItemCells(line) : binary' = binary \o cells
  <2>1. Read' = Len(source) /\ Read = Len(source)  BY <1>1, <1>5 DEF Read
  <2>2. ItemsInv'
    BY <1>1, <1>3, <2>1, SourceKept DEF ItemsInv, HasItem, Items, Size, Span
  <2>3. LabelsInv'  BY <1>1, <1>3, <2>1, LabelsKept
  <2>4. PlaceInv'
    BY <1>1, <1>3, SourceKept DEF PlaceInv, IsSeq
  <2>5. AddrsInv'
    BY <1>1, <1>3 DEF AddrsInv
  <2>6. PICK k \in 1 .. Len(items) : k = line  BY <1>2
  <2>7. PICK cells \in ItemCells(k) : binary' = binary \o cells  BY <1>5, <2>6
  <2>8. PICK n \in 1 .. Len(source) :
          /\ HasItem(n) /\ Items(n) = k - 1 /\ Items(n + 1) = k
          /\ n \in 1 .. Len(source) + 1 /\ n + 1 \in 1 .. Len(source) + 1
          /\ items[k].op = source[n].op /\ Size(items[k]) = Span(source[n])
          /\ source[n].op # ".string" => items[k].args = source[n].args
          /\ Offset(n + 1) = Offset(n) + Size(items[k]) /\ Size(items[k]) \in Nat
    <3>1. phase # "read"  BY <1>1
    <3> QED  BY <1>2, <1>3, <3>1, ItemSpan
  <2>9. /\ IsSeq(cells) /\ Len(cells) = Size(items[k])
    BY <1>2, ItemCellsSeq
  <2>10. Len(binary) = Offset(n) /\ Offset(n) \in Nat
    BY <1>2, <1>3, <2>6, <2>8, OffsetStep DEF EncodeInv
  <2>11. /\ Len(binary') = Offset(n + 1)
         /\ \A i \in 1 .. Len(binary) : binary'[i] = binary[i]
         /\ \A i \in 1 .. Len(cells) : binary'[Offset(n) + i] = cells[i]
    <3>1. /\ Len(binary') = Len(binary) + Len(cells)
          /\ \A i \in 1 .. Len(binary) : binary'[i] = binary[i]
          /\ \A i \in 1 .. Len(cells) : binary'[Len(binary) + i] = cells[i]
      <4>1. IsSeq(binary) /\ IsSeq(cells)  BY <1>2, <2>9
      <4>2. /\ Len(binary \o cells) = Len(binary) + Len(cells)
            /\ \A i \in 1 .. Len(binary) : (binary \o cells)[i] = binary[i]
            /\ \A i \in 1 .. Len(cells) : (binary \o cells)[Len(binary) + i] = cells[i]
        BY <4>1, SeqJoin
      <4> QED  BY <2>7, <4>2
    <3>2. Len(binary') = Offset(n + 1)  BY <2>8, <2>9, <2>10, <3>1
    <3> QED  BY <2>10, <3>1, <3>2
  <2>12. ASSUME NEW m \in 1 .. Len(source) + 1, Items(m) = k
         PROVE  Len(binary') = Offset(m)
    <3>1. Offset(m) = Offset(n + 1)  BY <1>2, <2>8, <2>12, SameOffset
    <3> QED  BY <2>11, <3>1
  <2>13. ASSUME NEW m \in 1 .. Len(source), HasItem(m), source[m].op # ".string", Items(m) < k
         PROVE  /\ Offset(m) + 1 \in 1 .. Len(binary')
                /\ FetchAt(binary', Offset(m)) \in
                      EncodeInstruction(source[m].op, source[m].args, label_addrs, base + Offset(m))
    <3>1. m \in 1 .. Len(source) + 1  BY <1>2
    <3>2. Items(m) \in Nat /\ Offset(m) \in Nat  BY <1>2, <3>1, ItemsStep, OffsetStep
    <3>3. CASE Items(m) < k - 1
      <4>1. /\ Offset(m) + 1 \in 1 .. Len(binary)
            /\ FetchAt(binary, Offset(m)) \in
                 EncodeInstruction(source[m].op, source[m].args, label_addrs, base + Offset(m))
        BY <1>3, <2>6, <2>13, <3>3 DEF EncodeInv
      <4>2. binary'[Offset(m) + 1] = binary[Offset(m) + 1]  BY <2>11, <4>1
      <4>3. Offset(m) + 1 \in 1 .. Len(binary')
        BY <2>8, <2>10, <2>11, <3>2, <4>1
      <4> QED  BY <4>1, <4>2, <4>3 DEF FetchAt
    <3>4. CASE Items(m) = k - 1
      <4>1. m = n  BY <1>2, <2>8, <2>13, <3>4, ItemsOrder
      <4>2. items[k].op # ".string" /\ items[k].op = source[m].op /\ items[k].args = source[m].args
        BY <2>8, <2>13, <4>1
      <4>3. PICK w \in EncodeInstruction(items[k].op, items[k].args, label_addrs, item_addrs[k]) :
               cells = WordCells(w)
        BY <4>2 DEF ItemCells
      <4>4. item_addrs[k] = base + Offset(m)
        <5>1. Items(m) < Len(item_addrs) /\ Items(m) + 1 = k
          BY <1>2, <1>3, <2>6, <3>2, <3>4 DEF AddrsInv
        <5> QED  BY <1>3, <5>1 DEF PlaceInv
      <4>5. Len(cells) = WordBytes  BY <2>9, <4>2 DEF Size
      <4>6. binary'[Offset(m) + 1] = cells[1] /\ cells[1][2] = w
        BY <2>11, <4>1, <4>3, <4>5, WordIsRead
      <4>7. FetchAt(binary', Offset(m)) = w  BY <4>6 DEF FetchAt
      <4>8. Offset(m) + 1 \in 1 .. Len(binary')
        <5>1. Len(binary') = Offset(m) + WordBytes  BY <2>8, <2>9, <2>11, <4>1, <4>5
        <5> QED  BY <3>2, <5>1, IsaAssumption
      <4> QED  BY <4>2, <4>3, <4>4, <4>7, <4>8
    <3> QED  BY <2>13, <3>2, <3>3, <3>4
  <2>14. EncodeInv'
    <3>1. line' - 1 = k /\ line' <= Len(items) + 1  BY <1>1, <1>2, <2>6
    <3>2. (line <= Len(items) + 1)'  BY <1>1, <3>1
    <3>3. (\A m \in 1 .. Len(source) + 1 : Items(m) = line - 1 => Len(binary) = Offset(m))'
      BY <1>1, <2>12, <3>1, SourceKept
    <3>4. \A m \in 1 .. Len(source) :
             HasItem(m)' /\ source'[m].op # ".string" /\ Items(m)' < line' - 1 =>
                /\ Offset(m)' + 1 \in 1 .. Len(binary')
                /\ FetchAt(binary', Offset(m)') \in
                      EncodeInstruction(source'[m].op, source'[m].args, label_addrs', base' + Offset(m)')
      BY <1>1, <2>13, <3>1, SourceKept
    <3> QED  BY <1>1, <3>2, <3>3, <3>4 DEF EncodeInv
  <2> QED  BY <1>1, <1>3, <1>5, <2>2, <2>3, <2>4, <2>5, <2>14 DEF AsmInv
<1> QED  BY <1>1, <1>4, <1>5

\* The binary is whole.
LEMMA AssembledAsm ==
  ASSUME AsmInv, AsmSeqs, Assembled
  PROVE  AsmInv'
<1>1. /\ phase = "encode" /\ line > Len(items) /\ phase' = "ok" /\ UNCHANGED line
      /\ UNCHANGED <<source, base, items, labels, item_addrs, addr, label_addrs, binary>>
  BY DEF Assembled
<1>2. /\ base \in Bases /\ ItemsInv /\ LabelsInv /\ PlaceInv /\ AddrsInv /\ EncodeInv
  BY <1>1 DEF AsmInv
<1>3. Read' = Len(source) /\ Read = Len(source)  BY <1>1 DEF Read
<1>4. ItemsInv'
  BY <1>1, <1>2, <1>3, SourceKept DEF ItemsInv, HasItem, Items, Size, Span
<1>5. LabelsInv'  BY <1>1, <1>2, <1>3, LabelsKept
<1>6. PlaceInv'  BY <1>1, <1>2, SourceKept DEF PlaceInv, IsSeq
<1>7. AddrsInv'  BY <1>1, <1>2 DEF AddrsInv
<1>8. EncodeInv'
  BY <1>1, <1>2, SourceKept DEF EncodeInv, FetchAt
<1> QED  BY <1>1, <1>2, <1>4, <1>5, <1>6, <1>7, <1>8 DEF AsmInv

\* At first, nothing is read.
LEMMA InitAsm ==
  ASSUME Init
  PROVE  AsmInv
<1>1. /\ base \in Bases /\ phase = "read" /\ line = 1 /\ items = <<>> /\ labels = <<>>
      /\ item_addrs = <<>> /\ addr = base /\ binary = <<>> /\ source \in Sources
  BY DEF Init, AsmInit
<1>2. Len(source) \in Nat  BY <1>1, SourceAssumption DEF IsProgram
<1>3. Read = 0  BY <1>1 DEF Read
<1>4. Len(items) = 0 /\ DOMAIN labels = {}  BY <1>1, SeqEmpty
<1>5. Items(1) = 0 /\ Read + 1 = 1
  <2>1. {m \in 1 .. 1 - 1 : source[m].op # None} = {}  OBVIOUS
  <2>2. Cardinality({}) = 0  BY FS_EmptySet
  <2> QED  BY <1>3, <2>1, <2>2 DEF Items
<1>6. ItemsInv  BY <1>3, <1>4, <1>5 DEF ItemsInv
<1>7. LabelsInv  BY <1>4 DEF LabelsInv
<1> QED  BY <1>1, <1>2, <1>6, <1>7 DEF AsmInv

\* The next program: nothing of it is read.
LEMMA NextProgramAsm ==
  ASSUME AsmInv, NextProgram
  PROVE  AsmInv'
<1>1. /\ base' = base /\ line' = 1 /\ addr' = base /\ items' = <<>> /\ labels' = <<>>
      /\ item_addrs' = <<>> /\ binary' = <<>>
      /\ \/ source' \in Seconds /\ phase' = "read"
         \/ phase' = "built"
  BY DEF NextProgram
<1>2. CASE phase' = "built"  BY <1>1, <1>2 DEF AsmInv
<1>3. CASE source' \in Seconds /\ phase' = "read"
  <2>1. Len(source') \in Nat  BY <1>3, BootAssumption DEF IsProgram
  <2>2. Read' = 0  BY <1>1, <1>3 DEF Read
  <2>3. Len(items') = 0 /\ DOMAIN labels' = {}  BY <1>1, SeqEmpty
  <2>4. Items(1)' = 0 /\ Read' + 1 = 1
    <3>1. {m \in 1 .. 1 - 1 : source'[m].op # None} = {}  OBVIOUS
    <3>2. Cardinality({}) = 0  BY FS_EmptySet
    <3> QED  BY <2>2, <3>1, <3>2 DEF Items
  <2>5. ItemsInv'  BY <2>2, <2>3, <2>4 DEF ItemsInv
  <2>6. LabelsInv'  BY <2>3 DEF LabelsInv
  <2> QED  BY <1>1, <1>3, <2>1, <2>5, <2>6 DEF AsmInv
<1> QED  BY <1>1, <1>2, <1>3

\* Every step keeps the assembly of the programs in order.
LEMMA NextAsm ==
  ASSUME AsmInv, AsmSeqs, [Next]_vars
  PROVE  AsmInv'
<1>1. CASE UNCHANGED asmVars
  <2>1. UNCHANGED <<source, base, phase, line, items, labels, item_addrs, addr, label_addrs, binary>>
    BY <1>1 DEF asmVars
  <2>2. Read' = Read  BY <2>1 DEF Read
  <2>3. ItemsInv => ItemsInv'
    BY <2>1, <2>2, SourceKept DEF ItemsInv, HasItem, Items, Size, Span
  <2>4. LabelsInv => LabelsInv'  BY <2>1, <2>2, LabelsKept
  <2>5. PlaceInv => PlaceInv'  BY <2>1, SourceKept DEF PlaceInv, IsSeq
  <2>6. AddrsInv => AddrsInv'  BY <2>1 DEF AddrsInv
  <2>7. EncodeInv => EncodeInv'  BY <2>1, SourceKept DEF EncodeInv, FetchAt
  <2> QED  BY <2>1, <2>3, <2>4, <2>5, <2>6, <2>7 DEF AsmInv
<1>2. CASE AsmNext
  BY <1>2, ReadLineAsm, EndOfSourceAsm, PlaceItemAsm, ResolveLabelsAsm, EncodeItemAsm,
     AssembledAsm DEF AsmNext
<1>3. CASE NextProgram  BY <1>3, NextProgramAsm
<1>4. CASE UNCHANGED vars \/ Build \/ Boot
  <2>1. UNCHANGED asmVars
    BY <1>4 DEF vars, Build, Boot, PowerOn, AfterAlloc, AfterPgtbl, FillAndTurnOn, FreeDemo,
                Realloc, AllocForUser, EnterProgram, CopyOverruns, TimerTick, Goto
  <2> QED  BY <1>1, <2>1
<1> QED  BY <1>2, <1>3, <1>4 DEF Next

\* mik-asm is always where its source says.
THEOREM AssemblyInvariant == Spec => []AsmInv
<1>1. Init => AsmInv  BY InitAsm
<1>2. AsmInv /\ BuildInv /\ [Next]_vars => AsmInv'  BY NextAsm DEF BuildInv
<1> QED  BY <1>1, <1>2, BuildInvariant, PTL DEF Spec

\* A distance in words stops short of one in bytes by less than a word.
LEMMA QuotFacts ==
  ASSUME NEW d \in Int
  PROVE  /\ Quot(d, WordBytes) \in Int
         /\ d >= 0 => 0 <= Quot(d, WordBytes) /\ Quot(d, WordBytes) <= d
         /\ d < 0 => d <= Quot(d, WordBytes) /\ Quot(d, WordBytes) <= 0
         /\ WordBytes * Quot(d, WordBytes) - d < WordBytes
         /\ d - WordBytes * Quot(d, WordBytes) < WordBytes
         /\ d % WordBytes = 0 => WordBytes * Quot(d, WordBytes) = d
<1>0. WordBytes \in Nat \ {0}  BY IsaAssumption
<1>1. ASSUME NEW e \in Nat
      PROVE  /\ e \div WordBytes \in Nat /\ e % WordBytes \in 0 .. WordBytes - 1
             /\ e = WordBytes * (e \div WordBytes) + (e % WordBytes)
             /\ e \div WordBytes <= e
  <2>1. PICK q \in Int, r \in 0 .. WordBytes - 1 :
          q = e \div WordBytes /\ r = e % WordBytes /\ e = WordBytes * q + r
    BY <1>0
  <2>2. q >= 0
    <3> SUFFICES ASSUME q < 0 PROVE FALSE
      BY <2>1
    <3>1. WordBytes * q <= -WordBytes  BY <1>0, <2>1
    <3> QED  BY <1>0, <2>1, <3>1
  <2>3. q <= WordBytes * q  BY <1>0, <2>1, <2>2
  <2> QED  BY <1>0, <2>1, <2>2, <2>3
<1>2. CASE d >= 0
  <2>1. d \in Nat /\ Quot(d, WordBytes) = d \div WordBytes  BY <1>2 DEF Quot
  <2>2. PICK q \in Nat, r \in 0 .. WordBytes - 1, y \in Int :
          /\ q = d \div WordBytes /\ r = d % WordBytes /\ y = WordBytes * q /\ d = y + r /\ q <= d
    <3>1. WordBytes * (d \div WordBytes) \in Int  BY <1>0, <1>1, <2>1
    <3> QED  BY <1>1, <2>1, <3>1
  <2> QED  BY <1>0, <1>2, <2>1, <2>2
<1>3. CASE d < 0
  <2>1. PICK e \in Nat : e = -d  BY <1>3
  <2>2. Quot(d, WordBytes) = -(e \div WordBytes)  BY <1>3, <2>1 DEF Quot
  <2>3. PICK q \in Nat, r \in 0 .. WordBytes - 1, y \in Int :
          /\ q = e \div WordBytes /\ r = e % WordBytes /\ y = WordBytes * q /\ e = y + r /\ q <= e
    <3>1. WordBytes * (e \div WordBytes) \in Int  BY <1>0, <1>1, <2>1
    <3> QED  BY <1>1, <2>1, <3>1
  <2>4. Quot(d, WordBytes) = -q /\ WordBytes * (-q) = -y  BY <1>0, <2>2, <2>3
  <2>5. d % WordBytes = 0 => r = 0
    <3> SUFFICES ASSUME d % WordBytes = 0 PROVE r = 0
      OBVIOUS
    <3>1. PICK k \in Int : d = WordBytes * k  BY <1>0
    <3>2. e = WordBytes * (-k) + 0 /\ -k \in Int  BY <1>0, <2>1, <3>1
    <3>3. 0 \in 0 .. WordBytes - 1  BY <1>0
    <3>4. e % WordBytes = 0  BY <1>0, <3>2, <3>3, DivUnique
    <3> QED  BY <2>3, <3>4
  <2> QED  BY <1>0, <1>3, <2>1, <2>3, <2>4, <2>5
<1> QED  BY <1>2, <1>3

\* The immediate of an instruction that names a label.
LabelImm(op, l, where, pc) ==
  (IF op = "li" THEN where[l] ELSE Quot(where[l] - pc, WordBytes)) % ImmSpan

\* The word of an instruction that takes an address as its last operand: what
\* its immediate is made of.
LEMMA LabelWord ==
  ASSUME NEW op \in Branches \cup {"li"}, NEW args, NEW where, NEW pc,
         NEW w \in EncodeInstruction(op, args, where, pc), Last(args).t = "label"
  PROVE  /\ w.op = op /\ Last(args).v \in DOMAIN where
         /\ w.imm = LabelImm(op, Last(args).v, where, pc)
<1> DEFINE kinds == {"number", "value", "target"}
           k == Len(Operands[op])
           kind == IF op = "li" THEN "value" ELSE "target"
<1>1. op \in {"jmp", "beq", "bne", "li"}  BY DEF Branches
<1>2. /\ Operands["jmp"] = <<"target">> /\ Operands["li"] = <<"rd", "value">>
      /\ Operands["beq"] = <<"rs1", "rs2", "target">>
      /\ Operands["bne"] = <<"rs1", "rs2", "target">>
  BY DEF Operands
<1>3. {i \in DOMAIN Operands[op] : Operands[op][i] \in kinds} = {k} /\ k # 0
      /\ Operands[op][k] = kind
  <2>1. CASE op = "jmp"
    <3>1. Operands[op] = <<"target">>  BY <1>2, <2>1
    <3>2. DOMAIN <<"target">> = {1} /\ Len(<<"target">>) = 1  OBVIOUS
    <3> QED  BY <2>1, <3>1, <3>2
  <2>2. CASE op = "li"
    <3>1. Operands[op] = <<"rd", "value">>  BY <1>2, <2>2
    <3>2. DOMAIN <<"rd", "value">> = {1, 2} /\ Len(<<"rd", "value">>) = 2  OBVIOUS
    <3> QED  BY <2>2, <3>1, <3>2
  <2>3. CASE op \in {"beq", "bne"}
    <3>1. Operands[op] = <<"rs1", "rs2", "target">>  BY <1>2, <2>3
    <3>2. /\ DOMAIN <<"rs1", "rs2", "target">> = {1, 2, 3}
          /\ Len(<<"rs1", "rs2", "target">>) = 3
      OBVIOUS
    <3> QED  BY <2>3, <3>1, <3>2
  <2> QED  BY <1>1, <2>1, <2>2, <2>3
<1>4. k = Len(args)
  <2>1. Len(Operands[op]) \in {0, Len(args)}  BY DEF EncodeInstruction
  <2> QED  BY <1>3, <2>1
<1>5. PICK d, a, b, n :
         /\ w = Encode(op, d, a, b, n)
         /\ n \in Field(kinds, op, args, where, pc)
  BY DEF EncodeInstruction
<1>6. w.op = op /\ w.imm = n % ImmSpan  BY <1>5 DEF Encode
<1>7. Field(kinds, op, args, where, pc) = Parse(kind, args[k], where, pc)
  <2> HIDE DEF kinds, k, kind
  <2>1. Field(kinds, op, args, where, pc) =
           UNION {Parse(Operands[op][i], args[i], where, pc) : i \in {k}}
    BY <1>3 DEF Field
  <2>2. UNION {Parse(Operands[op][i], args[i], where, pc) : i \in {k}} =
           Parse(Operands[op][k], args[k], where, pc)
    OBVIOUS
  <2> QED  BY <1>3, <2>1, <2>2
<1>8. args[k] = Last(args)  BY <1>4 DEF Last
<1> DEFINE tok == Last(args)
<1>9. n \in Parse(kind, tok, where, pc)  BY <1>5, <1>7, <1>8
<1>10. Address(tok, where) = {where[l] : l \in {tok.v} \cap DOMAIN where}  BY DEF Address
<1>11. CASE op = "li"
  <2>1. n \in Address(tok, where)  BY <1>9, <1>11 DEF Parse
  <2>2. tok.v \in DOMAIN where /\ n = where[tok.v]  BY <1>10, <2>1
  <2> QED  BY <1>6, <1>11, <2>2 DEF LabelImm
<1>12. CASE op # "li"
  <2>1. kind = "target"  BY <1>12
  <2> HIDE DEF kind
  <2>2. n \in {Quot(x - pc, WordBytes) : x \in Address(tok, where)}
    BY <1>9, <2>1 DEF Parse
  <2>3. tok.v \in DOMAIN where /\ n = Quot(where[tok.v] - pc, WordBytes)
    BY <1>10, <2>2
  <2> QED  BY <1>6, <1>12, <2>3 DEF LabelImm
<1> QED  BY <1>11, <1>12

\* The address of a label is that of the last line it is at.
LEMMA LabelPlace ==
  ASSUME AsmInv, AsmSeqs, phase = "ok", NEW l \in DOMAIN label_addrs
  PROVE  /\ LineOf(l) \in 1 .. Len(source)
         /\ label_addrs[l] = base + Offset(LineOf(l))
<1>1. /\ IsProgram(source) /\ Len(source) \in Nat /\ DOMAIN source = 1 .. Len(source)
      /\ LabelsInv /\ PlaceInv /\ AddrsInv /\ Len(items) \in Nat
  BY SeqIs DEF AsmInv, AsmSeqs, IsProgram
<1>2. Read = Len(source)  BY DEF Read
<1>3. /\ l \in DOMAIN labels /\ labels[l] <= Len(items) /\ label_addrs[l] = item_addrs[labels[l]]
      /\ Len(item_addrs) = Len(items)
  BY <1>1 DEF AddrsInv
<1>4. PICK n \in 1 .. Len(source) : LastAt(l, n) /\ labels[l] = Items(n) + 1
  BY <1>1, <1>2, <1>3 DEF LabelsInv
<1>5. label_addrs[l] = base + Offset(n)
  <2>1. n \in 1 .. Len(source) + 1  BY <1>1
  <2>2. Items(n) \in Nat  BY <1>1, <2>1, ItemsStep
  <2>3. Items(n) < Len(item_addrs)  BY <1>1, <1>3, <1>4, <2>2
  <2> QED  BY <1>1, <1>3, <1>4, <2>3 DEF PlaceInv
<1>6. n \in Defined(l) /\ \A m \in Defined(l) : m <= n
  <2>1. n \in Defined(l)  BY <1>1, <1>4 DEF Defined, LastAt
  <2>2. ASSUME NEW m \in Defined(l) PROVE m <= n
    <3>1. m \in 1 .. Len(source) /\ source[m].label = l  BY <1>1 DEF Defined
    <3>2. m \notin n + 1 .. Len(source)  BY <1>2, <1>4, <3>1 DEF LastAt
    <3> QED  BY <1>1, <3>1, <3>2
  <2> QED  BY <2>1, <2>2
<1>7. LineOf(l) \in Defined(l) /\ \A m \in Defined(l) : m <= LineOf(l)
  BY <1>6 DEF LineOf
<1>8. LineOf(l) = n
  <2>1. LineOf(l) \in 1 .. Len(source)  BY <1>1, <1>7 DEF Defined
  <2>2. n <= LineOf(l) /\ LineOf(l) <= n  BY <1>6, <1>7
  <2> QED  BY <1>1, <2>1, <2>2
<1> QED  BY <1>5, <1>8

\* A distance in words goes where it should, short by less than a word.
LEMMA BranchLands ==
  ASSUME NEW here \in Nat, NEW there \in Nat, 2 * here < ImmSpan, 2 * there < ImmSpan,
         NEW w, w.imm = Quot(there - here, WordBytes) % ImmSpan
  PROVE  /\ Abs(BranchTo(here, w) - there) < WordBytes
         /\ (there - here) % WordBytes = 0 => BranchTo(here, w) = there
<1>1. PICK d \in Int : d = there - here  OBVIOUS
<1>2. PICK q : q = Quot(d, WordBytes)  OBVIOUS
<1>3. /\ q \in Int
      /\ d >= 0 => 0 <= q /\ q <= d
      /\ d < 0 => d <= q /\ q <= 0
  BY <1>1, <1>2, QuotFacts
<1>4. 2 * q < ImmSpan /\ 2 * q >= -ImmSpan
  <2>1. ImmSpan \in Nat  BY IsaAssumption
  <2> QED  BY <1>1, <1>3, <2>1
<1>5. Sext(w) = q  BY <1>1, <1>2, <1>3, <1>4, SextFits
<1>6. WordBytes \in Nat  BY IsaAssumption
<1>7. PICK y \in Int : y = WordBytes * q  BY <1>3, <1>6
<1>8. y - d < WordBytes /\ d - y < WordBytes /\ (d % WordBytes = 0 => y = d)
  BY <1>1, <1>2, <1>7, QuotFacts
<1>9. BranchTo(here, w) = here + y  BY <1>5, <1>7 DEF BranchTo
<1>10. BranchTo(here, w) - there = y - d  BY <1>1, <1>7, <1>9
<1>11. Abs(y - d) < WordBytes  BY <1>1, <1>6, <1>7, <1>8 DEF Abs
<1>12. (there - here) % WordBytes = 0 => BranchTo(here, w) = there
  BY <1>1, <1>7, <1>8, <1>9
<1> QED  BY <1>10, <1>11, <1>12

\* Every operand that names a label leads to what follows the label.
THEOREM LabelsAlwaysLand == Spec => []LabelsLand
<1>1. AsmInv /\ AsmSeqs => LabelsLand
  <2> SUFFICES ASSUME AsmInv, AsmSeqs, phase = "ok", NEW n \in DOMAIN source,
                      source[n].op \in Branches \cup {"li"}, Last(source[n].args).t = "label"
               PROVE  LET here == base + Offset(n)
                          there == base + Offset(LineOf(Last(source[n].args).v))
                          w == FetchAt(binary, Offset(n))
                      IN  IF w.op = "li" THEN Sext(w) = there
                          ELSE /\ Abs(BranchTo(here, w) - there) < WordBytes
                               /\ (there - here) % WordBytes = 0 => BranchTo(here, w) = there
    BY DEF LabelsLand
  <2> DEFINE l == Last(source[n].args).v
             here == base + Offset(n)
             there == base + Offset(LineOf(l))
             w == FetchAt(binary, Offset(n))
  <2>1. /\ IsProgram(source) /\ Len(source) \in Nat /\ n \in 1 .. Len(source)
        /\ n \in 1 .. Len(source) + 1 /\ Len(source) + 1 \in 1 .. Len(source) + 1
        /\ Len(items) \in Nat /\ line \in Nat /\ n < Len(source) + 1
        /\ base \in Bases
    <3>1. IsProgram(source) /\ IsSeq(items) /\ line \in Nat /\ base \in Bases
      BY DEF AsmInv, AsmSeqs
    <3>2. Len(items) \in Nat  BY <3>1, SeqIs
    <3>3. Len(source) \in Nat /\ n \in 1 .. Len(source)  BY <3>1 DEF IsProgram
    <3> QED  BY <3>1, <3>2, <3>3
  <2>2. HasItem(n) /\ source[n].op # ".string"  BY DEF HasItem, Branches, None
  <2>3. Items(n) < line - 1
    <3>1. line > Len(items) /\ ItemsInv  BY DEF AsmInv
    <3>2. Len(items) = Items(Len(source) + 1)  BY <3>1 DEF ItemsInv, Read
    <3>3. Items(n) < Items(Len(source) + 1) /\ Items(n) \in Nat
      BY <2>1, <2>2, ItemsOrder, ItemsStep
    <3> QED  BY <2>1, <3>1, <3>2, <3>3
  <2>4. w \in EncodeInstruction(source[n].op, source[n].args, label_addrs, here)
    BY <2>1, <2>2, <2>3 DEF AsmInv, EncodeInv
  <2>5. /\ w.op = source[n].op /\ l \in DOMAIN label_addrs
        /\ w.imm = LabelImm(source[n].op, l, label_addrs, here)
    <3> HIDE DEF w, here
    <3> QED  BY <2>4, LabelWord
  <2> HIDE DEF w, here, l
  <2>6. LineOf(l) \in 1 .. Len(source) + 1 /\ label_addrs[l] = there
    BY <2>1, <2>5, LabelPlace
  <2>7. here \in Nat /\ 2 * here < ImmSpan /\ there \in Nat /\ 2 * there < ImmSpan
    <3>1. Offset(n) \in Nat /\ base \in Nat /\ 2 * (base + Offset(n)) < ImmSpan
      BY <2>1, OffsetStep
    <3>2. Offset(LineOf(l)) \in Nat /\ 2 * (base + Offset(LineOf(l))) < ImmSpan
      BY <2>1, <2>6, OffsetStep
    <3> QED  BY <3>1, <3>2 DEF here
  <2> HIDE DEF there
  <2>8. CASE source[n].op = "li"
    <3>1. w.imm = there % ImmSpan  BY <2>5, <2>6, <2>8 DEF LabelImm
    <3>2. 2 * there >= -ImmSpan /\ there \in Int  BY <2>7, IsaAssumption
    <3>3. Sext(w) = there  BY <2>7, <3>1, <3>2, SextFits
    <3>4. w.op = "li"  BY <2>5, <2>8
    <3> QED  BY <3>3, <3>4 DEF w, there, l
  <2>9. CASE source[n].op # "li"
    <3>1. w.imm = Quot(there - here, WordBytes) % ImmSpan  BY <2>5, <2>6, <2>9 DEF LabelImm
    <3>2. /\ Abs(BranchTo(here, w) - there) < WordBytes
          /\ (there - here) % WordBytes = 0 => BranchTo(here, w) = there
      BY <2>7, <3>1, BranchLands
    <3>3. w.op # "li"  BY <2>5, <2>9
    <3> QED  BY <3>2, <3>3 DEF w, here, there, l
  <2> QED  BY <2>8, <2>9
<1> QED  BY <1>1, AssemblyInvariant, BuildInvariant, PTL DEF BuildInv
=============================================================================
