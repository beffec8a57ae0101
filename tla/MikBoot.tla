------------------------------ MODULE MikBoot ------------------------------
(***************************************************************************)
(* How a Mik-64 kernel comes to run a user program: the user programs are  *)
(* assembled (MikAsm), the kernel is assembled and linked with them        *)
(* (MikLink), and the binary boots: it allocates pages, builds the         *)
(* identity map, turns paging on, allocates the tables and the page of the *)
(* first program, copies it there and enters user mode.                    *)
(*                                                                         *)
(* A boot step is a labelled block of build_common or of the kernel_*      *)
(* function chosen.  Addresses of pages are page numbers.  A page is seen  *)
(* through two views, the words of a table or free page (mem) and the      *)
(* bytes of a program (data).  The TLB is left to Mik64.                   *)
(***************************************************************************)
EXTENDS MikAsm, MikLink

CONSTANTS
    Seconds,    \* bound: the sources of the second program (prog1)
    Variants,   \* which kernels are built
    PageBytes,  \* 0x1000
    Ptes,       \* entries of a page table: 512
    MetaPage    \* the metadata page: 0x700

KernelPage == LoadAddr \div PageBytes
UserPage == 4 * Ptes                         \* USER_VA
Pages == MetaPage .. UserPage - 1            \* what alloc_bump hands out before USER_VA

\* The memory between the metadata page and USER_VA holds what boot allocates.
ASSUME BootAssumption ==
    /\ {PageBytes, Ptes, MetaPage, KernelPage} \subseteq Nat
    /\ Ptes > 4 /\ KernelPage < MetaPage /\ MetaPage + 14 < UserPage
    /\ Variants \subseteq {"binary", "freelist", "user_mode", "timer", "os"}
    /\ \A p \in Seconds : IsProgram(p)

\* The words that are patched load a constant, and every address of a kernel
\* and its programs is far from the sign bit of an immediate.
ASSUME KernelAssumption ==
    /\ LoadAddr \in Nat
    /\ \A c \in Kernels :
         /\ c \in Seq([call : STRING, name : STRING, slot : STRING])
         /\ \A m \in DOMAIN c : c[m].slot # "none" => c[m].call = "li" /\ c[m].name = "none"
         /\ 2 * (LoadAddr + WordBytes * Len(c) + 2 * PageBytes) < ImmSpan

VARIABLES
    bins,       \* the user programs assembled so far
    variant,
    step,       \* the label the kernel is at
    next_page, free_head,       \* [0x700000] and [0x700008]
    mem, data,
    x2, x4, x14,                \* alloc_page's result, the PML4, the demo page
    tbl,        \* pages for a process: [TBL_PML4] .. [TBL_UPAGE], or x8 and x7
    ptbr,       \* PTBR, 0 while PMODE is 0
    ticks,      \* [0x700010] of kernel_timer
    handed      \* history: how often a page was handed out and not freed

pageVars == <<next_page, free_head, mem, data, x2, x4, x14, tbl, ptbr, handed>>
bootVars == <<bins, variant, step, pageVars, ticks>>
vars == <<asmVars, linkVars, bootVars>>

P == 1
W == 2
U == 4
Entry(page, flags) == 8 * page + flags
PageOf(e) == e \div 8
Has(e, flag) == (e \div flag) % 2 = 1
ZeroPage == [i \in 0 .. Ptes - 1 |-> 0]

\* The places the boot code reads its programs from: kernel_os emits words
\* that are patched, the others put the program behind their last label.
BodyOf(v, c) ==
    LET named == {m \in DOMAIN c : c[m].name = "user_code_data"}
    IN  /\ v = "os" => {"init_addr", "init_len", "exec_addr", "exec_len"}
                           \subseteq {c[m].slot : m \in DOMAIN c}
        /\ v \in {"user_mode", "timer"} =>
              \E m \in 1 .. Len(c) - 1 :
                 /\ named = {m, Len(c)}
                 /\ c[m].call = "li" /\ c[Len(c)].call = "label"

Init ==
    /\ variant \in Variants
    /\ AsmInit /\ LinkInit /\ BodyOf(variant, calls)
    /\ variant # "os" => source = <<>>
    /\ bins = <<>> /\ step = "off" /\ ticks = 0
    /\ next_page = 0 /\ free_head = 0
    /\ mem = [p \in Pages |-> ZeroPage] /\ data = [p \in Pages |-> <<>>]
    /\ x2 = 0 /\ x4 = 0 /\ x14 = 0 /\ tbl = <<>> /\ ptbr = 0
    /\ handed = [p \in Pages |-> 0]

-----------------------------------------------------------------------------
(* The build *)

\* kernel_os assembles init and then prog1.
NextProgram ==
    /\ phase = "ok" /\ Len(bins) < 2
    /\ bins' = Append(bins, binary)
    /\ \/ bins = <<>> /\ source' \in Seconds /\ phase' = "read"
       \/ bins # <<>> /\ source' = <<>> /\ phase' = "built"
    /\ line' = 1 /\ addr' = base
    /\ items' = <<>> /\ labels' = <<>> /\ item_addrs' = <<>>
    /\ label_addrs' = <<>> /\ binary' = <<>>
    /\ UNCHANGED <<base, linkVars, variant, step, pageVars, ticks>>

\* The programs behind the code: init and prog1, or an encoded one.
Programs ==
    CASE variant = "os"        -> bins
      [] variant = "user_mode" -> <<WordCells(Encode("trap", 0, 0, 0, 1)) \o
                                    WordCells(Encode("trap", 0, 0, 0, 0)), <<>>>>
      [] variant = "timer"     -> <<WordCells(Encode("jmp", 0, 0, 0, 0)), <<>>>>
      [] OTHER                 -> <<<<>>, <<>>>>

\* finalize patches the string alone, kernel_os every slot.
PatchedSlots == IF variant = "os" THEN DOMAIN slots ELSE {"string"}

\* kernel_os builds once both programs are assembled, and asserts their length.
Build ==
    /\ Len(Programs) = 2
    /\ \A k \in 1 .. 2 : Len(Programs[k]) <= PageBytes
    /\ Call \/ EndOfCalls \/ Fixup \/ Link(Programs[1], Programs[2], PatchedSlots)
    /\ UNCHANGED <<asmVars, bootVars>>

-----------------------------------------------------------------------------
(* alloc_page and free_page *)

\* A broken pop: the list keeps the page it returns.
AllocPage_KeepsHead(n) ==
    /\ \/ /\ free_head # 0
          /\ x2' = free_head /\ next_page' = n
       \/ /\ free_head = 0
          /\ x2' = n /\ next_page' = n + 1
    /\ handed' = [handed EXCEPT ![x2'] = @ + 1]
    /\ UNCHANGED <<free_head, mem>>

\* alloc_page with next_page = n: the head of the free list, else alloc_bump.
AllocPage(n) ==
    /\ \/ /\ free_head # 0
          /\ x2' = free_head /\ free_head' = mem[free_head][0] /\ next_page' = n
       \/ /\ free_head = 0
          /\ x2' = n /\ next_page' = n + 1 /\ UNCHANGED free_head
    /\ handed' = [handed EXCEPT ![x2'] = @ + 1]
    /\ UNCHANGED mem

\* free_page: the page's first word links it to the old head.
FreePage(page) ==
    /\ mem' = [mem EXCEPT ![page][0] = free_head]
    /\ free_head' = page
    /\ handed' = [handed EXCEPT ![page] = @ - 1]
    /\ UNCHANGED next_page

-----------------------------------------------------------------------------
(* build_common *)

At(label) == step = label
Goto(label) == step' = label /\ UNCHANGED <<asmVars, linkVars, bins, variant>>

\* load_binary and the first block: next_page = 0x701000, the demo page.
PowerOn ==
    /\ kphase = "linked" /\ At("off")
    /\ AllocPage(MetaPage + 1)
    /\ Goto("after_alloc")
    /\ UNCHANGED <<data, x4, x14, tbl, ptbr, ticks>>

\* The demo page is written; page tables from 0x702000.
AfterAlloc ==
    /\ At("after_alloc")
    /\ data' = [data EXCEPT ![x2] = <<"!">>]
    /\ x14' = x2
    /\ AllocPage(MetaPage + 2)
    /\ Goto("after_pgtbl")
    /\ UNCHANGED <<x4, tbl, ptbr, ticks>>

\* Behind the PML4 follow PDPT, PD and PT0 to PT3.
AfterPgtbl ==
    /\ At("after_pgtbl")
    /\ x4' = x2
    /\ next_page' = next_page + 6
    /\ handed' = [p \in Pages |-> IF p \in x2 + 1 .. x2 + 6 THEN handed[p] + 1 ELSE handed[p]]
    /\ Goto("fill")
    /\ UNCHANGED <<free_head, mem, data, x2, x14, tbl, ptbr, ticks>>

Pdpt == x4 + 1
Pd == x4 + 2
Pt(k) == x4 + 3 + k

\* fill_pt for the k-th region.
FilledPt(k) == [i \in 0 .. Ptes - 1 |-> Entry(k * Ptes + i, P + W)]

\* The four fill_pt loops, the links from PML4 to PT3, PTBR and PMODE.
FillAndTurnOn ==
    /\ At("fill")
    /\ mem' = [mem EXCEPT
                 ![x4][0] = Entry(Pdpt, P + W),
                 ![Pdpt][0] = Entry(Pd, P + W),
                 ![Pd] = [i \in DOMAIN @ |-> IF i < 4 THEN Entry(Pt(i), P + W) ELSE @[i]],
                 ![Pt(0)] = FilledPt(0), ![Pt(1)] = FilledPt(1),
                 ![Pt(2)] = FilledPt(2), ![Pt(3)] = FilledPt(3)]
    /\ ptbr' = x4
    /\ Goto("after_paging")
    /\ UNCHANGED <<next_page, free_head, data, x2, x4, x14, tbl, handed, ticks>>

-----------------------------------------------------------------------------
(* What each kernel does once paging is on *)

\* kernel_binary and kernel_freelist free the demo page; the latter allocates
\* again and writes the page it got.
FreeDemo ==
    /\ At("after_paging") /\ variant \in {"binary", "freelist"}
    /\ FreePage(x14)
    /\ Goto(IF variant = "binary" THEN "done" ELSE "after_free")
    /\ UNCHANGED <<data, x2, x4, x14, tbl, ptbr, ticks>>

Realloc ==
    /\ At("after_free")
    /\ AllocPage(next_page)
    /\ data' = [data EXCEPT ![x2'] = <<"sentinel">>]
    /\ Goto("done")
    /\ UNCHANGED <<x4, x14, tbl, ptbr, ticks>>

\* The pages for a program: PT4 and a user page, or five for kernel_os.
Wanted == IF variant = "os" THEN 5 ELSE 2

AllocForUser ==
    /\ At("after_paging") /\ variant \in {"user_mode", "timer", "os"}
    /\ Len(tbl) < Wanted
    /\ AllocPage(next_page)
    /\ tbl' = Append(tbl, x2')
    /\ Goto("after_paging")
    /\ UNCHANGED <<data, x4, x14, ptbr, ticks>>

Pt4 == tbl[Len(tbl) - 1]
UserFrame == tbl[Len(tbl)]

\* A broken build_tables: the kernel half is not shared.
OsTables_NoKernelHalf ==
    [mem EXCEPT ![tbl[1]][0] = Entry(tbl[2], P + W),
                ![tbl[2]][0] = Entry(tbl[3], P + W),
                ![tbl[3]][4] = Entry(Pt4, P + W),
                ![Pt4][0] = Entry(UserFrame, P + W + U)]

\* build_tables: a chain of its own whose PD shares the kernel's four tables.
OsTables ==
    [mem EXCEPT ![tbl[1]][0] = Entry(tbl[2], P + W),
                ![tbl[2]][0] = Entry(tbl[3], P + W),
                ![tbl[3]] = [i \in DOMAIN @ |-> IF i < 4 THEN mem[Pd][i]
                                                ELSE IF i = 4 THEN Entry(Pt4, P + W)
                                                ELSE @[i]],
                ![Pt4][0] = Entry(UserFrame, P + W + U)]

\* kernel_user_mode and kernel_timer add PT4 to the kernel's own PD.
OwnTables ==
    [mem EXCEPT ![Pd][4] = Entry(Pt4, P + W), ![Pt4][0] = Entry(UserFrame, P + U)]

\* The immediate of a word of the binary.
ImmAt(idx) == Sext(FetchAt(image, WordBytes * idx))

\* Where the binary says its first program is: patched into two words, or the
\* label behind the code and as many words as the function copies.
ProgramAddr ==
    IF variant = "os" THEN ImmAt(slots["init_addr"])
    ELSE ImmAt((CHOOSE f \in ToSet(unresolved) : f[2] = "user_code_data")[1])
ProgramLen ==
    CASE variant = "os"        -> ImmAt(slots["init_len"])
      [] variant = "user_mode" -> 2 * WordBytes
      [] OTHER                 -> WordBytes

\* A broken loop: it stops one byte early.
Copied_OneShort ==
    SubSeq(image, ProgramAddr - LoadAddr + 1, ProgramAddr - LoadAddr + ProgramLen - 1)

Copied == SubSeq(image, ProgramAddr - LoadAddr + 1, ProgramAddr - LoadAddr + ProgramLen)

\* The tables are built, the program is copied byte by byte through them, and
\* the kernel enters it; kernel_os sets PTBR as it does (sched_restore).
EnterProgram ==
    /\ At("after_paging") /\ variant \in {"user_mode", "timer", "os"}
    /\ Len(tbl) = Wanted
    /\ mem' = IF variant = "os" THEN OsTables ELSE OwnTables
    /\ IF ProgramLen = 0
       THEN Goto("os_init_copy") /\ UNCHANGED <<data, ptbr>>
       ELSE /\ Goto("user")
            /\ data' = [data EXCEPT ![UserFrame] = Copied]
            /\ ptbr' = IF variant = "os" THEN tbl[1] ELSE ptbr
    /\ UNCHANGED <<next_page, free_head, x2, x4, x14, tbl, handed, ticks>>

\* The bytes that lie as far behind the program as the page behind UserFrame.
Behind(page) ==
    LET first == ProgramAddr - LoadAddr + (page - UserFrame) * PageBytes
    IN  SubSeq(image, first + 1, Min({first + PageBytes, Len(image)}))

\* The loop tests its count after a byte.  A count of zero fills memory up to
\* USER_VA, which the kernel's table does not map.  pf_handler takes the next
\* store for a program's demand fault: it hands out a page and, CUR_SLOT and
\* with it PT4 being 0 still, writes the entry at address 0, not in Pages.  It
\* returns with x1 = 7 and x15 = pf_alloc_ret, so that seven bytes are stored
\* over the kernel's code there (the running code is not in memory here), and
\* the loop is over: boot goes on.
CopyOverruns ==
    /\ At("os_init_copy")
    /\ AllocPage(next_page)
    /\ data' = [p \in Pages |-> IF p >= UserFrame THEN Behind(p) ELSE data[p]]
    /\ ptbr' = tbl[1]
    /\ Goto("user")
    /\ UNCHANGED <<x4, x14, tbl, ticks>>

\* timer_handler prints and returns; the third tick halts.
TimerTick ==
    /\ At("user") /\ variant = "timer"
    /\ ticks' = ticks + 1
    /\ Goto(IF ticks' = 3 THEN "done" ELSE "user")
    /\ UNCHANGED pageVars

Boot ==
    \/ PowerOn \/ AfterAlloc \/ AfterPgtbl \/ FillAndTurnOn
    \/ FreeDemo \/ Realloc
    \/ AllocForUser \/ EnterProgram \/ CopyOverruns \/ TimerTick

Next ==
    \/ /\ variant = "os" /\ Len(bins) < 2 /\ AsmNext
       /\ UNCHANGED <<linkVars, bootVars>>
    \/ NextProgram \/ Build \/ Boot

Spec == Init /\ [][Next]_vars

-----------------------------------------------------------------------------
(* Properties *)

\* The bytes in front of a line of the source, counted in the source.
Span(s) ==
    CASE s.op = None      -> 0
      [] s.op = ".string" -> Len(Joined(s.text)) + 1
      [] OTHER            -> WordBytes
Offset(n) == Cardinality(UNION {{m} \X (1 .. Span(source[m])) : m \in 1 .. n - 1})

\* The line a label is defined at, the last one if there are several.
Defined(l) == {n \in DOMAIN source : source[n].label = l}
LineOf(l) == CHOOSE n \in Defined(l) : \A m \in Defined(l) : m <= n

Abs(n) == IF n < 0 THEN -n ELSE n

\* What the emulator does with an assembled operand that names a label: li
\* loads the address of what follows the label, and a jump or branch goes
\* there, whatever lies between; it stops short, by less than a word, only
\* when a .string between them has moved them apart by a part of a word.
LabelsLand ==
    phase = "ok" =>
      \A n \in DOMAIN source :
        source[n].op \in Branches \cup {"li"} /\ Last(source[n].args).t = "label" =>
          LET here == base + Offset(n)
              there == base + Offset(LineOf(Last(source[n].args).v))
              w == FetchAt(binary, Offset(n))
          IN  IF w.op = "li" THEN Sext(w) = there
              ELSE /\ Abs(BranchTo(here, w) - there) < WordBytes
                   /\ (there - here) % WordBytes = 0 => BranchTo(here, w) = there

\* The same for the one-pass assembler of the kernel, whose labels may be
\* behind, ahead, at the end, or defined twice.
KernelLabelsLand ==
    LET words(m) == Cardinality({k \in 1 .. m - 1 : calls[k].call # "label"})
        defs(l) == {k \in DOMAIN calls : calls[k].call = "label" /\ calls[k].name = l}
        word(l) == words(CHOOSE k \in defs(l) : \A j \in defs(l) : j <= k)
    IN  kphase = "linked" =>
          \A m \in DOMAIN calls :
            calls[m].call \in Branches \cup {"li"} /\ calls[m].name # "none" =>
              LET pc == LoadAddr + WordBytes * words(m)
                  there == LoadAddr + WordBytes * word(calls[m].name)
                  w == FetchAt(image, pc - LoadAddr)
              IN  (IF w.op = "li" THEN Sext(w) ELSE BranchTo(pc, w)) = there

\* The words that exec and the boot code read the programs' places from point
\* at exactly the bytes mik-asm produced.
ProgramsFound ==
    kphase = "linked" /\ variant = "os" =>
      \A k \in {1, 2} :
        LET first == ImmAt(slots[<<"init_addr", "exec_addr">>[k]]) - LoadAddr
            length == ImmAt(slots[<<"init_len", "exec_len">>[k]])
        IN  SubSeq(image, first + 1, first + length) = bins[k]

\* The walk of the table at PTBR for a page of memory; 0 is not present.
Step(table, i) == IF table \in Pages THEN mem[table][i] ELSE 0
Walk(v) ==
    Step(PageOf(Step(PageOf(Step(PageOf(Step(ptbr, 0)), 0)), v \div Ptes)), v % Ptes)

\* Once paging is on, in the first table and in the first process's, the
\* kernel sees itself at its own addresses: its vectors, its code, its data,
\* and every page it has handed out, which it reaches by physical address.
KernelSeesItself ==
    ptbr # 0 => \A p \in 0 .. MetaPage \cup {q \in Pages : handed[q] > 0} :
                    PageOf(Walk(p)) = p /\ Has(Walk(p), P) /\ Has(Walk(p), W)

\* No page is handed out twice: not one in use, not one reserved for a table,
\* and one on the free list only by taking it off.
HandedOnce ==
    \A p \in Pages : /\ handed[p] \in 0 .. IF p = free_head THEN 0 ELSE 1
                     /\ handed[p] > 0 \/ p = free_head => p < next_page

\* The user program at USER_VA is the one the build appended, if it has a
\* byte, in a page that user mode may read and nothing else uses.
RunsItsProgram ==
    step = "user" /\ Programs[1] # <<>> =>
      LET e == Walk(UserPage)
      IN  /\ Has(e, P) /\ Has(e, U) /\ data[PageOf(e)] = Programs[1]
          /\ \A p \in 0 .. UserPage - 1 : ~Has(Walk(p), U)
=============================================================================
