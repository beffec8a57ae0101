------------------------------ MODULE Console ------------------------------
(***************************************************************************)
(* From the keys to a command: the keyboard decoder (kbd.rs) and the       *)
(* serial port push bytes into the ring (InputRing), the shell (user.S)    *)
(* reads them one by one, edits its line, echoes to the text screen        *)
(* (vga.rs) and runs the line at Enter.                                    *)
(*                                                                         *)
(* Bytes are ASCII codes.  A shell step goes from one sys_read to the      *)
(* next.  What a command finds in the file system is left to MikFs: here   *)
(* it prints one of a few replies.                                         *)
(***************************************************************************)
EXTENDS InputRing, SequencesExt, FiniteSets

CONSTANTS
    Layout,     \* UNSHIFTED and SHIFTED: make code -> <<byte, byte>>, 0 for none
    Shifts,     \* make codes of the shift keys: 0x2A and 0x36
    Scancodes,  \* what the keyboard sends: make codes, break codes, prefixes
    SerialBytes, \* bound: what the serial line delivers
    MaxTyped,   \* bound: bytes pushed
    Words,      \* command -> its word (sh_c_ls ...)
    Replies,    \* command -> what it, or another process meanwhile, may print
    Prompt, LineCap,    \* sh_prompt; 63
    Cols, Rows,
    OtherBytes  \* bound: what another process may write

ASSUME ConsoleAssumption ==
    /\ Prompt \in Seq(32 .. 126) /\ LineCap \in Nat \ {0} /\ Bytes \subseteq Nat
    /\ Cols \in Nat /\ Rows \in Nat \ {0} /\ Len(Prompt) + LineCap < Cols
    /\ \A c \in DOMAIN Replies : Replies[c] \subseteq Seq(Nat)
    /\ \A c \in DOMAIN Words : Words[c] \in Seq(33 .. 126) /\ Words[c] # <<>>
    /\ OtherBytes \subseteq 32 .. 126
    /\ DOMAIN Replies = DOMAIN Words \cup {"unknown"}
    /\ Scancodes \subseteq Nat
    /\ SerialBytes \subseteq Bytes
    /\ \A sc \in DOMAIN Layout : Layout[sc] \in Bytes \X Bytes

VARIABLES
    shift,      \* SHIFT
    sh,         \* the shell: "reads", "has" a byte in al, or "gone"
    line,       \* sh_line[0 .. rbx - 1]
    cells, cursor,
    held,       \* history: the shift keys that are down
    typed,      \* history: the bytes the ring took
    ran,        \* history: the commands the shell ran
    plain       \* history: the prompt began at the left edge, and since then
                \* only the shell wrote, and it stored printable bytes only

kbdVars == <<shift, held>>
shellVars == <<sh, line, ran>>
screenVars == <<cells, cursor, plain>>
vars == <<ringVars, kbdVars, shellVars, screenVars, typed>>

Printable(b) == b \in 32 .. 126
Enters == {10, 13}
Erases == {8, 127}
Space == 32

-----------------------------------------------------------------------------
(* vga.rs *)

\* scroll: every row moves up, the bottom row is cleared.
Scrolled(c) ==
    [i \in DOMAIN c |-> IF i + Cols \in DOMAIN c THEN c[i + Cols] ELSE Space]

\* put_byte
PutByte(scr, b) ==
    LET cur == scr.cursor
        moved ==
          CASE b = 10 -> [scr EXCEPT !.cursor = (cur \div Cols + 1) * Cols]
            [] b = 13 -> [scr EXCEPT !.cursor = (cur \div Cols) * Cols]
            [] b = 8 /\ cur % Cols > 0 ->
                 [cursor |-> cur - 1, cells |-> [scr.cells EXCEPT ![cur - 1] = Space]]
            [] Printable(b) ->
                 [cursor |-> cur + 1, cells |-> [scr.cells EXCEPT ![cur] = b]]
            [] OTHER -> scr
    IN  IF moved.cursor < Cols * Rows THEN moved
        ELSE [cursor |-> moved.cursor - Cols, cells |-> Scrolled(moved.cells)]

\* sys_write of every byte of a text (sh_print).
Writes(text) ==
    LET after[n \in 0 .. Len(text)] ==
            IF n = 0 THEN {[cursor |-> cursor, cells |-> cells]}
            ELSE {PutByte(scr, text[n]) : scr \in after[n - 1]}
    IN  \E scr \in after[Len(text)] : cursor' = scr.cursor /\ cells' = scr.cells

-----------------------------------------------------------------------------
(* Input *)

\* A broken decoder: the release of the right shift is not noticed.
ShiftAfter_LeftOnly(sc) ==
    IF sc \in Shifts THEN TRUE
    ELSE IF sc = 170 THEN FALSE ELSE shift

\* decode: shift keys set and clear one flag.
ShiftAfter(sc) ==
    IF sc \in Shifts THEN TRUE
    ELSE IF sc - 128 \in Shifts THEN FALSE ELSE shift

\* decode: the byte of a make code in the table, {} for None.
Decoded(sc) ==
    IF sc \notin DOMAIN Layout \ Shifts THEN {}
    ELSE {Layout[sc][IF shift THEN 2 ELSE 1]} \ {0}

Typed(b) == typed' = IF len < Cap THEN Append(typed, b) ELSE typed

\* kbd_handler.  A shift key is pressed once and then released; a fake shift
\* of an extended key comes with the prefix 0xE0, which decode ignores.
KbdIrq(sc) ==
    /\ sc \in Shifts => sc \notin held
    /\ sc - 128 \in Shifts => sc - 128 \in held
    /\ Len(typed) < MaxTyped
    /\ held' = (held \cup ({sc} \cap Shifts)) \ {sc - 128}
    /\ shift' = ShiftAfter(sc)
    /\ \/ \E b \in Decoded(sc) : Push(b) /\ Typed(b)
       \/ Decoded(sc) = {} /\ UNCHANGED <<ringVars, typed>>
    /\ UNCHANGED <<shellVars, screenVars>>

\* One round of the loop of drain_rx.
DrainRx(b) ==
    /\ Len(typed) < MaxTyped
    /\ Push(b) /\ Typed(b)
    /\ UNCHANGED <<kbdVars, shellVars, screenVars>>

-----------------------------------------------------------------------------
(* The shell *)

\* sys_read; an empty ring blocks the shell.
Read ==
    /\ sh = "reads"
    /\ Pop
    /\ sh' = "has"
    /\ UNCHANGED <<kbdVars, line, ran, screenVars, typed>>

al == taken[1]

\* The next turn of sh_loop.
Turn == sh = "has" /\ UNCHANGED <<ringVars, kbdVars, typed>>
Continue == sh' = "reads"

\* A broken loop: it looks for room before it looks for Enter.
Dropped_First == Len(line) >= LineCap

\* A byte for a full line is dropped.
Dropped == al \notin Enters \cup Erases /\ Len(line) >= LineCap

Drop ==
    /\ Turn /\ Dropped
    /\ Continue /\ UNCHANGED <<line, ran, screenVars>>

Store ==
    /\ Turn /\ ~Dropped /\ al \notin Enters \cup Erases
    /\ line' = Append(line, al)
    /\ Writes(<<al>>)
    /\ plain' = (plain /\ Printable(al))
    /\ Continue /\ UNCHANGED ran

\* A broken triple, without its last byte.
BsSeq_NoBack == <<8, Space>>

BsSeq == <<8, Space, 8>>

\* sh_bs
Erase ==
    /\ Turn /\ ~Dropped /\ al \in Erases
    /\ \/ line = <<>> /\ UNCHANGED <<line, cells, cursor>>
       \/ line # <<>> /\ line' = Front(line) /\ Writes(BsSeq)
    /\ Continue /\ UNCHANGED <<ran, plain>>

\* sh_find_sp: how many bytes come before the first space.
FindSp(s) ==
    LET ends == {k \in 0 .. Len(s) : k = Len(s) \/ s[k + 1] = Space}
    IN  CHOOSE k \in ends : \A j \in ends : k <= j

\* sh_skip_sp
SkipSp(s) ==
    LET starts == {k \in 1 .. Len(s) + 1 : \A j \in 1 .. k - 1 : s[j] = Space}
    IN  SubSeq(s, CHOOSE k \in starts : \A j \in starts : j <= k, Len(s))

\* What follows the first word.
Tailed(s) == SkipSp(SubSeq(s, FindSp(s) + 1, Len(s)))

\* A broken comparison: it does not ask whether both ended together.
StrEq_Prefix(s, word) == IsPrefix(word, s)

\* sh_streq
StrEq(s, word) == Len(s) = Len(word) /\ IsPrefix(word, s)

\* The dispatch on the command word.
CommandOf(s) ==
    LET hits == {c \in DOMAIN Words : StrEq(SubSeq(s, 1, FindSp(s)), Words[c])}
    IN  IF hits = {} THEN "unknown" ELSE CHOOSE c \in hits : TRUE

Wants(c) == c \in {"cat", "run", "mk", "w"}

\* A command as the shell runs it; those that want a name do nothing without.
Run(s) ==
    LET c == CommandOf(s)
        rest == Tailed(s)
    IN  [do   |-> IF Wants(c) /\ rest = <<>> THEN "none" ELSE c,
         name |-> IF ~Wants(c) THEN <<>>
                  ELSE IF c = "w" THEN SubSeq(rest, 1, FindSp(rest)) ELSE rest,
         text |-> IF c = "w" THEN Tailed(rest) ELSE <<>>]

\* sh_enter with an empty line, and with a command.
EnterNothing ==
    /\ Turn /\ ~Dropped /\ al \in Enters /\ line = <<>>
    /\ ran' = Append(ran, [do |-> "none", name |-> <<>>, text |-> <<>>])
    /\ Writes(<<10>> \o Prompt) /\ plain' = TRUE
    /\ Continue /\ UNCHANGED line

EnterCommand ==
    /\ Turn /\ ~Dropped /\ al \in Enters /\ line # <<>>
    /\ ran' = Append(ran, Run(line))
    /\ \/ /\ Run(line).do = "q"
          /\ sh' = "gone"
          /\ Writes(<<10>>)
          /\ UNCHANGED <<line, plain>>
       \/ /\ Run(line).do # "q"
          /\ \E reply \in (IF Run(line).do = "none" THEN {<<>>} ELSE Replies[Run(line).do]) :
             /\ Writes(<<10>> \o reply \o Prompt)
             /\ plain' = (reply = <<>> \/ Last(reply) = 10)
          /\ line' = <<>>
          /\ Continue

\* Another process writes a byte (bound: one between two prompts).
OtherWrites(b) ==
    /\ plain
    /\ Writes(<<b>>)
    /\ plain' = FALSE
    /\ UNCHANGED <<ringVars, kbdVars, shellVars, typed>>

-----------------------------------------------------------------------------

\* The shell has printed its first prompt, behind what the other processes
\* wrote before (bound: one byte).
Init ==
    /\ RingInit
    /\ shift = FALSE /\ held = {}
    /\ sh = "reads" /\ line = <<>> /\ ran = <<>>
    /\ \E b \in OtherBytes :
          cells = [i \in 0 .. Cols * Rows - 1 |->
                     IF i < Len(Prompt) + 1 THEN (<<b>> \o Prompt)[i + 1] ELSE 0]
    /\ cursor = Len(Prompt) + 1
    /\ plain = FALSE
    /\ typed = <<>>

Shell == Read \/ Drop \/ Store \/ Erase \/ EnterNothing \/ EnterCommand

Next ==
    \/ \E sc \in Scancodes : KbdIrq(sc)
    \/ \E b \in SerialBytes : DrainRx(b)
    \/ Shell
    \/ \E b \in OtherBytes : OtherWrites(b)

\* The shell runs whenever it may: Sched's ReadyRuns.
Spec == Init /\ [][Next]_vars /\ WF_vars(Shell)

-----------------------------------------------------------------------------
(* Properties *)

\* Shift never sticks: with every shift key up, real or faked by an extended
\* key, in whatever order they went up, letters come out small again.
NoStuckShift == held = {} => ~shift

\* From a prompt at the left edge on, while nobody else writes and only
\* printable bytes are typed, the screen shows the prompt and the line and has
\* the cursor behind them, through erasing, dropping and scrolling.
ScreenShowsLine ==
    plain /\ sh # "gone" =>
        LET shown == Prompt \o line
        IN  /\ cursor % Cols = Len(shown)
            /\ \A k \in 1 .. Len(shown) : cells[cursor - Len(shown) + k - 1] = shown[k]

\* The bytes the shell has dealt with, in the order the ring took them.
Consumed == SubSeq(typed, 1, Len(typed) - len - (IF sh = "has" THEN 1 ELSE 0))

\* A byte as its typist means it: erasing takes back the last byte that
\* fitted, and what does not fit does not count.
Edited(l, b) ==
    IF b \in Erases THEN SubSeq(l, 1, Len(l) - 1)
    ELSE IF Len(l) < LineCap THEN Append(l, b) ELSE l

Meant(bytes) ==
    LET after[n \in 0 .. Len(bytes)] ==
            IF n = 0 THEN <<>> ELSE Edited(after[n - 1], bytes[n])
    IN  after[Len(bytes)]

\* Where the lines of what was typed end: before the first, and at each Enter.
Ends(bytes) == {0} \cup {i \in DOMAIN bytes : bytes[i] \in Enters}
EndOf(bytes, n) ==
    CHOOSE i \in Ends(bytes) : Cardinality({j \in Ends(bytes) : j < i}) = n
LineOf(bytes, n) == Meant(SubSeq(bytes, EndOf(bytes, n - 1) + 1, EndOf(bytes, n) - 1))

\* A line means a command when it is the command's word, alone or followed
\* by a space, and nothing else means it.
Means(l, c) ==
    IsPrefix(Words[c], l) /\ (l = Words[c] \/ l[Len(Words[c]) + 1] = Space)

\* What follows p in l, behind the spaces, is t.
Follows(l, p, t) ==
    \E k \in 0 .. Len(l) : /\ l = p \o [i \in 1 .. k |-> Space] \o t
                           /\ t = <<>> \/ (k > 0 /\ t[1] # Space)

\* A name is what follows the command's word; for w it is a word itself, and
\* what follows it is the text.
Named(r, l) ==
    /\ r.name # <<>>
    /\ IF r.do # "w" THEN Follows(l, Words[r.do], r.name)
       ELSE /\ \A i \in DOMAIN r.name : r.name[i] # Space
            /\ \E i \in DOMAIN l : LET rest == SubSeq(l, i, Len(l)) IN
                  Follows(l, Words["w"], rest) /\ Follows(rest, r.name, r.text)

\* What was run is what a line means: its command with the name and the text
\* behind it, nothing when the name is missing, and the complaint when it
\* means none.
AsMeant(r, l) ==
    LET meant == {d \in DOMAIN Words : Means(l, d)}
    IN  \/ r.do \in meant /\ (Wants(r.do) => Named(r, l))
        \/ r.do = "unknown" /\ meant = {} /\ l # <<>>
        \/ /\ r.do = "none"
           /\ l = <<>> \/ \E d \in meant : Wants(d) /\ Follows(l, Words[d], <<>>)

\* The shell has run one command for each Enter it was given, and each is the
\* one its line means: no byte typed ahead, erased or dropped, whenever it
\* came, adds to or takes from a line.
RunsAsTyped ==
    sh # "gone" =>
      /\ Len(ran) = Cardinality(Ends(Consumed)) - 1
      /\ line = Meant(SubSeq(Consumed, EndOf(Consumed, Len(ran)) + 1, Len(Consumed)))
      /\ \A n \in DOMAIN ran : AsMeant(ran[n], LineOf(Consumed, n))

\* When the typing pauses, every Enter the ring took is answered, even behind
\* a full line, unless the shell has quit.
Answered == Len(ran) = Cardinality({i \in DOMAIN typed : typed[i] \in Enters})
EnterIsAnswered == ~Answered ~> Answered \/ sh = "gone"
=============================================================================
