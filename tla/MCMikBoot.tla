----------------------------- MODULE MCMikBoot -----------------------------
(***************************************************************************)
(* MikBoot for TLC: every program of up to three lines from thirteen, words *)
(* of four bytes, pages of four words and tables of six entries.           *)
(***************************************************************************)
EXTENDS MikBoot

Reg(n) == [t |-> "reg", v |-> n]
Num(n) == [t |-> "num", v |-> n]
Lab(l) == [t |-> "label", v |-> l]
Line(l, op, args) == [label |-> l, op |-> op, args |-> args]
Text(l, text) == [label |-> l, op |-> ".string", text |-> text]

\* Labels alone and in front of a statement, defined twice, at the end, or
\* nowhere; operands of every kind, a bad register and a missing one.
LinesOfCode ==
    {Line("a", None, <<>>), Line("b", "halt", <<>>),
     Line(None, "li", <<Reg(1), Lab("a")>>), Line("b", "li", <<Reg(1), Lab("b")>>),
     Line("a", "jmp", <<Lab("b")>>), Line(None, "jmp", <<Num(384)>>),
     Line(None, "beq", <<Reg(1), Reg(0), Lab("a")>>),
     Line(None, "addi", <<Reg(16), Reg(1), Num(-1)>>),
     Line(None, "trap", <<>>),
     Text("b", <<"c", ",", " ", "c">>), Text(None, <<" ">>), Text(None, <<"c", "#">>),
     Text(None, <<" ", "#">>)}
UpToThree == UNION {[1 .. n -> LinesOfCode] : n \in 0 .. 3}
OneSecond == {<<Line("a", "trap", <<Num(5)>>), Line(None, "jmp", <<Lab("a")>>)>>}

Do(call, name) == [call |-> call, name |-> name, slot |-> "none"]
Slotted(slot) == [call |-> "li", name |-> "none", slot |-> slot]
Body == <<Do("label", "start"), Slotted("string"), Do("bne", "done"), Do("li", "done"),
          Slotted("init_addr"), Slotted("init_len"), Do("jmp", "start"), Do("label", "done"),
          Slotted("exec_addr"), Slotted("exec_len"), Do("beq", "done"),
          Do("li", "user_code_data"), Do("label", "done"), Do("add", "none")>>
KernelBodies == {Body, Body \o <<Do("label", "user_code_data")>>}

UserVa == {384}
AllKernels == {"binary", "freelist", "user_mode", "timer", "os"}
=============================================================================
