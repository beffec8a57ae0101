------------------------------ MODULE MCMik64 ------------------------------
(***************************************************************************)
(* Mik64 for TLC: the two slots of the kernel, a code page and a demand    *)
(* page per process, and a TLB in which the code page and the kernel       *)
(* collide.                                                                *)
(***************************************************************************)
EXTENDS Mik64

Bits == {0, 1}
\* A context switch of two ticks in an interval of three ...
ShortCost == [save |-> 1, save_pc |-> 0,
              pick |-> [s \in 0 .. 1 |-> [t \in 0 .. 1 |-> 0]], restore |-> 1,
              start |-> 1, dispatch |-> [n \in 0 .. 6 |-> 1]]
\* ... or its instructions, counted in the source.
RealCost == [save |-> 15, save_pc |-> 2,
             pick |-> [s \in 0 .. 1 |-> [t \in 0 .. 1 |-> 7 + s + (IF t = s THEN 1 ELSE 0)]],
             restore |-> 20, start |-> 3,
             dispatch |-> [n \in 0 .. 6 |-> CASE n = 1 -> 5 [] n = 3 -> 10 [] n = 5 -> 14
                                              [] n = 6 -> 12 [] OTHER -> 2 * n + 1]]

ShortAndLong == {1, 5}
AnyCost == 1 .. 100
AllCalls == 0 .. 6
ForkAndYield == {2, 4}
\* Programs write x2, and get a 1 in another register by loading a word of the
\* program exec has copied; what they leave in x1, x3, x10 and x11 is saved alike.
Written == {<<"x2", 1>>}
Constants == {<<"xk", 0>>}
EveryPage == 0 .. 3
Nowhere == {}
Code == {"u0", "u1"}
CodeAndData == {"u0", "v"}
=============================================================================
