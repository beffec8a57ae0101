----------------------------- MODULE MCConsole -----------------------------
(***************************************************************************)
(* A keyboard of six keys, a ring of two bytes and a line of three, on a   *)
(* screen of two rows; the words are short, but one begins another.        *)
(***************************************************************************)
EXTENDS Console, TLC

\* a, space, tab, Enter, and the two shift keys 42 and 54.
Keys == (30 :> <<97, 65>>) @@ (57 :> <<32, 32>>) @@ (15 :> <<9, 9>>) @@
        (28 :> <<10, 10>>) @@ (1 :> <<0, 0>>)
ShiftKeys == {42, 54}
Codes == {30, 57, 15, 28, 1, 42, 54, 42 + 128, 54 + 128, 30 + 128, 224}
Serial == {127}
AllBytes == {0, 9, 10, 32, 65, 97, 127}

ShortWords == [v |-> <<97>>, ls |-> <<97, 97>>, w |-> <<65>>, q |-> <<65, 97>>]
ShortReplies ==
    [v |-> {<<118, 10>>}, ls |-> {<<>>, <<97, 32, 49, 10>>}, w |-> {<<88>>, <<110, 10>>},
     q |-> {<<>>}, unknown |-> {<<63, 10>>}]
OneChar == <<62>>
SomeByte == {88}
=============================================================================
