------------------------------ MODULE MCMikFs ------------------------------
(***************************************************************************)
(* A directory of two one-entry sectors: one file is seeded and processes  *)
(* create the other.  A file of two bytes can grow, be truncated, and be   *)
(* left with a descriptor behind its end; with every fault at once a file  *)
(* has one byte and one process has both descriptors.                      *)
(***************************************************************************)
EXTENDS MikFs, TLC

CONSTANTS a, b, p1, p2

TwoNames == {a, b}
NoNames == {}
BHidesInA == {<<b, a>>}     \* b is a, a NUL and more: find(a) takes it too
OneSeed == <<a>>
OneByte == <<1>>
TwoProcs == {p1, p2}
OneProc == {p1}

\* Processes are alike, whichever slot they have.
ProcSymmetry == Permutations(TwoProcs)

NoFaults == {}
PowerCuts == {"power"}
PowerAndDrive == {"power", "absent", "read", "write"}
=============================================================================
