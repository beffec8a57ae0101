------------------------------ MODULE MCSched ------------------------------
(***************************************************************************)
(* Instances of Sched for TLC.  The deployed system has its three          *)
(* processes and four slots; two slots are enough for two readers to block *)
(* together, and for one to exit and its slot to be reused by fork.  Two   *)
(* bytes of buffer fill up and overflow.                                   *)
(***************************************************************************)
EXTENDS Sched

\* The value of a byte never matters here (ByteQueue and InputRing are about
\* the order of bytes).
OneByte == {0}

\* The deployed system: prog B in slot 1 spins and never makes a system call.
ProgB == {1}
=============================================================================
