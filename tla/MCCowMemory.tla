---------------------------- MODULE MCCowMemory ----------------------------
(***************************************************************************)
(* Two slots, one image page and one heap page.  A frame is two units long;*)
(* frame 0 is below 1 MiB and frame 3 is the kernel's, whose end is not on *)
(* a frame's.  The fallback map leaves five frames, enough for two          *)
(* generations of forks that both copy every page, and then run out; the   *)
(* firmware's has RAM that begins and ends in the middle of a frame, and   *)
(* reserves memory far behind what is mapped.                              *)
(***************************************************************************)
EXTENDS CowMemory

PageValues == {0, 1}

Entry(b, l, t) == [base |-> b, len |-> l, typ |-> t]
FirmwareMaps ==
    {<<Entry(0, 1, 1), Entry(1, 1, 2), Entry(3, 10, 1), Entry(13, 1, 2), Entry(40, 2, 2)>>}
=============================================================================
