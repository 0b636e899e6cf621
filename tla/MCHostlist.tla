----------------------------- MODULE MCHostlist -----------------------------
(***************************************************************************)
(* Hostlist for TLC: ranges at either end of the integers, one that is     *)
(* backwards, and some about as large as the cap.                          *)
(***************************************************************************)
EXTENDS Hostlist

MCRanges == {<<0, MaxInt>>, <<MaxInt - 1, MaxInt>>, <<1, 1>>, <<1, Cap>>, <<0, Cap>>, <<2, 1>>}

=============================================================================
