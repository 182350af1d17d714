---------------------------- MODULE MCHedgedRace ----------------------------
(***************************************************************************)
(* Constant definitions for the model checking of HedgedRace.              *)
(***************************************************************************)
EXTENDS HedgedRace, TLC

CONSTANTS pa, pb, pc

MCThree == <<pa, pb, pc>>
\* The first provider is the faster one.
MCDelays == (pa :> 1) @@ (pb :> 2) @@ (pc :> 1)
MCDeadlines == {None, 0, 2}
=============================================================================
