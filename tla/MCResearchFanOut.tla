-------------------------- MODULE MCResearchFanOut --------------------------
(***************************************************************************)
(* Constant definitions for the model checking of ResearchFanOut.          *)
(***************************************************************************)
EXTENDS ResearchFanOut, TLC

CONSTANTS pa, pb, pc

MCThree == <<pa, pb, pc>>

\* Two pages of one site and one of another.
MCDomain == ("a1" :> "a") @@ ("a2" :> "a") @@ ("b" :> "b")
MCPayloads == {{}, {"a1", "a2"}, {"a1", "b"}}
MCDeadlines == {1}
=============================================================================
