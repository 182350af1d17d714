-------------------------- MODULE MCAttemptEngine --------------------------
(***************************************************************************)
(* Constant definitions for the model checking of AttemptEngine.           *)
(***************************************************************************)
EXTENDS AttemptEngine, TLC

CONSTANTS a, b, d, ra, rb, kx, ky

\* Two requests that call the same provider.
MCTwoCalls == {a, b}
MCTwoRequests == {ra, rb}
MCRequestOf == (a :> ra) @@ (b :> rb)
MCOneEndpoint == {kx}
MCSameEndpoint == [c \in MCTwoCalls |-> kx]

\* Windows in model seconds.  As in the code a blip window is as long as a
\* lease, and the quota window is the ceiling.
MCOpenSeconds == [e \in ErrorClass |->
  IF e = "quota" THEN 3 ELSE 2]

\* One request that races two providers, and one that uses the first of them.
MCThreeCalls == {a, b, d}
MCRaceRequestOf == (a :> ra) @@ (b :> ra) @@ (d :> rb)
MCRaceEndpointOf == (a :> kx) @@ (b :> ky) @@ (d :> kx)
MCTwoEndpoints == {kx, ky}

MCAllErrors == ErrorClass
MCTransient == {"transient"}
MCRetryAfters == {None, 1, 5}
MCDeadlines == {None, 2}
MCShortDeadline == {None, 1}
MCBlipOrLimit == {"transient", "rate_limit"}
MCNoneOrOne == {None, 1}
MCNoValue == {None}
\* Both requests are alike.
MCSwap == {(a :> b) @@ (b :> a) @@ (ra :> rb) @@ (rb :> ra)}
=============================================================================
