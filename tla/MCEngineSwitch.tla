--------------------------- MODULE MCEngineSwitch ---------------------------
(* EngineSwitch for TLC: a listed process with a thread besides its main
   thread, and one that only the larger configuration lists. *)
EXTENDS EngineSwitch, TLC

CONSTANTS a, a2, b, c1, c2

MCMainOf == (a :> a @@ a2 :> a @@ b :> b)
MCRunning == {{a}, {a, b}}
MCListed == (c1 :> {a} @@ c2 :> {a, b})
=============================================================================
