------------------------------ MODULE MCFixLoop ------------------------------
(***************************************************************************)
(* FixLoopHistory on four failures: two at one site, one at another site,  *)
(* and one that is a parse failure and blames none.                        *)
(***************************************************************************)
EXTENDS FixLoopHistory, TLC

CONSTANTS a1, a2, b, c, siteA, siteB   \* failures and sites

MCSite == a1 :> siteA @@ a2 :> siteA @@ b :> siteB @@ c :> NoSite
MCMagnitude == a1 :> 2 @@ a2 :> 2 @@ b :> 1 @@ c :> 0
=============================================================================
