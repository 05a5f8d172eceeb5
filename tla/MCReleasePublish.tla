--------------------------- MODULE MCReleasePublish ---------------------------
(* A release from before this flow, two commits of main with the same *)
(* manifest version, and one with the next.                           *)
EXTENDS ReleasePublish

CONSTANTS cOld, cA, cB, cC, zOld, zA, zB, zC

MCVersion == [x \in Commits |-> CASE x = cOld -> 1 [] x \in {cA, cB} -> 2 [] x = cC -> 3]
MCBuild   == [x \in Commits |-> CASE x = cOld -> zOld [] x = cA -> zA [] x = cB -> zB [] x = cC -> zC]
==============================================================================
