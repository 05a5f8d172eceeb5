---------------------------- MODULE ReleasePromise ----------------------------
(***************************************************************************)
(* What scripts/release_publish.py promises about a release: a version     *)
(* becomes public in one step, whole, and stays as it is.  What its users  *)
(* see is its tag, the ZIP that HACS fetches, what the release page says   *)
(* the ZIP was built from, and which version GitHub calls the latest.      *)
(***************************************************************************)
EXTENDS Naturals

CONSTANTS
  Commits,   \* full SHAs
  Version,   \* the version in the manifest at a commit
  Build,     \* the sha256 of the ZIP built from a commit
  Trial,     \* TRIAL_VERSION, below every real version
  Before,    \* releases from before this flow
  ByHand,    \* a release page somebody wrote, which claims no commit
  None

VARIABLES
  main,      \* commits on the main branch
  public,    \* the public release of a version
  latest     \* the version GitHub calls the latest

promiseVars == <<main, public, latest>>

Init ==
  /\ main \in SUBSET Commits
  /\ public = Before
  /\ latest \in DOMAIN Before

(* Version v comes out of commit c, from main unless it is the trial.  It  *)
(* becomes the latest if it is the highest so far, the trial never.        *)
Ship(c) ==
  LET v == Version[c] IN
  /\ public[v] = None
  /\ c \in main \/ v = Trial
  /\ \E body \in {c, ByHand} :
       public' = [public EXCEPT ![v] = [tag |-> c, asset |-> Build[c], body |-> body]]
  /\ latest' = IF v > latest THEN v ELSE latest
  /\ UNCHANGED main

MainMoves ==
  /\ main' \in SUBSET Commits
  /\ main \subseteq main'
  /\ UNCHANGED <<public, latest>>

Next == MainMoves \/ \E c \in Commits : Ship(c)

Spec == Init /\ [][Next]_promiseVars
==============================================================================
