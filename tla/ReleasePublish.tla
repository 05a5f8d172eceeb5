---------------------------- MODULE ReleasePublish ----------------------------
(***************************************************************************)
(* Shipping a version: scripts/release_publish.py in the workflow          *)
(* .github/workflows/release.yml, against GitHub and the person who cleans *)
(* up by hand.  The workflow runs one publish at a time (its concurrency   *)
(* group), on one commit; a run may end at any step, by a failed call, a   *)
(* Stop or the time limit, and be started again on the same commit or on   *)
(* another.  A call that writes may do so although its answer is lost.     *)
(*                                                                         *)
(* A step is one call to GitHub that writes, with the reads just before    *)
(* it: what they read, only this run or a person between two runs changes. *)
(***************************************************************************)
EXTENDS Naturals, FiniteSets

CONSTANTS
  Commits,     \* full SHAs
  Version,     \* read_version: the manifest version at a commit
  Build,       \* build_zip: the sha256 it gives, the same on every run (one ZIP_EXCLUDE)
  Noted,       \* commits whose CHANGELOG has a dated note for their version
  Trial,       \* TRIAL_VERSION
  FirstZip,    \* FIRST_ZIP_VERSION
  OldCommit,   \* the commit of a release made before this flow
  OldAsset,    \* its ZIP, if it has one
  HandPacked,  \* the sha256 of a ZIP packed by hand
  Truncated,   \* the sha256 of an upload that was cut off
  ByHand,      \* the target and the body of a draft made in the browser
  None,
  Ids,         \* the releases there can be at a time, drafts included
  FirstId,     \* the release from before this flow
  Persist,     \* commits that somebody runs again until they are out
  MaxHands     \* bound: how often a person steps in

Versions == {Version[c] : c \in Commits}
Digests  == {Build[c] : c \in Commits} \cup {HandPacked, Truncated}

Release == [version : Versions, target : Commits \cup {ByHand}, body : Commits \cup {ByHand},
            draft : BOOLEAN, asset : Digests \cup {None}]

ASSUME CommitAssumption ==
  /\ ByHand \notin Commits /\ None \notin Commits
  /\ OldCommit \in Commits /\ Noted \subseteq Commits /\ Persist \subseteq Commits
ASSUME VersionAssumption ==
  /\ \A c \in Commits : Version[c] \in Nat
  /\ FirstZip \in Nat /\ Trial \in Nat /\ MaxHands \in Nat
  /\ Trial < Version[OldCommit] /\ Version[OldCommit] < FirstZip
  /\ \A c \in Commits : Version[c] = Trial \/ Version[c] >= Version[OldCommit]
ASSUME BuildAssumption ==
  /\ {HandPacked, Truncated} \cap {Build[c] : c \in Commits} = {}
  /\ None \notin Digests /\ OldAsset \in {None, HandPacked}
ASSUME ReleaseAssumption == None \notin Release /\ Ids \subseteq Nat /\ FirstId \in Ids /\ None \notin Ids

VARIABLES
  \* GitHub.
  main,       \* commits on the default branch
  tag,        \* where the tag of a version points
  releases,   \* drafts and published releases
  latest,     \* the version of releases/latest
  attested,   \* the attestations of release.yml: a commit and a digest
  \* The run.
  pc,         \* where it is
  sha,        \* its candidate, github.sha
  trial,      \* inputs.trial_release
  rel,        \* the release find_release gave, or the draft it made
  makeLatest, \* should_be_latest
  \* History.
  hands,      \* how often a person has stepped in
  red         \* versions found not to hang together although they are out

githubVars == <<main, tag, releases, latest, attested>>
runVars    == <<pc, sha, trial, rel, makeLatest>>
vars == <<githubVars, runVars, hands, red>>

TypeOK ==
  /\ main \in SUBSET Commits
  /\ tag \in [Versions -> Commits \cup {None}]
  /\ releases \in [Ids -> Release \cup {None}]
  /\ latest \in Versions
  /\ attested \in SUBSET (Commits \X Digests)
  /\ pc \in {"idle", "plan", "find", "tag", "draft", "asset", "publish"}
  /\ sha \in Commits
  /\ trial \in BOOLEAN
  /\ rel \in Ids \cup {None}
  /\ makeLatest \in BOOLEAN
  /\ hands \in Nat
  /\ red \in SUBSET Versions

OldRelease ==
  [version |-> Version[OldCommit], target |-> ByHand, body |-> ByHand, draft |-> FALSE, asset |-> OldAsset]

Init ==
  /\ main = {OldCommit}
  /\ tag = [v \in Versions |-> IF v = Version[OldCommit] THEN OldCommit ELSE None]
  /\ releases = [i \in Ids |-> IF i = FirstId THEN OldRelease ELSE None]
  /\ latest = Version[OldCommit]
  /\ attested = {}
  /\ pc = "idle"
  /\ sha = OldCommit
  /\ trial = FALSE
  /\ rel = None
  /\ makeLatest = FALSE
  /\ hands = 0
  /\ red = {}
-----------------------------------------------------------------------------
(***************************************************************************)
(* What is read.                                                           *)
(***************************************************************************)

candidate == Version[sha]

(* A new release gets the lowest id that no other has. *)
IsNew(i) == releases[i] = None /\ \A j \in Ids : releases[j] = None => i <= j

(* find_release: every release of a version, drafts too. *)
Hits(v) == {i \in Ids : releases[i] # None /\ releases[i].version = v}

IsOut(v) == \E i \in Hits(v) : ~releases[i].draft

(* find_release as run() uses it; more than one hit stops the run. *)
Found(v, i) == Hits(v) = IF i = None THEN {} ELSE {i}

(* Variation: a release from before the flow is treated like one of its own. *)
Broken_always(i) ==
  /\ tag[releases[i].version] # None
  /\ releases[i].asset # Build[tag[releases[i].version]]

(* check_published, as far as it blocks: a release this flow made whose    *)
(* ZIP is missing, or is not what its tag builds.                          *)
Broken(i) ==
  /\ tag[releases[i].version] # None
  /\ releases[i].version >= FirstZip
  /\ releases[i].asset # Build[tag[releases[i].version]]

(* require_main_branch *)
OnMain == IF trial THEN candidate = Trial ELSE sha \in main

(* verify_attestation, on the ZIP just built again. *)
Attested == <<sha, Build[sha]>> \in attested

(* Variation: any draft of the version is taken for the candidate's. *)
DraftFits_any(i) == TRUE

(* require_draft_on_candidate *)
DraftFits(i) == i # None => releases[i].target \in {sha, ByHand}

(* Variation: what is published last is the latest. *)
ShouldBeLatest_newest == candidate # Trial

(* should_be_latest *)
ShouldBeLatest == candidate # Trial /\ candidate > latest

(* release_note: a section with a date; the trial ships with an undated one. *)
HasNote == sha \in Noted \/ candidate = Trial
-----------------------------------------------------------------------------
(***************************************************************************)
(* A run of the workflow.                                                  *)
(***************************************************************************)

Goes(place) == pc' = place /\ UNCHANGED <<sha, trial, rel, makeLatest>>

Ended ==
  /\ pc' = "idle" /\ sha' = OldCommit /\ trial' = FALSE /\ rel' = None /\ makeLatest' = FALSE

(* The push of a commit, a re-run on it, or a hand run on its branch or    *)
(* tag.  The gate job lets a push go on if its version is not out; the ref *)
(* guard wants main, a version's tag, or a trial.                          *)
Start(c, isTrial) ==
  /\ pc = "idle"
  /\ isTrial \/ c \in main \/ tag[Version[c]] = c
  /\ pc' = "plan" /\ sha' = c /\ trial' = isTrial
  /\ UNCHANGED <<githubVars, rel, makeLatest, hands, red>>

(* A version that is out is proved against its own tag, and nothing more.  *)
ProvesPublished(i) ==
  /\ Found(candidate, i) /\ i # None /\ ~releases[i].draft
  /\ red' = red \cup (IF Broken(i) THEN {candidate} ELSE {})
  /\ Ended
  /\ UNCHANGED <<githubVars, hands>>

(* What a candidate must meet before anything is written for it. *)
MayShip(i) ==
  /\ Found(candidate, i) /\ (i # None => releases[i].draft)
  /\ OnMain
  /\ DraftFits(i)
  /\ HasNote

(* The steps "Read the state", "Build the deterministic ZIP" and "Attest   *)
(* the build": plan reads, and only then the build is attested.            *)
Plan ==
  /\ pc = "plan"
  /\ \/ \E i \in Ids : ProvesPublished(i)
     \/ /\ \E i \in Ids \cup {None} : MayShip(i)
        /\ tag[candidate] \in {sha, None}
        /\ attested' = attested \cup {<<sha, Build[sha]>>}
        /\ Goes("find")
        /\ UNCHANGED <<main, tag, releases, latest, hands, red>>

(* publish, up to its first write: the same reads, and verify_attestation. *)
Find ==
  /\ pc = "find"
  /\ \/ \E i \in Ids : ProvesPublished(i)
     \/ \E i \in Ids \cup {None} :
          /\ MayShip(i)
          /\ Attested
          /\ pc' = "tag" /\ rel' = i /\ makeLatest' = ShouldBeLatest
          /\ UNCHANGED <<githubVars, sha, trial, hands, red>>

(* ensure_tag: it agrees, or it is created; it is never moved. *)
EnsureTag ==
  /\ pc = "tag"
  /\ \/ tag[candidate] = sha /\ Goes("draft") /\ UNCHANGED tag
     \/ tag[candidate] = None /\ tag' = [tag EXCEPT ![candidate] = sha] /\ (Goes("draft") \/ Ended)
  /\ UNCHANGED <<main, releases, latest, attested, hands, red>>

(* build_body, for what the page claims: the commit the ZIP was built from. *)
Body == sha

Draft == [version |-> candidate, target |-> sha, body |-> Body, draft |-> TRUE, asset |-> None]

(* Variation: an earlier draft is not reused. *)
EnsureDraft_alwaysNew ==
  /\ pc = "draft"
  /\ \E i \in Ids :
       /\ IsNew(i)
       /\ releases' = [releases EXCEPT ![i] = Draft]
       /\ \/ pc' = "asset" /\ rel' = i /\ UNCHANGED <<sha, trial, makeLatest>>
          \/ Ended
  /\ UNCHANGED <<main, tag, latest, attested, hands, red>>

(* ensure_draft: the one there is, as it is, or a new one. *)
EnsureDraft ==
  /\ pc = "draft"
  /\ \/ rel # None /\ Goes("asset") /\ UNCHANGED releases
     \/ /\ rel = None
        /\ \E i \in Ids :
             /\ IsNew(i)
             /\ releases' = [releases EXCEPT ![i] = Draft]
             /\ \/ pc' = "asset" /\ rel' = i /\ UNCHANGED <<sha, trial, makeLatest>>
                \/ Ended
  /\ UNCHANGED <<main, tag, latest, attested, hands, red>>

(* ensure_asset: a ZIP that is there must be the right one; else it is     *)
(* uploaded.  Whatever the upload said, what counts is what is read back.  *)
EnsureAsset ==
  /\ pc = "asset"
  /\ \/ releases[rel].asset = Build[sha] /\ Goes("publish") /\ UNCHANGED releases
     \/ /\ releases[rel].asset = None
        /\ \E d \in {Build[sha], Truncated, None} :
             /\ releases' = [releases EXCEPT ![rel].asset = d]
             /\ (d = Build[sha] /\ Goes("publish")) \/ Ended
  /\ UNCHANGED <<main, tag, latest, attested, hands, red>>

(* The last call: draft=false, with make_latest as it was decided before.  *)
Publish ==
  /\ pc = "publish"
  /\ releases' = [releases EXCEPT ![rel].draft = FALSE]
  /\ latest' = IF makeLatest THEN candidate ELSE latest
  /\ Ended
  /\ UNCHANGED <<main, tag, attested, hands, red>>

(* A Failure, a Stop, the job's time limit: the run writes nothing more. *)
Stops ==
  /\ pc # "idle"
  /\ Ended
  /\ UNCHANGED <<githubVars, hands, red>>
-----------------------------------------------------------------------------
(***************************************************************************)
(* The people: main grows, and what is not out is tidied up by hand while  *)
(* no run is under way.  A draft may be made in the browser at any time.   *)
(***************************************************************************)

MainMoves(c) ==
  /\ c \notin main /\ Version[c] # Trial
  /\ main' = main \cup {c}
  /\ UNCHANGED <<tag, releases, latest, attested, runVars, hands, red>>

StepsIn == hands < MaxHands /\ hands' = hands + 1 /\ UNCHANGED <<main, latest, attested, runVars, red>>

MovesTag(v, c) ==
  /\ StepsIn /\ pc = "idle" /\ ~IsOut(v)
  /\ c # tag[v] /\ (c # None => Version[c] = v)
  /\ tag' = [tag EXCEPT ![v] = c]
  /\ UNCHANGED releases

DeletesDraft(i) ==
  /\ StepsIn /\ pc = "idle" /\ releases[i] # None /\ releases[i].draft
  /\ releases' = [releases EXCEPT ![i] = None]
  /\ UNCHANGED tag

DeletesAsset(i) ==
  /\ StepsIn /\ pc = "idle" /\ releases[i] # None /\ releases[i].draft /\ releases[i].asset # None
  /\ releases' = [releases EXCEPT ![i].asset = None]
  /\ UNCHANGED tag

MakesDraft(i, v, d) ==
  /\ StepsIn /\ IsNew(i)
  /\ releases' = [releases EXCEPT ![i] =
                    [version |-> v, target |-> ByHand, body |-> ByHand, draft |-> TRUE, asset |-> d]]
  /\ UNCHANGED tag

Next ==
  \/ \E c \in Commits, isTrial \in BOOLEAN : Start(c, isTrial)
  \/ Plan \/ Find \/ EnsureTag \/ EnsureDraft \/ EnsureAsset \/ Publish
  \/ Stops
  \/ \E c \in Commits : MainMoves(c)
  \/ \E v \in Versions, c \in Commits \cup {None} : MovesTag(v, c)
  \/ \E i \in Ids : DeletesDraft(i) \/ DeletesAsset(i)
  \/ \E i \in Ids, v \in Versions, d \in {None, HandPacked} : MakesDraft(i, v, d)

(***************************************************************************)
(* A run ends (timeout-minutes).  A run that stopped after the tag is      *)
(* started again on that commit, again and again, and each of its calls    *)
(* goes through if it is made again and again.                             *)
(***************************************************************************)
Resumes(c) == tag[Version[c]] = c /\ Start(c, FALSE)
Resumed(c) == sha = c /\ ~trial

Fairness ==
  /\ WF_vars(Stops)
  /\ \A c \in Persist :
       /\ SF_vars(Resumes(c))
       /\ SF_vars(Resumed(c) /\ Plan)
       /\ SF_vars(Resumed(c) /\ Find)
       /\ SF_vars(Resumed(c) /\ EnsureTag)
       /\ SF_vars(Resumed(c) /\ EnsureDraft)
       /\ SF_vars(Resumed(c) /\ EnsureAsset /\ releases'[rel].asset = Build[c])
       /\ SF_vars(Resumed(c) /\ Publish)

Spec     == Init /\ [][Next]_vars
FairSpec == Spec /\ Fairness
-----------------------------------------------------------------------------
(***************************************************************************)
(* Properties.                                                             *)
(***************************************************************************)

(* What this flow makes public hangs together, whatever earlier runs and   *)
(* people left behind: the tag, the ZIP, its attestation and the page all  *)
(* speak of one commit, and that commit was on main.                       *)
PublishedBound ==
  \A i \in Ids :
    LET out == releases[i]
        c   == tag[out.version]
    IN
    out # None /\ ~out.draft /\ out.version # Version[OldCommit] =>
      /\ c # None /\ Version[c] = out.version
      /\ out.asset = Build[c] /\ <<c, out.asset>> \in attested
      /\ out.body \in {c, ByHand}
      /\ c \in main \/ out.version = Trial

(* A version that came out of this flow never fails its own proof later,   *)
(* and one from before it, which nobody can change, never does either, as  *)
(* long as build_zip makes the same ZIP of a commit on every run: the      *)
(* check rebuilds an old tag with the ZIP_EXCLUDE of the commit that runs. *)
NoFalseAlarm == red = {}

(* A release becomes public in one step and whole, once, and the latest    *)
(* only ever rises.                                                        *)
Seen(v) ==
  IF IsOut(v)
  THEN LET out == releases[CHOOSE i \in Hits(v) : ~releases[i].draft]
       IN  [tag |-> tag[v], asset |-> out.asset, body |-> out.body]
  ELSE None

Promise ==
  INSTANCE ReleasePromise WITH
    Before <- [v \in Versions |->
                 IF v = Version[OldCommit]
                 THEN [tag |-> OldCommit, asset |-> OldAsset, body |-> ByHand] ELSE None],
    public <- [v \in Versions |-> Seen(v)]

ShipsWhole == Promise!Spec

(* A version that got its tag comes out when its commit is run again,      *)
(* unless something a person must look at is in the way: a draft of        *)
(* another commit, a second release, a ZIP that is not the right one.      *)
HalfWay(c) ==
  LET v == Version[c] IN
  /\ tag[v] = c /\ c \in main /\ c \in Noted /\ ~IsOut(v)
  /\ \A i \in Hits(v) : Hits(v) = {i} /\ releases[i].target \in {c, ByHand}
                        /\ releases[i].asset \in {None, Build[c]}
  /\ Hits(v) # {} \/ \E i \in Ids : releases[i] = None

ResumedToTheEnd == \A c \in Persist : []<>~HalfWay(c)
==============================================================================
