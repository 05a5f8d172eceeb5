----------------------------- MODULE ReleaseProofs -----------------------------
(***************************************************************************)
(* Proofs about ReleasePublish, for any commits, versions and releases and *)
(* for any number of interventions by hand: what comes out hangs together, *)
(* and each step is one of ReleasePromise or none.                         *)
(*                                                                         *)
(* The inductive invariant says what a run that writes may still rely on   *)
(* (Knows): what it read before its first write holds until its last.  All *)
(* actions but the last call leave what is public as it is (Quiet).        *)
(***************************************************************************)
EXTENDS ReleasePublish, TLAPS

USE CommitAssumption, VersionAssumption, BuildAssumption, ReleaseAssumption

Out(i) == releases[i] # None /\ ~releases[i].draft

Writing == {"tag", "draft", "asset", "publish"}

(* What a run knows while it writes. *)
Knows ==
  pc \in Writing =>
    /\ ~IsOut(candidate)
    /\ OnMain
    /\ <<sha, Build[sha]>> \in attested
    /\ makeLatest <=> ShouldBeLatest
    /\ rel # None => /\ releases[rel] # None
                     /\ releases[rel].version = candidate /\ releases[rel].draft
                     /\ releases[rel].target \in {sha, ByHand}
    /\ pc # "tag" => tag[candidate] = sha
    /\ pc \in {"asset", "publish"} => rel # None
    /\ pc = "publish" => releases[rel].asset = Build[sha]

(* The page of a release speaks of the commit it was made for. *)
BodyOfTarget == \A i \in Ids : releases[i] # None => releases[i].body = releases[i].target

(* A version is out once. *)
OutOnce == \A i, j \in Ids : Out(i) /\ Out(j) /\ releases[i].version = releases[j].version => i = j

(* The release from before the flow stays as it was. *)
OldStays ==
  /\ \E i \in Ids : releases[i] = OldRelease
  /\ tag[Version[OldCommit]] = OldCommit
  /\ latest > Trial

ReleaseInv ==
  TypeOK /\ Knows /\ BodyOfTarget /\ OutOnce /\ OldStays /\ PublishedBound /\ NoFalseAlarm

(* What is public stays as it is, and nothing becomes public. *)
Quiet ==
  /\ \A i \in Ids : Out(i) => releases'[i] = releases[i]
  /\ \A i \in Ids : Out(i)' => Out(i)
  /\ \A v \in Versions : IsOut(v) => tag'[v] = tag[v]
  /\ main \subseteq main' /\ attested \subseteq attested' /\ latest' = latest

(* A version is out if a release of it is. *)
LEMMA IsOutMeans == \A v : IsOut(v) <=> \E i \in Ids : Out(i) /\ releases[i].version = v
  BY DEF IsOut, Hits, Out

(* The version of a commit, and the ZIP of a commit. *)
LEMMA OfCommit == \A c \in Commits : Version[c] \in Versions /\ Version[c] \in Nat /\ Build[c] \in Digests
  BY DEF Versions, Digests

(* The old release is a release. *)
LEMMA OldIsRelease == OldRelease \in Release /\ OldRelease # None /\ ~OldRelease.draft
<1>1. OldRelease \in Release
  BY OfCommit DEF OldRelease, Release, Digests
<1> QED BY <1>1 DEF OldRelease

(* Versions are numbers, and the trial version is below all others. *)
LEMMA VersionsAre == Versions \subseteq Nat /\ \A v \in Versions : v = Trial \/ v > Trial
  BY DEF Versions

(* Initially there is the old release. *)
LEMMA InitReleaseInv == Init => ReleaseInv
<1> SUFFICES ASSUME Init PROVE ReleaseInv
  OBVIOUS
<1>1. TypeOK
  BY OfCommit, OldIsRelease DEF Init, TypeOK
<1>2. OldStays /\ Knows /\ NoFalseAlarm
  BY OfCommit DEF Init, OldStays, Knows, Writing, NoFalseAlarm
<1>3. \A i \in Ids : releases[i] # None => i = FirstId /\ releases[i] = OldRelease
  BY DEF Init
<1>4. BodyOfTarget /\ OutOnce
  BY <1>3 DEF BodyOfTarget, OutOnce, Out, OldRelease
<1>5. PublishedBound
  BY <1>3 DEF PublishedBound, OldRelease
<1> QED BY <1>1, <1>2, <1>4, <1>5 DEF ReleaseInv

(* A quiet step keeps what holds of the public releases. *)
LEMMA QuietKeeps ==
  ASSUME ReleaseInv, Quiet, TypeOK'
  PROVE  OutOnce' /\ OldStays' /\ PublishedBound'
<1>1. \A i \in Ids : Out(i)' => Out(i) /\ releases'[i] = releases[i]
  BY DEF Quiet
<1>2. OutOnce'
  BY <1>1 DEF ReleaseInv, OutOnce
<1>3. \A i \in Ids : Out(i) => releases[i].version \in Versions /\ tag'[releases[i].version] = tag[releases[i].version]
  <2> SUFFICES ASSUME NEW i \in Ids, Out(i)
               PROVE  releases[i].version \in Versions /\ tag'[releases[i].version] = tag[releases[i].version]
    OBVIOUS
  <2>1. releases[i] \in Release
    BY DEF ReleaseInv, TypeOK, Out
  <2>2. releases[i].version \in Versions /\ IsOut(releases[i].version)
    BY <2>1, IsOutMeans DEF Release
  <2> QED BY <2>2 DEF Quiet
<1>4. OldStays'
  <2>1. PICK i \in Ids : releases[i] = OldRelease
    BY DEF ReleaseInv, OldStays
  <2>2. Out(i) /\ OldRelease.version = Version[OldCommit]
    BY <2>1, OldIsRelease DEF Out, OldRelease
  <2> QED BY <1>3, <2>1, <2>2 DEF ReleaseInv, OldStays, Quiet, OldRelease
<1>5. PublishedBound'
  <2> SUFFICES ASSUME NEW i \in Ids, Out(i)', releases'[i].version # Version[OldCommit]
               PROVE  PublishedBound!(i)'
    BY DEF PublishedBound, Out
  <2>1. Out(i) /\ releases'[i] = releases[i] /\ tag'[releases[i].version] = tag[releases[i].version]
    BY <1>1, <1>3
  <2>2. PublishedBound!(i)
    BY DEF ReleaseInv, PublishedBound
  <2> QED BY <2>1, <2>2 DEF Quiet, Out
<1> QED BY <1>2, <1>4, <1>5

(* Nothing that hangs together is found broken. *)
LEMMA NotBroken ==
  ASSUME ReleaseInv, NEW i \in Ids, Out(i)
  PROVE  ~Broken(i)
<1>1. CASE releases[i].version = Version[OldCommit]
  <2>1. ~(releases[i].version >= FirstZip)
    BY <1>1
  <2> QED BY <2>1 DEF Broken
<1>2. CASE releases[i].version # Version[OldCommit]
  <2>1. releases[i].asset = Build[tag[releases[i].version]]
    BY <1>2 DEF ReleaseInv, PublishedBound, Out
  <2> QED BY <2>1 DEF Broken
<1> QED BY <1>1, <1>2

(* What a step of the run on its own leaves to show. *)
LEMMA QuietStep ==
  ASSUME ReleaseInv, Quiet, TypeOK', Knows', BodyOfTarget', NoFalseAlarm'
  PROVE  ReleaseInv'
  BY QuietKeeps DEF ReleaseInv
-----------------------------------------------------------------------------
(***************************************************************************)
(* One lemma per action.                                                   *)
(***************************************************************************)

(* A run that ends, or starts, knows nothing. *)
LEMMA EndsQuietly ==
  ASSUME ReleaseInv, Ended, UNCHANGED githubVars, hands' = hands, red' = red
  PROVE  Quiet /\ ReleaseInv'
<1>1. UNCHANGED <<main, tag, releases, latest, attested>>
  BY DEF githubVars
<1>2. TypeOK'
  BY <1>1 DEF ReleaseInv, TypeOK, Ended
<1>3. Quiet
  BY <1>1 DEF Quiet, Out
<1>4. Knows' /\ BodyOfTarget' /\ NoFalseAlarm'
  BY <1>1 DEF ReleaseInv, Knows, Writing, BodyOfTarget, NoFalseAlarm, Ended
<1> QED BY <1>2, <1>3, <1>4, QuietStep

(* So does one that finds its version out. *)
LEMMA ProvesQuietly ==
  ASSUME ReleaseInv, NEW i \in Ids, ProvesPublished(i)
  PROVE  Quiet /\ ReleaseInv'
<1>1. releases[i] # None
  BY DEF ProvesPublished, Found, Hits
<1>2. ~Broken(i)
  BY <1>1, NotBroken DEF ProvesPublished, Out
<1> QED BY <1>2, EndsQuietly DEF ProvesPublished

(* The push, the re-run or the hand run. *)
LEMMA StartQuiet ==
  ASSUME ReleaseInv, NEW c \in Commits, NEW b \in BOOLEAN, Start(c, b)
  PROVE  Quiet /\ ReleaseInv'
<1>1. UNCHANGED <<main, tag, releases, latest, attested, rel, makeLatest, hands, red>>
      /\ pc' = "plan" /\ sha' = c /\ trial' = b
  BY DEF Start, githubVars
<1>2. TypeOK'
  BY <1>1 DEF ReleaseInv, TypeOK
<1>3. Quiet
  BY <1>1 DEF Quiet, Out
<1>4. Knows' /\ BodyOfTarget' /\ NoFalseAlarm'
  BY <1>1 DEF ReleaseInv, Knows, Writing, BodyOfTarget, NoFalseAlarm
<1> QED BY <1>2, <1>3, <1>4, QuietStep

(* plan, and the attestation. *)
LEMMA PlanQuiet == ASSUME ReleaseInv, Plan PROVE Quiet /\ ReleaseInv'
<1>1. ASSUME NEW i \in Ids, ProvesPublished(i) PROVE Quiet /\ ReleaseInv'
  BY <1>1, ProvesQuietly
<1>2. CASE /\ attested' = attested \cup {<<sha, Build[sha]>>}
           /\ Goes("find")
           /\ UNCHANGED <<main, tag, releases, latest, hands, red>>
  <2>1. TypeOK'
    BY <1>2, OfCommit DEF ReleaseInv, TypeOK, Goes
  <2>2. Quiet
    BY <1>2 DEF Quiet, Out
  <2>3. Knows' /\ BodyOfTarget' /\ NoFalseAlarm'
    BY <1>2 DEF ReleaseInv, Knows, Writing, BodyOfTarget, NoFalseAlarm, Goes
  <2> QED BY <2>1, <2>2, <2>3, QuietStep
<1> QED BY <1>1, <1>2 DEF Plan

(* The reads before the first write are what the run knows. *)
LEMMA FindQuiet == ASSUME ReleaseInv, Find PROVE Quiet /\ ReleaseInv'
<1>1. ASSUME NEW i \in Ids, ProvesPublished(i) PROVE Quiet /\ ReleaseInv'
  BY <1>1, ProvesQuietly
<1>2. ASSUME NEW i \in Ids \cup {None}, MayShip(i), Attested,
             pc' = "tag", rel' = i, makeLatest' = ShouldBeLatest,
             UNCHANGED <<githubVars, sha, trial, hands, red>>
      PROVE  Quiet /\ ReleaseInv'
  <2>1. UNCHANGED <<main, tag, releases, latest, attested, sha, trial, hands, red>>
    BY <1>2 DEF githubVars
  <2>2. makeLatest' \in BOOLEAN
    BY <1>2 DEF ShouldBeLatest
  <2>3. TypeOK'
    BY <1>2, <2>1, <2>2 DEF ReleaseInv, TypeOK
  <2>4. Quiet
    BY <2>1 DEF Quiet, Out
  <2>5. ~IsOut(candidate)
    BY <1>2 DEF MayShip, Found, IsOut, Hits
  <2>6. i # None => i \in Ids /\ releases[i] # None /\ releases[i].version = candidate /\ releases[i].draft
                    /\ releases[i].target \in {sha, ByHand}
    BY <1>2 DEF MayShip, Found, Hits, DraftFits
  <2>7. Knows'
    <3>1. candidate' = candidate /\ ~IsOut(candidate)' /\ OnMain'
      BY <1>2, <2>1, <2>5 DEF candidate, IsOut, Hits, OnMain, MayShip
    <3>2. makeLatest' <=> ShouldBeLatest'
      BY <1>2, <2>1 DEF ShouldBeLatest, candidate
    <3> QED BY <1>2, <2>1, <2>6, <3>1, <3>2 DEF Knows, Attested
  <2>8. BodyOfTarget' /\ NoFalseAlarm'
    BY <2>1 DEF ReleaseInv, BodyOfTarget, NoFalseAlarm
  <2> QED BY <2>3, <2>4, <2>7, <2>8, QuietStep
<1> QED BY <1>1, <1>2 DEF Find

(* The tag agrees, or is created where there is none. *)
LEMMA EnsureTagQuiet == ASSUME ReleaseInv, EnsureTag PROVE Quiet /\ ReleaseInv'
<1>1. /\ pc = "tag" /\ UNCHANGED <<main, releases, latest, attested, hands, red>>
      /\ sha \in Commits /\ candidate \in Versions /\ tag \in [Versions -> Commits \cup {None}]
      /\ ~IsOut(candidate)
  BY OfCommit DEF EnsureTag, ReleaseInv, TypeOK, candidate, Knows, Writing
<1>2. tag' = tag \/ tag' = [tag EXCEPT ![candidate] = sha]
  BY DEF EnsureTag
<1>3. tag' \in [Versions -> Commits \cup {None}] /\ \A v \in Versions : v # candidate => tag'[v] = tag[v]
  BY <1>1, <1>2
<1>4. Goes("draft") \/ Ended
  BY DEF EnsureTag
<1>5. TypeOK'
  BY <1>1, <1>3, <1>4 DEF ReleaseInv, TypeOK, Goes, Ended
<1>6. Quiet
  BY <1>1, <1>3 DEF Quiet, Out
<1>7. Knows'
  <2>1. CASE Ended
    BY <2>1 DEF Ended, Knows, Writing
  <2>2. CASE Goes("draft")
    <3>1. tag'[candidate] = sha
      BY <1>1, <2>2 DEF EnsureTag, Ended, Goes
    <3> QED BY <1>1, <2>2, <3>1 DEF ReleaseInv, Goes, Knows, Writing, IsOut, Hits, candidate, OnMain,
                                     ShouldBeLatest
  <2> QED BY <1>4, <2>1, <2>2
<1>8. BodyOfTarget' /\ NoFalseAlarm'
  BY <1>1 DEF ReleaseInv, BodyOfTarget, NoFalseAlarm
<1> QED BY <1>5, <1>6, <1>7, <1>8, QuietStep

(* A release that is not public is changed, or made. *)
LEMMA OneRelease ==
  ASSUME ReleaseInv, NEW i \in Ids, ~Out(i), NEW x \in Release, x.draft, x.body = x.target,
         releases' = [releases EXCEPT ![i] = x],
         main' = main, tag' = tag, attested' = attested, latest' = latest
  PROVE  /\ Quiet /\ BodyOfTarget' /\ releases' \in [Ids -> Release \cup {None}]
         /\ \A v : IsOut(v)' => IsOut(v)
<1>1. releases' \in [Ids -> Release \cup {None}] /\ releases'[i] = x
      /\ \A j \in Ids : j # i => releases'[j] = releases[j]
  BY DEF ReleaseInv, TypeOK
<1>2. Quiet
  BY <1>1 DEF Quiet, Out
<1>3. BodyOfTarget'
  BY <1>1 DEF ReleaseInv, BodyOfTarget
<1>4. \A v : IsOut(v)' => IsOut(v)
  BY <1>1 DEF IsOut, Hits
<1> QED BY <1>1, <1>2, <1>3, <1>4

(* The draft is the one there is, or a new one on the candidate. *)
LEMMA EnsureDraftQuiet == ASSUME ReleaseInv, EnsureDraft PROVE Quiet /\ ReleaseInv'
<1>1. /\ pc = "draft" /\ UNCHANGED <<main, tag, latest, attested, hands, red>>
      /\ sha \in Commits /\ candidate \in Versions
  BY OfCommit DEF EnsureDraft, ReleaseInv, TypeOK, candidate
<1>2. CASE rel # None /\ Goes("asset") /\ UNCHANGED releases
  <2>1. TypeOK'
    BY <1>1, <1>2 DEF ReleaseInv, TypeOK, Goes
  <2>2. Quiet /\ BodyOfTarget' /\ NoFalseAlarm'
    BY <1>1, <1>2 DEF Quiet, Out, ReleaseInv, BodyOfTarget, NoFalseAlarm
  <2>3. Knows'
    BY <1>1, <1>2 DEF ReleaseInv, Goes, Knows, Writing, IsOut, Hits, candidate, OnMain, ShouldBeLatest
  <2> QED BY <2>1, <2>2, <2>3, QuietStep
<1>3. ASSUME NEW i \in Ids, releases[i] = None, releases' = [releases EXCEPT ![i] = Draft],
             \/ pc' = "asset" /\ rel' = i /\ UNCHANGED <<sha, trial, makeLatest>>
             \/ Ended
      PROVE  Quiet /\ ReleaseInv'
  <2>1. /\ Draft \in Release /\ Draft.draft /\ Draft.body = Draft.target
        /\ Draft.version = candidate /\ Draft.target = sha
    BY <1>1 DEF Draft, Body, Release
  <2>2. ~Out(i)
    BY <1>3 DEF Out
  <2>3. /\ Quiet /\ BodyOfTarget' /\ releases' \in [Ids -> Release \cup {None}]
        /\ \A v : IsOut(v)' => IsOut(v)
    BY <1>1, <1>3, <2>1, <2>2, OneRelease
  <2>4. TypeOK'
    BY <1>1, <1>3, <2>3 DEF ReleaseInv, TypeOK, Ended
  <2>5. CASE Ended
    BY <1>1, <2>3, <2>4, <2>5, QuietStep DEF Ended, Knows, Writing, ReleaseInv, NoFalseAlarm
  <2>6. CASE pc' = "asset" /\ rel' = i /\ UNCHANGED <<sha, trial, makeLatest>>
    <3>1. releases'[i] = Draft /\ Draft # None
      BY <1>3, <2>1 DEF ReleaseInv, TypeOK
    <3>2. ~IsOut(candidate)' /\ candidate' = candidate
      BY <1>1, <2>3, <2>6 DEF ReleaseInv, Knows, Writing, candidate
    <3>3. Knows'
      BY <1>1, <2>1, <2>6, <3>1, <3>2 DEF ReleaseInv, Knows, Writing, OnMain, ShouldBeLatest, candidate
    <3> QED BY <1>1, <2>3, <2>4, <3>3, QuietStep DEF ReleaseInv, NoFalseAlarm
  <2> QED BY <1>3, <2>5, <2>6
<1> QED BY <1>2, <1>3 DEF EnsureDraft, IsNew

(* The right ZIP is there, or it is uploaded and read back. *)
LEMMA EnsureAssetQuiet == ASSUME ReleaseInv, EnsureAsset PROVE Quiet /\ ReleaseInv'
<1>1. /\ pc = "asset" /\ UNCHANGED <<main, tag, latest, attested, hands, red>>
      /\ sha \in Commits /\ rel \in Ids
      /\ releases[rel] \in Release /\ releases[rel].draft
  BY DEF EnsureAsset, ReleaseInv, TypeOK, Knows, Writing
<1>2. CASE releases[rel].asset = Build[sha] /\ Goes("publish") /\ UNCHANGED releases
  <2>1. TypeOK'
    BY <1>1, <1>2 DEF ReleaseInv, TypeOK, Goes
  <2>2. Quiet /\ BodyOfTarget' /\ NoFalseAlarm'
    BY <1>1, <1>2 DEF Quiet, Out, ReleaseInv, BodyOfTarget, NoFalseAlarm
  <2>3. Knows'
    BY <1>1, <1>2 DEF ReleaseInv, Goes, Knows, Writing, IsOut, Hits, candidate, OnMain, ShouldBeLatest
  <2> QED BY <2>1, <2>2, <2>3, QuietStep
<1>3. ASSUME NEW d \in {Build[sha], Truncated, None}, releases' = [releases EXCEPT ![rel].asset = d],
             (d = Build[sha] /\ Goes("publish")) \/ Ended
      PROVE  Quiet /\ ReleaseInv'
  <2> DEFINE x == [releases[rel] EXCEPT !.asset = d]
  <2>1. d \in Digests \cup {None}
    BY <1>1, OfCommit DEF Digests
  <2>2. /\ x \in Release /\ x.draft /\ x.version = releases[rel].version /\ x.target = releases[rel].target
        /\ x.body = releases[rel].body /\ x.asset = d
    BY <1>1, <2>1 DEF Release
  <2>3. x.body = x.target
    BY <1>1, <2>2 DEF ReleaseInv, BodyOfTarget
  <2>4. releases' = [releases EXCEPT ![rel] = x]
    BY <1>3
  <2> HIDE DEF x
  <2>5. ~Out(rel)
    BY <1>1 DEF Out
  <2>6. /\ Quiet /\ BodyOfTarget' /\ releases' \in [Ids -> Release \cup {None}]
        /\ \A v : IsOut(v)' => IsOut(v)
    BY <1>1, <2>2, <2>3, <2>4, <2>5, OneRelease
  <2>7. TypeOK'
    BY <1>1, <1>3, <2>6 DEF ReleaseInv, TypeOK, Ended, Goes
  <2>8. CASE Ended
    BY <1>1, <2>6, <2>7, <2>8, QuietStep DEF Ended, Knows, Writing, ReleaseInv, NoFalseAlarm
  <2>9. CASE d = Build[sha] /\ Goes("publish")
    <3>1. releases'[rel] = x /\ x # None
      BY <1>1, <2>2, <2>4 DEF ReleaseInv, TypeOK
    <3>2. ~IsOut(candidate)' /\ candidate' = candidate
      BY <1>1, <2>6, <2>9 DEF ReleaseInv, Knows, Writing, candidate, Goes
    <3>3. Knows'
      BY <1>1, <2>2, <2>9, <3>1, <3>2 DEF ReleaseInv, Knows, Writing, OnMain, ShouldBeLatest, candidate, Goes
    <3> QED BY <1>1, <2>6, <2>7, <3>3, QuietStep DEF ReleaseInv, NoFalseAlarm
  <2> QED BY <1>3, <2>8, <2>9
<1> QED BY <1>2, <1>3 DEF EnsureAsset

(* Main only grows. *)
LEMMA MainMovesQuiet == ASSUME ReleaseInv, NEW c \in Commits, MainMoves(c) PROVE Quiet /\ ReleaseInv'
<1>1. /\ main' = main \cup {c}
      /\ UNCHANGED <<tag, releases, latest, attested, pc, sha, trial, rel, makeLatest, hands, red>>
  BY DEF MainMoves, runVars
<1>2. TypeOK' /\ Quiet
  BY <1>1 DEF ReleaseInv, TypeOK, Quiet, Out
<1>3. Knows'
  BY <1>1 DEF ReleaseInv, Knows, Writing, IsOut, Hits, candidate, OnMain, ShouldBeLatest
<1>4. BodyOfTarget' /\ NoFalseAlarm'
  BY <1>1 DEF ReleaseInv, BodyOfTarget, NoFalseAlarm
<1> QED BY <1>2, <1>3, <1>4, QuietStep

(* Between two runs, a tag of a version that is not out may move. *)
LEMMA MovesTagQuiet ==
  ASSUME ReleaseInv, NEW v \in Versions, NEW c \in Commits \cup {None}, MovesTag(v, c)
  PROVE  Quiet /\ ReleaseInv'
<1>1. /\ pc = "idle" /\ ~IsOut(v) /\ tag' = [tag EXCEPT ![v] = c] /\ hands' = hands + 1
      /\ UNCHANGED <<main, releases, latest, attested, pc, sha, trial, rel, makeLatest, red>>
  BY DEF MovesTag, StepsIn, runVars
<1>2. TypeOK'
  BY <1>1 DEF ReleaseInv, TypeOK
<1>3. Quiet
  BY <1>1 DEF ReleaseInv, TypeOK, Quiet, Out
<1>4. Knows' /\ BodyOfTarget' /\ NoFalseAlarm'
  BY <1>1 DEF ReleaseInv, Knows, Writing, BodyOfTarget, NoFalseAlarm
<1> QED BY <1>2, <1>3, <1>4, QuietStep

(* So may a draft or its ZIP go. *)
LEMMA DeletesQuiet ==
  ASSUME ReleaseInv, NEW i \in Ids, DeletesDraft(i) \/ DeletesAsset(i)
  PROVE  Quiet /\ ReleaseInv'
<1>1. /\ pc = "idle" /\ releases[i] # None /\ releases[i].draft /\ hands' = hands + 1
      /\ UNCHANGED <<main, tag, latest, attested, pc, sha, trial, rel, makeLatest, red>>
  BY DEF DeletesDraft, DeletesAsset, StepsIn, runVars
<1>2. releases[i] \in Release
  BY <1>1 DEF ReleaseInv, TypeOK
<1>3. Knows' /\ NoFalseAlarm'
  BY <1>1 DEF ReleaseInv, Knows, Writing, NoFalseAlarm
<1>4. CASE releases' = [releases EXCEPT ![i] = None]
  <2>1. TypeOK' /\ BodyOfTarget'
    BY <1>1, <1>4 DEF ReleaseInv, TypeOK, BodyOfTarget
  <2>2. Quiet
    BY <1>1, <1>4 DEF ReleaseInv, TypeOK, Quiet, Out
  <2> QED BY <1>3, <2>1, <2>2, QuietStep
<1>5. CASE releases' = [releases EXCEPT ![i].asset = None]
  <2> DEFINE x == [releases[i] EXCEPT !.asset = None]
  <2>1. x \in Release /\ x.draft /\ x.body = releases[i].body /\ x.target = releases[i].target
    BY <1>1, <1>2 DEF Release
  <2>2. releases' = [releases EXCEPT ![i] = x] /\ x.body = x.target
    BY <1>1, <1>5, <2>1 DEF ReleaseInv, BodyOfTarget
  <2> HIDE DEF x
  <2>3. Quiet /\ BodyOfTarget' /\ releases' \in [Ids -> Release \cup {None}]
    BY <1>1, <2>1, <2>2, OneRelease DEF Out
  <2>4. TypeOK'
    BY <1>1, <2>3 DEF ReleaseInv, TypeOK
  <2> QED BY <1>3, <2>3, <2>4, QuietStep
<1> QED BY <1>4, <1>5 DEF DeletesDraft, DeletesAsset

(* A draft made in the browser is another release than the one of the run. *)
LEMMA MakesDraftQuiet ==
  ASSUME ReleaseInv, NEW i \in Ids, NEW v \in Versions, NEW d \in {None, HandPacked}, MakesDraft(i, v, d)
  PROVE  Quiet /\ ReleaseInv'
<1> DEFINE x == [version |-> v, target |-> ByHand, body |-> ByHand, draft |-> TRUE, asset |-> d]
<1>1. /\ releases[i] = None /\ releases' = [releases EXCEPT ![i] = x] /\ hands' = hands + 1
      /\ UNCHANGED <<main, tag, latest, attested, pc, sha, trial, rel, makeLatest, red>>
  BY DEF MakesDraft, StepsIn, IsNew, runVars
<1>2. x \in Release /\ x.draft /\ x.body = x.target
  BY DEF Release, Digests
<1> HIDE DEF x
<1>3. Quiet /\ BodyOfTarget' /\ releases' \in [Ids -> Release \cup {None}] /\ \A w : IsOut(w)' => IsOut(w)
  BY <1>1, <1>2, OneRelease DEF Out
<1>4. TypeOK'
  BY <1>1, <1>3 DEF ReleaseInv, TypeOK
<1>5. Knows'
  <2>1. \A j \in Ids : j # i => releases'[j] = releases[j]
    BY <1>1 DEF ReleaseInv, TypeOK
  <2>2. candidate' = candidate /\ OnMain' = OnMain /\ ShouldBeLatest' = ShouldBeLatest
    BY <1>1 DEF candidate, OnMain, ShouldBeLatest
  <2> QED BY <1>1, <1>3, <2>1, <2>2 DEF ReleaseInv, TypeOK, Knows, Writing
<1> QED BY <1>1, <1>3, <1>4, <1>5, QuietStep DEF ReleaseInv, NoFalseAlarm

(* The last call makes the candidate public, and nothing else. *)
LEMMA PublishMakesPublic ==
  ASSUME ReleaseInv, Publish
  PROVE  /\ ReleaseInv' /\ rel \in Ids /\ sha \in Commits /\ ~IsOut(candidate)
         /\ releases[rel].draft /\ releases'[rel] # None /\ ~releases'[rel].draft
         /\ releases'[rel].version = candidate
         /\ releases'[rel].asset = Build[sha] /\ releases'[rel].body \in {sha, ByHand}
         /\ tag' = tag /\ tag[candidate] = sha /\ main' = main
         /\ sha \in main \/ candidate = Trial
         /\ \A i \in Ids : i # rel => releases'[i] = releases[i]
         /\ latest' = IF candidate > latest THEN candidate ELSE latest
<1>1. /\ pc = "publish" /\ UNCHANGED <<main, tag, attested, hands, red>> /\ Ended
      /\ rel \in Ids /\ sha \in Commits /\ candidate \in Versions /\ candidate \in Nat
      /\ releases[rel] \in Release
  BY OfCommit DEF Publish, ReleaseInv, TypeOK, Knows, Writing, candidate
<1>2. /\ ~IsOut(candidate) /\ OnMain /\ <<sha, Build[sha]>> \in attested
      /\ (makeLatest <=> ShouldBeLatest) /\ tag[candidate] = sha
      /\ releases[rel].version = candidate /\ releases[rel].draft /\ releases[rel] # None
      /\ releases[rel].target \in {sha, ByHand} /\ releases[rel].asset = Build[sha]
  BY <1>1 DEF ReleaseInv, Knows, Writing
<1> DEFINE x == [releases[rel] EXCEPT !.draft = FALSE]
<1>3. /\ x \in Release /\ ~x.draft /\ x.version = candidate /\ x.asset = Build[sha]
      /\ x.body = releases[rel].body /\ x.target = releases[rel].target
  BY <1>1, <1>2 DEF Release
<1>4. x.body = x.target /\ x.body \in {sha, ByHand}
  BY <1>1, <1>2, <1>3 DEF ReleaseInv, BodyOfTarget
<1>5. releases' = [releases EXCEPT ![rel] = x]
  BY DEF Publish
<1> HIDE DEF x
<1>6. /\ releases' \in [Ids -> Release \cup {None}] /\ releases'[rel] = x /\ x # None
      /\ \A i \in Ids : i # rel => releases'[i] = releases[i]
  BY <1>1, <1>3, <1>5 DEF ReleaseInv, TypeOK
<1>7. sha \in main \/ candidate = Trial
  BY <1>2 DEF OnMain
<1>8. latest' = IF candidate > latest THEN candidate ELSE latest
  <2>1. ShouldBeLatest <=> candidate > latest
    <3>1. latest \in Nat /\ latest > Trial
      BY VersionsAre DEF ReleaseInv, TypeOK, OldStays
    <3> QED BY <1>1, <3>1 DEF ShouldBeLatest
  <2> QED BY <1>2, <2>1 DEF Publish
<1>9. latest' \in Versions /\ latest' > Trial
  <2>1. latest \in Versions /\ latest \in Nat /\ latest > Trial
    BY VersionsAre DEF ReleaseInv, TypeOK, OldStays
  <2> QED BY <1>1, <1>8, <2>1
<1>10. TypeOK'
  BY <1>1, <1>6, <1>9 DEF ReleaseInv, TypeOK, Ended
<1>11. Knows' /\ NoFalseAlarm'
  BY <1>1 DEF ReleaseInv, Ended, Knows, Writing, NoFalseAlarm
<1>12. BodyOfTarget'
  BY <1>4, <1>6 DEF ReleaseInv, BodyOfTarget
<1>13. OutOnce'
  BY <1>2, <1>3, <1>6, IsOutMeans DEF ReleaseInv, OutOnce, Out
<1>14. OldStays'
  <2>1. PICK i \in Ids : releases[i] = OldRelease
    BY DEF ReleaseInv, OldStays
  <2>2. i # rel
    BY <1>2, <2>1, OldIsRelease
  <2>3. releases'[i] = OldRelease
    BY <1>6, <2>1, <2>2
  <2> QED BY <1>1, <1>9, <2>3 DEF ReleaseInv, OldStays, OldRelease
<1>15. PublishedBound'
  <2> SUFFICES ASSUME NEW i \in Ids, Out(i)', releases'[i].version # Version[OldCommit]
               PROVE  PublishedBound!(i)'
    BY DEF PublishedBound, Out
  <2>1. CASE i = rel
    BY <1>1, <1>2, <1>3, <1>4, <1>6, <1>7, <2>1 DEF candidate
  <2>2. CASE i # rel
    <3>1. Out(i) /\ releases'[i] = releases[i]
      BY <1>6, <2>2 DEF Out
    <3>2. PublishedBound!(i)
      BY DEF ReleaseInv, PublishedBound
    <3> QED BY <1>1, <3>1, <3>2 DEF Out
  <2> QED BY <2>1, <2>2
<1>16. ReleaseInv'
  BY <1>10, <1>11, <1>12, <1>13, <1>14, <1>15 DEF ReleaseInv
<1>17. /\ releases'[rel] # None /\ ~releases'[rel].draft /\ releases'[rel].version = candidate
       /\ releases'[rel].asset = Build[sha] /\ releases'[rel].body \in {sha, ByHand}
  BY <1>3, <1>4, <1>6
<1> QED BY <1>1, <1>2, <1>6, <1>7, <1>8, <1>16, <1>17
-----------------------------------------------------------------------------
(***************************************************************************)
(* The theorems.                                                           *)
(***************************************************************************)

(* A step publishes, or it is quiet. *)
LEMMA NextQuiet == ReleaseInv /\ [Next]_vars => ReleaseInv' /\ (Quiet \/ Publish)
<1> SUFFICES ASSUME ReleaseInv, [Next]_vars PROVE ReleaseInv' /\ (Quiet \/ Publish)
  OBVIOUS
<1>1. CASE Stops
  BY <1>1, EndsQuietly DEF Stops
<1>2. CASE UNCHANGED vars
  <2>1. UNCHANGED <<main, tag, releases, latest, attested, pc, sha, trial, rel, makeLatest, hands, red>>
    BY <1>2 DEF vars, githubVars, runVars
  <2>2. TypeOK' /\ Quiet /\ BodyOfTarget' /\ NoFalseAlarm'
    BY <2>1 DEF ReleaseInv, TypeOK, Quiet, Out, BodyOfTarget, NoFalseAlarm
  <2>3. Knows'
    BY <2>1 DEF ReleaseInv, Knows, Writing, IsOut, Hits, candidate, OnMain, ShouldBeLatest
  <2> QED BY <2>2, <2>3, QuietStep
<1> QED
  BY <1>1, <1>2, StartQuiet, PlanQuiet, FindQuiet, EnsureTagQuiet, EnsureDraftQuiet, EnsureAssetQuiet,
     PublishMakesPublic, MainMovesQuiet, MovesTagQuiet, DeletesQuiet, MakesDraftQuiet DEF Next

(* The invariant holds in every state. *)
LEMMA ReleaseInvariant == Spec => []ReleaseInv
  BY InitReleaseInv, NextQuiet, PTL DEF Spec

(* GitHub's state and the run's have the declared types. *)
THEOREM TypeCorrect == Spec => []TypeOK
<1>1. ReleaseInv => TypeOK
  BY DEF ReleaseInv
<1> QED BY <1>1, ReleaseInvariant, PTL

(* Tag, ZIP, attestation and page of what comes out speak of one commit of main. *)
THEOREM PublishedHangsTogether == Spec => []PublishedBound
<1>1. ReleaseInv => PublishedBound
  BY DEF ReleaseInv
<1> QED BY <1>1, ReleaseInvariant, PTL

(* What came out of the flow, or before it, never stops a later run. *)
THEOREM NeverAlarmed == Spec => []NoFalseAlarm
<1>1. ReleaseInv => NoFalseAlarm
  BY DEF ReleaseInv
<1> QED BY <1>1, ReleaseInvariant, PTL

(* What is seen of a version is its one public release, if it has one. *)
SeenIsIt ==
  \A i \in Ids : \A v :
    Out(i) /\ v = releases[i].version =>
      Seen(v) = [tag |-> tag[v], asset |-> releases[i].asset, body |-> releases[i].body]

LEMMA SeenIs == OutOnce => SeenIsIt
<1> SUFFICES ASSUME OutOnce, NEW i \in Ids, Out(i), NEW v, v = releases[i].version
             PROVE  Seen(v) = [tag |-> tag[v], asset |-> releases[i].asset, body |-> releases[i].body]
  BY DEF SeenIsIt
<1> DEFINE j == CHOOSE k \in Hits(v) : ~releases[k].draft
<1>1. IsOut(v)
  BY IsOutMeans
<1>2. j \in Hits(v) /\ ~releases[j].draft
  BY <1>1 DEF IsOut
<1>3. j = i
  BY <1>2 DEF OutOnce, Out, Hits
<1> QED BY <1>1, <1>3 DEF Seen

(* Nothing is seen of a version that is not out. *)
LEMMA SeenNot == \A v : ~IsOut(v) => Seen(v) = None
  BY DEF Seen

(* A quiet step changes nothing that is seen. *)
LEMMA QuietSame ==
  ASSUME ReleaseInv, ReleaseInv', Quiet, NEW v \in Versions
  PROVE  Seen(v)' = Seen(v)
<1>1. CASE IsOut(v)
  <2>1. PICK i \in Ids : Out(i) /\ releases[i].version = v
    BY <1>1, IsOutMeans
  <2>2. Out(i)' /\ releases'[i] = releases[i] /\ tag'[v] = tag[v]
    BY <1>1, <2>1 DEF Quiet, Out
  <2>3. Seen(v) = [tag |-> tag[v], asset |-> releases[i].asset, body |-> releases[i].body]
    BY <2>1, SeenIs DEF ReleaseInv, SeenIsIt
  <2>4. Seen(v)' = [tag |-> tag'[v], asset |-> releases'[i].asset, body |-> releases'[i].body]
    <3>1. OutOnce' /\ v = releases'[i].version
      BY <2>1, <2>2 DEF ReleaseInv
    <3>2. SeenIsIt'
      BY <3>1, SeenIs, PTL
    <3> QED BY <2>2, <3>1, <3>2 DEF SeenIsIt
  <2> QED BY <2>2, <2>3, <2>4
<1>2. CASE ~IsOut(v)
  <2>1. ~IsOut(v)'
    BY <1>2, IsOutMeans DEF Quiet, IsOut, Hits, Out
  <2> QED BY <1>2, <2>1, SeenNot DEF Seen
<1> QED BY <1>1, <1>2

(* Initially only the old release is seen. *)
LEMMA InitIsPromised == Init => Promise!Init
<1> SUFFICES ASSUME Init PROVE Promise!Init
  OBVIOUS
<1>1. ReleaseInv
  BY InitReleaseInv
<1>2. releases[FirstId] = OldRelease /\ \A i \in Ids \ {FirstId} : releases[i] = None
  BY DEF Init
<1>3. Out(FirstId) /\ OldRelease.version = Version[OldCommit]
  BY <1>2, OldIsRelease DEF Out, OldRelease
<1>4. ASSUME NEW v \in Versions
      PROVE  Seen(v) = IF v = Version[OldCommit]
                       THEN [tag |-> OldCommit, asset |-> OldAsset, body |-> ByHand] ELSE None
  <2>1. CASE v = Version[OldCommit]
    <3>1. Seen(v) = [tag |-> tag[v], asset |-> OldRelease.asset, body |-> OldRelease.body]
      BY <1>1, <1>2, <1>3, <2>1, SeenIs DEF ReleaseInv, SeenIsIt
    <3>2. tag[v] = OldCommit
      BY <2>1 DEF Init
    <3> QED BY <2>1, <3>1, <3>2 DEF OldRelease
  <2>2. CASE v # Version[OldCommit]
    <3>1. ~IsOut(v)
      BY <1>2, <1>3, <2>2, IsOutMeans DEF Out
    <3> QED BY <2>2, <3>1, SeenNot
  <2> QED BY <2>1, <2>2
<1>5. main \in SUBSET Commits /\ latest \in Versions
  BY <1>1 DEF ReleaseInv, TypeOK
<1> QED BY <1>4, <1>5 DEF Promise!Init

(* A quiet step is a step of main, or none. *)
LEMMA QuietIsPromised ==
  ASSUME ReleaseInv, ReleaseInv', Quiet
  PROVE  [Promise!Next]_(Promise!promiseVars)
<1>1. [v \in Versions |-> Seen(v)]' = [v \in Versions |-> Seen(v)]
  BY QuietSame
<1>2. main' \in SUBSET Commits /\ main \subseteq main' /\ latest' = latest
  BY DEF ReleaseInv, TypeOK, Quiet
<1> QED BY <1>1, <1>2 DEF Promise!Next, Promise!MainMoves

(* The last call ships the candidate. *)
LEMMA PublishIsPromised ==
  ASSUME ReleaseInv, Publish
  PROVE  Promise!Next
<1> DEFINE r == [tag |-> sha, asset |-> Build[sha], body |-> releases'[rel].body]
<1>1. /\ ReleaseInv' /\ rel \in Ids /\ sha \in Commits /\ ~IsOut(candidate)
      /\ releases[rel].draft /\ releases'[rel] # None /\ ~releases'[rel].draft
      /\ releases'[rel].version = candidate
      /\ releases'[rel].asset = Build[sha] /\ releases'[rel].body \in {sha, ByHand}
      /\ tag' = tag /\ tag[candidate] = sha /\ main' = main
      /\ sha \in main \/ candidate = Trial
      /\ \A i \in Ids : i # rel => releases'[i] = releases[i]
      /\ latest' = IF candidate > latest THEN candidate ELSE latest
  BY PublishMakesPublic
<1>2. PICK w \in Versions : w = candidate
  BY <1>1, OfCommit DEF candidate
<1>3. PICK k \in Ids : k = rel
  BY <1>1
<1>4. OutOnce /\ OutOnce'
  BY <1>1 DEF ReleaseInv
<1>5. SeenIsIt /\ SeenIsIt'
  BY <1>4, SeenIs, PTL
<1>6. Seen(w) = None
  BY <1>1, <1>2, SeenNot
<1>7. Seen(w)' = r
  <2>1. Out(k)' /\ w = releases'[k].version
    BY <1>1, <1>2, <1>3 DEF Out
  <2>2. Seen(w)' = [tag |-> tag'[w], asset |-> releases'[k].asset, body |-> releases'[k].body]
    BY <1>5, <2>1 DEF SeenIsIt
  <2> QED BY <1>1, <1>2, <1>3, <2>2
<1>8. ASSUME NEW v \in Versions, v # w PROVE Seen(v)' = Seen(v)
  <2>1. CASE IsOut(v)
    <3>1. PICK i \in Ids : Out(i) /\ releases[i].version = v
      BY <2>1, IsOutMeans
    <3>2. i # rel
      BY <1>1, <3>1 DEF Out
    <3>3. releases'[i] = releases[i] /\ Out(i)' /\ v = releases'[i].version
      BY <1>1, <3>1, <3>2 DEF Out
    <3>4. Seen(v)' = [tag |-> tag'[v], asset |-> releases'[i].asset, body |-> releases'[i].body]
      BY <1>5, <3>3 DEF SeenIsIt
    <3>5. Seen(v) = [tag |-> tag[v], asset |-> releases[i].asset, body |-> releases[i].body]
      BY <1>5, <3>1 DEF SeenIsIt
    <3> QED BY <1>1, <3>3, <3>4, <3>5
  <2>2. CASE ~IsOut(v)
    <3>1. ~IsOut(v)'
      BY <1>1, <1>2, <1>8, <2>2 DEF IsOut, Hits
    <3> QED BY <2>2, <3>1, SeenNot DEF Seen
  <2> QED BY <2>1, <2>2
<1>9. [v \in Versions |-> Seen(v)]' = [[v \in Versions |-> Seen(v)] EXCEPT ![w] = r]
  <2> HIDE DEF r
  <2> QED BY <1>7, <1>8
<1>10. Version[sha] = w /\ w \in Versions
  BY <1>2 DEF candidate
<1>11. Promise!Ship(sha)
  BY <1>1, <1>2, <1>6, <1>9, <1>10 DEF Promise!Ship
<1> QED BY <1>1, <1>11 DEF Promise!Next

(* The flow keeps the promise: what is public changes in one step per version. *)
THEOREM ShippedWhole == Spec => ShipsWhole
<1>1. ReleaseInv /\ ReleaseInv' /\ [Next]_vars => [Promise!Next]_(Promise!promiseVars)
  BY NextQuiet, QuietIsPromised, PublishIsPromised
<1> QED BY <1>1, InitIsPromised, ReleaseInvariant, PTL DEF Spec, ShipsWhole, Promise!Spec
==============================================================================
