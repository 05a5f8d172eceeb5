--------------------------- MODULE LockFlowsProofs ---------------------------
(***************************************************************************)
(* Proofs about LockFlows: that a lock has one entry, that no flow takes   *)
(* an entry away, and that a dialog writes what was asked of it.           *)
(***************************************************************************)
EXTENDS LockFlows, TLAPS

(* Nobody else holds the lock of a card, and what is reconfigured is there. *)
CardIsFree(f) == flows[f].kind = "card" => flows[f].unique \in Locks /\ ~Configured(flows[f].unique)
TargetIsThere(f) ==
  /\ flows[f].kind = "reconfigure" => flows[f].entry \in Entries /\ IsLock(flows[f].entry)
FlowsFit == \A f \in Flows : flows[f] # None => CardIsFree(f) /\ TargetIsThere(f)

(* A device that is the entry's alone never carries another address than   *)
(* that of the entry's lock, and what is set up is a lock.                 *)
RowsFit ==
  /\ \A e \in Entries \ merged : IsLock(e) => rows[e] \subseteq {entries[e].lock}
  /\ \A e \in loaded : IsLock(e) /\ (viaId /\ e \notin merged => entries[e].lock \in rows[e])

(* A form sent in whose write has not been started yet. *)
Due == (step = "form" /\ input /\ ~error) \/ (step = "progress" /\ task = "none")

DialogFits ==
  /\ submits = IF Due THEN writes + 1 ELSE writes
  /\ error => step = "form"
  /\ step \in {"form", "done"} => task = "none"
  /\ dialog \in {"closed", "menu"} => step = "none" /\ task = "none"

FlowsInv == TypeOK /\ OneHolder /\ FlowsFit /\ RowsFit /\ DialogFits
-----------------------------------------------------------------------------
(* None is no record and no id. *)
LEMMA NoneIsApart == None \notin Entry /\ None \notin Flow /\ None \notin Entries /\ None \notin Locks
  BY RecordAssumption, IdsAssumption

(* The initial states satisfy the invariant. *)
LEMMA InitFlowsInv == Init => FlowsInv
<1> SUFFICES ASSUME Init PROVE FlowsInv
  OBVIOUS
<1>1. TypeOK /\ OneHolder /\ RowsFit
  <2>1. CASE NoEntries
    BY <2>1 DEF Init, NoEntries, TypeOK, OneHolder, RowsFit, IsLock
  <2>2. ASSUME NEW e \in Entries, NEW a \in Locks, EarlierEntry(e, a)
        PROVE  TypeOK /\ OneHolder /\ RowsFit
    <3> DEFINE x == [lock |-> a, ignored |-> FALSE]
    <3>1. x \in Entry /\ x.lock = a
      BY DEF Entry
    <3>2. entries = [d \in Entries |-> IF d = e THEN x ELSE None]
      BY <2>2 DEF EarlierEntry
    <3> HIDE DEF x
    <3>3. /\ entries \in [Entries -> Entry \cup {None}]
          /\ \A d \in Entries : entries[d] = IF d = e THEN x ELSE None
      BY <3>1, <3>2
    <3>4. /\ rows \in [Entries -> SUBSET Locks] /\ rows[e] \subseteq {a}
          /\ merged \in SUBSET Entries /\ watching \in BOOLEAN /\ loaded = {}
      BY <2>2 DEF EarlierEntry, Init
    <3>5. TypeOK
      BY <3>3, <3>4 DEF Init, TypeOK
    <3>6. OneHolder
      BY <3>3 DEF OneHolder
    <3>7. RowsFit
      BY <3>1, <3>3, <3>4 DEF RowsFit, IsLock
    <3> QED BY <3>5, <3>6, <3>7
  <2> QED BY <2>1, <2>2 DEF Init
<1>2. FlowsFit
  BY DEF Init, FlowsFit
<1>3. DialogFits
  BY DEF Init, DialogFits, Due
<1> QED BY <1>1, <1>2, <1>3 DEF FlowsInv

(* Steps of the dialog leave entries and flows alone, and the other way.   *)
DialogStays == UNCHANGED <<dialog, step, input, task, error, submits, writes>>
EntriesStay ==
  UNCHANGED <<zha, zhaUp, entries, flows, watching, asked, viaId, loaded, rows, merged>>

TypeOfDialog ==
  /\ dialog \in {"closed", "menu", "set_pin", "clear_pin"}
  /\ step \in {"none", "form", "progress", "done"} /\ input \in BOOLEAN
  /\ task \in {"none", "running", "failed", "ok"}
  /\ error \in BOOLEAN
  /\ submits \in Nat /\ writes \in Nat
TypeOfFlows ==
  /\ zha \in SUBSET Locks /\ zhaUp \in BOOLEAN
  /\ entries \in [Entries -> Entry \cup {None}]
  /\ flows \in [Flows -> Flow \cup {None}]
  /\ watching \in BOOLEAN
  /\ asked \in SUBSET Locks
  /\ viaId \in BOOLEAN
  /\ loaded \in SUBSET Entries
  /\ rows \in [Entries -> SUBSET Locks]
  /\ merged \in SUBSET Entries
FlowsPart  == TypeOfFlows /\ OneHolder /\ FlowsFit /\ RowsFit
DialogPart == TypeOfDialog /\ DialogFits

LEMMA Parts == FlowsInv <=> FlowsPart /\ DialogPart
  BY DEF FlowsInv, TypeOK, TypeOfFlows, TypeOfDialog, FlowsPart, DialogPart

LEMMA PartsNext == FlowsInv' <=> FlowsPart' /\ DialogPart'
  BY DEF FlowsInv, TypeOK, TypeOfFlows, TypeOfDialog, FlowsPart, DialogPart

LEMMA FlowsPartStays == FlowsPart /\ EntriesStay => FlowsPart'
  BY DEF FlowsPart, EntriesStay, TypeOfFlows, OneHolder, FlowsFit, CardIsFree, TargetIsThere, RowsFit,
         IsLock, Configured

LEMMA DialogPartStays == DialogPart /\ DialogStays => DialogPart'
  BY DEF DialogPart, DialogStays, TypeOfDialog, DialogFits, Due

(* Every step of a dialog keeps its part. *)
DialogNext ==
  \/ OpenDialog \/ \E form \in {"set_pin", "clear_pin"} : Choose(form)
  \/ Submit \/ NothingToClear \/ FormStep \/ ProgressStep \/ Refresh
  \/ \E how \in {"failed", "ok"} : WriteEnds(how)
  \/ DoneStep \/ CloseDialog

LEMMA ClosedFits == ASSUME Closed PROVE DialogPart'
<1>1. /\ dialog' = "closed" /\ step' = "none" /\ input' = FALSE /\ task' = "none" /\ error' = FALSE
      /\ submits' = 0 /\ writes' = 0
  BY DEF Closed, Shown
<1>2. TypeOfDialog'
  BY <1>1 DEF TypeOfDialog
<1>3. ~Due' /\ DialogFits'
  BY <1>1 DEF Due, DialogFits
<1> QED BY <1>2, <1>3 DEF DialogPart

LEMMA DialogSteps ==
  ASSUME DialogPart, DialogNext
  PROVE  DialogPart' /\ EntriesStay
<1>1. EntriesStay
  BY DEF DialogNext, OpenDialog, Choose, Submit, NothingToClear, FormStep, ProgressStep, Refresh,
         WriteEnds, DoneStep, CloseDialog, Elsewhere, EntriesStay, zhaVars, flowVars, deviceVars
<1>2. DialogPart'
  <2> USE DEF DialogPart, TypeOfDialog, DialogFits, Due, Idle, Shown
  <2>1. CASE OpenDialog
    BY <2>1 DEF OpenDialog
  <2>2. ASSUME NEW form \in {"set_pin", "clear_pin"}, Choose(form) PROVE DialogPart'
    BY <2>2 DEF Choose
  <2>3. CASE Submit
    BY <2>3 DEF Submit
  <2>4. CASE FormStep
    BY <2>4 DEF FormStep
  <2>5. CASE ProgressStep
    <3>0. step = "progress" /\ dialog' = dialog /\ submits' = submits /\ ~error
          /\ submits = (IF task = "none" THEN writes + 1 ELSE writes)
          /\ dialog \notin {"closed", "menu"}
      BY <2>5 DEF ProgressStep
    <3>1. CASE task = "none" /\ task' = "running" /\ writes' = writes + 1 /\ Shown /\ UNCHANGED error
      BY <3>0, <3>1
    <3>2. CASE task = "running" /\ Shown /\ UNCHANGED <<task, error, writes>>
      BY <3>0, <3>2
    <3>3. ASSUME NEW how \in {"failed", "ok"}, Route(how),
                 writes' = (IF task = "none" THEN writes + 1 ELSE writes)
          PROVE  DialogPart'
      <4>1. /\ task' = "none" /\ (error' <=> how = "failed") /\ error' \in BOOLEAN /\ input' = input
            /\ step' = IF how = "failed" THEN "form" ELSE "done"
        BY <3>3 DEF Route
      <4>2. submits' = writes' /\ writes' \in Nat
        BY <3>0, <3>3
      <4>3. TypeOfDialog'
        BY <3>0, <4>1, <4>2
      <4>4. ~Due' /\ DialogFits'
        BY <3>0, <4>1, <4>2
      <4> QED BY <4>3, <4>4
    <3> QED BY <2>5, <3>1, <3>2, <3>3 DEF ProgressStep
  <2>6. CASE Refresh
    BY <2>6 DEF Refresh
  <2>7. ASSUME NEW how \in {"failed", "ok"}, WriteEnds(how) PROVE DialogPart'
    BY <2>7 DEF WriteEnds
  <2> HIDE DEF DialogPart, TypeOfDialog, DialogFits, Due, Idle, Shown
  <2>8. CASE NothingToClear \/ DoneStep \/ CloseDialog
    BY <2>8, ClosedFits DEF NothingToClear, DoneStep, CloseDialog
  <2> QED BY <2>1, <2>2, <2>3, <2>4, <2>5, <2>6, <2>7, <2>8 DEF DialogNext
<1> QED BY <1>1, <1>2
-----------------------------------------------------------------------------
(***************************************************************************)
(* Config flows, entries and devices.                                      *)
(***************************************************************************)

(* No entry of a lock goes away. *)
Kept == \A e \in Entries : IsLock(e) => IsLock(e)'

(* Where entries and devices stay, the flows need looking at only. *)
LEMMA OnlyFlows ==
  ASSUME FlowsPart, UNCHANGED <<entries, viaId, loaded, rows, merged>>, TypeOfFlows',
         \A f \in Flows : flows'[f] # None /\ flows'[f] # flows[f] => CardIsFree(f)' /\ TargetIsThere(f)'
  PROVE  FlowsPart' /\ Kept
<1>1. OneHolder' /\ RowsFit' /\ Kept
  BY DEF FlowsPart, OneHolder, RowsFit, IsLock, Kept
<1>2. FlowsFit'
  <2> SUFFICES ASSUME NEW f \in Flows, flows'[f] # None
               PROVE  CardIsFree(f)' /\ TargetIsThere(f)'
    BY DEF FlowsFit
  <2>1. CASE flows'[f] = flows[f]
    BY <2>1 DEF FlowsPart, FlowsFit, CardIsFree, TargetIsThere, Configured, IsLock
  <2> QED BY <2>1
<1> QED BY <1>1, <1>2 DEF FlowsPart

(* A flow that ends, or is asked again, changes no other. *)
LEMMA WithoutIs ==
  ASSUME NEW gone, TypeOfFlows
  PROVE  /\ Without(flows, gone) \in [Flows -> Flow \cup {None}]
         /\ \A f \in Flows : Without(flows, gone)[f] \in {flows[f], None}
         /\ \A f \in Flows \cap gone : Without(flows, gone)[f] = None
  BY DEF Without, TypeOfFlows

LEMMA EndsKeeps ==
  ASSUME FlowsPart, NEW f \in Flows, Ends(f)
  PROVE  FlowsPart' /\ Kept /\ DialogStays
<1>1. /\ flows' = Without(flows, {f})
      /\ UNCHANGED <<zha, zhaUp, entries, watching, asked, viaId, loaded, rows, merged>> /\ DialogStays
  BY DEF Ends, zhaVars, deviceVars, dialogVars, DialogStays
<1>2. TypeOfFlows'
  BY <1>1, WithoutIs DEF FlowsPart, TypeOfFlows
<1>3. \A g \in Flows : flows'[g] \in {flows[g], None}
  BY <1>1, WithoutIs DEF FlowsPart
<1> QED BY <1>1, <1>2, <1>3, OnlyFlows

(* A new entry for a lock that has none: nothing is replaced. *)
LEMMA CreatesKeeps ==
  ASSUME FlowsPart, NEW f \in Flows, NEW a \in Locks, NEW ignored \in BOOLEAN,
         ~Configured(a), Creates(f, a, ignored)
  PROVE  FlowsPart' /\ Kept /\ DialogStays
<1> DEFINE x == [lock |-> a, ignored |-> ignored]
<1>1. PICK e \in Entries :
        /\ entries[e] = None
        /\ entries' = [d \in Entries |->
             IF d = e THEN x ELSE IF entries[d] # None /\ entries[d].lock = a THEN None ELSE entries[d]]
  BY DEF Creates, FreeEntry
<1> DEFINE changed == {d \in Entries : entries'[d] # entries[d]}
<1>2. /\ flows' = Without(flows, OfLock(a) \cup {f}) /\ watching' \in BOOLEAN
      /\ rows' = [d \in Entries |-> IF d \in changed THEN {} ELSE rows[d]]
      /\ loaded' = loaded \ changed /\ merged' = merged \ changed
      /\ UNCHANGED <<zha, zhaUp, asked, viaId>> /\ DialogStays
  BY DEF Creates, FlowsPart, TypeOfFlows, zhaVars, dialogVars, DialogStays
<1>3. x \in Entry /\ x.lock = a /\ x # None
  BY NoneIsApart DEF Entry
<1> HIDE DEF x
<1>4. entries' = [entries EXCEPT ![e] = x]
  <2>1. entries \in [Entries -> Entry \cup {None}]
    BY DEF FlowsPart, TypeOfFlows
  <2>2. \A d \in Entries : ~(entries[d] # None /\ entries[d].lock = a)
    BY DEF Configured
  <2>3. entries' = [d \in Entries |-> IF d = e THEN x ELSE entries[d]]
    BY <1>1, <2>2
  <2> QED BY <2>1, <2>3
<1>5. /\ entries' \in [Entries -> Entry \cup {None}] /\ entries'[e] = x
      /\ \A d \in Entries : d # e => entries'[d] = entries[d]
  BY <1>3, <1>4 DEF FlowsPart, TypeOfFlows
<1>6. changed = {e}
  BY <1>1, <1>3, <1>5
<1> HIDE DEF changed
<1>7. /\ rows' \in [Entries -> SUBSET Locks] /\ rows'[e] = {}
      /\ \A d \in Entries : d # e => rows'[d] = rows[d]
      /\ loaded' = loaded \ {e} /\ merged' = merged \ {e}
  BY <1>2, <1>6 DEF FlowsPart, TypeOfFlows
<1>8. TypeOfFlows'
  BY <1>2, <1>5, <1>7, WithoutIs DEF FlowsPart, TypeOfFlows
<1>9. OneHolder'
  BY <1>3, <1>5 DEF FlowsPart, OneHolder, Configured
<1>10. RowsFit' /\ Kept
  BY <1>1, <1>2, <1>5, <1>7 DEF FlowsPart, TypeOfFlows, RowsFit, IsLock, Kept
<1>11. FlowsFit'
  <2> SUFFICES ASSUME NEW g \in Flows, flows'[g] # None
               PROVE  CardIsFree(g)' /\ TargetIsThere(g)'
    BY DEF FlowsFit
  <2>1. flows'[g] = flows[g] /\ g \notin OfLock(a)
    BY <1>2, WithoutIs DEF FlowsPart
  <2>2. CardIsFree(g) /\ TargetIsThere(g) /\ flows[g].unique # a
    BY <2>1 DEF FlowsPart, FlowsFit, OfLock
  <2>3. CardIsFree(g)'
    BY <1>3, <1>5, <2>1, <2>2 DEF CardIsFree, Configured
  <2>4. TargetIsThere(g)'
    BY <1>1, <1>5, <2>1, <2>2 DEF TargetIsThere, IsLock
  <2> QED BY <2>3, <2>4
<1> QED BY <1>2, <1>8, <1>9, <1>10, <1>11 DEF FlowsPart

(* A new flow. *)
LEMMA OpensKeeps ==
  ASSUME FlowsPart, NEW f \in Flows, NEW flow \in Flow, Opens(f, flow),
         flow.kind # "card", flow.kind = "reconfigure" => flow.entry \in Entries /\ IsLock(flow.entry)
  PROVE  FlowsPart' /\ Kept /\ DialogStays
<1>1. /\ flows' = [flows EXCEPT ![f] = flow]
      /\ UNCHANGED <<zha, zhaUp, entries, watching, asked, viaId, loaded, rows, merged>> /\ DialogStays
  BY DEF Opens, zhaVars, deviceVars, dialogVars, DialogStays
<1>2. TypeOfFlows' /\ flows'[f] = flow /\ \A g \in Flows : g # f => flows'[g] = flows[g]
  BY <1>1 DEF FlowsPart, TypeOfFlows
<1>3. CardIsFree(f)' /\ TargetIsThere(f)'
  BY <1>1, <1>2 DEF CardIsFree, TargetIsThere, IsLock
<1> QED BY <1>1, <1>2, <1>3, OnlyFlows

(* What is offered are locks. *)
LEMMA OfferOfLocks == ASSUME TypeOfFlows, NEW e, NEW b PROVE OnOffer(e, b) \in SUBSET Locks
  BY DEF TypeOfFlows, OnOffer, InZha

LEMMA UserStepKeeps ==
  ASSUME FlowsPart, NEW f \in Flows, UserStep(f)
  PROVE  FlowsPart' /\ Kept /\ DialogStays
<1> DEFINE flow == [kind |-> "user", unique |-> None, offered |-> OnOffer(None, FALSE), entry |-> None]
<1>1. Opens(f, flow)
  BY DEF UserStep
<1>2. flow \in Flow /\ flow.kind = "user"
  BY OfferOfLocks DEF FlowsPart, Flow
<1> HIDE DEF flow
<1> QED BY <1>1, <1>2, OpensKeeps

LEMMA ReconfigureStepKeeps ==
  ASSUME FlowsPart, NEW f \in Flows, NEW e \in Entries, ReconfigureStep(f, e)
  PROVE  FlowsPart' /\ Kept /\ DialogStays
<1> DEFINE flow == [kind |-> "reconfigure", unique |-> None, offered |-> OnOffer(e, TRUE), entry |-> e]
<1>1. Opens(f, flow) /\ IsLock(e)
  BY DEF ReconfigureStep
<1>2. flow \in Flow /\ flow.kind = "reconfigure" /\ flow.entry = e
  BY OfferOfLocks DEF FlowsPart, Flow
<1> HIDE DEF flow
<1> QED BY <1>1, <1>2, OpensKeeps

LEMMA UserSubmitKeeps ==
  ASSUME FlowsPart, NEW f \in Flows, NEW a \in Locks, UserSubmit(f, a)
  PROVE  FlowsPart' /\ Kept /\ DialogStays
<1> DEFINE locks == OnOffer(None, FALSE)
<1>1. flows[f] # None /\ flows[f].kind = "user"
  BY DEF UserSubmit
<1>2. CASE Ends(f)
  BY <1>2, EndsKeeps
<1>3. CASE ~Configured(a) /\ Creates(f, a, FALSE)
  BY <1>3, CreatesKeeps
<1>4. CASE AsksAgain(f, a, locks)
  <2> DEFINE flow == [flows[f] EXCEPT !.unique = a, !.offered = locks]
  <2>1. /\ flows' = [flows EXCEPT ![f] = flow]
        /\ UNCHANGED <<zha, zhaUp, entries, watching, asked, viaId, loaded, rows, merged>> /\ DialogStays
    BY <1>4 DEF AsksAgain, zhaVars, deviceVars, dialogVars, DialogStays, FlowsPart, TypeOfFlows
  <2>2. flows[f] \in Flow /\ locks \in SUBSET Locks
    BY <1>1, OfferOfLocks DEF FlowsPart, TypeOfFlows
  <2>3. flow \in Flow /\ flow.kind = "user"
    BY <1>1, <2>2 DEF Flow
  <2> HIDE DEF flow
  <2>4. TypeOfFlows' /\ flows'[f] = flow /\ \A g \in Flows : g # f => flows'[g] = flows[g]
    BY <2>1, <2>3 DEF FlowsPart, TypeOfFlows
  <2>5. CardIsFree(f)' /\ TargetIsThere(f)'
    BY <2>3, <2>4 DEF CardIsFree, TargetIsThere
  <2> QED BY <2>1, <2>4, <2>5, OnlyFlows
<1> QED BY <1>2, <1>3, <1>4 DEF UserSubmit

(* The entry takes a lock that no other entry has. *)
LEMMA TakesKeeps ==
  ASSUME FlowsPart, NEW f \in Flows, NEW e \in Entries, NEW a \in Locks,
         IsLock(e), a \notin TakenBut(e), Takes(f, e, a), loaded' = loaded \ {e},
         UNCHANGED <<zha, zhaUp, watching, asked, viaId, merged>>
  PROVE  FlowsPart' /\ Kept
<1> DEFINE x == [entries[e] EXCEPT !.lock = a]
<1>1. /\ flows' = Without(flows, OfLock(a) \cup {f})
      /\ rows' = IF e \in merged THEN rows ELSE [rows EXCEPT ![e] = rows[e] \cap {a}]
      /\ entries' = [d \in Entries |-> IF Ignored(d) /\ entries[d].lock = a THEN None
                                        ELSE IF d = e THEN x ELSE entries[d]]
  BY DEF Takes, HasTaken, DropReplaced
<1>2. x \in Entry /\ x.lock = a /\ ~x.ignored /\ x # None /\ ~Ignored(e)
  <2>1. entries[e] \in Entry /\ ~entries[e].ignored
    BY DEF FlowsPart, TypeOfFlows, IsLock
  <2> QED BY <2>1, NoneIsApart DEF Entry, Ignored
<1> HIDE DEF x
<1>3. entries' \in [Entries -> Entry \cup {None}] /\ entries'[e] = x
  BY <1>1, <1>2 DEF FlowsPart, TypeOfFlows
<1>4. ASSUME NEW d \in Entries, d # e
      PROVE  /\ IsLock(d) => entries'[d] = entries[d]
             /\ entries'[d] \in {entries[d], None}
             /\ entries'[d] # None => entries[d].lock # a
  BY <1>1, <1>4 DEF IsLock, Ignored, TakenBut
<1>5. /\ rows' \in [Entries -> SUBSET Locks] /\ (e \in merged \/ rows'[e] \subseteq {a})
      /\ \A d \in Entries : d # e => rows'[d] = rows[d]
  BY <1>1 DEF FlowsPart, TypeOfFlows
<1>6. TypeOfFlows'
  BY <1>1, <1>3, <1>5, WithoutIs DEF FlowsPart, TypeOfFlows
<1>7. OneHolder'
  BY <1>2, <1>3, <1>4 DEF FlowsPart, OneHolder
<1>8. Kept
  BY <1>2, <1>3, <1>4 DEF Kept, IsLock
<1>9. RowsFit'
  <2>1. \A d \in Entries \ merged : IsLock(d)' => rows'[d] \subseteq {entries'[d].lock}
    BY <1>2, <1>3, <1>4, <1>5 DEF FlowsPart, RowsFit, IsLock
  <2>2. \A d \in loaded' : IsLock(d)' /\ (viaId /\ d \notin merged => entries'[d].lock \in rows'[d])
    BY <1>4, <1>5 DEF FlowsPart, TypeOfFlows, RowsFit, IsLock
  <2> QED BY <2>1, <2>2 DEF RowsFit
<1>10. FlowsFit'
  <2> SUFFICES ASSUME NEW g \in Flows, flows'[g] # None
               PROVE  CardIsFree(g)' /\ TargetIsThere(g)'
    BY DEF FlowsFit
  <2>1. flows'[g] = flows[g] /\ g \notin OfLock(a)
    BY <1>1, WithoutIs DEF FlowsPart
  <2>2. CardIsFree(g) /\ TargetIsThere(g) /\ flows[g].unique # a
    BY <2>1 DEF FlowsPart, FlowsFit, OfLock
  <2>3. CardIsFree(g)'
    BY <1>2, <1>3, <1>4, <2>1, <2>2 DEF CardIsFree, Configured
  <2>4. TargetIsThere(g)'
    BY <1>8, <2>1, <2>2 DEF TargetIsThere, Kept
  <2> QED BY <2>3, <2>4
<1> QED BY <1>6, <1>7, <1>8, <1>9, <1>10 DEF FlowsPart

LEMMA ReconfigureSubmitKeeps ==
  ASSUME FlowsPart, NEW f \in Flows, NEW a \in Locks, ReconfigureSubmit(f, a)
  PROVE  FlowsPart' /\ Kept /\ DialogStays
<1> DEFINE e     == flows[f].entry
           locks == OnOffer(e, TRUE)
<1>1. /\ flows[f] # None /\ flows[f].kind = "reconfigure" /\ flows[f] \in Flow
      /\ e \in Entries /\ IsLock(e)
  BY DEF ReconfigureSubmit, FlowsPart, FlowsFit, TargetIsThere, TypeOfFlows
<1>2. CASE Ends(f)
  BY <1>2, EndsKeeps
<1>3. CASE /\ flows' = [flows EXCEPT ![f].offered = locks]
           /\ UNCHANGED <<zhaVars, entries, watching, asked, deviceVars, dialogVars>>
  <2> DEFINE flow == [flows[f] EXCEPT !.offered = locks]
  <2>1. /\ flows' = [flows EXCEPT ![f] = flow]
        /\ UNCHANGED <<zha, zhaUp, entries, watching, asked, viaId, loaded, rows, merged>> /\ DialogStays
    BY <1>3 DEF zhaVars, deviceVars, dialogVars, DialogStays
  <2>2. locks \in SUBSET Locks
    BY OfferOfLocks DEF FlowsPart
  <2>3. flow \in Flow /\ flow.kind = "reconfigure" /\ flow.entry = e
    BY <1>1, <2>2 DEF Flow
  <2> HIDE DEF flow
  <2>4. TypeOfFlows' /\ flows'[f] = flow /\ \A g \in Flows : g # f => flows'[g] = flows[g]
    BY <2>1, <2>3 DEF FlowsPart, TypeOfFlows
  <2>5. CardIsFree(f)' /\ TargetIsThere(f)'
    BY <1>1, <2>1, <2>3, <2>4 DEF CardIsFree, TargetIsThere, IsLock
  <2> QED BY <2>1, <2>4, <2>5, OnlyFlows
<1>4. CASE /\ a \in locks /\ Takes(f, e, a) /\ loaded' = loaded \ {e}
           /\ UNCHANGED <<zhaVars, watching, asked, viaId, merged, dialogVars>>
  <2>1. UNCHANGED <<zha, zhaUp, watching, asked, viaId, merged>> /\ DialogStays
    BY <1>4 DEF zhaVars, dialogVars, DialogStays
  <2>2. a \notin TakenBut(e)
    BY <1>4 DEF OnOffer
  <2> QED BY <1>1, <1>4, <2>1, <2>2, TakesKeeps
<1> QED BY <1>2, <1>3, <1>4 DEF ReconfigureSubmit

(* A card is only made for a lock that nobody holds. *)
LEMMA DiscoveryStepKeeps ==
  ASSUME FlowsPart, NEW a \in Locks, DiscoveryStep(a)
  PROVE  FlowsPart' /\ Kept /\ DialogStays
<1> DEFINE flow == [kind |-> "card", unique |-> a, offered |-> {}, entry |-> None]
<1>1. /\ asked' = asked \ {a}
      /\ UNCHANGED <<zha, zhaUp, entries, watching, viaId, loaded, rows, merged>> /\ DialogStays
  BY DEF DiscoveryStep, zhaVars, deviceVars, dialogVars, DialogStays
<1>2. CASE flows' = flows
  <2>1. TypeOfFlows'
    BY <1>1, <1>2 DEF FlowsPart, TypeOfFlows
  <2> QED BY <1>1, <1>2, <2>1, OnlyFlows
<1>3. ASSUME NEW f \in Flows, flows' = [flows EXCEPT ![f] = flow], ~Configured(a)
      PROVE  FlowsPart' /\ Kept
  <2>1. flow \in Flow /\ flow.kind = "card" /\ flow.unique = a
    BY DEF Flow
  <2> HIDE DEF flow
  <2>2. TypeOfFlows' /\ flows'[f] = flow /\ \A g \in Flows : g # f => flows'[g] = flows[g]
    BY <1>1, <1>3, <2>1 DEF FlowsPart, TypeOfFlows
  <2>3. CardIsFree(f)' /\ TargetIsThere(f)'
    BY <1>1, <1>3, <2>1, <2>2 DEF CardIsFree, TargetIsThere, Configured
  <2> QED BY <1>1, <2>2, <2>3, OnlyFlows
<1> QED BY <1>1, <1>2, <1>3 DEF DiscoveryStep

(* What ZHA knows changes no flow and no entry. *)
LEMMA ZhaKeeps ==
  ASSUME FlowsPart, ZhaState \/ \E locks \in SUBSET Locks : ZhaDevices(locks)
  PROVE  FlowsPart' /\ Kept /\ DialogStays
<1>1. UNCHANGED <<entries, flows, watching, viaId, loaded, rows, merged>> /\ DialogStays
  BY DEF ZhaState, ZhaDevices, deviceVars, dialogVars, DialogStays
<1>2. zha' \in SUBSET Locks /\ zhaUp' \in BOOLEAN /\ asked' \in SUBSET Locks
  BY DEF ZhaState, ZhaDevices, Looks, FlowsPart, TypeOfFlows
<1>3. TypeOfFlows'
  BY <1>1, <1>2 DEF FlowsPart, TypeOfFlows
<1> QED BY <1>1, <1>3, OnlyFlows

LEMMA SetUpKeeps ==
  ASSUME FlowsPart, NEW e \in Entries, SetUp(e)
  PROVE  FlowsPart' /\ Kept /\ DialogStays
<1>1. /\ IsLock(e) /\ loaded' = loaded \cup {e} /\ entries[e].lock \in Locks
      /\ rows' = [rows EXCEPT ![e] = rows[e] \cup BuildDeviceInfo(e)]
      /\ UNCHANGED <<zha, zhaUp, entries, flows, watching, asked, viaId, merged>> /\ DialogStays
  BY DEF SetUp, zhaVars, flowVars, dialogVars, DialogStays, FlowsPart, TypeOfFlows, IsLock, Entry
<1>2. /\ rows' \in [Entries -> SUBSET Locks] /\ rows'[e] \subseteq rows[e] \cup {entries[e].lock}
      /\ viaId => entries[e].lock \in rows'[e]
      /\ \A d \in Entries : d # e => rows'[d] = rows[d]
  BY <1>1 DEF FlowsPart, TypeOfFlows, BuildDeviceInfo
<1>3. TypeOfFlows'
  BY <1>1, <1>2 DEF FlowsPart, TypeOfFlows
<1>4. OneHolder' /\ FlowsFit' /\ Kept
  BY <1>1 DEF FlowsPart, OneHolder, FlowsFit, CardIsFree, TargetIsThere, Configured, IsLock, Kept
<1>5. RowsFit'
  BY <1>1, <1>2 DEF FlowsPart, TypeOfFlows, RowsFit, IsLock
<1> QED BY <1>1, <1>3, <1>4, <1>5 DEF FlowsPart

LEMMA RemoveKeeps ==
  ASSUME FlowsPart, NEW e \in Entries, Remove(e)
  PROVE  FlowsPart' /\ DialogStays /\ \A d \in Entries : IsLock(d) => IsLock(d)' \/ Remove(d)
<1> DEFINE gone == {f \in Flows : flows[f] # None /\ flows[f].entry = e}
<1>1. /\ entries' = [entries EXCEPT ![e] = None] /\ flows' = Without(flows, gone)
      /\ loaded' = loaded \ {e} /\ rows' = [rows EXCEPT ![e] = {}] /\ merged' = merged \ {e}
      /\ UNCHANGED <<zha, zhaUp, watching, asked, viaId>> /\ DialogStays
  BY DEF Remove, zhaVars, dialogVars, DialogStays
<1>2. /\ entries' \in [Entries -> Entry \cup {None}] /\ entries'[e] = None
      /\ rows' \in [Entries -> SUBSET Locks]
      /\ \A d \in Entries : d # e => entries'[d] = entries[d] /\ rows'[d] = rows[d]
  BY <1>1 DEF FlowsPart, TypeOfFlows
<1>3. TypeOfFlows'
  BY <1>1, <1>2, WithoutIs DEF FlowsPart, TypeOfFlows
<1>4. OneHolder' /\ RowsFit' /\ \A d \in Entries : IsLock(d) => IsLock(d)' \/ Remove(d)
  BY <1>1, <1>2 DEF FlowsPart, TypeOfFlows, OneHolder, RowsFit, IsLock
<1>5. FlowsFit'
  <2> SUFFICES ASSUME NEW g \in Flows, flows'[g] # None
               PROVE  CardIsFree(g)' /\ TargetIsThere(g)'
    BY DEF FlowsFit
  <2>1. flows'[g] = flows[g] /\ g \notin gone
    BY <1>1, WithoutIs DEF FlowsPart
  <2>2. CardIsFree(g) /\ TargetIsThere(g) /\ flows[g].entry # e
    BY <2>1 DEF FlowsPart, FlowsFit
  <2> QED BY <1>2, <2>1, <2>2 DEF CardIsFree, TargetIsThere, Configured, IsLock
<1> QED BY <1>1, <1>3, <1>4, <1>5 DEF FlowsPart

LEMMA RestartKeeps ==
  ASSUME FlowsPart, Restart
  PROVE  FlowsPart' /\ Kept /\ DialogPart'
<1>1. /\ flows' = [f \in Flows |-> None] /\ asked' = {} /\ loaded' = {} /\ zhaUp' = FALSE
      /\ watching' \in BOOLEAN /\ UNCHANGED <<zha, entries, viaId, rows, merged>> /\ Closed
  BY DEF Restart
<1>2. TypeOfFlows'
  BY <1>1 DEF FlowsPart, TypeOfFlows
<1>3. OneHolder' /\ FlowsFit' /\ RowsFit' /\ Kept
  BY <1>1 DEF FlowsPart, OneHolder, FlowsFit, RowsFit, IsLock, Kept
<1> QED BY <1>1, <1>2, <1>3, ClosedFits DEF FlowsPart
-----------------------------------------------------------------------------
(***************************************************************************)
(* The theorems.                                                           *)
(***************************************************************************)

(* A step keeps the invariant, and every entry but one the user deletes.   *)
LEMMA NextFlows ==
  FlowsInv /\ [Next]_vars => FlowsInv' /\ \A e \in Entries : IsLock(e) => IsLock(e)' \/ Remove(e)
<1> SUFFICES ASSUME FlowsPart, DialogPart, [Next]_vars
             PROVE  FlowsPart' /\ DialogPart' /\ \A e \in Entries : IsLock(e) => IsLock(e)' \/ Remove(e)
  BY Parts, PartsNext
<1>1. CASE DialogNext
  BY <1>1, DialogSteps, FlowsPartStays DEF EntriesStay, IsLock
<1>2. CASE UNCHANGED vars
  BY <1>2, FlowsPartStays, DialogPartStays
    DEF vars, zhaVars, flowVars, deviceVars, dialogVars, EntriesStay, DialogStays, IsLock
<1>3. ASSUME NEW f \in Flows, NEW ignored \in BOOLEAN, CardPressed(f, ignored)
      PROVE  FlowsPart' /\ Kept /\ DialogStays
  <2>1. flows[f] # None /\ flows[f].unique \in Locks /\ ~Configured(flows[f].unique)
    BY <1>3 DEF CardPressed, FlowsPart, FlowsFit, CardIsFree
  <2> QED BY <1>3, <2>1, CreatesKeeps DEF CardPressed
<1>4. ASSUME NEW f \in Flows, CloseForm(f) PROVE FlowsPart' /\ Kept /\ DialogStays
  BY <1>4, EndsKeeps DEF CloseForm
<1>5. CASE FlowsPart' /\ Kept /\ DialogStays
  BY <1>5, DialogPartStays DEF Kept
<1>6. CASE Restart
  BY <1>6, RestartKeeps DEF Kept
<1>7. ASSUME NEW e \in Entries, Remove(e) PROVE FlowsPart' /\ DialogPart'
  BY <1>7, RemoveKeeps, DialogPartStays
<1> QED
  BY <1>1, <1>2, <1>3, <1>4, <1>5, <1>6, <1>7, UserStepKeeps, UserSubmitKeeps, ReconfigureStepKeeps,
     ReconfigureSubmitKeeps, DiscoveryStepKeeps, ZhaKeeps, SetUpKeeps, RemoveKeeps, DialogPartStays
  DEF Next, DialogNext, SetPinForm, ClearPinForm, SetPinProgress, ClearPinProgress, SetPinDone, ClearPinDone

(* The invariant holds in every state. *)
LEMMA FlowsInvariant == Spec => []FlowsInv
  BY InitFlowsInv, NextFlows, PTL DEF Spec

(* Entries, flows and dialogs have the declared types. *)
THEOREM TypeCorrect == Spec => []TypeOK
<1>1. FlowsInv => TypeOK
  BY DEF FlowsInv
<1> QED BY <1>1, FlowsInvariant, PTL

(* Whichever way the entries got to them, no two hold the same lock. *)
THEOREM NoLockTwice == Spec => []OneHolder
<1>1. FlowsInv => OneHolder
  BY DEF FlowsInv
<1> QED BY <1>1, FlowsInvariant, PTL

(* The device of an entry carries no replaced address, and its own lock's  *)
(* on the releases where the code sends one, but for a device that an      *)
(* earlier install let the registry fold into ZHA's.                       *)
THEOREM AddressStaysOwn == Spec => []AddressIsOwn
<1>1. FlowsInv => AddressIsOwn
  BY DEF FlowsInv, RowsFit, AddressIsOwn, TypeOK
<1> QED BY <1>1, FlowsInvariant, PTL

(* No flow, and no pair of flows, takes an entry away. *)
THEOREM EntryStaysKept == Spec => EntryKept
<1>1. FlowsInv /\ [Next]_vars => [\A e \in Entries : IsLock(e) => IsLock(e)' \/ Remove(e)]_vars
  BY NextFlows
<1> QED BY <1>1, FlowsInvariant, PTL DEF Spec, EntryKept

(* A dialog writes once for each form that was sent in. *)
THEOREM WritesAsAsked == Spec => []OneWritePerForm
<1>1. FlowsInv => OneWritePerForm
  BY DEF FlowsInv, TypeOK, DialogFits, Due, OneWritePerForm, Idle
<1> QED BY <1>1, FlowsInvariant, PTL
=============================================================================
