--------------------------- MODULE NvDcfTracker -----------------------------
(***************************************************************************)
(* NvDcfTracker of avap (nvdcf.py): one update() per frame of one source.  *)
(* Targets are tentative, active or shadow, each owns one slot of the      *)
(* correlation-filter engine, and a slot is cleared and used again.        *)
(*                                                                         *)
(* What pixels and boxes decide is a choice: which targets a full or a     *)
(* low-confidence detection matches, how many detections are left that may *)
(* start a target, and which targets the filter finds again with enough    *)
(* confidence.  A slot's filter is the set of targets it was learned from. *)
(* The order of the free slots is left out, and a free slot is taken in    *)
(* any order.  Ages count no further than what they are compared with.     *)
(***************************************************************************)
EXTENDS Integers, FiniteSets

CONSTANTS
  MaxId,            \* bound: targets ever created
  Slot,             \* the filter slots, maxTargetsPerStream of them
  ProbationAge,     \* probationAge
  MaxShadow,        \* maxShadowTrackingAge
  EarlyTermination, \* earlyTerminationAge
  MaxVisualOnly     \* maxVisualOnlyAge

ASSUME NvDcfAssumption ==
  /\ MaxId \in Nat /\ ProbationAge \in Nat /\ MaxShadow \in Nat
  /\ EarlyTermination \in Nat \ {0} /\ MaxVisualOnly \in Nat

VARIABLES
  targets,    \* _targets: from the ids of the live targets to their state
  nextId,     \* _next_id
  freeSlots,  \* _free_slots
  filter,     \* the engine: whose looks the filter of a slot holds
  shown       \* ids on the objects update() returned

vars == <<targets, nextId, freeSlots, filter, shown>>

Live == DOMAIN targets

\* _Target; unseen is a history: frames since a detection matched it.
Target == [slot : Slot, state : {"tentative", "active", "shadow"}, age : Nat,
           shadowAge : Nat, visualAge : Nat, needsInit : BOOLEAN, unseen : Nat]

Init ==
  /\ targets = [i \in {} |-> {}] /\ nextId = 1
  /\ freeSlots = Slot
  /\ filter = [s \in Slot |-> {}]
  /\ shown = {}

Confirmed(t) == t.state # "tentative"

-----------------------------------------------------------------------------
(* update(): what a frame does to one target. *)

Older(t) == [t EXCEPT !.age = IF @ <= ProbationAge THEN @ + 1 ELSE @]

\* _localize_all: targets with a learned filter may be found again.
Localizable(frame) == IF frame THEN {i \in Live : ~targets[i].needsInit} ELSE {}

\* Fault: the bound on visual-only frames is left out.
Bridged_Unbounded(matched, found) == {i \in found \ matched : Confirmed(targets[i])}

\* Unmatched targets that go on at the place where their filter found them.
Bridged(matched, found) ==
  {i \in found \ matched : Confirmed(targets[i]) /\ targets[i].visualAge < MaxVisualOnly}

\* A detection matches: the target is active once its probation is over.
Matched(t) ==
  [t EXCEPT !.shadowAge = 0, !.visualAge = 0, !.unseen = 0,
            !.state = IF Confirmed(t) \/ t.age > ProbationAge THEN "active" ELSE @]

\* The filter alone carries it.
Carried(t) ==
  [t EXCEPT !.shadowAge = 0, !.visualAge = @ + 1, !.unseen = @ + 1, !.state = "active"]

\* Fault: a missed target is on probation again.
Missed_Demotes(t) == [t EXCEPT !.shadowAge = @ + 1, !.unseen = @ + 1, !.state = "tentative"]

\* Neither: a confirmed target becomes a shadow.
Missed(t) ==
  [t EXCEPT !.shadowAge = @ + 1, !.unseen = @ + 1,
            !.state = IF Confirmed(t) THEN "shadow" ELSE @]

Updated(i, matched, bridged) ==
  IF i \in matched THEN Matched(Older(targets[i]))
  ELSE IF i \in bridged THEN Carried(Older(targets[i]))
  ELSE Missed(Older(targets[i]))

\* Termination.
Dead(t) == t.shadowAge > MaxShadow \/ (~Confirmed(t) /\ t.shadowAge >= EarlyTermination)

\* Fault: the new target trusts the filter of its slot at once.
Created_Ready(s) == [slot |-> s, state |-> "tentative", age |-> 1, shadowAge |-> 0,
                     visualAge |-> 0, needsInit |-> FALSE, unseen |-> 0]

Created(s) == [slot |-> s, state |-> "tentative", age |-> 1, shadowAge |-> 0,
               visualAge |-> 0, needsInit |-> TRUE, unseen |-> 0]

-----------------------------------------------------------------------------
(* update(): one frame. *)

\* Full detections that no target claims and that overlap none start targets,
\* as long as there are free slots; the slots freed below come too late.
Create(new, give) ==
  /\ new \subseteq 1 .. MaxId
  /\ \A i, j \in new : i # j => give[i] # give[j]

\* Fault: the slot of a target that ended is not given back.
Release_Leaks(given, ended) == freeSlots' = freeSlots \ given

Release(given, ended) == freeSlots' = (freeSlots \ given) \cup ended

\* engine.update: the first one replaces the filter, later ones blend into it.
Learned(i, t) == IF t.needsInit THEN {i} ELSE filter[t.slot] \cup {i}

\* clear_slot, and _update_filters for active targets and new ones.
Filters(frame, now, ended) ==
  filter' = [s \in Slot |->
    LET learn == {i \in DOMAIN now : now[i].slot = s /\ (now[i].state = "active" \/ now[i].needsInit)}
    IN IF frame /\ learn # {} THEN UNION {Learned(i, now[i]) : i \in learn}
       ELSE IF s \in ended THEN {} ELSE filter[s]]

\* update(detections, frame): matched are the targets that a detection claims,
\* found those the filter localizes with minTrackerConfidence, new the ids that
\* are handed out and give their slots.
Update(frame, matched, found, new, give) ==
  LET bridged == Bridged(matched, found)
      up == [i \in Live |-> Updated(i, matched, bridged)]
      dead == {i \in Live : Dead(up[i])}
      ended == {up[i].slot : i \in dead}
      now == [i \in (Live \ dead) \cup new |-> IF i \in new THEN Created(give[i]) ELSE up[i]]
  IN
  /\ Create(new, give)
  /\ nextId' = nextId + Cardinality(new)
  /\ Release({give[i] : i \in new}, ended)
  /\ Filters(frame, now, ended)
  /\ targets' = [i \in DOMAIN now |-> [now[i] EXCEPT !.needsInit = @ /\ ~frame]]
  /\ shown' = {i \in matched : Confirmed(up[i])} \cup bridged

\* _associate: boxes, sizes, classes and filter responses decide which targets a
\* detection claims; it may be any of them.
Claimable == Live

Next ==
  \E frame \in BOOLEAN, matched \in SUBSET Claimable, last \in nextId - 1 .. MaxId :
    \E found \in SUBSET Localizable(frame), give \in [nextId .. last -> freeSlots] :
      Update(frame, matched, found, nextId .. last, give)

Spec == Init /\ [][Next]_vars

-----------------------------------------------------------------------------
(* Properties. *)

TypeOK ==
  /\ nextId \in 1 .. MaxId + 1
  /\ Live \subseteq 1 .. nextId - 1 /\ targets \in [Live -> Target]
  /\ freeSlots \subseteq Slot
  /\ filter \in [Slot -> SUBSET (1 .. nextId - 1)]
  /\ shown \subseteq 1 .. nextId - 1

\* Every filter slot has exactly one owner: a target or the free list.  Two
\* targets in one slot would overwrite each other's filter, and a slot without
\* an owner is lost to the stream for good.
SlotOwner ==
  /\ \A i, j \in Live : i # j => targets[i].slot # targets[j].slot
  /\ \A s \in Slot : s \in freeSlots <=> \A i \in Live : targets[i].slot # s

\* A target is only ever searched with what was learned from itself, although
\* slots are reused and a target may be created on a call without a frame; a
\* free slot remembers nobody.
FilterOwn ==
  /\ \A i \in Live : ~targets[i].needsInit => filter[targets[i].slot] = {i}
  /\ \A s \in freeSlots : filter[s] = {}

\* Without a detection a target ends: each of at most MaxVisualOnly frames on
\* which the filter carries it restarts the shadow age, so the bound is the
\* product and not the sum (1848 frames with the defaults).
UnseenBound ==
  \A i \in Live : targets[i].unseen <= MaxVisualOnly * (MaxShadow + 1) + MaxShadow

\* The life of an id, as TrackLife promises it.
LifePhase ==
  [i \in 1 .. MaxId |-> IF i >= nextId THEN "unborn"
                        ELSE IF i \notin Live THEN "gone"
                        ELSE IF Confirmed(targets[i]) THEN "confirmed" ELSE "tentative"]
Life == INSTANCE TrackLife WITH phase <- LifePhase

\* The tracker keeps the promises of TrackLife: ids in order and never again,
\* no way back from confirmed, and only confirmed ids on objects.
LifeSpec == Life!LifeSpec

=============================================================================
