--------------------------- MODULE MotionTrackers ---------------------------
(***************************************************************************)
(* The motion-only trackers of avap: SortTracker (kalman_tracker.py),      *)
(* ByteTracker (bytetrack.py), OcSortTracker (ocsort.py) and IouTracker    *)
(* (tracker.py), one update() per frame of one source.                     *)
(*                                                                         *)
(* Boxes are left out: which tracks the detections of a frame match, and   *)
(* how many match none, are choices, and an assignment never gives a track *)
(* to two detections.  Hits count no further than what they are compared   *)
(* with.                                                                   *)
(***************************************************************************)
EXTENDS Integers, FiniteSets

CONSTANTS
  Kinds,      \* the trackers to look at: "iou", "sort", "byte", "ocsort"
  MaxId,      \* bound: tracks ever created
  MaxFrame,   \* bound: frames
  MaxAge,     \* max_age
  MinHits     \* min_hits of the trackers that have it

ASSUME MotionAssumption ==
  /\ Kinds \subseteq {"iou", "sort", "byte", "ocsort"}
  /\ MaxId \in Nat /\ MaxFrame \in Nat /\ MaxAge \in Nat /\ MinHits \in Nat \ {0}

VARIABLES
  kind,    \* which tracker this is
  frame,   \* OcSortTracker._frame
  tracks,  \* _tracks: from the ids of the live tracks to their state
  nextId,  \* _next_id
  objects  \* how many objects of the last frame carry each id

vars == <<kind, frame, tracks, nextId, objects>>

Live == DOMAIN tracks

Track == [hits : Nat, sinceUpdate : Nat]

Init ==
  /\ kind \in Kinds
  /\ frame = 0 /\ nextId = 1
  /\ tracks = [i \in {} |-> {}]
  /\ objects = [i \in 1 .. MaxId |-> 0]

Needed == IF kind = "iou" THEN 1 ELSE MinHits
TwoStages == kind \in {"byte", "ocsort"}

-----------------------------------------------------------------------------
(* The steps of update(). *)

\* Fault: tracks are confirmed by an unbroken run of hits.
Older_ForgetsHits(t) == [t EXCEPT !.sinceUpdate = @ + 1, !.hits = IF t.sinceUpdate > 0 THEN 0 ELSE @]

Older(t) == [t EXCEPT !.sinceUpdate = @ + 1]

Kept(now) == [i \in {k \in DOMAIN now : now[k].sinceUpdate <= MaxAge} |-> now[i]]

\* IouTracker drops a track before it looks for matches, the others after.
Aged ==
  LET older == [i \in Live |-> Older(tracks[i])]
  IN IF kind = "iou" THEN Kept(older) ELSE older

\* _hit, without the filter that OcSortTracker runs again over the gap.
Hit(t) ==
  [hits |-> IF t.hits < Needed THEN t.hits + 1 ELSE t.hits, sinceUpdate |-> 0]

Created == [hits |-> 1, sinceUpdate |-> 0]

\* Every detection that matches no track starts one: all detections of "iou"
\* and "sort", those with a high confidence of the others.
First(aged, matched, new) ==
  [i \in DOMAIN aged \cup new |->
     IF i \in new THEN Created ELSE IF i \in matched THEN Hit(aged[i]) ELSE aged[i]]

\* Fault: the second association looks at every track.
Rescuable_All(now, matched) == IF TwoStages THEN DOMAIN now ELSE {}

\* A low confidence only rescues tracks that were seen one frame ago.
Rescuable(now, matched) ==
  IF TwoStages THEN {i \in DOMAIN now \ matched : now[i].sinceUpdate = 1} ELSE {}

Second(now, rescued) == [i \in DOMAIN now |-> IF i \in rescued THEN Hit(now[i]) ELSE now[i]]

\* _emit, on the object that the association of the stage gave to a track.
Emitted(i, stage, after) == IF i \in stage /\ after[i].hits >= Needed THEN 1 ELSE 0

\* update(detections): matched are the tracks of the first association, new the
\* ids of the tracks that are created, rescued those of the second.
Update(matched, new, rescued) ==
  LET now == First(Aged, matched, new)
      end == Second(now, rescued)
  IN
  /\ rescued \subseteq Rescuable(now, matched)
  /\ frame' = frame + 1
  /\ nextId' = nextId + Cardinality(new)
  /\ tracks' = IF kind = "iou" THEN end ELSE Kept(end)
  /\ objects' = [i \in 1 .. MaxId |->
                   Emitted(i, matched \cup new, now) + Emitted(i, rescued, end)]
  /\ UNCHANGED kind

Next ==
  /\ frame < MaxFrame
  /\ \E matched \in SUBSET DOMAIN Aged, last \in nextId - 1 .. MaxId :
       \E rescued \in SUBSET (Live \cup (nextId .. last)) :
         Update(matched, nextId .. last, rescued)

Spec == Init /\ [][Next]_vars

-----------------------------------------------------------------------------
(* Properties. *)

TypeOK ==
  /\ kind \in {"iou", "sort", "byte", "ocsort"}
  /\ frame \in Nat /\ nextId \in 1 .. MaxId + 1
  /\ Live \subseteq 1 .. nextId - 1 /\ tracks \in [Live -> Track]
  /\ objects \in [1 .. MaxId -> Nat]

\* No two objects of a frame get the same id, although two associations look at
\* one list of tracks, the second after the first has changed and extended it.
OneObject == \A i \in 1 .. MaxId : objects[i] <= 1

\* The life of an id, as TrackLife promises it.
LifePhase ==
  [i \in 1 .. MaxId |-> IF i >= nextId THEN "unborn"
                        ELSE IF i \notin Live THEN "gone"
                        ELSE IF tracks[i].hits >= Needed THEN "confirmed" ELSE "tentative"]
Life == INSTANCE TrackLife WITH
          phase <- LifePhase, shown <- {i \in 1 .. MaxId : objects[i] > 0}

\* All four trackers keep the promises of TrackLife.
LifeSpec == Life!LifeSpec

=============================================================================
