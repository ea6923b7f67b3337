------------------------ MODULE MotionTrackersProofs ------------------------
(* The four motion-only trackers keep the promises of TrackLife, for any    *)
(* number of tracks and frames, any max_age and any min_hits.               *)
EXTENDS MotionTrackers, FiniteSetTheorems, TLAPS

LEMMA NeededPositive == Needed \in Nat \ {0}
  BY MotionAssumption DEF Needed

-----------------------------------------------------------------------------
(* The operators of update(). *)

\* Ageing loses no hits; what it drops, it drops for good.
LEMMA AgedTracks ==
  ASSUME TypeOK
  PROVE  /\ DOMAIN Aged \subseteq Live
         /\ Aged \in [DOMAIN Aged -> Track]
         /\ \A i \in DOMAIN Aged : Aged[i].hits = tracks[i].hits
<1> DEFINE older == [i \in Live |-> Older(tracks[i])]
<1>1. ASSUME NEW i \in Live
      PROVE  older[i] \in Track /\ older[i].hits = tracks[i].hits
  <2>1. tracks[i] \in Track
    BY DEF TypeOK
  <2> QED
    BY <2>1 DEF Older, Track
<1>2. Aged = IF kind = "iou" THEN Kept(older) ELSE older
  BY DEF Aged
<1>3. DOMAIN older = Live
  OBVIOUS
<1> HIDE DEF older
<1>4. /\ DOMAIN Kept(older) \subseteq Live
      /\ \A i \in DOMAIN Kept(older) : Kept(older)[i] = older[i]
      /\ Kept(older) = [i \in DOMAIN Kept(older) |-> older[i]]
  BY <1>3 DEF Kept
<1>5. older = [i \in Live |-> older[i]]
  BY DEF older
<1>6. CASE kind = "iou"
  <2>1. Aged = Kept(older)
    BY <1>2, <1>6
  <2> QED
    BY <1>1, <1>4, <2>1
<1>7. CASE kind # "iou"
  <2>1. Aged = older
    BY <1>2, <1>7
  <2> QED
    BY <1>1, <1>3, <1>5, <2>1
<1> QED
  BY <1>6, <1>7

\* A hit confirms sooner or later, and makes the track fresh.
LEMMA HitTrack ==
  ASSUME NEW t \in Track
  PROVE  /\ Hit(t) \in Track /\ Hit(t).sinceUpdate = 0
         /\ Hit(t).hits >= t.hits
  BY NeededPositive DEF Hit, Track

LEMMA CreatedTrack == Created \in Track /\ Created.sinceUpdate = 0 /\ Created.hits = 1
  BY DEF Created, Track

LEMMA NewIds ==
  ASSUME TypeOK, NEW last \in nextId - 1 .. MaxId
  PROVE  /\ nextId + Cardinality(nextId .. last) = last + 1
         /\ last + 1 \in 1 .. MaxId + 1 /\ last + 1 >= nextId
         /\ nextId .. last \subseteq 1 .. last
<1>1. nextId \in Int /\ last \in Int /\ MaxId \in Nat /\ last >= nextId - 1
  BY MotionAssumption DEF TypeOK
<1>2. Cardinality(nextId .. last) = IF nextId > last THEN 0 ELSE last - nextId + 1
  BY <1>1, FS_Interval
<1>3. nextId >= 1
  BY DEF TypeOK
<1> QED
  BY <1>1, <1>2, <1>3

-----------------------------------------------------------------------------
(* One frame. *)

\* The tracks after the first association, and after the second.
Now(matched, new) == First(Aged, matched, new)
End(matched, new, rescued) == Second(Now(matched, new), rescued)

\* What update() makes of the tracks: a track that was matched is fresh, hits
\* are not lost, and the second association leaves those of the first alone.
Associated(matched, new, rescued) ==
  LET now == Now(matched, new)
      end == End(matched, new, rescued) IN
  /\ DOMAIN now = DOMAIN Aged \cup new
  /\ DOMAIN end = DOMAIN now
  /\ now \in [DOMAIN now -> Track] /\ end \in [DOMAIN now -> Track]
  /\ \A i \in matched \cup new : now[i].sinceUpdate = 0
  /\ \A i \in DOMAIN now \cap Live : now[i].hits >= tracks[i].hits
  /\ \A i \in DOMAIN now : end[i].hits >= now[i].hits
  /\ \A i \in DOMAIN now : now[i].sinceUpdate = 0 => end[i].sinceUpdate = 0
  /\ rescued \subseteq DOMAIN now \ (matched \cup new)
  /\ \A i \in rescued : end[i].sinceUpdate = 0

LEMMA FrameTracks ==
  ASSUME TypeOK,
         NEW matched \in SUBSET DOMAIN Aged, NEW last \in nextId - 1 .. MaxId,
         NEW rescued, Update(matched, nextId .. last, rescued)
  PROVE  Associated(matched, nextId .. last, rescued)
<1> DEFINE new == nextId .. last
           now == Now(matched, new)
           end == End(matched, new, rescued)
<1>1. /\ DOMAIN Aged \subseteq Live /\ Aged \in [DOMAIN Aged -> Track]
      /\ \A i \in DOMAIN Aged : Aged[i].hits = tracks[i].hits
  BY AgedTracks
<1>2. new \cap Live = {}
  BY MotionAssumption DEF TypeOK
<1>a. rescued \subseteq Rescuable(now, matched)
  BY DEF Update, Now
<1> HIDE DEF new, now
<1>3. DOMAIN now = DOMAIN Aged \cup new
  BY DEF First, Now, now
<1>4. now = [i \in DOMAIN now |->
               IF i \in new THEN Created ELSE IF i \in matched THEN Hit(Aged[i]) ELSE Aged[i]]
  BY <1>3 DEF First, Now, now
<1>5. ASSUME NEW i \in DOMAIN now
      PROVE  /\ now[i] \in Track
             /\ i \in matched \cup new => now[i].sinceUpdate = 0
             /\ i \in Live => now[i].hits >= tracks[i].hits
  <2>1. CASE i \in new
    BY <1>2, <1>4, <2>1, CreatedTrack
  <2>2. CASE i \in matched /\ i \notin new
    <3>1. Aged[i] \in Track /\ now[i] = Hit(Aged[i]) /\ Aged[i].hits = tracks[i].hits
      BY <1>1, <1>3, <1>4, <2>2
    <3> QED
      BY <3>1, HitTrack
  <2>3. CASE i \notin matched /\ i \notin new
    <3>1. Aged[i] \in Track /\ now[i] = Aged[i] /\ Aged[i].hits = tracks[i].hits
      BY <1>1, <1>3, <1>4, <2>3
    <3>2. Aged[i].hits \in Nat
      BY <3>1 DEF Track
    <3> QED
      BY <2>3, <3>1, <3>2
  <2> QED
    BY <2>1, <2>2, <2>3
<1>7. \A i \in rescued : i \in DOMAIN now \ matched /\ now[i].sinceUpdate = 1
  BY <1>a DEF Rescuable
<1>8. rescued \cap new = {}
  BY <1>3, <1>5, <1>7
<1>9. end = [i \in DOMAIN now |-> IF i \in rescued THEN Hit(now[i]) ELSE now[i]]
  BY DEF Second, End, now
<1> HIDE DEF end
<1>10. ASSUME NEW i \in DOMAIN now
       PROVE  /\ end[i] \in Track /\ end[i].hits >= now[i].hits
              /\ now[i].sinceUpdate = 0 => end[i].sinceUpdate = 0
              /\ i \in rescued => end[i].sinceUpdate = 0
  <2>1. CASE i \in rescued
    BY <1>5, <1>9, <2>1, HitTrack
  <2>2. CASE i \notin rescued
    <3>1. end[i] = now[i] /\ now[i] \in Track
      BY <1>5, <1>9, <2>2
    <3>2. now[i].hits \in Nat
      BY <3>1 DEF Track
    <3> QED
      BY <2>2, <3>1, <3>2
  <2> QED
    BY <2>1, <2>2
<1>11. DOMAIN end = DOMAIN now
  BY <1>9
<1>12. now \in [DOMAIN now -> Track] /\ end \in [DOMAIN now -> Track]
  BY <1>4, <1>5, <1>9, <1>10
<1>13. \A i \in matched \cup new : i \in DOMAIN now
  BY <1>3
<1> QED
  BY <1>3, <1>5, <1>7, <1>8, <1>10, <1>11, <1>12, <1>13 DEF Associated, new, now, end

\* The tracks that were seen in the frame are live after it, with their hits;
\* of the others some may have been dropped.
LEMMA FrameLive ==
  ASSUME TypeOK,
         NEW matched \in SUBSET DOMAIN Aged, NEW last \in nextId - 1 .. MaxId,
         NEW rescued, Update(matched, nextId .. last, rescued)
  PROVE  /\ nextId' = last + 1
         /\ Live' \subseteq Live \cup (nextId .. last)
         /\ nextId .. last \subseteq Live'
         /\ tracks' \in [Live' -> Track]
         /\ \A i \in Live \cap Live' : tracks'[i].hits >= tracks[i].hits
         /\ \A i \in 1 .. MaxId :
              /\ objects'[i] \in {0, 1}
              /\ objects'[i] > 0 => i \in Live' /\ tracks'[i].hits >= Needed
         /\ objects' \in [1 .. MaxId -> {0, 1}]
<1> DEFINE new == nextId .. last
           now == Now(matched, new)
           end == End(matched, new, rescued)
<1>1. /\ nextId' = nextId + Cardinality(new)
      /\ tracks' = IF kind = "iou" THEN end ELSE Kept(end)
      /\ objects' = [i \in 1 .. MaxId |->
                       Emitted(i, matched \cup new, now) + Emitted(i, rescued, end)]
  BY DEF Update, Now, End
<1>2. /\ DOMAIN now = DOMAIN Aged \cup new /\ DOMAIN end = DOMAIN now
      /\ now \in [DOMAIN now -> Track] /\ end \in [DOMAIN now -> Track]
      /\ \A i \in matched \cup new : now[i].sinceUpdate = 0
      /\ \A i \in DOMAIN now \cap Live : now[i].hits >= tracks[i].hits
      /\ \A i \in DOMAIN now : end[i].hits >= now[i].hits
      /\ \A i \in DOMAIN now : now[i].sinceUpdate = 0 => end[i].sinceUpdate = 0
      /\ rescued \subseteq DOMAIN now \ (matched \cup new)
      /\ \A i \in rescued : end[i].sinceUpdate = 0
  <2>1. Associated(matched, new, rescued)
    BY FrameTracks
  <2> QED
    BY <2>1 DEF Associated
<1>3. nextId' = last + 1
  BY <1>1, NewIds
<1>4. DOMAIN Aged \subseteq Live
  BY AgedTracks
<1>5. \A i \in Live : tracks[i] \in Track
  BY DEF TypeOK
<1> HIDE DEF new, now, end
<1>6. /\ Live' \subseteq DOMAIN end
      /\ tracks' = [i \in Live' |-> end[i]]
      /\ \A i \in DOMAIN end : end[i].sinceUpdate = 0 => i \in Live'
  <2>1. CASE kind = "iou"
    <3>1. tracks' = end
      BY <1>1, <2>1
    <3>2. Live' = DOMAIN end /\ end = [i \in DOMAIN end |-> end[i]]
      BY <1>2, <3>1 DEF Live
    <3> QED
      BY <3>1, <3>2
  <2>2. CASE kind # "iou"
    <3>1. tracks' = Kept(end)
      BY <1>1, <2>2
    <3>2. Live' = {i \in DOMAIN end : end[i].sinceUpdate <= MaxAge}
      BY <3>1 DEF Live, Kept
    <3>3. tracks' = [i \in Live' |-> end[i]]
      BY <3>1, <3>2 DEF Kept
    <3> QED
      BY <3>2, <3>3, MotionAssumption
  <2> QED
    BY <2>1, <2>2
<1>7. Live' \subseteq Live \cup new /\ tracks' \in [Live' -> Track]
  BY <1>2, <1>4, <1>6
<1>8. new \subseteq Live'
  BY <1>2, <1>6
<1>9. \A i \in Live \cap Live' : tracks'[i].hits >= tracks[i].hits
  <2> SUFFICES ASSUME NEW i \in Live \cap Live' PROVE tracks'[i].hits >= tracks[i].hits
    OBVIOUS
  <2>1. i \in DOMAIN now /\ tracks'[i] = end[i]
    BY <1>2, <1>6
  <2>2. end[i] \in Track /\ now[i] \in Track /\ tracks[i] \in Track
    BY <1>2, <1>5, <2>1
  <2>3. end[i].hits \in Nat /\ now[i].hits \in Nat /\ tracks[i].hits \in Nat
    BY <2>2 DEF Track
  <2>4. end[i].hits >= now[i].hits /\ now[i].hits >= tracks[i].hits
    BY <1>2, <2>1
  <2> QED
    BY <2>1, <2>3, <2>4
<1>10. ASSUME NEW i \in 1 .. MaxId
       PROVE  /\ objects'[i] \in {0, 1}
              /\ objects'[i] > 0 => i \in Live' /\ tracks'[i].hits >= Needed
  <2>1. objects'[i] = Emitted(i, matched \cup new, now) + Emitted(i, rescued, end)
    BY <1>1
  <2>2. CASE i \in matched \cup new
    <3>1. Emitted(i, rescued, end) = 0
      BY <1>2, <2>2 DEF Emitted
    <3>2. Emitted(i, matched \cup new, now) = IF now[i].hits >= Needed THEN 1 ELSE 0
      BY <2>2 DEF Emitted
    <3>3. i \in DOMAIN now /\ i \in Live' /\ tracks'[i] = end[i]
      BY <1>2, <1>6, <2>2
    <3>4. end[i].hits >= now[i].hits /\ end[i].hits \in Nat /\ now[i].hits \in Nat
      BY <1>2, <3>3 DEF Track
    <3> QED
      BY <2>1, <3>1, <3>2, <3>3, <3>4, NeededPositive
  <2>3. CASE i \in rescued
    <3>1. Emitted(i, matched \cup new, now) = 0
      BY <1>2, <2>3 DEF Emitted
    <3>2. Emitted(i, rescued, end) = IF end[i].hits >= Needed THEN 1 ELSE 0
      BY <2>3 DEF Emitted
    <3>3. i \in Live' /\ tracks'[i] = end[i]
      BY <1>2, <1>6, <2>3
    <3> QED
      BY <2>1, <3>1, <3>2, <3>3
  <2>4. CASE i \notin matched \cup new /\ i \notin rescued
    <3>1. Emitted(i, matched \cup new, now) = 0 /\ Emitted(i, rescued, end) = 0
      BY <2>4 DEF Emitted
    <3> QED
      BY <2>1, <3>1
  <2> QED
    BY <2>2, <2>3, <2>4
<1>11. objects' \in [1 .. MaxId -> {0, 1}]
  BY <1>1, <1>10
<1> QED
  BY <1>3, <1>7, <1>8, <1>9, <1>10, <1>11 DEF new


-----------------------------------------------------------------------------
(* Types and objects. *)

LEMMA StepTypeOK == TypeOK /\ [Next]_vars => TypeOK' /\ (OneObject => OneObject')
<1> SUFFICES ASSUME TypeOK, [Next]_vars PROVE TypeOK' /\ (OneObject => OneObject')
  OBVIOUS
<1>1. CASE UNCHANGED vars
  BY <1>1 DEF vars, TypeOK, Live, OneObject
<1>2. CASE Next
  <2>a. PICK matched \in SUBSET DOMAIN Aged, last \in nextId - 1 .. MaxId :
          \E rescued : Update(matched, nextId .. last, rescued)
    BY <1>2 DEF Next
  <2>1. PICK rescued : Update(matched, nextId .. last, rescued)
    BY <2>a
  <2>2. /\ nextId' = last + 1
        /\ Live' \subseteq Live \cup (nextId .. last)
        /\ tracks' \in [Live' -> Track]
        /\ objects' \in [1 .. MaxId -> {0, 1}]
    BY <2>1, FrameLive
  <2>3. nextId' \in 1 .. MaxId + 1 /\ Live' \subseteq 1 .. nextId' - 1
    BY <2>1, <2>2, NewIds, MotionAssumption DEF TypeOK
  <2>4. objects' \in [1 .. MaxId -> Nat] /\ OneObject'
    BY <2>2 DEF OneObject
  <2>5. kind' = kind /\ frame' = frame + 1
    BY <2>1 DEF Update
  <2> QED
    BY <2>2, <2>3, <2>4, <2>5 DEF TypeOK
<1> QED
  BY <1>1, <1>2

\* Every variable keeps its type: live tracks have ids that were handed out.
THEOREM Typed == Spec => []TypeOK
<1>1. Init => TypeOK
  BY MotionAssumption DEF Init, TypeOK, Live, Track
<1> QED
  BY <1>1, StepTypeOK, PTL DEF Spec

\* No frame has two objects with one id: the second association finds no track
\* that the first has matched or that was created between the two.
THEOREM OneObjectEach == Spec => []OneObject
<1>1. Init => OneObject
  BY DEF Init, OneObject
<1> QED
  BY <1>1, StepTypeOK, Typed, PTL DEF Spec

-----------------------------------------------------------------------------
(* The refinement. *)

LEMMA InitMaps == Init => Life!LifeInit
<1> SUFFICES ASSUME Init PROVE Life!LifeInit
  OBVIOUS
<1>1. LifePhase = [i \in 1 .. MaxId |-> "unborn"]
  BY DEF Init, LifePhase
<1>2. {i \in 1 .. MaxId : objects[i] > 0} = {}
  BY DEF Init
<1> QED
  BY <1>1, <1>2 DEF Life!LifeInit, Life!Id

LEMMA UpdateMaps ==
  ASSUME TypeOK, OneObject, Next
  PROVE  Life!NextFrame
<1>a. PICK matched \in SUBSET DOMAIN Aged, last \in nextId - 1 .. MaxId :
        \E rescued : Update(matched, nextId .. last, rescued)
  BY DEF Next
<1>1. PICK rescued : Update(matched, nextId .. last, rescued)
  BY <1>a
<1>2. /\ nextId' = last + 1
      /\ Live' \subseteq Live \cup (nextId .. last)
      /\ nextId .. last \subseteq Live'
      /\ tracks' \in [Live' -> Track]
      /\ \A i \in Live \cap Live' : tracks'[i].hits >= tracks[i].hits
      /\ \A i \in 1 .. MaxId :
           /\ objects'[i] \in {0, 1}
           /\ objects'[i] > 0 => i \in Live' /\ tracks'[i].hits >= Needed
  BY <1>1, FrameLive
<1>3. Needed' = Needed /\ Needed \in Nat
  BY <1>1, NeededPositive DEF Update, Needed
<1>4. /\ nextId \in Nat /\ nextId' \in Nat /\ nextId' >= nextId
      /\ nextId .. last = nextId .. nextId' - 1
      /\ \A i \in Live : i \in Nat /\ i < nextId
  BY <1>1, <1>2, NewIds, MotionAssumption DEF TypeOK
<1>5. \A i \in Live : tracks[i].hits \in Nat
  BY DEF TypeOK, Track
<1>6. \A i \in Live' : tracks'[i].hits \in Nat
  BY <1>2 DEF Track
<1>7. LifePhase \in [1 .. MaxId -> Life!Phase] /\ LifePhase' \in [1 .. MaxId -> Life!Phase]
  BY DEF LifePhase, Life!Phase
<1>8. ASSUME NEW i \in 1 .. MaxId
      PROVE  /\ LifePhase[i] = "unborn" <=> i >= nextId
             /\ LifePhase[i] = "gone" <=> i < nextId /\ i \notin Live
             /\ LifePhase[i] = "confirmed" <=> i \in Live /\ tracks[i].hits >= Needed
             /\ LifePhase'[i] = "unborn" <=> i >= nextId'
             /\ LifePhase'[i] = "gone" <=> i < nextId' /\ i \notin Live'
             /\ LifePhase'[i] = "confirmed" <=> i \in Live' /\ tracks'[i].hits >= Needed
  <2>1. \A j \in Live' : j < nextId'
    BY <1>2, <1>4
  <2>2. /\ LifePhase[i] = IF i >= nextId THEN "unborn"
                          ELSE IF i \notin Live THEN "gone"
                          ELSE IF tracks[i].hits >= Needed THEN "confirmed" ELSE "tentative"
        /\ LifePhase'[i] = IF i >= nextId' THEN "unborn"
                           ELSE IF i \notin Live' THEN "gone"
                           ELSE IF tracks'[i].hits >= Needed THEN "confirmed" ELSE "tentative"
    BY <1>3 DEF LifePhase
  <2> QED
    BY <1>4, <2>1, <2>2
<1>9. ASSUME NEW i \in 1 .. MaxId PROVE LifePhase'[i] \in Life!After(LifePhase[i])
  <2>1. LifePhase[i] \in Life!Phase /\ LifePhase'[i] \in Life!Phase
    BY <1>7
  <2>2. LifePhase[i] = "unborn" => LifePhase'[i] # "gone"
    BY <1>2, <1>4, <1>8
  <2>3. LifePhase[i] # "unborn" => LifePhase'[i] # "unborn"
    BY <1>4, <1>8
  <2>4. LifePhase[i] = "gone" => LifePhase'[i] = "gone"
    BY <1>2, <1>4, <1>8
  <2>5. LifePhase[i] = "confirmed" => LifePhase'[i] \in {"confirmed", "gone"}
    <3> SUFFICES ASSUME i \in Live, tracks[i].hits >= Needed, i \in Live'
                 PROVE  tracks'[i].hits >= Needed
      BY <1>4, <1>8
    <3> QED
      BY <1>2, <1>3, <1>5, <1>6
  <2> QED
    BY <2>1, <2>2, <2>3, <2>4, <2>5 DEF Life!After, Life!Phase
<1>10. \A i, j \in 1 .. MaxId : i < j /\ LifePhase'[i] = "unborn" => LifePhase'[j] = "unborn"
  BY <1>4, <1>8
<1>11. {i \in 1 .. MaxId : objects'[i] > 0} \subseteq {i \in 1 .. MaxId : LifePhase'[i] = "confirmed"}
  BY <1>2, <1>8
<1> QED
  BY <1>7, <1>9, <1>10, <1>11 DEF Life!NextFrame, Life!Id

\* All four trackers hand ids out in order, never revive one, never unconfirm a
\* living track, and show confirmed tracks only.
THEOREM KeepsTrackLife == Spec => LifeSpec
<1>1. TypeOK /\ OneObject /\ [Next]_vars => [Life!NextFrame]_(Life!lifeVars)
  <2>1. UNCHANGED vars => UNCHANGED Life!lifeVars
    BY DEF vars, Life!lifeVars, LifePhase, Live, Needed
  <2> QED
    BY <2>1, UpdateMaps
<1> QED
  BY <1>1, InitMaps, Typed, OneObjectEach, PTL DEF Spec, LifeSpec, Life!LifeSpec

=============================================================================
