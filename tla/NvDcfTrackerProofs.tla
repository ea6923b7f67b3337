------------------------- MODULE NvDcfTrackerProofs -------------------------
(***************************************************************************)
(* Proofs about NvDcfTracker, for every number of slots and targets and    *)
(* every setting of the ages: slots have one owner, filters are their      *)
(* target's own, unseen targets end, and ids live as TrackLife says.       *)
(***************************************************************************)
EXTENDS NvDcfTracker, FiniteSetTheorems, TLAPS

\* What bounds the frames without a detection: the frames since the filter last
\* carried the target, and a whole shadow age for every time it did.
AgesBounded ==
  \A i \in Live :
    /\ targets[i].shadowAge <= MaxShadow /\ targets[i].visualAge <= MaxVisualOnly
    /\ targets[i].unseen <= targets[i].visualAge * (MaxShadow + 1) + targets[i].shadowAge

Inv == TypeOK /\ SlotOwner /\ FilterOwn /\ AgesBounded

\* What a frame does to the targets that were there before it, which of them
\* end, and the targets after it.
Up(matched, found) == [i \in Live |-> Updated(i, matched, Bridged(matched, found))]
DeadOf(matched, found) == {i \in Live : Dead(Up(matched, found)[i])}
EndedSlots(matched, found) == {Up(matched, found)[i].slot : i \in DeadOf(matched, found)}
Now(matched, found, new, give) ==
  [i \in (Live \ DeadOf(matched, found)) \cup new |->
     IF i \in new THEN Created(give[i]) ELSE Up(matched, found)[i]]

\* The context of one call of update().
Frame(frame, matched, found, new, give) ==
  /\ frame \in BOOLEAN /\ matched \in SUBSET Live /\ found \in SUBSET Live
  /\ \E last \in nextId - 1 .. MaxId : new = nextId .. last
  /\ give \in [new -> freeSlots]
  /\ Update(frame, matched, found, new, give)

\* What a call does: now are the targets before the filters learn, dead those
\* that end.
Effect(frame, matched, found, new, give, now, dead) ==
  /\ frame \in BOOLEAN /\ matched \subseteq Live /\ found \subseteq Live
  /\ dead \subseteq Live /\ new \cap Live = {}
  /\ nextId' \in nextId .. MaxId + 1 /\ new = nextId .. nextId' - 1
  /\ DOMAIN now = (Live \ dead) \cup new
  /\ \A i \in DOMAIN now : now[i] \in Target
  /\ \A i \in Live \ dead : /\ now[i] = Updated(i, matched, Bridged(matched, found))
                            /\ now[i].slot = targets[i].slot
                            /\ now[i].needsInit = targets[i].needsInit
                            /\ ~Dead(now[i])
  /\ \A i \in dead : Dead(Updated(i, matched, Bridged(matched, found)))
  /\ \A i \in new : now[i] = Created(give[i]) /\ give[i] \in freeSlots
  /\ \A i, j \in new : i # j => give[i] # give[j]
  /\ freeSlots' = (freeSlots \ {give[i] : i \in new}) \cup {targets[i].slot : i \in dead}
  /\ Filters(frame, now, {targets[i].slot : i \in dead})
  /\ shown' = {i \in matched : Confirmed(Updated(i, matched, Bridged(matched, found)))}
                 \cup Bridged(matched, found)
  /\ Live' = DOMAIN now
  /\ \A i \in Live' :
       /\ targets'[i].slot = now[i].slot /\ targets'[i].state = now[i].state
       /\ targets'[i].shadowAge = now[i].shadowAge
       /\ targets'[i].visualAge = now[i].visualAge
       /\ targets'[i].unseen = now[i].unseen
       /\ targets'[i].needsInit = (now[i].needsInit /\ ~frame)
  /\ targets' \in [Live' -> Target]

-----------------------------------------------------------------------------

\* Ids below the next id stay below it.
LEMMA IntervalGrows ==
  ASSUME NEW a \in Int, NEW b \in Int, 1 <= a, a <= b
  PROVE  1 .. a - 1 \subseteq 1 .. b - 1 /\ a .. b - 1 \subseteq 1 .. b - 1
OBVIOUS

\* An id below the next one is an id.
LEMMA IdsBelow ==
  ASSUME NEW m \in Nat, NEW b \in 1 .. m + 1
  PROVE  \A i \in 1 .. b - 1 : i \in 1 .. m /\ ~(i >= b)
OBVIOUS

\* Updating one target keeps its type, its slot and its filter, and a target
\* that is confirmed stays so.
LEMMA UpdatedTarget ==
  ASSUME TypeOK, NEW i \in Live, NEW matched, NEW bridged
  PROVE  LET u == Updated(i, matched, bridged) IN
         /\ u \in Target /\ u.slot = targets[i].slot /\ u.needsInit = targets[i].needsInit
         /\ Confirmed(targets[i]) => Confirmed(u)
         /\ u.state = "active" => i \in matched \/ i \in bridged
<1> DEFINE t == targets[i]
           o == Older(t)
<1>1. t \in Target
  BY DEF TypeOK
<1>2. o \in Target /\ o.slot = t.slot /\ o.needsInit = t.needsInit /\ o.state = t.state
  BY <1>1 DEF Older, Target
<1> HIDE DEF o
<1>0. /\ o.shadowAge + 1 \in Nat /\ o.visualAge + 1 \in Nat /\ o.unseen + 1 \in Nat
      /\ o.state \in {"tentative", "active", "shadow"}
  BY <1>2 DEF Target
<1>3. /\ Matched(o) \in Target /\ Matched(o).slot = o.slot
      /\ Matched(o).needsInit = o.needsInit
      /\ Confirmed(o) => Confirmed(Matched(o))
  BY <1>2 DEF Matched, Confirmed, Target
<1>4. /\ Carried(o) \in Target /\ Carried(o).slot = o.slot
      /\ Carried(o).needsInit = o.needsInit
      /\ Confirmed(Carried(o))
  BY <1>2, <1>0 DEF Carried, Confirmed, Target
<1>5. /\ Missed(o) \in Target /\ Missed(o).slot = o.slot
      /\ Missed(o).needsInit = o.needsInit
      /\ Confirmed(o) => Confirmed(Missed(o))
      /\ Missed(o).state # "active"
  <2>1. CASE Confirmed(o)
    BY <1>2, <1>0, <2>1 DEF Missed, Confirmed, Target
  <2>2. CASE ~Confirmed(o)
    BY <1>2, <1>0, <2>2 DEF Missed, Confirmed, Target
  <2> QED
    BY <2>1, <2>2
<1>6. Updated(i, matched, bridged) =
        IF i \in matched THEN Matched(o) ELSE IF i \in bridged THEN Carried(o) ELSE Missed(o)
  BY DEF Updated, o
<1>7. Confirmed(t) <=> Confirmed(o)
  BY <1>2 DEF Confirmed
<1> HIDE DEF t
<1>8. Updated(i, matched, bridged).slot = t.slot
      /\ Updated(i, matched, bridged).needsInit = t.needsInit
  BY <1>2, <1>3, <1>4, <1>5, <1>6
<1> QED
  BY <1>3, <1>4, <1>5, <1>6, <1>7, <1>8 DEF t

\* What one call does to the ages of a target.
LEMMA UpdatedAges ==
  ASSUME TypeOK, AgesBounded, NEW i \in Live, NEW matched, NEW found \in SUBSET Live
  PROVE  LET u == Updated(i, matched, Bridged(matched, found)) IN
         /\ u.visualAge <= MaxVisualOnly
         /\ u.unseen <= u.visualAge * (MaxShadow + 1) + u.shadowAge
<1> DEFINE t == targets[i]
           o == Older(t)
           b == Bridged(matched, found)
<1>1. /\ t \in Target /\ MaxShadow \in Nat /\ MaxVisualOnly \in Nat
      /\ t.visualAge <= MaxVisualOnly /\ t.shadowAge <= MaxShadow
      /\ t.unseen <= t.visualAge * (MaxShadow + 1) + t.shadowAge
  BY NvDcfAssumption DEF TypeOK, AgesBounded
<1>2. o \in Target /\ o.visualAge = t.visualAge /\ o.shadowAge = t.shadowAge
      /\ o.unseen = t.unseen
  BY <1>1 DEF Older, Target
<1>3. CASE i \in matched
  BY <1>1, <1>2, <1>3 DEF Updated, Matched, Target
<1>4. CASE i \notin matched /\ i \in b
  <2>1. t.visualAge < MaxVisualOnly
    BY <1>4 DEF Bridged
  <2>2. Updated(i, matched, b) = Carried(o)
    BY <1>4 DEF Updated
  <2>3. /\ Carried(o).visualAge = t.visualAge + 1 /\ Carried(o).shadowAge = 0
        /\ Carried(o).unseen = t.unseen + 1
    BY <1>2 DEF Carried, Target
  <2>4. t.unseen + 1 <= (t.visualAge + 1) * (MaxShadow + 1)
    <3> DEFINE m == MaxShadow + 1
    <3>1. (t.visualAge + 1) * m = t.visualAge * m + m
      BY <1>1 DEF Target
    <3> QED
      BY <1>1, <3>1 DEF Target
  <2> QED
    BY <1>1, <2>1, <2>2, <2>3, <2>4 DEF Target
<1>5. CASE i \notin matched /\ i \notin b
  <2>1. Updated(i, matched, b) = Missed(o)
    BY <1>5 DEF Updated
  <2>2. /\ Missed(o).visualAge = t.visualAge /\ Missed(o).shadowAge = t.shadowAge + 1
        /\ Missed(o).unseen = t.unseen + 1
    BY <1>2 DEF Missed, Target
  <2> QED
    BY <1>1, <2>1, <2>2 DEF Target
<1> QED
  BY <1>3, <1>4, <1>5

\* What a call does, for every choice that Next can make.
LEMMA CallEffect ==
  ASSUME TypeOK, NEW frame, NEW matched, NEW found, NEW new, NEW give,
         Frame(frame, matched, found, new, give)
  PROVE  Effect(frame, matched, found, new, give,
                Now(matched, found, new, give), DeadOf(matched, found))
<1> DEFINE bridged == Bridged(matched, found)
           up == Up(matched, found)
           dead == DeadOf(matched, found)
           ended == EndedSlots(matched, found)
           now == Now(matched, found, new, give)
           after(i) == [now[i] EXCEPT !.needsInit = @ /\ ~frame]
<1>1. /\ Create(new, give)
      /\ nextId' = nextId + Cardinality(new)
      /\ freeSlots' = (freeSlots \ {give[i] : i \in new}) \cup ended
      /\ Filters(frame, now, ended)
      /\ targets' = [i \in DOMAIN now |-> after(i)]
      /\ shown' = {i \in matched : Confirmed(up[i])} \cup bridged
  BY DEF Frame, Update, Up, DeadOf, EndedSlots, Now, Release
<1>2. /\ frame \in BOOLEAN /\ matched \subseteq Live /\ found \subseteq Live
      /\ give \in [new -> freeSlots]
  BY DEF Frame
<1>3. new \cap Live = {} /\ nextId' \in nextId .. MaxId + 1 /\ new = nextId .. nextId' - 1
  <2>1. PICK last \in nextId - 1 .. MaxId : new = nextId .. last
    BY DEF Frame
  <2>2. nextId \in 1 .. MaxId + 1 /\ MaxId \in Nat /\ Live \subseteq 1 .. nextId - 1
    BY NvDcfAssumption DEF TypeOK
  <2>3. last \in Int /\ nextId \in Int /\ last >= nextId - 1
    BY <2>1, <2>2
  <2>4. Cardinality(nextId .. last) = IF nextId > last THEN 0 ELSE last - nextId + 1
    BY <2>3, FS_Interval, Zenon
  <2>5. nextId' = last + 1
    BY <1>1, <2>1, <2>3, <2>4
  <2> QED
    BY <2>1, <2>2, <2>5
<1>4. DOMAIN now = (Live \ dead) \cup new /\ dead \subseteq Live
  BY DEF Now, DeadOf
<1>5. \A i \in Live : /\ up[i] = Updated(i, matched, bridged)
                      /\ up[i] \in Target /\ up[i].slot = targets[i].slot
                      /\ up[i].needsInit = targets[i].needsInit
  BY UpdatedTarget DEF Up
<1>6. /\ \A i \in Live \ dead : now[i] = up[i] /\ ~Dead(up[i])
      /\ \A i \in dead : Dead(up[i])
  BY <1>3 DEF Now, DeadOf
<1>7. \A i \in new : now[i] = Created(give[i]) /\ give[i] \in freeSlots
  BY <1>2 DEF Now
<1>8. \A i \in new : now[i] \in Target
  <2>1. \A s \in Slot : Created(s) \in Target
    BY DEF Created, Target
  <2> QED
    BY <1>7, <2>1 DEF TypeOK
<1>9. ended = {targets[i].slot : i \in dead}
  BY <1>4, <1>5 DEF EndedSlots
<1> HIDE DEF bridged, up, dead, ended, now
<1>10. \A i \in DOMAIN now : now[i] \in Target
  BY <1>4, <1>5, <1>6, <1>8
<1>11. \A i \in DOMAIN now :
         /\ after(i) \in Target
         /\ after(i).slot = now[i].slot /\ after(i).state = now[i].state
         /\ after(i).shadowAge = now[i].shadowAge
         /\ after(i).visualAge = now[i].visualAge
         /\ after(i).unseen = now[i].unseen
         /\ after(i).needsInit = (now[i].needsInit /\ ~frame)
  BY <1>2, <1>10 DEF Target
<1> HIDE DEF after
<1>12. Live' = DOMAIN now /\ \A i \in DOMAIN now : targets'[i] = after(i)
  BY <1>1 DEF Live
<1>13. targets' \in [Live' -> Target]
  BY <1>1, <1>11, <1>12
<1>14. \A i \in Live' :
         /\ targets'[i].slot = now[i].slot /\ targets'[i].state = now[i].state
         /\ targets'[i].shadowAge = now[i].shadowAge
         /\ targets'[i].visualAge = now[i].visualAge
         /\ targets'[i].unseen = now[i].unseen
         /\ targets'[i].needsInit = (now[i].needsInit /\ ~frame)
  BY <1>11, <1>12
<1>15. shown' = {i \in matched : Confirmed(Updated(i, matched, bridged))} \cup bridged
  BY <1>1, <1>2, <1>5
<1>16. /\ \A i \in Live \ dead : /\ now[i] = Updated(i, matched, bridged)
                                 /\ now[i].slot = targets[i].slot
                                 /\ now[i].needsInit = targets[i].needsInit
                                 /\ ~Dead(now[i])
       /\ \A i \in dead : Dead(Updated(i, matched, bridged))
  BY <1>4, <1>5, <1>6
<1>17. \A i, j \in new : i # j => give[i] # give[j]
  BY <1>1 DEF Create
<1>18. /\ freeSlots' = (freeSlots \ {give[i] : i \in new}) \cup {targets[i].slot : i \in dead}
       /\ Filters(frame, now, {targets[i].slot : i \in dead})
  BY <1>1, <1>9
<1>19. Effect(frame, matched, found, new, give, now, dead)
  BY <1>2, <1>3, <1>4, <1>7, <1>10, <1>12, <1>13, <1>14, <1>15, <1>16, <1>17, <1>18, Zenon
     DEF Effect, bridged
<1> QED
  BY <1>19 DEF now, dead

-----------------------------------------------------------------------------
(* One call keeps every part of the invariant. *)

\* Every step of the tracker keeps the types.
LEMMA TypeStep ==
  ASSUME TypeOK, NEW frame, NEW matched, NEW found, NEW new, NEW give, NEW now, NEW dead,
         Effect(frame, matched, found, new, give, now, dead)
  PROVE  TypeOK'
<1> DEFINE ended == {targets[i].slot : i \in dead}
           learn(s) == {i \in DOMAIN now :
                          now[i].slot = s /\ (now[i].state = "active" \/ now[i].needsInit)}
<1>1. nextId \in 1 .. MaxId + 1 /\ MaxId \in Nat /\ Live \subseteq 1 .. nextId - 1
  BY NvDcfAssumption DEF TypeOK
<1>2. nextId' \in nextId .. MaxId + 1 /\ new = nextId .. nextId' - 1
  BY DEF Effect
<1>3. DOMAIN now = (Live \ dead) \cup new
  BY DEF Effect
<1>4. Live' = DOMAIN now /\ targets' \in [Live' -> Target]
  BY DEF Effect
<1>5. Live' \subseteq 1 .. nextId' - 1 /\ Live \subseteq 1 .. nextId' - 1
  <2>1. nextId \in Int /\ nextId' \in Int /\ 1 <= nextId /\ nextId <= nextId'
    BY <1>1, <1>2
  <2>2. 1 .. nextId - 1 \subseteq 1 .. nextId' - 1 /\ nextId .. nextId' - 1 \subseteq 1 .. nextId' - 1
    BY <2>1, IntervalGrows
  <2> QED
    BY <1>1, <1>2, <1>3, <1>4, <2>2
<1>6. freeSlots' \subseteq Slot
  <2>1. dead \subseteq Live /\ ended = {targets[i].slot : i \in dead}
    BY DEF Effect
  <2>2. \A i \in Live : targets[i].slot \in Slot
    BY DEF TypeOK, Target
  <2>3. freeSlots' = (freeSlots \ {give[i] : i \in new}) \cup ended
    BY DEF Effect
  <2> HIDE DEF ended
  <2> QED
    BY <2>1, <2>2, <2>3 DEF TypeOK
<1>7. filter' \in [Slot -> SUBSET (1 .. nextId' - 1)]
  <2>1. \A s \in Slot : filter[s] \subseteq 1 .. nextId' - 1
    BY <1>1, <1>2 DEF TypeOK
  <2>2. \A i \in DOMAIN now : now[i].slot \in Slot
    BY DEF Effect, Target
  <2>3. \A i \in DOMAIN now : Learned(i, now[i]) \subseteq 1 .. nextId' - 1
    BY <1>4, <1>5, <2>1, <2>2 DEF Learned
  <2>4. \A s \in Slot :
          filter'[s] = (IF frame /\ learn(s) # {} THEN UNION {Learned(i, now[i]) : i \in learn(s)}
                        ELSE IF s \in ended THEN {} ELSE filter[s])
    BY DEF Effect, Filters
  <2>5. DOMAIN filter' = Slot /\ filter' = [s \in Slot |-> filter'[s]]
    BY DEF Effect, Filters
  <2>6. \A s \in Slot : learn(s) \subseteq DOMAIN now
    OBVIOUS
  <2> HIDE DEF learn, ended
  <2>7. ASSUME NEW s \in Slot
        PROVE  filter'[s] \subseteq 1 .. nextId' - 1
    <3>1. UNION {Learned(i, now[i]) : i \in learn(s)} \subseteq 1 .. nextId' - 1
      BY <2>3, <2>6
    <3> QED
      BY <2>1, <2>4, <3>1
  <2> QED
    BY <2>5, <2>7
<1>8. shown' \subseteq 1 .. nextId' - 1
  <2>1. matched \subseteq Live /\ found \subseteq Live
    BY DEF Effect
  <2>2. shown' \subseteq Live
    BY <2>1 DEF Effect, Bridged
  <2> QED
    BY <1>5, <2>2
<1> HIDE DEF ended
<1>9. nextId' \in 1 .. MaxId + 1
  BY <1>1, <1>2
<1> QED
  BY <1>4, <1>5, <1>6, <1>7, <1>8, <1>9 DEF TypeOK

\* A new target takes a slot that nobody has, and a slot is free again when its
\* target ends.
LEMMA OwnerStep ==
  ASSUME TypeOK, SlotOwner, NEW frame, NEW matched, NEW found, NEW new, NEW give, NEW now, NEW dead,
         Effect(frame, matched, found, new, give, now, dead)
  PROVE  SlotOwner'
<1> DEFINE old == Live \ dead
<1>1. Live' = old \cup new /\ dead \subseteq Live /\ new \cap Live = {}
  BY DEF Effect
<1>2. \A i \in old : targets'[i].slot = targets[i].slot
  BY <1>1 DEF Effect
<1>3. \A i \in new : targets'[i].slot = give[i] /\ give[i] \in freeSlots
  <2>1. \A s : Created(s).slot = s
    BY DEF Created
  <2>2. /\ \A i \in new : now[i] = Created(give[i]) /\ give[i] \in freeSlots
        /\ \A i \in Live' : targets'[i].slot = now[i].slot
    BY DEF Effect
  <2> QED
    BY <1>1, <2>1, <2>2
<1>4. \A i, j \in new : i # j => give[i] # give[j]
  BY DEF Effect, Create
<1>5. freeSlots' = (freeSlots \ {give[i] : i \in new}) \cup {targets[i].slot : i \in dead}
  BY DEF Effect
<1>6. \A i \in Live : targets[i].slot \in Slot /\ targets[i].slot \notin freeSlots
  BY DEF TypeOK, SlotOwner, Target
<1>7. \A i, j \in Live : i # j => targets[i].slot # targets[j].slot
  BY DEF SlotOwner
<1>8. freeSlots \subseteq Slot
  BY DEF TypeOK
<1>9. \A i, j \in Live' : i # j => targets'[i].slot # targets'[j].slot
  BY <1>1, <1>2, <1>3, <1>4, <1>6, <1>7
<1>10. ASSUME NEW s \in freeSlots', NEW i \in Live'
       PROVE  targets'[i].slot # s
  BY <1>1, <1>2, <1>3, <1>5, <1>6, <1>7
<1>11. ASSUME NEW s \in Slot, \A i \in Live' : targets'[i].slot # s
       PROVE  s \in freeSlots'
  <2>1. CASE s \in freeSlots
    BY <1>1, <1>3, <1>5, <1>11, <2>1
  <2>2. CASE s \notin freeSlots
    <3>1. PICK i \in Live : targets[i].slot = s
      BY <2>2 DEF SlotOwner
    <3>2. i \in dead
      BY <1>1, <1>2, <1>11, <3>1
    <3> QED
      BY <1>5, <3>1, <3>2
  <2> QED
    BY <2>1, <2>2
<1> QED
  BY <1>9, <1>10, <1>11 DEF SlotOwner

\* A slot is cleared before it is free, and a filter that starts anew is
\* replaced and not blended.
LEMMA FilterStep ==
  ASSUME TypeOK, SlotOwner, FilterOwn, SlotOwner',
         NEW frame, NEW matched, NEW found, NEW new, NEW give, NEW now, NEW dead,
         Effect(frame, matched, found, new, give, now, dead)
  PROVE  FilterOwn'
<1> DEFINE ended == {targets[i].slot : i \in dead}
           learner(i) == now[i].state = "active" \/ now[i].needsInit
           learn(s) == {i \in DOMAIN now : now[i].slot = s /\ learner(i)}
<1>1. /\ Live' = DOMAIN now /\ DOMAIN now = (Live \ dead) \cup new
      /\ dead \subseteq Live /\ new \cap Live = {}
  BY DEF Effect
<1>2. \A i \in Live' : /\ targets'[i].slot = now[i].slot
                        /\ targets'[i].needsInit = (now[i].needsInit /\ ~frame)
                        /\ now[i].slot \in Slot
  BY <1>1 DEF Effect, Target
<1>3. \A i \in Live \ dead : /\ now[i].slot = targets[i].slot
                               /\ now[i].needsInit = targets[i].needsInit
  BY DEF Effect
<1>4. \A i \in new : now[i].needsInit
  <2>1. \A s : Created(s).needsInit
    BY DEF Created
  <2>2. \A i \in new : now[i] = Created(give[i])
    BY DEF Effect
  <2> QED
    BY <2>1, <2>2
<1>5. \A s \in Slot :
        filter'[s] = (IF frame /\ learn(s) # {} THEN UNION {Learned(i, now[i]) : i \in learn(s)}
                      ELSE IF s \in ended THEN {} ELSE filter[s])
  BY DEF Effect, Filters
<1>6. freeSlots' = (freeSlots \ {give[i] : i \in new}) \cup ended
  BY DEF Effect
<1>7. \A i, j \in Live' : i # j => targets'[i].slot # targets'[j].slot
  BY DEF SlotOwner
<1>8. \A i, j \in Live : i # j => targets[i].slot # targets[j].slot
  BY DEF SlotOwner
<1>9. freeSlots \subseteq Slot /\ \A i \in Live : targets[i].slot \in Slot
  BY DEF TypeOK, Target
<1>10. frame \in BOOLEAN
  BY DEF Effect
<1>11. \A i \in Live' : learn(now[i].slot) = IF learner(i) THEN {i} ELSE {}
  BY <1>1, <1>2, <1>7
<1> HIDE DEF learn, learner
<1>12. ASSUME NEW i \in Live', ~targets'[i].needsInit
       PROVE  filter'[targets'[i].slot] = {i}
  <2> DEFINE s == now[i].slot
  <2>1. s \in Slot /\ targets'[i].slot = s
    BY <1>2
  <2>2. CASE now[i].needsInit
    <3>1. frame /\ learner(i)
      BY <1>2, <1>10, <1>12, <2>2 DEF learner
    <3>2. learn(s) = {i} /\ Learned(i, now[i]) = {i}
      BY <1>11, <2>2, <3>1 DEF Learned
    <3> QED
      BY <1>5, <2>1, <3>1, <3>2
  <2>3. CASE ~now[i].needsInit
    <3>1. i \in Live \ dead /\ ~targets[i].needsInit /\ s = targets[i].slot
      BY <1>1, <1>3, <1>4, <2>3
    <3>2. filter[s] = {i} /\ s \notin ended
      BY <1>1, <1>8, <3>1 DEF FilterOwn
    <3>3. Learned(i, now[i]) = {i}
      BY <2>3, <3>2 DEF Learned
    <3>4. learn(s) = {i} \/ learn(s) = {}
      BY <1>11
    <3>5. CASE learn(s) = {i} /\ frame
      <4>1. UNION {Learned(j, now[j]) : j \in learn(s)} = {i}
        BY <3>3, <3>5
      <4> QED
        BY <1>5, <2>1, <3>5, <4>1
    <3>6. CASE learn(s) = {} \/ ~frame
      BY <1>5, <2>1, <3>2, <3>6
    <3> QED
      BY <3>4, <3>5, <3>6
  <2> QED
    BY <2>2, <2>3
<1>13. ASSUME NEW s \in freeSlots'
       PROVE  filter'[s] = {}
  <2>1. s \in Slot
    BY <1>1, <1>6, <1>9
  <2>2. learn(s) = {}
    <3>1. \A i \in Live' : targets'[i].slot # s
      BY <2>1 DEF SlotOwner
    <3> QED
      BY <1>1, <1>2, <3>1 DEF learn
  <2>3. s \notin ended => filter[s] = {}
    BY <1>6 DEF FilterOwn
  <2> QED
    BY <1>5, <2>1, <2>2, <2>3
<1> QED
  BY <1>12, <1>13 DEF FilterOwn

\* A target whose shadow age is over does not outlive the call.
LEMMA AgesStep ==
  ASSUME TypeOK, AgesBounded, NEW frame, NEW matched, NEW found, NEW new, NEW give, NEW now, NEW dead,
         Effect(frame, matched, found, new, give, now, dead)
  PROVE  AgesBounded'
<1> DEFINE bounded(t) == /\ t.shadowAge <= MaxShadow /\ t.visualAge <= MaxVisualOnly
                         /\ t.unseen <= t.visualAge * (MaxShadow + 1) + t.shadowAge
<1>1. found \in SUBSET Live
  BY DEF Effect
<1>2. MaxShadow \in Nat /\ MaxVisualOnly \in Nat
  BY NvDcfAssumption
<1>3. ASSUME NEW i \in Live \ dead
      PROVE  bounded(now[i])
  <2>1. now[i] = Updated(i, matched, Bridged(matched, found)) /\ ~Dead(now[i])
    BY DEF Effect
  <2>2. now[i] \in Target
    BY DEF Effect
  <2>3. now[i].shadowAge <= MaxShadow
    BY <1>2, <2>1, <2>2 DEF Dead, Target
  <2> QED
    BY <1>1, <2>1, <2>3, UpdatedAges
<1>4. ASSUME NEW i \in new
      PROVE  bounded(now[i])
  <2>1. now[i] = Created(give[i])
    BY DEF Effect
  <2> QED
    BY <1>2, <2>1 DEF Created
<1>5. Live' = (Live \ dead) \cup new
  BY DEF Effect
<1>6. \A i \in Live' : /\ targets'[i].shadowAge = now[i].shadowAge
                        /\ targets'[i].visualAge = now[i].visualAge
                        /\ targets'[i].unseen = now[i].unseen
  BY DEF Effect
<1> QED
  BY <1>3, <1>4, <1>5, <1>6 DEF AgesBounded

-----------------------------------------------------------------------------
(* An invariant of the tracker. *)

LEMMA InvInit == Init => Inv
<1> SUFFICES ASSUME Init
             PROVE  Inv
  OBVIOUS
<1>1. Live = {} /\ nextId = 1 /\ freeSlots = Slot /\ shown = {}
  BY DEF Init, Live
<1>2. filter = [s \in Slot |-> {}] /\ targets = [i \in {} |-> {}]
  BY DEF Init
<1>3. TypeOK
  BY <1>1, <1>2, NvDcfAssumption DEF TypeOK
<1>4. SlotOwner /\ FilterOwn /\ AgesBounded
  BY <1>1, <1>2 DEF SlotOwner, FilterOwn, AgesBounded
<1> QED
  BY <1>3, <1>4 DEF Inv

\* Every step of Next is a call, with some effect.
LEMMA NextIsCall ==
  ASSUME TypeOK, Next
  PROVE  \E frame, matched, found, new, give, now, dead :
           Effect(frame, matched, found, new, give, now, dead)
<1>1. PICK frame \in BOOLEAN, matched \in SUBSET Live, last \in nextId - 1 .. MaxId :
        \E found \in SUBSET Localizable(frame), give \in [nextId .. last -> freeSlots] :
          Update(frame, matched, found, nextId .. last, give)
  BY DEF Next, Claimable
<1>2. PICK found \in SUBSET Localizable(frame), give \in [nextId .. last -> freeSlots] :
        Update(frame, matched, found, nextId .. last, give)
  BY <1>1
<1>3. found \in SUBSET Live
  BY DEF Localizable
<1>4. Frame(frame, matched, found, nextId .. last, give)
  BY <1>2, <1>3 DEF Frame
<1>5. Effect(frame, matched, found, nextId .. last, give,
             Now(matched, found, nextId .. last, give), DeadOf(matched, found))
  BY <1>4, CallEffect
<1> QED
  BY <1>5

LEMMA InvNext == Inv /\ [Next]_vars => Inv'
<1> SUFFICES ASSUME Inv, [Next]_vars
             PROVE  Inv'
  OBVIOUS
<1>1. TypeOK /\ SlotOwner /\ FilterOwn /\ AgesBounded
  BY DEF Inv
<1>2. CASE Next
  <2>1. PICK frame, matched, found, new, give, now, dead :
          Effect(frame, matched, found, new, give, now, dead)
    BY <1>1, <1>2, NextIsCall
  <2>2. TypeOK'
    BY <1>1, <2>1, TypeStep
  <2>3. SlotOwner'
    BY <1>1, <2>1, OwnerStep
  <2>4. FilterOwn'
    BY <1>1, <2>1, <2>3, FilterStep
  <2>5. AgesBounded'
    BY <1>1, <2>1, AgesStep
  <2> QED
    BY <2>2, <2>3, <2>4, <2>5 DEF Inv
<1>3. CASE UNCHANGED vars
  BY <1>1, <1>3 DEF Inv, TypeOK, SlotOwner, FilterOwn, AgesBounded, Live, vars
<1> QED
  BY <1>2, <1>3

LEMMA Invariance == Spec => []Inv
BY InvInit, InvNext, PTL DEF Spec

\* The tracker's tables keep their types: ids are handed out in order up to the
\* next id, and slots and filters are those of the engine.
THEOREM Typed == Spec => []TypeOK
<1>1. Inv => TypeOK
  BY DEF Inv
<1> QED
  BY <1>1, Invariance, PTL

\* Every filter slot belongs to exactly one target or is free, for every number
\* of slots and whatever targets end and start on one frame.
THEOREM SlotsOwned == Spec => []SlotOwner
<1>1. Inv => SlotOwner
  BY DEF Inv
<1> QED
  BY <1>1, Invariance, PTL

\* A filter that is searched with was learned from its own target only, and a
\* free slot remembers nobody.
THEOREM FiltersOwn == Spec => []FilterOwn
<1>1. Inv => FilterOwn
  BY DEF Inv
<1> QED
  BY <1>1, Invariance, PTL

\* Without a detection a target lives for a bounded number of frames, for every
\* setting of the ages.
THEOREM UnseenEnds == Spec => []UnseenBound
<1>1. ASSUME Inv
      PROVE  UnseenBound
  <2> SUFFICES ASSUME NEW i \in Live
               PROVE  targets[i].unseen <= MaxVisualOnly * (MaxShadow + 1) + MaxShadow
    BY DEF UnseenBound
  <2> DEFINE v == targets[i].visualAge
             h == targets[i].shadowAge
             u == targets[i].unseen
             m == MaxShadow + 1
  <2>1. v \in Nat /\ h \in Nat /\ u \in Nat
    BY <1>1 DEF Inv, TypeOK, Target
  <2>2. h <= MaxShadow /\ v <= MaxVisualOnly /\ u <= v * m + h
    BY <1>1 DEF Inv, AgesBounded
  <2>3. MaxVisualOnly \in Nat /\ MaxShadow \in Nat /\ m \in Nat
    BY NvDcfAssumption
  <2> HIDE DEF v, h, u, m
  <2>4. MaxVisualOnly * m = v * m + (MaxVisualOnly - v) * m
    BY <2>1, <2>3
  <2>5. MaxVisualOnly - v \in Nat
    BY <2>1, <2>2, <2>3
  <2>6. (MaxVisualOnly - v) * m \in Nat
    BY <2>3, <2>5
  <2>7. v * m \in Nat
    BY <2>1, <2>3
  <2>8. u <= MaxVisualOnly * m + MaxShadow
    BY <2>1, <2>2, <2>3, <2>4, <2>6, <2>7
  <2> QED
    BY <2>8 DEF u, m
<1> QED
  BY <1>1, Invariance, PTL

-----------------------------------------------------------------------------
(* The tracker keeps the promises of TrackLife. *)

\* Where an id is before and after a call.
LEMMA PhaseOf ==
  ASSUME NEW i \in 1 .. MaxId
  PROVE  LifePhase[i] = IF i >= nextId THEN "unborn"
                        ELSE IF i \notin Live THEN "gone"
                        ELSE IF Confirmed(targets[i]) THEN "confirmed" ELSE "tentative"
BY DEF LifePhase

\* A target that is written on an object has just been matched or carried, so
\* its shadow age is zero and it does not end on the same call.
LEMMA ShownLive ==
  ASSUME TypeOK, NEW frame, NEW matched, NEW found, NEW new, NEW give, NEW now, NEW dead,
         Effect(frame, matched, found, new, give, now, dead)
  PROVE  \A i \in shown' : i \in Live' /\ Confirmed(targets'[i])
<1> SUFFICES ASSUME NEW i \in shown'
             PROVE  i \in Live' /\ Confirmed(targets'[i])
  OBVIOUS
<1> DEFINE b == Bridged(matched, found)
           o == Older(targets[i])
           u == Updated(i, matched, b)
<1>1. /\ matched \subseteq Live /\ found \subseteq Live
      /\ i \in {j \in matched : Confirmed(Updated(j, matched, b))} \/ i \in b
  BY DEF Effect
<1>2. /\ i \in Live
      /\ i \in matched => Confirmed(u)
      /\ i \notin matched => i \in b
  <2>1. b \subseteq found \ matched
    BY DEF Bridged
  <2> HIDE DEF b
  <2> QED
    BY <1>1, <2>1
<1>3. MaxShadow \in Nat
  BY NvDcfAssumption
<1>4. o \in Target
  BY <1>2 DEF TypeOK, Older, Target
<1>5. u.shadowAge = 0 /\ Confirmed(u)
  <2>1. CASE i \in matched
    <3>1. u = Matched(o) /\ Confirmed(u)
      BY <1>2, <2>1 DEF Updated
    <3>2. Matched(o).shadowAge = 0
      BY <1>4 DEF Matched, Target
    <3> QED
      BY <3>1, <3>2
  <2>2. CASE i \notin matched
    <3>1. u = Carried(o)
      BY <1>2, <2>2 DEF Updated
    <3>2. Carried(o).shadowAge = 0 /\ Carried(o).state = "active"
      BY <1>4 DEF Carried, Target
    <3> QED
      BY <3>1, <3>2 DEF Confirmed
  <2> QED
    BY <2>1, <2>2
<1>6. ~Dead(u)
  BY <1>3, <1>5 DEF Dead
<1>7. i \notin dead
  BY <1>6 DEF Effect
<1>8. i \in Live \ dead /\ now[i] = u /\ i \in Live' /\ targets'[i].state = now[i].state
  BY <1>2, <1>7 DEF Effect
<1> QED
  BY <1>5, <1>8 DEF Confirmed

\* One call moves every id along its life.
LEMMA PhaseStep ==
  ASSUME TypeOK, NEW frame, NEW matched, NEW found, NEW new, NEW give, NEW now, NEW dead,
         Effect(frame, matched, found, new, give, now, dead),
         NEW i \in 1 .. MaxId
  PROVE  LifePhase'[i] \in Life!After(LifePhase[i])
<1>1. nextId \in Int /\ nextId' \in Int /\ nextId <= nextId' /\ i \in Int
  BY DEF Effect, TypeOK
<1>2. LifePhase[i] = IF i >= nextId THEN "unborn"
                     ELSE IF i \notin Live THEN "gone"
                     ELSE IF Confirmed(targets[i]) THEN "confirmed" ELSE "tentative"
  BY PhaseOf
<1>3. LifePhase'[i] = IF i >= nextId' THEN "unborn"
                      ELSE IF i \notin Live' THEN "gone"
                      ELSE IF Confirmed(targets'[i]) THEN "confirmed" ELSE "tentative"
  BY DEF LifePhase
<1>4. Live' = (Live \ dead) \cup new
  BY DEF Effect
<1>5. \A k : k \in new <=> k \in Int /\ nextId <= k /\ k < nextId'
  BY <1>1 DEF Effect
<1>6. CASE i >= nextId
  <2>1. LifePhase[i] = "unborn" /\ LifePhase'[i] \in {"unborn", "tentative", "confirmed"}
    BY <1>1, <1>2, <1>3, <1>4, <1>5, <1>6
  <2> QED
    BY <2>1 DEF Life!After, Life!Phase
<1>7. CASE i < nextId /\ i \notin Live
  <2>1. LifePhase[i] = "gone" /\ LifePhase'[i] = "gone"
    BY <1>1, <1>2, <1>3, <1>4, <1>5, <1>7
  <2> QED
    BY <2>1 DEF Life!After
<1>8. CASE i < nextId /\ i \in Live /\ ~Confirmed(targets[i])
  <2>1. LifePhase[i] = "tentative" /\ LifePhase'[i] \in {"tentative", "confirmed", "gone"}
    BY <1>1, <1>2, <1>3, <1>8
  <2> QED
    BY <2>1 DEF Life!After, Life!Phase
<1>9. CASE i < nextId /\ i \in Live /\ Confirmed(targets[i])
  <2>1. LifePhase[i] = "confirmed"
    BY <1>1, <1>2, <1>9
  <2>2. ASSUME i \in Live'
        PROVE  Confirmed(targets'[i])
    <3>1. i \in Live \ dead
      BY <1>1, <1>4, <1>5, <1>9, <2>2
    <3>2. now[i] = Updated(i, matched, Bridged(matched, found))
          /\ targets'[i].state = now[i].state
      BY <2>2, <3>1 DEF Effect
    <3>3. Confirmed(now[i])
      BY <1>9, <3>2, UpdatedTarget
    <3> QED
      BY <3>2, <3>3 DEF Confirmed
  <2>3. LifePhase'[i] \in {"confirmed", "gone"}
    BY <1>1, <1>3, <1>9, <2>2
  <2> QED
    BY <2>1, <2>3 DEF Life!After
<1> QED
  BY <1>1, <1>6, <1>7, <1>8, <1>9

LEMMA LifeStep == TypeOK /\ TypeOK' /\ [Next]_vars => [Life!NextFrame]_(Life!lifeVars)
<1> SUFFICES ASSUME TypeOK, TypeOK', [Next]_vars
             PROVE  [Life!NextFrame]_(Life!lifeVars)
  OBVIOUS
<1>1. CASE Next
  <2>1. PICK frame, matched, found, new, give, now, dead :
          Effect(frame, matched, found, new, give, now, dead)
    BY <1>1, NextIsCall
  <2>2. \A i \in 1 .. MaxId : LifePhase'[i] \in Life!After(LifePhase[i])
    BY <2>1, PhaseStep
  <2>3. LifePhase' \in [1 .. MaxId -> Life!Phase]
    BY DEF LifePhase, Life!Phase
  <2>4. \A i, j \in 1 .. MaxId : i < j /\ LifePhase'[i] = "unborn" => LifePhase'[j] = "unborn"
    <3>1. nextId' \in Int
      BY DEF TypeOK
    <3>2. \A i \in 1 .. MaxId : LifePhase'[i] = "unborn" <=> i >= nextId'
      BY DEF LifePhase
    <3> QED
      BY <3>1, <3>2
  <2>5. shown' \in SUBSET {i \in 1 .. MaxId : LifePhase'[i] = "confirmed"}
    <3>1. \A i \in shown' : i \in Live' /\ Confirmed(targets'[i])
      BY <2>1, ShownLive
    <3>2. Live' \subseteq 1 .. nextId' - 1 /\ nextId' \in 1 .. MaxId + 1 /\ MaxId \in Nat
      BY NvDcfAssumption DEF TypeOK
    <3>3. \A i \in Live' : i \in 1 .. MaxId /\ ~(i >= nextId')
      BY <3>2, IdsBelow
    <3>4. \A i \in 1 .. MaxId : i \in Live' /\ ~(i >= nextId') /\ Confirmed(targets'[i])
                                => LifePhase'[i] = "confirmed"
      BY DEF LifePhase
    <3> QED
      BY <3>1, <3>3, <3>4
  <2> QED
    BY <2>2, <2>3, <2>4, <2>5 DEF Life!NextFrame, Life!Id
<1>2. CASE UNCHANGED vars
  BY <1>2 DEF vars, Life!lifeVars, LifePhase, Live
<1> QED
  BY <1>1, <1>2

\* Ids are handed out in order and never again, a confirmed target stays
\* confirmed as long as it lives, and only confirmed ids are on objects.
THEOREM LifeRefined == Spec => LifeSpec
<1>1. Init => Life!LifeInit
  <2> SUFFICES ASSUME Init
               PROVE  Life!LifeInit
    OBVIOUS
  <2>1. nextId = 1 /\ shown = {}
    BY DEF Init
  <2>2. \A i \in 1 .. MaxId : i >= nextId
    BY <2>1, NvDcfAssumption
  <2>3. LifePhase = [i \in 1 .. MaxId |-> "unborn"]
    BY <2>2 DEF LifePhase
  <2> QED
    BY <2>1, <2>3 DEF Life!LifeInit, Life!Id
<1> QED
  BY <1>1, LifeStep, Typed, PTL DEF Spec, LifeSpec, Life!LifeSpec

=============================================================================
