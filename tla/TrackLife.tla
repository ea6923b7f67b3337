----------------------------- MODULE TrackLife ------------------------------
(***************************************************************************)
(* What every tracker of avap promises to the code behind it (the          *)
(* TrackerProtocol of tracker.py): the life of a track id.                 *)
(*                                                                         *)
(* Ids are handed out in order, an id that is gone never comes back, a     *)
(* confirmed track stays confirmed as long as it lives, and only ids of    *)
(* confirmed tracks are written on the objects of a frame.                 *)
(***************************************************************************)
EXTENDS Naturals

CONSTANT MaxId   \* bound: ids one tracker hands out

Id == 1 .. MaxId
Phase == {"unborn", "tentative", "confirmed", "gone"}

VARIABLES
  phase,  \* where every id is in its life
  shown   \* the ids on the objects of the last frame

lifeVars == <<phase, shown>>

\* The phases that may follow one.
After(p) ==
  CASE p = "unborn" -> Phase \ {"gone"}
    [] p = "tentative" -> Phase \ {"unborn"}
    [] p = "confirmed" -> {"confirmed", "gone"}
    [] p = "gone" -> {"gone"}

LifeInit ==
  /\ phase = [i \in Id |-> "unborn"]
  /\ shown = {}

\* One frame.
NextFrame ==
  /\ phase' \in [Id -> Phase]
  /\ \A i \in Id : phase'[i] \in After(phase[i])
  /\ \A i, j \in Id : i < j /\ phase'[i] = "unborn" => phase'[j] = "unborn"
  /\ shown' \in SUBSET {i \in Id : phase'[i] = "confirmed"}

LifeSpec == LifeInit /\ [][NextFrame]_lifeVars

=============================================================================
