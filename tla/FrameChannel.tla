---------------------------- MODULE FrameChannel ----------------------------
(***************************************************************************)
(* What the batch former promises to the consumer of its batches, whatever *)
(* the policy: each source is an ordered channel, lossy or not, closed by  *)
(* an end mark that comes after its last frame, and the end of the whole   *)
(* stream is announced exactly when every source has ended.                *)
(***************************************************************************)
EXTENDS Integers

CONSTANTS
  Source,     \* sources
  MaxFrames,  \* bound: frames of one source
  Lossless    \* TRUE when no frame may be dropped

VARIABLES
  offered,    \* frames each source has offered
  held,       \* frames offered and not yet out
  out,        \* frames the consumer has
  ended,      \* sources whose end mark the consumer has
  finished    \* the end of the whole stream

vars == <<offered, held, out, ended, finished>>

Init ==
  /\ offered = [s \in Source |-> 0]
  /\ held = {} /\ out = {} /\ ended = {} /\ finished = FALSE

Offer(s) ==
  /\ s \notin ended /\ offered[s] < MaxFrames
  /\ offered' = [offered EXCEPT ![s] = @ + 1]
  /\ held' = held \cup {<<s, offered'[s]>>}
  /\ UNCHANGED <<out, ended, finished>>

\* Some held frames are dropped.
Drop ==
  /\ ~Lossless
  /\ \E F \in (SUBSET held) \ {{}} : held' = held \ F
  /\ UNCHANGED <<offered, out, ended, finished>>

\* A batch, possibly empty, and end marks: of every source the oldest held
\* frames, and an end mark only when nothing of the source is left.
Deliver ==
  \E B \in SUBSET held, E \in SUBSET Source :
    /\ \A f \in B, g \in held \ B : f[1] = g[1] => f[2] < g[2]
    /\ \A g \in held \ B : g[1] \notin E
    /\ held' = held \ B
    /\ out' = out \cup B
    /\ ended' = ended \cup E
    /\ finished' = (finished \/ ended' = Source)
    /\ UNCHANGED offered

Next == Drop \/ Deliver \/ \E s \in Source : Offer(s)

Spec == Init /\ [][Next]_vars

=============================================================================
