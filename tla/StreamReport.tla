---------------------------- MODULE StreamReport ----------------------------
(***************************************************************************)
(* What the reporter of a stream (on_event) may rely on, for each time the *)
(* stream was started: the order of its lifecycle events, and that it      *)
(* gives up when, and only when, the retries of a cycle are used up.       *)
(***************************************************************************)
EXTENDS Integers

CONSTANTS
  Worker,      \* starts of streams
  File,        \* the ones whose source has an end
  MaxRetries   \* RetryPolicy.max_retries

VARIABLES
  said,        \* the last lifecycle event
  tries,       \* reattachments of the current cycle
  over         \* no event will follow

vars == <<said, tries, over>>

Init ==
  /\ said = [w \in Worker |-> "nothing"]
  /\ tries = [w \in Worker |-> 0]
  /\ over = [w \in Worker |-> FALSE]

Say(w, event) ==
  /\ ~over[w]
  /\ said' = [said EXCEPT ![w] = event]

Attempt(w) ==
  /\ said[w] \in {"nothing", "reconnecting"}
  /\ Say(w, "connecting")
  /\ UNCHANGED <<tries, over>>

Up(w) ==
  /\ said[w] = "connecting"
  /\ Say(w, "connected")
  /\ UNCHANGED <<tries, over>>

Down(w) ==
  /\ said[w] \in {"connecting", "connected"}
  /\ Say(w, "disconnected")
  /\ UNCHANGED <<tries, over>>

\* A long attempt starts a new cycle of retries.
Retry(w) ==
  /\ said[w] = "disconnected"
  /\ tries' = [tries EXCEPT ![w] = @ + 1] \/ tries' = [tries EXCEPT ![w] = 1]
  /\ tries'[w] <= MaxRetries
  /\ Say(w, "reconnecting")
  /\ UNCHANGED over

GiveUp(w) ==
  /\ said[w] = "disconnected"
  /\ tries[w] = MaxRetries \/ MaxRetries = 0
  /\ Say(w, "gave_up")
  /\ over' = [over EXCEPT ![w] = TRUE]
  /\ UNCHANGED tries

Eof(w) ==
  /\ w \in File /\ said[w] = "connected"
  /\ Say(w, "eof")
  /\ over' = [over EXCEPT ![w] = TRUE]
  /\ UNCHANGED tries

\* The stream was stopped.
Silence(w) ==
  /\ ~over[w]
  /\ over' = [over EXCEPT ![w] = TRUE]
  /\ UNCHANGED <<said, tries>>

Next == \E w \in Worker :
  \/ Attempt(w) \/ Up(w) \/ Down(w) \/ Retry(w) \/ GiveUp(w) \/ Eof(w) \/ Silence(w)

Spec == Init /\ [][Next]_vars

=============================================================================
