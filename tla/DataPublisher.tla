--------------------------- MODULE DataPublisher ---------------------------
(***************************************************************************)
(* DataPublisher of avap (advanced/publisher.py): a bounded queue, one     *)
(* worker thread that sorts records into per-source batches, and flushes   *)
(* by that worker, by unregister_source and by disable.                    *)
(*                                                                         *)
(* A camera is registered at most once, so it names its _BatchSource.  A   *)
(* flush reads the batch (json.dumps) and replaces it in two steps: other  *)
(* threads run in between.  A list of records is the set of its records.   *)
(* Only the worker takes from the queue, so its loop test, the get and the *)
(* look-up of the index are one step: a get before its look-up only leaves *)
(* the queue with one more place meanwhile.                                *)
(* Left out: what a transport does (an error only decides which counter    *)
(* grows) and the payload's text.                                          *)
(***************************************************************************)
EXTENDS Integers, Sequences, FiniteSets

CONSTANTS
  Camera,      \* the cameras; one registration each
  Record,      \* the records that may be published
  QueueSize,   \* max_size
  BatchLimit   \* batch_size of every source

ASSUME PublisherAssumption ==
  /\ QueueSize \in Nat \ {0} /\ BatchLimit \in Nat \ {0}

Index == Nat
NoIndex == -1

\* The threads that flush.
Thread == {"worker", "control", "main"}

VARIABLES
  reg,       \* DataPublisher._sources: the index of every registered camera
  queue,     \* DataPublisher._queue: pairs of an index and a record
  records,   \* _BatchSource.records
  pub,       \* where the worker is
  hand,      \* the record it took and has not appended yet
  target,    \* the batch a thread is flushing, at most one
  payload,   \* what it read of it
  pubStop,   \* DataPublisher._stop
  accepted,  \* history: the records the queue took
  sent       \* history: how often a record was handed to the transport

pubVars == <<reg, queue, records, pub, hand, target, payload, pubStop, accepted, sent>>

PubInit ==
  /\ reg = [c \in Camera |-> NoIndex]
  /\ queue = <<>>
  /\ records = [c \in Camera |-> {}]
  /\ pub = "off" /\ hand = {} /\ pubStop = FALSE
  /\ target = [t \in Thread |-> {}]
  /\ payload = [t \in Thread |-> {}]
  /\ accepted = {}
  /\ sent = [r \in Record |-> 0]

Registered == {c \in Camera : reg[c] # NoIndex}

-----------------------------------------------------------------------------
(* _flush, in two steps. *)

\* An empty batch is not sent; otherwise it is read.
ReadBatch(t, c, batch) ==
  /\ payload' = [payload EXCEPT ![t] = batch]
  /\ target' = [target EXCEPT ![t] = IF batch = {} THEN {} ELSE {c}]

\* Fault: the batch is not replaced by an empty one.
SwapAndSend_Keeps(t) ==
  /\ target[t] # {}
  /\ UNCHANGED records
  /\ sent' = [r \in Record |-> IF r \in payload[t] THEN sent[r] + 1 ELSE sent[r]]
  /\ payload' = [payload EXCEPT ![t] = {}]
  /\ target' = [target EXCEPT ![t] = {}]

\* The batch is emptied, whatever it holds by now, and what was read is sent.
SwapAndSend(t) ==
  /\ target[t] # {}
  /\ records' = [c \in Camera |-> IF c \in target[t] THEN {} ELSE records[c]]
  /\ sent' = [r \in Record |-> IF r \in payload[t] THEN sent[r] + 1 ELSE sent[r]]
  /\ payload' = [payload EXCEPT ![t] = {}]
  /\ target' = [target EXCEPT ![t] = {}]

-----------------------------------------------------------------------------
(* The worker. *)

\* The next record; one whose index has no source is dropped.
Take ==
  /\ pub = "loop" /\ queue # <<>>
  /\ queue' = Tail(queue)
  /\ LET found == {c \in Camera : reg[c] = Head(queue)[1]} IN
     IF found = {} THEN UNCHANGED <<pub, hand, target>>
     ELSE /\ pub' = "holding"
          /\ hand' = {Head(queue)[2]}
          /\ target' = [target EXCEPT !["worker"] = found]
  /\ UNCHANGED <<reg, records, payload, pubStop, accepted, sent>>

AppendRecord ==
  /\ pub = "holding"
  /\ pub' = "appended" /\ hand' = {}
  /\ \E c \in target["worker"] : records' = [records EXCEPT ![c] = @ \cup hand]
  /\ UNCHANGED <<reg, queue, target, payload, pubStop, accepted, sent>>

\* batch_size or batch_timeout starts a flush of what the batch holds by now.
ShouldFlush ==
  /\ pub = "appended"
  /\ \E c \in target["worker"] :
       \/ records[c] # {} /\ pub' = "flushing" /\ ReadBatch("worker", c, records[c])
       \/ /\ Cardinality(records[c]) < BatchLimit
          /\ pub' = "loop" /\ ReadBatch("worker", c, {})
  /\ UNCHANGED <<reg, queue, records, hand, pubStop, accepted, sent>>

WorkerFlush ==
  /\ pub = "flushing"
  /\ SwapAndSend("worker")
  /\ pub' = "loop"
  /\ UNCHANGED <<reg, queue, hand, pubStop, accepted>>

\* Fault: a stop ends the worker with records in the queue.
Leave_Undrained ==
  /\ pub = "loop" /\ pubStop
  /\ pub' = "ended"
  /\ UNCHANGED <<reg, queue, records, hand, target, payload, pubStop, accepted, sent>>

\* while not self._stop.is_set() or not self._queue.empty()
Leave ==
  /\ pub = "loop" /\ pubStop /\ queue = <<>>
  /\ pub' = "ended"
  /\ UNCHANGED <<reg, queue, records, hand, target, payload, pubStop, accepted, sent>>

WorkerStep == Take \/ AppendRecord \/ ShouldFlush \/ WorkerFlush \/ Leave

-----------------------------------------------------------------------------
(* The calls of the pipeline. *)

\* register_source
Register(c, i) ==
  /\ reg' = [reg EXCEPT ![c] = i]
  /\ UNCHANGED <<queue, records, pub, hand, target, payload, pubStop, accepted, sent>>

\* unregister_source: a flush, and then the entry goes.
UnregisterFlush(c) ==
  /\ ReadBatch("control", c, records[c])
  /\ UNCHANGED <<reg, queue, records, pub, hand, pubStop, accepted, sent>>

ControlFlush ==
  /\ SwapAndSend("control")
  /\ UNCHANGED <<reg, queue, pub, hand, pubStop, accepted>>

Unregister(c) ==
  /\ target["control"] = {}
  /\ reg' = [reg EXCEPT ![c] = NoIndex]
  /\ UNCHANGED <<queue, records, pub, hand, target, payload, pubStop, accepted, sent>>

\* enable
Enable ==
  /\ pub' = "loop" /\ pubStop' = FALSE
  /\ UNCHANGED <<reg, queue, records, hand, target, payload, accepted, sent>>

\* publish: never waits; a full queue drops the record.
Publish(i, r) ==
  /\ IF Len(queue) < QueueSize
     THEN queue' = Append(queue, <<i, r>>) /\ accepted' = accepted \cup {r}
     ELSE UNCHANGED <<queue, accepted>>
  /\ UNCHANGED <<reg, records, pub, hand, target, payload, pubStop, sent>>

\* disable: the flag, and after the join one flush per source.
Disable ==
  /\ pubStop' = TRUE
  /\ UNCHANGED <<reg, queue, records, pub, hand, target, payload, accepted, sent>>

FinalFlush(c) ==
  /\ target["main"] = {}
  /\ ReadBatch("main", c, records[c])
  /\ UNCHANGED <<reg, queue, records, pub, hand, pubStop, accepted, sent>>

MainFlush ==
  /\ SwapAndSend("main")
  /\ UNCHANGED <<reg, queue, pub, hand, pubStop, accepted>>

-----------------------------------------------------------------------------
PubTypeOK ==
  /\ reg \in [Camera -> Index \cup {NoIndex}]
  /\ queue \in Seq(Index \X Record) /\ Len(queue) <= QueueSize
  /\ records \in [Camera -> SUBSET Record]
  /\ pub \in {"off", "loop", "holding", "appended", "flushing", "ended"}
  /\ hand \subseteq Record
  /\ target \in [Thread -> SUBSET Camera] /\ payload \in [Thread -> SUBSET Record]
  /\ pubStop \in BOOLEAN /\ accepted \subseteq Record
  /\ sent \in [Record -> Nat]

=============================================================================
