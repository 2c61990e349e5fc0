------------------------------ MODULE EventLog ------------------------------
(***************************************************************************)
(* The append-only tables of stream.go and notify.go and the signal that   *)
(* follows a commit.  _ganso_stream keeps every event; a transaction that  *)
(* publishes one inserts a row of _ganso_notifications too, under the      *)
(* stream's channel; PruneNotifications deletes the oldest of those.       *)
(* _ganso_stream_consumers keeps the offset each named consumer saved.     *)
(*                                                                         *)
(* A topic stands for the channel of its stream as well.  Statements and   *)
(* transactions are atomic; one that fails or rolls back changes nothing,  *)
(* not even the next id.                                                   *)
(***************************************************************************)
EXTENDS Integers, Sequences, FiniteSets

CONSTANTS
    Topic,      \* streams, and channels
    Consumer,   \* consumers: a name and a topic
    Reader,     \* those who subscribe to the watcher
    MaxKeep,    \* PruneOption: rows kept
    MaxEvents,  \* bound: events published
    MaxNotes    \* bound: notifications inserted

ASSUME LogAssumption == MaxKeep \in Nat /\ MaxEvents \in Nat /\ MaxNotes \in Nat

VARIABLES
    stream,      \* _ganso_stream: the topic of the event at each offset
    notes,       \* _ganso_notifications
    noteSeq,     \* the last id given (AUTOINCREMENT)
    offsets,     \* _ganso_stream_consumers
    subscribed,  \* the watcher's subs
    unseen,      \* there were commits since the watcher last looked
    token        \* the readers with a token in their channel

tables == <<stream, notes, noteSeq, offsets>>
watcherVars == <<subscribed, unseen, token>>
logVars == <<tables, watcherVars>>

Note == [id : Nat, channel : Topic]

LogTypeOK ==
    /\ stream \in Seq(Topic) /\ Len(stream) <= MaxEvents
    /\ notes \subseteq Note
    /\ noteSeq \in Nat
    /\ offsets \in [Consumer -> Nat]
    /\ subscribed \subseteq Reader
    /\ unseen \in BOOLEAN
    /\ token \subseteq Reader

LogInit ==
    /\ stream = <<>>
    /\ notes = {} /\ noteSeq = 0
    /\ offsets = [c \in Consumer |-> 0]
    /\ subscribed = {} /\ unseen = FALSE /\ token = {}

NextIdReused ==                                    \* faulty: no AUTOINCREMENT
    CHOOSE i \in 1..noteSeq + 1 :
        \A n \in notes : n.id < i /\ (i > 1 => \E m \in notes : m.id = i - 1)

NextId == noteSeq + 1

(* INSERT INTO _ganso_notifications. *)
Insert(channel) ==
    /\ noteSeq < MaxNotes
    /\ notes' = notes \cup {[id |-> NextId, channel |-> channel]}
    /\ noteSeq' = noteSeq + 1

(* Stream.Publish, or PublishTx and the commit of its transaction. *)
Publish(topic) ==
    /\ Len(stream) < MaxEvents
    /\ stream' = Append(stream, topic)
    /\ Insert(topic)
    /\ unseen' = TRUE
    /\ UNCHANGED <<offsets, subscribed, token>>

(* Tx.Notify or NotifyReturningID, and the commit. *)
Notify(channel) ==
    /\ Insert(channel)
    /\ unseen' = TRUE
    /\ UNCHANGED <<stream, offsets, subscribed, token>>

Newest(k, S) == {n \in S : Cardinality({m \in S : m.id > n.id}) < k}

(* PruneNotifications: first what is too old, then, over all channels,     *)
(* what exceeds the rows to keep; olderThan and maxKeep of zero skip it.   *)
(* created_at grows with the id.                                           *)
PruneNotifications ==
    /\ \E old \in 0..noteSeq :
          LET young == {n \in notes : n.id > old}
          IN  notes' = IF MaxKeep > 0 THEN Newest(MaxKeep, young) ELSE young
    /\ notes' # notes
    /\ unseen' = TRUE
    /\ UNCHANGED <<stream, noteSeq, offsets, subscribed, token>>

(* The watcher sees the commits: a token for every subscriber that has     *)
(* none.                                                                   *)
Signal ==
    /\ unseen
    /\ unseen' = FALSE
    /\ token' = token \cup subscribed
    /\ UNCHANGED <<tables, subscribed>>

(* SaveOffset's upsert, or its failure, which its callers drop.            *)
Larger(a, b) == IF a > b THEN a ELSE b

SaveOffset(consumer, offset) ==
    /\ \/ /\ offsets' = [offsets EXCEPT ![consumer] = Larger(offset, @)]
          /\ unseen' = TRUE
       \/ UNCHANGED <<offsets, unseen>>
    /\ UNCHANGED <<stream, notes, noteSeq>>

=============================================================================
