------------------------------ MODULE Readers -------------------------------
(***************************************************************************)
(* Those who read the logs: the goroutine of Stream.Subscribe with the     *)
(* program that receives from its channel, and the Listener of notify.go   *)
(* with the program that calls its Next in a loop.  Both subscribe to the  *)
(* watcher first, then find their position, then read what lies beyond it  *)
(* until there is nothing left and sleep; a Listener sleeps on a timer as  *)
(* well, a subscription does not.                                          *)
(***************************************************************************)
EXTENDS EventLog

CONSTANTS
    Crews,        \* sets of readers to look at together
    Listeners,    \* the readers that are Listeners; others are subscriptions
    topicOf,      \* the stream or channel of each reader
    consumerOf,   \* the consumer a subscription resumes as
    NoConsumer,   \* of a subscription without a name
    Starts,       \* values of FromOffset
    BatchSize,    \* batchSize
    Capacity,     \* slots of a subscription's channel
    SaveEveryN,   \* subscribeConfig.saveEveryN
    MaxOpens      \* bound: readers opened

ASSUME ReaderAssumption ==
    /\ \A crew \in Crews : crew \subseteq Reader
    /\ Listeners \subseteq Reader
    /\ topicOf \in [Reader -> Topic]
    /\ consumerOf \in [Reader -> Consumer \cup {NoConsumer}]
    /\ NoConsumer \notin Consumer
    /\ \A q, r \in Reader : consumerOf[q] = consumerOf[r] /\ consumerOf[r] \in Consumer
                           => topicOf[q] = topicOf[r]
    /\ Starts \subseteq Nat
    /\ BatchSize \in Nat \ {0}
    /\ Capacity \in Nat
    /\ SaveEveryN \in Nat
    /\ MaxOpens \in Nat

VARIABLES
    crew,      \* the readers of this behaviour
    at,        \* where each is
    cursor,    \* cursor, or the Listener's lastID
    batch,     \* events read and not yet sent
    full,      \* the batch read was a full one
    chan,      \* events in the subscription's channel
    unsaved,   \* eventsSinceSave
    ended,     \* those whose context is cancelled or whose Close was called
    start,     \* history: the position found at the beginning
    got,       \* history: offsets or ids the program received since then
    covered,   \* history: offsets sent to a consumer, or passed by FromOffset
    opens      \* readers opened so far

buffers == <<batch, full, chan, unsaved>>
history == <<start, got, covered>>
readerVars == <<crew, at, cursor, buffers, ended, history, opens>>
vars == <<logVars, readerVars>>

Places == {"out", "resolving", "reading", "sending", "saving", "waiting",
           "closing", "listening", "idle", "polling"}

Named(r) == consumerOf[r] # NoConsumer

TypeOK ==
    /\ LogTypeOK
    /\ crew \in Crews
    /\ at \in [Reader -> Places]
    /\ cursor \in [Reader -> Nat] /\ start \in [Reader -> Nat]
    /\ batch \in [Reader -> SUBSET Nat]
    /\ chan \in [Reader -> Seq(Nat)] /\ got \in [Reader -> Seq(Nat)]
    /\ \A r \in Reader : Len(chan[r]) <= Capacity
    /\ full \in [Reader -> BOOLEAN]
    /\ unsaved \in [Reader -> Nat]
    /\ ended \subseteq Reader
    /\ covered \in [Consumer -> SUBSET Nat]
    /\ opens \in 0..MaxOpens

Init ==
    /\ LogInit
    /\ crew \in Crews
    /\ at = [r \in Reader |-> "out"]
    /\ cursor = [r \in Reader |-> 0] /\ start = [r \in Reader |-> 0]
    /\ batch = [r \in Reader |-> {}]
    /\ chan = [r \in Reader |-> <<>>] /\ got = [r \in Reader |-> <<>>]
    /\ full = [r \in Reader |-> FALSE]
    /\ unsaved = [r \in Reader |-> 0]
    /\ ended = {}
    /\ covered = [c \in Consumer |-> {}]
    /\ opens = 0

Goes(r, place) == at' = [at EXCEPT ![r] = place]

Moves(r, position) == cursor' = [cursor EXCEPT ![r] = position]

(* A reader begins: first of all it subscribes to the watcher. *)
Opens(r, position) ==
    /\ at[r] = "out" /\ opens < MaxOpens
    /\ opens' = opens + 1
    /\ subscribed' = subscribed \cup {r}
    /\ token' = token \ {r}
    /\ ended' = ended \ {r}
    /\ Moves(r, position)
    /\ start' = [start EXCEPT ![r] = position]
    /\ got' = [got EXCEPT ![r] = <<>>]

(* It ends and unsubscribes. *)
Leaves(r) ==
    /\ Goes(r, "out")
    /\ subscribed' = subscribed \ {r}

(* The position it found. *)
Begins(r, position) ==
    /\ Moves(r, position)
    /\ start' = [start EXCEPT ![r] = position]

-----------------------------------------------------------------------------
(* Stream.Subscribe. *)

Covers(r, S) ==
    covered' = IF Named(r) THEN [covered EXCEPT ![consumerOf[r]] = @ \cup S]
               ELSE covered

(* What the last subscription left in its channel is gone. *)
Subscribe(r) ==
    /\ r \notin Listeners
    /\ \E from \in Starts :
          /\ Opens(r, from)
          /\ Covers(r, 1..from)
          /\ Goes(r, IF Named(r) /\ from = 0 THEN "resolving" ELSE "reading")
    /\ batch' = [batch EXCEPT ![r] = {}]
    /\ chan' = [chan EXCEPT ![r] = <<>>]
    /\ full' = [full EXCEPT ![r] = FALSE]
    /\ unsaved' = [unsaved EXCEPT ![r] = 0]
    /\ UNCHANGED <<tables, unseen, crew>>

GetOffset(r) ==
    /\ at[r] = "resolving"
    /\ Begins(r, Larger(offsets[consumerOf[r]], cursor[r]))
    /\ Goes(r, "reading")
    /\ UNCHANGED <<logVars, crew, buffers, ended, got, covered, opens>>

(* readBatch: the events of the topic beyond the cursor, the first of them *)
(* as a batch.                                                             *)
Beyond(r) == {o \in DOMAIN stream : o > cursor[r] /\ stream[o] = topicOf[r]}

First(k, S) == {o \in S : Cardinality({p \in S : p < o}) < k}

ReadBatch(r) ==
    /\ at[r] = "reading"
    /\ batch' = [batch EXCEPT ![r] = First(BatchSize, Beyond(r))]
    /\ full' = [full EXCEPT ![r] = Cardinality(batch'[r]) = BatchSize]
    /\ Goes(r, IF batch'[r] = {} THEN "waiting" ELSE "sending")
    /\ UNCHANGED <<logVars, crew, cursor, chan, unsaved, ended, history, opens>>

(* After an event: the next of the batch, the next batch, or sleep. *)
OnwardOnce(r, rest) ==                             \* faulty: no continue
    IF rest # {} THEN "sending" ELSE "waiting"

Onward(r, rest) ==
    IF rest # {} THEN "sending" ELSE IF full[r] THEN "reading" ELSE "waiting"

(* GetOffset or readBatch fails, as it does with a cancelled context: the  *)
(* subscription ends without saving its position.                          *)
ReadFails(r) ==
    /\ at[r] \in {"resolving", "reading"}
    /\ Leaves(r)
    /\ UNCHANGED <<tables, unseen, token, crew, cursor, buffers, ended, history,
                   opens>>

(* ch <- ev.  The position is due to be saved after saveEveryN events, or  *)
(* earlier, when saveEveryDur is over.                                     *)
Sends(r) ==
    /\ at[r] = "sending"
    /\ \E o \in batch[r] :
          /\ \A p \in batch[r] : o <= p
          /\ chan' = [chan EXCEPT ![r] = Append(@, o)]
          /\ Moves(r, o)
          /\ Covers(r, {o})
          /\ batch' = [batch EXCEPT ![r] = @ \ {o}]
    /\ unsaved' = [unsaved EXCEPT ![r] = @ + 1]
    /\ \/ Named(r) /\ Goes(r, "saving")
       \/ ~(Named(r) /\ unsaved'[r] >= SaveEveryN) /\ Goes(r, Onward(r, batch'[r]))
    /\ UNCHANGED <<logVars, crew, full, ended, start, got, opens>>

SendEvent(r) == Len(chan[r]) < Capacity /\ Sends(r)

PositionOfBatch(r) ==                              \* faulty: ahead of the channel
    CHOOSE o \in batch[r] \cup {cursor[r]} : \A p \in batch[r] : p <= o

Position(r) == cursor[r]

(* The periodic save. *)
SavePosition(r) ==
    /\ at[r] = "saving"
    /\ SaveOffset(consumerOf[r], Position(r))
    /\ unsaved' = [unsaved EXCEPT ![r] = 0]
    /\ Goes(r, Onward(r, batch[r]))
    /\ UNCHANGED <<subscribed, token, crew, cursor, batch, full, chan, ended,
                   history, opens>>

(* <-wakeCh *)
Wake(r) ==
    /\ r \notin Listeners
    /\ at[r] = "waiting" /\ r \in token
    /\ token' = token \ {r}
    /\ Goes(r, "reading")
    /\ UNCHANGED <<tables, subscribed, unseen, crew, cursor, buffers, ended,
                   history, opens>>

(* <-ctx.Done(), while it sends or sleeps. *)
Stop(r) ==
    /\ r \in ended \ Listeners
    /\ at[r] \in {"sending", "waiting"}
    /\ IF Named(r) /\ unsaved[r] > 0
       THEN Goes(r, "closing") /\ UNCHANGED subscribed
       ELSE Leaves(r)
    /\ UNCHANGED <<tables, unseen, token, crew, cursor, buffers, ended, history,
                   opens>>

(* The final save, and the channel is closed. *)
SaveLast(r) ==
    /\ at[r] = "closing"
    /\ SaveOffset(consumerOf[r], Position(r))
    /\ Leaves(r)
    /\ UNCHANGED <<token, crew, cursor, buffers, ended, history, opens>>

(* The program receives, also from a closed channel. *)
Receive(r) ==
    /\ chan[r] # <<>>
    /\ got' = [got EXCEPT ![r] = Append(@, Head(chan[r]))]
    /\ chan' = [chan EXCEPT ![r] = Tail(@)]
    /\ UNCHANGED <<logVars, crew, at, cursor, batch, full, unsaved, ended, start,
                   covered, opens>>

-----------------------------------------------------------------------------
(* Listener. *)

Listen(r) ==
    /\ r \in Listeners
    /\ Opens(r, 0)
    /\ Goes(r, "listening")
    /\ UNCHANGED <<tables, unseen, crew, buffers, covered>>

Ids(r) == {n.id : n \in {m \in notes : m.channel = topicOf[r]}}

(* maxNotificationID *)
FindLast(r) ==
    /\ at[r] = "listening"
    /\ \E last \in Ids(r) \cup {0} :
          (\A i \in Ids(r) : i <= last) /\ Begins(r, last)
    /\ Goes(r, "idle")
    /\ UNCHANGED <<logVars, crew, buffers, ended, got, covered, opens>>

CallNext(r) ==
    /\ at[r] = "idle"
    /\ Goes(r, "polling")
    /\ UNCHANGED <<logVars, crew, cursor, buffers, ended, history, opens>>

New(r) == {i \in Ids(r) : i > cursor[r]}

(* Next finds a notification. *)
PollOne(r) ==
    /\ at[r] = "polling" /\ r \notin ended
    /\ \E i \in New(r) :
          /\ \A k \in New(r) : i <= k
          /\ Moves(r, i)
          /\ got' = [got EXCEPT ![r] = Append(@, i)]
    /\ Goes(r, "idle")
    /\ UNCHANGED <<logVars, crew, buffers, ended, start, covered, opens>>

PollNone(r) ==
    /\ at[r] = "polling" /\ r \notin ended
    /\ New(r) = {}
    /\ Goes(r, "waiting")
    /\ UNCHANGED <<logVars, crew, cursor, buffers, ended, history, opens>>

(* A token, or the fallback timer. *)
PollAgain(r) ==
    /\ r \in Listeners
    /\ at[r] = "waiting"
    /\ token' \in {token, token \ {r}}
    /\ Goes(r, "polling")
    /\ UNCHANGED <<tables, subscribed, unseen, crew, cursor, buffers, ended,
                   history, opens>>

(* The context of the call of Next is cancelled. *)
NextCancelled(r) ==
    /\ r \in Listeners
    /\ at[r] = "waiting"
    /\ Goes(r, "idle")
    /\ UNCHANGED <<logVars, crew, cursor, buffers, ended, history, opens>>

(* Next finds the Listener closed, or its caller does not call again. *)
NextClosed(r) ==
    /\ r \in ended
    /\ at[r] \in {"idle", "polling"}
    /\ Goes(r, "out")
    /\ UNCHANGED <<logVars, crew, cursor, buffers, ended, history, opens>>

-----------------------------------------------------------------------------
(* The context of a subscription is cancelled; Close is called. *)
End(r) ==
    /\ at[r] \notin {"out", "listening"} /\ r \notin ended
    /\ ended' = ended \cup {r}
    /\ subscribed' = IF r \in Listeners THEN subscribed \ {r} ELSE subscribed
    /\ UNCHANGED <<tables, unseen, token, crew, at, cursor, buffers, history, opens>>

(* The process of a reader dies with all it has in memory. *)
Crash(r) ==
    /\ at[r] # "out"
    /\ Leaves(r)
    /\ chan' = [chan EXCEPT ![r] = <<>>]
    /\ UNCHANGED <<tables, unseen, token, crew, cursor, batch, full, unsaved,
                   ended, history, opens>>

-----------------------------------------------------------------------------
SubscriptionStep(r) ==
    \/ GetOffset(r)
    \/ ReadBatch(r)
    \/ SendEvent(r)
    \/ SavePosition(r)
    \/ Wake(r)
    \/ Stop(r)
    \/ SaveLast(r)

ListenerStep(r) ==
    \/ FindLast(r)
    \/ CallNext(r)
    \/ PollOne(r)
    \/ PollNone(r)
    \/ PollAgain(r)
    \/ NextClosed(r)

ReaderStep(r) ==
    \/ Subscribe(r) \/ SubscriptionStep(r) \/ ReadFails(r) \/ Receive(r)
    \/ Listen(r) \/ ListenerStep(r) \/ NextCancelled(r)
    \/ End(r) \/ Crash(r)

WriterStep ==
    \/ \E t \in Topic : Publish(t) \/ Notify(t)
    \/ PruneNotifications

Next ==
    \/ (WriterStep \/ Signal) /\ UNCHANGED readerVars
    \/ \E r \in crew : ReaderStep(r)

(* The watcher polls on (UpdateWatcher tells when it does not), goroutines *)
(* that can go on do, and the programs receive and call Next.              *)
Fairness ==
    /\ WF_vars(Signal /\ UNCHANGED readerVars)
    /\ \A r \in Reader : WF_vars(r \in crew /\ (SubscriptionStep(r) \/ ListenerStep(r)))
    /\ \A r \in Reader : WF_vars(r \in crew /\ Receive(r))

Spec == Init /\ [][Next]_vars /\ Fairness

-----------------------------------------------------------------------------
Rising(s) == \A i, k \in DOMAIN s : i < k => s[i] < s[k]

Members(s) == {s[i] : i \in DOMAIN s}

(* The events of r's topic from its start to its cursor. *)
Passed(r) ==
    {o \in DOMAIN stream : start[r] < o /\ o <= cursor[r] /\ stream[o] = topicOf[r]}

(* What a subscription's program received and what waits in its channel is *)
(* every event of its topic from the start to the cursor, once and in      *)
(* order (stream.go:147-176), across batches, saves and wakes.             *)
EventsInOrder ==
    \A r \in crew \ Listeners :
        at[r] \notin {"out", "resolving"}
        => Rising(got[r] \o chan[r]) /\ Members(got[r] \o chan[r]) = Passed(r)

(* What a Listener's program received is new each time, and no row it was  *)
(* not given lies behind lastID: neither one that others insert while      *)
(* Listen looks for the last, nor a new one under an id a pruned one had   *)
(* (notify.go:51-58, 145-152).                                             *)
NotesInOrder ==
    \A r \in crew \cap Listeners :
        /\ Rising(got[r])
        /\ \A i \in Ids(r) : start[r] < i /\ i <= cursor[r] => i \in Members(got[r])

NothingSkipped == EventsInOrder /\ NotesInOrder

(* A consumer's saved offset covers only events that were sent to one of   *)
(* its subscriptions, or that one of them asked to leave out, so that the  *)
(* next one resumes without a gap but for what was left in a channel:      *)
(* whatever saves fail, overtake each other or are cut off by a crash      *)
(* (stream.go:161-174, 199-217).                                           *)
OffsetsCover ==
    \A r \in Reader : Named(r) =>
        \A o \in 1..offsets[consumerOf[r]] :
            \/ o \in covered[consumerOf[r]]
            \/ o \in DOMAIN stream /\ stream[o] # topicOf[r]

UpToDate(r) ==
    IF r \in Listeners THEN New(r) = {}
    ELSE batch[r] = {} /\ chan[r] = <<>> /\ Beyond(r) = {}

(* Every reader gets, time and again, to where it has received all there   *)
(* is for it, without a further commit to wake it; and one that was        *)
(* cancelled or closed ends.                                               *)
AllServed ==
    []<>(\A r \in crew : at[r] = "out" \/ (r \notin ended /\ UpToDate(r)))

(* A saved offset never goes back (stream.go:199).                         *)
OffsetsOnlyGrow ==
    [][\A c \in Consumer : offsets'[c] >= offsets[c]]_vars

=============================================================================
