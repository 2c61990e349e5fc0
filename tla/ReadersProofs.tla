--------------------------- MODULE ReadersProofs ----------------------------
(***************************************************************************)
(* A consumer's saved offset covers only what was sent to it, and never    *)
(* goes back, for any readers: several subscriptions of one consumer too,  *)
(* whose saves overtake each other.                                        *)
(*                                                                         *)
(* OffsetsCover is not inductive: a save stores a cursor, so what is true  *)
(* of an offset must be true of cursors (CursorsCover); a send moves the   *)
(* cursor to an event of the batch, so no event of the topic may lie       *)
(* between (BatchesNext).                                                  *)
(***************************************************************************)
EXTENDS Readers, FiniteSetTheorems, TLAPS

ListenerPlaces == {"out", "listening", "idle", "polling", "waiting"}

SubscriptionPlaces == {"out", "resolving", "reading", "sending", "saving",
                       "waiting", "closing"}

(* Where the readers may be, and that only a named one looks up or saves   *)
(* an offset.                                                              *)
Apart ==
    \A r \in Reader :
        /\ at[r] \in IF r \in Listeners THEN ListenerPlaces ELSE SubscriptionPlaces
        /\ at[r] \in {"resolving", "saving", "closing"} => Named(r)
        /\ at[r] = "resolving" => batch[r] = {}

Placed == TypeOK /\ Apart

(* Up to n, the events of r's topic are covered for its consumer.          *)
Reach(r, n) ==
    \A o \in 1..n : \/ o \in covered[consumerOf[r]]
                    \/ o \in DOMAIN stream /\ stream[o] # topicOf[r]

CursorsCover == \A r \in Reader \ Listeners : Named(r) => Reach(r, cursor[r])

(* A batch is the next events of the topic after the cursor.               *)
BatchesNext ==
    \A r \in Reader \ Listeners : \A o \in batch[r] :
        /\ o \in DOMAIN stream /\ o > cursor[r]
        /\ \A p \in DOMAIN stream :
              cursor[r] < p /\ p < o /\ stream[p] = topicOf[r] => p \in batch[r]

Covering == CursorsCover /\ BatchesNext /\ OffsetsCover

ReadersInv == Placed /\ Covering

-----------------------------------------------------------------------------
(* The assumptions of EventLog and Readers, as facts about one reader.     *)
LEMMA Given ==
    ASSUME LogAssumption, ReaderAssumption
    PROVE  /\ \A r \in Reader : topicOf[r] \in Topic
           /\ \A r \in Reader : Named(r) => consumerOf[r] \in Consumer
           /\ \A c \in Crews : c \subseteq Reader
           /\ Starts \subseteq Nat
           /\ Capacity \in Nat /\ BatchSize \in Nat
           /\ MaxEvents \in Nat /\ MaxNotes \in Nat /\ MaxOpens \in Nat
BY DEF LogAssumption, ReaderAssumption, Named

LEMMA InitReaders ==
    ASSUME LogAssumption, ReaderAssumption, Init
    PROVE  ReadersInv
<1>1. LogTypeOK
  <2>1. stream \in Seq(Topic) /\ Len(stream) <= MaxEvents
    BY Given DEF Init, LogInit
  <2> QED  BY <2>1 DEF Init, LogInit, LogTypeOK
<1>2. TypeOK
  <2>1. chan \in [Reader -> Seq(Nat)] /\ got \in [Reader -> Seq(Nat)]
    BY DEF Init
  <2>2. \A r \in Reader : Len(chan[r]) <= Capacity
    BY Given DEF Init
  <2>3. opens \in 0..MaxOpens
    BY Given DEF Init
  <2> QED  BY <1>1, <2>1, <2>2, <2>3 DEF Init, TypeOK, Places
<1>3. Apart
  BY DEF Init, Apart, ListenerPlaces, SubscriptionPlaces
<1>4. \A r \in Reader : cursor[r] = 0 /\ batch[r] = {}
  BY DEF Init
<1>5. \A r \in Reader : Named(r) => offsets[consumerOf[r]] = 0
  BY Given DEF Init, LogInit
<1>6. CursorsCover /\ BatchesNext /\ OffsetsCover
  BY <1>4, <1>5 DEF CursorsCover, BatchesNext, OffsetsCover, Reach
<1> QED  BY <1>2, <1>3, <1>6 DEF ReadersInv, Placed, Covering

-----------------------------------------------------------------------------
(* Types and places. *)

LEMMA LogStep ==
    ASSUME LogAssumption, ReaderAssumption, TypeOK,
           WriterStep \/ Signal, UNCHANGED readerVars
    PROVE  LogTypeOK'
<1>1. ASSUME NEW t \in Topic, Insert(t)
      PROVE  notes' \subseteq Note /\ noteSeq' \in Nat
  BY <1>1 DEF Insert, NextId, Note, TypeOK, LogTypeOK
<1>2. ASSUME NEW t \in Topic, Publish(t)
      PROVE  LogTypeOK'
  <2>1. stream' \in Seq(Topic) /\ Len(stream') <= MaxEvents
    BY <1>2, Given DEF Publish, TypeOK, LogTypeOK
  <2> QED  BY <1>1, <1>2, <2>1 DEF Publish, TypeOK, LogTypeOK
<1>3. ASSUME NEW t \in Topic, Notify(t)
      PROVE  LogTypeOK'
  BY <1>1, <1>3 DEF Notify, TypeOK, LogTypeOK
<1>4. ASSUME PruneNotifications
      PROVE  LogTypeOK'
  <2>1. notes' \subseteq notes
    BY <1>4 DEF PruneNotifications, Newest
  <2> QED  BY <1>4, <2>1 DEF PruneNotifications, TypeOK, LogTypeOK
<1>5. ASSUME Signal
      PROVE  LogTypeOK'
  BY <1>5 DEF Signal, tables, TypeOK, LogTypeOK
<1> QED  BY <1>2, <1>3, <1>4, <1>5 DEF WriterStep

(* A subscription saves its cursor under its own consumer's name. *)
LEMMA SaveTypes ==
    ASSUME LogTypeOK, NEW c \in Consumer, NEW n \in Nat, SaveOffset(c, n)
    PROVE  /\ offsets' \in [Consumer -> Nat] /\ unseen' \in BOOLEAN
           /\ UNCHANGED <<stream, notes, noteSeq>>
           /\ \A d \in Consumer : offsets'[d] >= offsets[d]
           /\ \A d \in Consumer : offsets'[d] # offsets[d] => d = c /\ offsets'[d] = n
<1>1. CASE /\ offsets' = [offsets EXCEPT ![c] = Larger(n, @)]
           /\ unseen' = TRUE
           /\ UNCHANGED <<stream, notes, noteSeq>>
  BY <1>1 DEF Larger, LogTypeOK
<1>2. CASE UNCHANGED <<offsets, unseen, stream, notes, noteSeq>>
  BY <1>2 DEF LogTypeOK
<1> QED  BY <1>1, <1>2 DEF SaveOffset

(* Only the numbers of events are ever covered. *)
LEMMA CoversTypes ==
    ASSUME LogAssumption, ReaderAssumption, covered \in [Consumer -> SUBSET Nat],
           NEW r \in Reader, NEW S \in SUBSET Nat, Covers(r, S)
    PROVE  covered' \in [Consumer -> SUBSET Nat]
<1>1. CASE Named(r)
  <2>1. covered' = [covered EXCEPT ![consumerOf[r]] = @ \cup S]
    BY <1>1 DEF Covers
  <2>2. consumerOf[r] \in Consumer /\ covered[consumerOf[r]] \cup S \in SUBSET Nat
    BY <1>1, Given
  <2> QED  BY <2>1, <2>2
<1>2. CASE ~Named(r)
  BY <1>2 DEF Covers
<1> QED  BY <1>1, <1>2

LEMMA EventNumbers ==
    ASSUME TypeOK
    PROVE  DOMAIN stream \subseteq Nat
<1>1. stream \in Seq(Topic)
  BY DEF TypeOK, LogTypeOK
<1> QED  BY <1>1

(* A reader goes where one of its kind may be. *)
LEMMA GoesApart ==
    ASSUME TypeOK, Apart, NEW r \in Reader, NEW place, Goes(r, place),
           place \in IF r \in Listeners THEN ListenerPlaces ELSE SubscriptionPlaces,
           place \in {"resolving", "saving", "closing"} => Named(r),
           place = "resolving" => batch'[r] = {},
           \A q \in Reader \ {r} : batch'[q] = batch[q]
    PROVE  at' \in [Reader -> Places] /\ Apart'
<1>1. place \in Places
  BY DEF Places, ListenerPlaces, SubscriptionPlaces
<1>2. /\ at' \in [Reader -> Places] /\ at'[r] = place
      /\ \A q \in Reader \ {r} : at'[q] = at[q]
  BY <1>1 DEF Goes, TypeOK
<1>3. ASSUME NEW q \in Reader
      PROVE  /\ at'[q] \in IF q \in Listeners THEN ListenerPlaces ELSE SubscriptionPlaces
             /\ at'[q] \in {"resolving", "saving", "closing"} => Named(q)
             /\ at'[q] = "resolving" => batch'[q] = {}
  <2>1. CASE q = r
    BY <1>2, <2>1
  <2>2. CASE q # r
    BY <1>2, <2>2 DEF Apart
  <2> QED  BY <2>1, <2>2
<1> QED  BY <1>2, <1>3 DEF Apart, Named

LEMMA SubscribePlaced ==
    ASSUME LogAssumption, ReaderAssumption, Placed, NEW r \in Reader, Subscribe(r)
    PROVE  Placed'
<1>0. TypeOK /\ LogTypeOK /\ Apart /\ r \notin Listeners
  BY DEF Subscribe, Placed, TypeOK
<1>1. PICK from \in Starts : /\ Opens(r, from) /\ Covers(r, 1..from)
                             /\ Goes(r, IF Named(r) /\ from = 0 THEN "resolving" ELSE "reading")
  BY DEF Subscribe
<1>2. from \in Nat /\ opens' \in 0..MaxOpens
  BY <1>0, <1>1, Given DEF Opens, TypeOK
<1>3. covered' \in [Consumer -> SUBSET Nat]
  <2>1. 1..from \in SUBSET Nat
    BY <1>2
  <2> QED  BY <1>0, <1>1, <2>1, CoversTypes DEF TypeOK
<1>4. cursor' \in [Reader -> Nat] /\ start' \in [Reader -> Nat] /\ got' \in [Reader -> Seq(Nat)]
  BY <1>0, <1>1, <1>2 DEF Opens, Moves, TypeOK
<1>5. /\ batch' \in [Reader -> SUBSET Nat] /\ chan' \in [Reader -> Seq(Nat)]
      /\ full' \in [Reader -> BOOLEAN] /\ unsaved' \in [Reader -> Nat]
  BY <1>0 DEF Subscribe, TypeOK
<1>6. \A q \in Reader : Len(chan'[q]) <= Capacity
  BY <1>0, Given DEF Subscribe, TypeOK
<1>7. LogTypeOK'
  <2>1. UNCHANGED <<tables, unseen>>
    BY DEF Subscribe
  <2>2. subscribed' \subseteq Reader /\ token' \subseteq Reader
    BY <1>0, <1>1 DEF Opens, LogTypeOK
  <2> QED  BY <1>0, <2>1, <2>2 DEF tables, LogTypeOK
<1>8. crew' = crew /\ ended' \subseteq Reader
  BY <1>0, <1>1 DEF Subscribe, Opens, TypeOK
<1>9. at' \in [Reader -> Places] /\ Apart'
  <2>1. batch'[r] = {} /\ \A q \in Reader \ {r} : batch'[q] = batch[q]
    BY <1>0 DEF Subscribe, TypeOK
  <2>2. PICK place \in {"resolving", "reading"} :
           Goes(r, place) /\ (place = "resolving" => Named(r))
    BY <1>1
  <2> QED  BY <1>0, <2>1, <2>2, GoesApart DEF SubscriptionPlaces
<1>10. TypeOK'
  BY <1>0, <1>2, <1>3, <1>4, <1>5, <1>6, <1>7, <1>8, <1>9 DEF TypeOK
<1> QED  BY <1>9, <1>10 DEF Placed

LEMMA SendPlaced ==
    ASSUME LogAssumption, ReaderAssumption, Placed, NEW r \in Reader, SendEvent(r)
    PROVE  Placed'
<1>0. TypeOK /\ LogTypeOK /\ Apart /\ at[r] = "sending" /\ r \notin Listeners
  BY DEF SendEvent, Sends, Placed, TypeOK, Apart, ListenerPlaces
<1>1. PICK o \in batch[r] : /\ chan' = [chan EXCEPT ![r] = Append(@, o)]
                            /\ Moves(r, o) /\ Covers(r, {o})
                            /\ batch' = [batch EXCEPT ![r] = @ \ {o}]
  BY DEF SendEvent, Sends
<1>2. o \in Nat
  BY <1>0 DEF TypeOK
<1>3. chan' \in [Reader -> Seq(Nat)]
  BY <1>0, <1>1, <1>2 DEF TypeOK
<1>4. \A q \in Reader : Len(chan'[q]) <= Capacity
  <2>1. Len(chan[r]) < Capacity /\ Capacity \in Nat
    BY Given DEF SendEvent
  <2>2. Len(chan'[r]) = Len(chan[r]) + 1 /\ Len(chan[r]) \in Nat
    BY <1>0, <1>1, <1>2 DEF TypeOK
  <2>3. \A q \in Reader \ {r} : chan'[q] = chan[q]
    BY <1>0, <1>1 DEF TypeOK
  <2>4. ASSUME NEW q \in Reader PROVE Len(chan'[q]) <= Capacity
    <3>1. CASE q = r
      BY <2>1, <2>2, <3>1
    <3>2. CASE q # r
      BY <1>0, <2>3, <3>2 DEF TypeOK
    <3> QED  BY <3>1, <3>2
  <2> QED  BY <2>4
<1>5. covered' \in [Consumer -> SUBSET Nat]
  BY <1>0, <1>1, <1>2, CoversTypes DEF TypeOK
<1>6. /\ UNCHANGED <<logVars, crew, full, ended, start, got, opens>>
      /\ unsaved' = [unsaved EXCEPT ![r] = @ + 1]
  BY DEF SendEvent, Sends
<1>7. at' \in [Reader -> Places] /\ Apart'
  <2>1. \E place \in {"saving", "sending", "reading", "waiting"} :
           Goes(r, place) /\ (place = "saving" => Named(r))
    BY DEF SendEvent, Sends, Onward
  <2>2. \A q \in Reader \ {r} : batch'[q] = batch[q]
    BY <1>0, <1>1 DEF TypeOK
  <2> QED  BY <1>0, <2>1, <2>2, GoesApart DEF SubscriptionPlaces
<1>8. LogTypeOK'
  BY <1>0, <1>6 DEF logVars, tables, watcherVars, LogTypeOK
<1>9. /\ batch' \in [Reader -> SUBSET Nat] /\ cursor' \in [Reader -> Nat]
      /\ unsaved' \in [Reader -> Nat]
  BY <1>0, <1>1, <1>2, <1>6 DEF Moves, TypeOK
<1>10. TypeOK'
  BY <1>0, <1>3, <1>4, <1>5, <1>6, <1>7, <1>8, <1>9 DEF TypeOK
<1> QED  BY <1>7, <1>10 DEF Placed

LEMMA StopPlaced ==
    ASSUME Placed, NEW r \in Reader, Stop(r)
    PROVE  Placed'
<1>0. TypeOK /\ LogTypeOK /\ Apart /\ r \notin Listeners
  BY DEF Stop, Placed, TypeOK
<1>1. /\ \E place \in {"closing", "out"} : Goes(r, place) /\ (place = "closing" => Named(r))
      /\ subscribed' \subseteq subscribed
  BY DEF Stop, Leaves
<1>2. UNCHANGED <<tables, unseen, token, crew, cursor, buffers, ended, history, opens>>
  BY DEF Stop
<1>3. at' \in [Reader -> Places] /\ Apart'
  <2>1. batch' = batch
    BY <1>2 DEF buffers
  <2> QED  BY <1>0, <1>1, <2>1, GoesApart DEF SubscriptionPlaces
<1>4. LogTypeOK'
  BY <1>0, <1>1, <1>2 DEF tables, LogTypeOK
<1>5. TypeOK'
  BY <1>0, <1>2, <1>3, <1>4 DEF buffers, history, TypeOK
<1> QED  BY <1>3, <1>5 DEF Placed

LEMMA ListenPlaced ==
    ASSUME LogAssumption, ReaderAssumption, Placed, NEW r \in Reader, Listen(r)
    PROVE  Placed'
<1>0. TypeOK /\ LogTypeOK /\ Apart /\ r \in Listeners
  BY DEF Listen, Placed, TypeOK
<1>1. Opens(r, 0) /\ Goes(r, "listening") /\ UNCHANGED <<tables, unseen, crew, buffers, covered>>
  BY DEF Listen
<1>2. /\ opens' \in 0..MaxOpens
      /\ cursor' \in [Reader -> Nat] /\ start' \in [Reader -> Nat]
      /\ got' \in [Reader -> Seq(Nat)]
      /\ ended' \subseteq Reader
  BY <1>0, <1>1, Given DEF Opens, Moves, TypeOK
<1>3. at' \in [Reader -> Places] /\ Apart'
  <2>1. batch' = batch
    BY <1>1 DEF buffers
  <2> QED  BY <1>0, <1>1, <2>1, GoesApart DEF ListenerPlaces
<1>4. LogTypeOK'
  <2>1. subscribed' \subseteq Reader /\ token' \subseteq Reader
    BY <1>0, <1>1 DEF Opens, LogTypeOK
  <2> QED  BY <1>0, <1>1, <2>1 DEF tables, LogTypeOK
<1>5. TypeOK'
  BY <1>0, <1>1, <1>2, <1>3, <1>4 DEF buffers, TypeOK
<1> QED  BY <1>3, <1>5 DEF Placed

LEMMA EndPlaced ==
    ASSUME Placed, NEW r \in Reader, End(r)
    PROVE  Placed'
<1>0. TypeOK /\ LogTypeOK /\ Apart
  BY DEF Placed, TypeOK
<1>1. /\ ended' \subseteq Reader /\ subscribed' \subseteq Reader
      /\ UNCHANGED <<tables, unseen, token, crew, at, cursor, buffers, history, opens>>
  BY <1>0 DEF End, TypeOK, LogTypeOK
<1>2. Apart'
  BY <1>0, <1>1 DEF buffers, Apart, Named
<1>3. LogTypeOK'
  BY <1>0, <1>1 DEF tables, LogTypeOK
<1>4. TypeOK'
  BY <1>0, <1>1, <1>3 DEF buffers, history, TypeOK
<1> QED  BY <1>2, <1>4 DEF Placed

LEMMA CrashPlaced ==
    ASSUME LogAssumption, ReaderAssumption, Placed, NEW r \in Reader, Crash(r)
    PROVE  Placed'
<1>0. TypeOK /\ LogTypeOK /\ Apart
  BY DEF Placed, TypeOK
<1>1. /\ Goes(r, "out") /\ subscribed' \subseteq subscribed
      /\ UNCHANGED <<tables, unseen, token, crew, cursor, batch, full, unsaved,
                     ended, history, opens>>
  BY DEF Crash, Leaves
<1>2. chan' \in [Reader -> Seq(Nat)] /\ \A q \in Reader : Len(chan'[q]) <= Capacity
  BY <1>0, Given DEF Crash, TypeOK
<1>3. at' \in [Reader -> Places] /\ Apart'
  BY <1>0, <1>1, GoesApart DEF ListenerPlaces, SubscriptionPlaces
<1>4. LogTypeOK'
  BY <1>0, <1>1 DEF tables, LogTypeOK
<1>5. TypeOK'
  BY <1>0, <1>1, <1>2, <1>3, <1>4 DEF history, TypeOK
<1> QED  BY <1>3, <1>5 DEF Placed

LEMMA SubscriptionTypes ==
    ASSUME LogAssumption, ReaderAssumption, Placed, NEW r \in Reader,
           Subscribe(r) \/ SubscriptionStep(r) \/ ReadFails(r) \/ Receive(r)
    PROVE  Placed'
<1> USE DEF TypeOK, LogTypeOK, Apart, Places, ListenerPlaces, SubscriptionPlaces,
            Goes, Moves, Leaves
<1> DEFINE Same == UNCHANGED <<logVars, crew>>
<1>1. CASE Subscribe(r)
  BY <1>1, SubscribePlaced
<1>2. CASE GetOffset(r)
  <2>1. cursor' \in [Reader -> Nat] /\ start' \in [Reader -> Nat]
    BY <1>2, Given DEF GetOffset, Begins, Larger, Placed
  <2> QED  BY <1>2, <2>1 DEF GetOffset, Begins, logVars, tables, watcherVars, buffers,
                             Named, Placed
<1>3. CASE ReadBatch(r)
  <2>1. Beyond(r) \subseteq Nat
    BY DEF Beyond, Placed
  <2>2. batch' \in [Reader -> SUBSET Nat]
    BY <1>3, <2>1 DEF ReadBatch, First, Placed
  <2>3. full' \in [Reader -> BOOLEAN]
    BY <1>3 DEF ReadBatch, Placed
  <2>4. /\ at[r] = "reading"
        /\ \E place \in {"waiting", "sending"} : at' = [at EXCEPT ![r] = place]
        /\ \A q \in Reader : q # r => batch'[q] = batch[q]
    BY <1>3 DEF ReadBatch, Placed
  <2>5. PICK place \in {"waiting", "sending"} : at' = [at EXCEPT ![r] = place]
    BY <2>4
  <2>6. at'[r] = place /\ \A q \in Reader : q # r => at'[q] = at[q]
    BY <2>5 DEF Placed
  <2>7. Apart'
    BY <2>4, <2>6 DEF Named, Placed
  <2>8. TypeOK'
    <3>1. at' \in [Reader -> Places]
      BY <2>5 DEF Placed
    <3>2. UNCHANGED <<logVars, crew, cursor, start, chan, got, unsaved, ended, covered,
                      opens>>
      BY <1>3 DEF ReadBatch, history
    <3>3. LogTypeOK'
      BY <3>2 DEF logVars, tables, watcherVars, Placed
    <3> QED  BY <2>2, <2>3, <3>1, <3>2, <3>3 DEF Placed
  <2> QED  BY <2>7, <2>8 DEF Placed
<1>4. CASE SendEvent(r)
  BY <1>4, SendPlaced
<1>5. CASE SavePosition(r)
  <2>1. /\ offsets' \in [Consumer -> Nat] /\ unseen' \in BOOLEAN
        /\ UNCHANGED <<stream, notes, noteSeq>>
    BY <1>5, SaveTypes, Given DEF SavePosition, Position, Placed
  <2> QED  BY <1>5, <2>1 DEF SavePosition, Onward, history, Named, Placed
<1>6. CASE Wake(r)
  BY <1>6 DEF Wake, tables, buffers, history, Named, Placed
<1>7. CASE Stop(r)
  BY <1>7, StopPlaced
<1>8. CASE SaveLast(r)
  <2>1. /\ offsets' \in [Consumer -> Nat] /\ unseen' \in BOOLEAN
        /\ UNCHANGED <<stream, notes, noteSeq>>
    BY <1>8, SaveTypes, Given DEF SaveLast, Position, Placed
  <2> QED  BY <1>8, <2>1 DEF SaveLast, buffers, history, Named, Placed
<1>9. CASE ReadFails(r)
  BY <1>9 DEF ReadFails, tables, buffers, history, Named, Placed
<1>10. CASE Receive(r)
  <2>1. chan[r] \in Seq(Nat) /\ chan[r] # <<>>
    BY <1>10 DEF Receive, Placed
  <2>2. /\ Head(chan[r]) \in Nat /\ Tail(chan[r]) \in Seq(Nat)
        /\ Len(Tail(chan[r])) <= Len(chan[r])
    BY <2>1
  <2>3. got' \in [Reader -> Seq(Nat)] /\ chan' \in [Reader -> Seq(Nat)]
    BY <1>10, <2>2 DEF Receive, Placed
  <2>4. \A q \in Reader : Len(chan'[q]) <= Capacity
    BY <1>10, <2>2, Given DEF Receive, Placed
  <2> QED  BY <1>10, <2>3, <2>4 DEF Receive, logVars, tables, watcherVars, Named, Placed
<1> QED  BY <1>1, <1>2, <1>3, <1>4, <1>5, <1>6, <1>7, <1>8, <1>9, <1>10
         DEF SubscriptionStep

LEMMA ListenerTypes ==
    ASSUME LogAssumption, ReaderAssumption, Placed, NEW r \in Reader,
           Listen(r) \/ ListenerStep(r) \/ NextCancelled(r) \/ End(r) \/ Crash(r)
    PROVE  Placed'
<1> USE DEF TypeOK, LogTypeOK, Apart, Places, ListenerPlaces, SubscriptionPlaces,
            Goes, Moves, Leaves
<1>0. Ids(r) \subseteq Nat
  BY DEF Ids, Note, Placed
<1>1. CASE Listen(r)
  BY <1>1, ListenPlaced
<1>2. CASE FindLast(r)
  <2>1. PICK last \in Nat : Begins(r, last)
    BY <1>0, <1>2 DEF FindLast
  <2>2. cursor' \in [Reader -> Nat] /\ start' \in [Reader -> Nat]
    BY <2>1 DEF Begins, Placed
  <2>3. at[r] = "listening" /\ at' = [at EXCEPT ![r] = "idle"]
    BY <1>2 DEF FindLast
  <2>4. UNCHANGED <<logVars, crew, buffers, ended, got, covered, opens>>
    BY <1>2 DEF FindLast
  <2> QED  BY <2>2, <2>3, <2>4 DEF logVars, tables, watcherVars, buffers, Named, Placed
<1>3. CASE CallNext(r)
  BY <1>3 DEF CallNext, logVars, tables, watcherVars, buffers, history, Named, Placed
<1>4. CASE PollOne(r)
  <2>1. PICK i \in Nat : Moves(r, i) /\ got' = [got EXCEPT ![r] = Append(@, i)]
    BY <1>0, <1>4 DEF PollOne, New
  <2>2. got' \in [Reader -> Seq(Nat)]
    BY <2>1 DEF Placed
  <2>3. /\ at' = [at EXCEPT ![r] = "idle"] /\ at[r] = "polling"
        /\ UNCHANGED <<logVars, crew, buffers, ended, start, covered, opens>>
    BY <1>4 DEF PollOne
  <2>4. cursor' \in [Reader -> Nat]
    BY <2>1 DEF Placed
  <2>5. LogTypeOK'
    BY <2>3 DEF logVars, tables, watcherVars, Placed
  <2>6. at' \in [Reader -> Places]
    BY <2>3 DEF Placed
  <2>7. TypeOK'
    BY <2>2, <2>3, <2>4, <2>5, <2>6 DEF buffers, Placed
  <2>8. Apart'
    BY <2>3 DEF buffers, Named, Placed
  <2> QED  BY <2>7, <2>8 DEF Placed
<1>5. CASE PollNone(r)
  BY <1>5 DEF PollNone, logVars, tables, watcherVars, buffers, history, Named, Placed
<1>6. CASE PollAgain(r)
  BY <1>6 DEF PollAgain, tables, buffers, history, Named, Placed
<1>7. CASE NextClosed(r)
  BY <1>7 DEF NextClosed, logVars, tables, watcherVars, buffers, history, Named, Placed
<1>8. CASE NextCancelled(r)
  BY <1>8 DEF NextCancelled, logVars, tables, watcherVars, buffers, history, Named, Placed
<1>9. CASE End(r)
  BY <1>9, EndPlaced
<1>10. CASE Crash(r)
  BY <1>10, CrashPlaced
<1> QED  BY <1>1, <1>2, <1>3, <1>4, <1>5, <1>6, <1>7, <1>8, <1>9, <1>10
         DEF ListenerStep

LEMMA StepPlaced ==
    ASSUME LogAssumption, ReaderAssumption, Placed, [Next]_vars
    PROVE  Placed'
<1>1. ASSUME WriterStep \/ Signal, UNCHANGED readerVars
      PROVE  Placed'
  BY <1>1, LogStep
     DEF Placed, TypeOK, Apart, Named, readerVars, buffers, history
<1>2. ASSUME NEW r \in crew, ReaderStep(r)
      PROVE  Placed'
  <2>1. r \in Reader
    BY Given DEF Placed, TypeOK
  <2> QED  BY <1>2, <2>1, SubscriptionTypes, ListenerTypes DEF ReaderStep
<1>3. ASSUME UNCHANGED vars
      PROVE  Placed'
  BY <1>3 DEF vars, logVars, tables, watcherVars, readerVars, buffers, history,
              Placed, TypeOK, LogTypeOK, Apart, Named
<1> QED  BY <1>1, <1>2, <1>3 DEF Next

-----------------------------------------------------------------------------
(* What offsets, cursors and batches cover. *)

(* Steps that leave the events, the offsets and the subscriptions'         *)
(* positions alone.                                                        *)
LEMMA Bystander ==
    ASSUME Covering, UNCHANGED <<stream, offsets, covered>>,
           \A r \in Reader \ Listeners : cursor'[r] = cursor[r] /\ batch'[r] = batch[r]
    PROVE  Covering'
BY DEF Covering, CursorsCover, BatchesNext, OffsetsCover, Reach, Named

(* Covered stays covered when events and coverage are only added.          *)
LEMMA ReachKept ==
    ASSUME NEW r \in Reader, NEW n, Reach(r, n),
           \A o \in DOMAIN stream : o \in DOMAIN stream' /\ stream'[o] = stream[o],
           covered[consumerOf[r]] \subseteq covered'[consumerOf[r]]
    PROVE  \A o \in 1..n : \/ o \in covered'[consumerOf[r]]
                           \/ o \in DOMAIN stream' /\ stream'[o] # topicOf[r]
BY DEF Reach

LEMMA CoversGrows ==
    ASSUME LogAssumption, ReaderAssumption, Placed, NEW r \in Reader, NEW S, Covers(r, S)
    PROVE  /\ \A q \in Reader : Named(q) =>
                  covered[consumerOf[q]] \subseteq covered'[consumerOf[q]]
           /\ Named(r) => S \subseteq covered'[consumerOf[r]]
BY Given DEF Covers, Placed, TypeOK

LEMMA PublishCovers ==
    ASSUME Placed, Covering, NEW t \in Topic, Publish(t), UNCHANGED readerVars
    PROVE  Covering'
<1>1. /\ DOMAIN stream = 1..Len(stream) /\ DOMAIN stream' = 1..(Len(stream) + 1)
      /\ Len(stream) \in Nat
      /\ \A o \in DOMAIN stream : stream'[o] = stream[o]
  BY DEF Publish, Placed, TypeOK, LogTypeOK
<1>2. \A o \in DOMAIN stream : o \in DOMAIN stream' /\ stream'[o] = stream[o]
  BY <1>1
<1>3. UNCHANGED <<offsets, covered, cursor, batch>>
  BY DEF Publish, readerVars, buffers, history
<1>4. CursorsCover'
  BY <1>2, <1>3 DEF Covering, CursorsCover, Reach, Named
<1>5. OffsetsCover'
  BY <1>2, <1>3 DEF Covering, OffsetsCover, Named
<1>6. BatchesNext'
  <2> SUFFICES ASSUME NEW r \in Reader \ Listeners, NEW o \in batch[r]
               PROVE  /\ o \in DOMAIN stream' /\ o > cursor[r]
                      /\ \A p \in DOMAIN stream' :
                            cursor[r] < p /\ p < o /\ stream'[p] = topicOf[r]
                            => p \in batch[r]
    BY <1>3 DEF BatchesNext
  <2>1. o \in DOMAIN stream
    BY DEF Covering, BatchesNext
  <2>2. \A p \in DOMAIN stream' : p < o => p \in DOMAIN stream
    BY <1>1, <2>1
  <2> QED  BY <1>2, <2>1, <2>2 DEF Covering, BatchesNext
<1> QED  BY <1>4, <1>5, <1>6 DEF Covering

(* Who starts from a given position covers what it leaves out.             *)
LEMMA SubscribeCovers ==
    ASSUME LogAssumption, ReaderAssumption, Placed, Covering,
           NEW r \in Reader, Subscribe(r)
    PROVE  Covering'
<1>1. PICK from \in Starts : Moves(r, from) /\ Covers(r, 1..from)
  BY DEF Subscribe, Opens
<1>2. /\ UNCHANGED <<stream, offsets>>
      /\ batch' = [batch EXCEPT ![r] = {}]
  BY DEF Subscribe, tables
<1>3. OffsetsCover'
  BY <1>1, <1>2, CoversGrows DEF Covering, OffsetsCover, Named
<1>4. CursorsCover'
  <2> SUFFICES ASSUME NEW q \in Reader \ Listeners, Named(q),
                      NEW o \in 1..cursor'[q],
                      o \notin covered'[consumerOf[q]]
               PROVE  o \in DOMAIN stream /\ stream[o] # topicOf[q]
    BY <1>2 DEF CursorsCover, Reach, Named
  <2>1. q # r
    <3>1. cursor'[r] = from
      BY <1>1 DEF Moves, Placed, TypeOK
    <3>2. Named(r) => 1..from \subseteq covered'[consumerOf[r]]
      BY <1>1, CoversGrows
    <3> QED  BY <3>1, <3>2
  <2>2. cursor'[q] = cursor[q]
    BY <1>1, <2>1 DEF Moves, Placed, TypeOK
  <2> QED  BY <1>1, <2>2, CoversGrows DEF Covering, CursorsCover, Reach
<1>5. BatchesNext'
  BY <1>1, <1>2 DEF Moves, Covering, BatchesNext, Placed, TypeOK
<1> QED  BY <1>3, <1>4, <1>5 DEF Covering

LEMMA GetOffsetCovers ==
    ASSUME LogAssumption, ReaderAssumption, Placed, Covering,
           NEW r \in Reader, GetOffset(r)
    PROVE  Covering'
<1>1. Named(r) /\ batch[r] = {} /\ r \notin Listeners
  BY DEF GetOffset, Placed, Apart, ListenerPlaces
<1>2. /\ cursor' = [cursor EXCEPT ![r] = Larger(offsets[consumerOf[r]], cursor[r])]
      /\ UNCHANGED <<stream, offsets, covered, batch>>
  BY DEF GetOffset, Begins, Moves, logVars, tables, buffers
<1>3. cursor'[r] \in {offsets[consumerOf[r]], cursor[r]}
  BY <1>2 DEF Larger, Placed, TypeOK
<1>4. Reach(r, cursor'[r])
  BY <1>1, <1>3 DEF Covering, CursorsCover, OffsetsCover, Reach
<1>5. CursorsCover'
  <2> SUFFICES ASSUME NEW q \in Reader \ Listeners, Named(q)
               PROVE  Reach(q, cursor'[q])
    BY <1>2 DEF CursorsCover, Reach, Named
  <2>1. CASE q = r
    BY <1>4, <2>1
  <2>2. CASE q # r
    BY <1>2, <2>2 DEF Covering, CursorsCover, Placed, TypeOK
  <2> QED  BY <2>1, <2>2
<1>6. BatchesNext'
  <2> SUFFICES ASSUME NEW q \in Reader \ Listeners, batch[q] # {}
               PROVE  cursor'[q] = cursor[q]
    BY <1>2 DEF Covering, BatchesNext
  <2> QED  BY <1>1, <1>2 DEF Placed, TypeOK
<1>7. OffsetsCover'
  BY <1>2 DEF Covering, OffsetsCover, Named
<1> QED  BY <1>5, <1>6, <1>7 DEF Covering

(* The first k of a finite set have no other member among them.            *)
LEMMA FirstClosed ==
    ASSUME NEW S \in SUBSET Nat, IsFiniteSet(S), NEW k \in Nat,
           NEW o \in First(k, S), NEW p \in S, p < o
    PROVE  p \in First(k, S)
<1> DEFINE Below(n) == {q \in S : q < n}
<1>1. o \in Nat /\ p \in Nat /\ Cardinality(Below(o)) < k
  BY DEF First
<1>2. Below(p) \subseteq Below(o)
  <2> SUFFICES ASSUME NEW q \in S, q < p
               PROVE  q < o
    OBVIOUS
  <2>1. q \in Nat
    OBVIOUS
  <2> QED  BY <1>1, <2>1
<1>3. Below(o) \subseteq S /\ IsFiniteSet(Below(o))
  <2>1. Below(o) \subseteq S
    OBVIOUS
  <2> QED  BY <2>1, FS_Subset
<1>4. /\ Cardinality(Below(p)) <= Cardinality(Below(o))
      /\ Cardinality(Below(p)) \in Nat /\ Cardinality(Below(o)) \in Nat
  BY <1>2, <1>3, FS_Subset, FS_CardinalityType
<1>5. Cardinality(Below(p)) < k
  BY <1>1, <1>4
<1> QED  BY <1>5 DEF First

LEMMA ReadBatchCovers ==
    ASSUME LogAssumption, ReaderAssumption, Placed, Covering,
           NEW r \in Reader, ReadBatch(r)
    PROVE  Covering'
<1>1. /\ batch' = [batch EXCEPT ![r] = First(BatchSize, Beyond(r))]
      /\ UNCHANGED <<stream, offsets, covered, cursor>>
  BY DEF ReadBatch, logVars, tables, history
<1>2. Beyond(r) \subseteq 1..Len(stream) /\ Len(stream) \in Nat
  BY DEF Beyond, Placed, TypeOK, LogTypeOK
<1>3. IsFiniteSet(Beyond(r)) /\ Beyond(r) \in SUBSET Nat
  <2>1. IsFiniteSet(1..Len(stream))
    BY <1>2, FS_Interval
  <2> QED  BY <1>2, <2>1, FS_Subset
<1>4. ASSUME NEW o \in First(BatchSize, Beyond(r))
      PROVE  /\ o \in DOMAIN stream /\ o > cursor[r]
             /\ \A p \in DOMAIN stream :
                   cursor[r] < p /\ p < o /\ stream[p] = topicOf[r]
                   => p \in First(BatchSize, Beyond(r))
  <2>1. o \in Beyond(r)
    BY DEF First
  <2>2. ASSUME NEW p \in DOMAIN stream, cursor[r] < p, p < o, stream[p] = topicOf[r]
        PROVE  p \in First(BatchSize, Beyond(r))
    <3>1. p \in Beyond(r)
      BY <1>2, <2>2 DEF Beyond, Placed, TypeOK, LogTypeOK
    <3> QED  BY <1>3, <2>2, <3>1, FirstClosed, Given
  <2> QED  BY <2>1, <2>2 DEF Beyond
<1>5. BatchesNext'
  <2> SUFFICES ASSUME NEW q \in Reader \ Listeners, NEW o \in batch'[q]
               PROVE  /\ o \in DOMAIN stream /\ o > cursor[q]
                      /\ \A p \in DOMAIN stream :
                            cursor[q] < p /\ p < o /\ stream[p] = topicOf[q]
                            => p \in batch'[q]
    BY <1>1 DEF BatchesNext
  <2>1. CASE q = r
    BY <1>1, <1>4, <2>1 DEF Placed, TypeOK
  <2>2. CASE q # r
    BY <1>1, <2>2 DEF Covering, BatchesNext, Placed, TypeOK
  <2> QED  BY <2>1, <2>2
<1>6. CursorsCover' /\ OffsetsCover'
  BY <1>1 DEF Covering, CursorsCover, OffsetsCover, Reach, Named
<1> QED  BY <1>5, <1>6 DEF Covering

(* The event sent is the next of its topic, so nothing between the old     *)
(* cursor and the new one is left uncovered.                               *)
LEMMA SendCovers ==
    ASSUME LogAssumption, ReaderAssumption, Placed, Covering,
           NEW r \in Reader, SendEvent(r)
    PROVE  Covering'
<1>1. PICK o \in batch[r] : /\ \A p \in batch[r] : o <= p
                            /\ Moves(r, o) /\ Covers(r, {o})
                            /\ batch' = [batch EXCEPT ![r] = @ \ {o}]
  BY DEF SendEvent, Sends
<1>2. UNCHANGED <<stream, offsets>>
  BY DEF SendEvent, Sends, logVars, tables
<1>3. r \notin Listeners
  BY DEF SendEvent, Sends, Placed, Apart, ListenerPlaces
<1>4. o \in Nat /\ cursor'[r] = o /\ cursor[r] \in Nat
  BY <1>1 DEF Moves, Placed, TypeOK
<1>5. ASSUME NEW q \in Reader, q # r
      PROVE  cursor'[q] = cursor[q] /\ batch'[q] = batch[q]
  BY <1>1, <1>5 DEF Moves, Placed, TypeOK
<1>6. OffsetsCover'
  BY <1>1, <1>2, CoversGrows DEF Covering, OffsetsCover, Named
<1>7. CursorsCover'
  <2> SUFFICES ASSUME NEW q \in Reader \ Listeners, Named(q),
                      NEW p \in 1..cursor'[q],
                      p \notin covered'[consumerOf[q]]
               PROVE  p \in DOMAIN stream /\ stream[p] # topicOf[q]
    BY <1>2 DEF CursorsCover, Reach, Named
  <2>1. CASE q # r
    BY <1>1, <1>5, <2>1, CoversGrows DEF Covering, CursorsCover, Reach
  <2>2. CASE q = r /\ p <= cursor[r]
    BY <1>1, <1>4, <2>2, CoversGrows DEF Covering, CursorsCover, Reach
  <2>3. CASE q = r /\ cursor[r] < p
    <3>1. p # o
      BY <1>1, <2>3, CoversGrows
    <3>2. p < o /\ p \notin batch[r]
      BY <1>1, <1>4, <2>3, <3>1
    <3>3. o \in DOMAIN stream
      BY <1>3 DEF Covering, BatchesNext
    <3>4. p \in DOMAIN stream
      <4>1. DOMAIN stream = 1..Len(stream) /\ Len(stream) \in Nat
        BY DEF Placed, TypeOK, LogTypeOK
      <4>2. p \in Nat /\ o \in Nat /\ p >= 1
        BY <1>4, <2>3, <3>3, <4>1
      <4> QED  BY <3>2, <3>3, <4>1, <4>2
    <3> QED  BY <1>3, <2>3, <3>2, <3>4 DEF Covering, BatchesNext
  <2> QED  BY <1>4, <2>1, <2>2, <2>3
<1>8. BatchesNext'
  <2> SUFFICES ASSUME NEW q \in Reader \ Listeners, NEW n \in batch'[q]
               PROVE  /\ n \in DOMAIN stream /\ n > cursor'[q]
                      /\ \A p \in DOMAIN stream :
                            cursor'[q] < p /\ p < n /\ stream[p] = topicOf[q]
                            => p \in batch'[q]
    BY <1>2 DEF BatchesNext
  <2>1. CASE q # r
    BY <1>5, <2>1 DEF Covering, BatchesNext
  <2>2. CASE q = r
    <3>1. batch'[r] = batch[r] \ {o} /\ n \in batch[r] /\ n # o
      BY <1>1, <2>2 DEF Placed, TypeOK
    <3>2. n > o /\ n \in DOMAIN stream /\ o > cursor[r]
      BY <1>1, <1>4, <2>2, <3>1 DEF Covering, BatchesNext, Placed, TypeOK
    <3>3. ASSUME NEW p \in DOMAIN stream, o < p, p < n, stream[p] = topicOf[r]
          PROVE  p \in batch'[r]
      <4>1. p \in Nat
        BY EventNumbers DEF Placed
      <4>2. cursor[r] < p
        BY <1>4, <3>2, <3>3, <4>1
      <4> QED  BY <1>4, <2>2, <3>1, <3>3, <4>1, <4>2 DEF Covering, BatchesNext
    <3> QED  BY <1>4, <2>2, <3>2, <3>3
  <2> QED  BY <2>1, <2>2
<1> QED  BY <1>6, <1>7, <1>8 DEF Covering

(* A save stores a cursor, and the subscriptions of one consumer read one  *)
(* topic, so what its cursor covers the consumer's offset may.             *)
LEMMA SaveCovers ==
    ASSUME LogAssumption, ReaderAssumption, Placed, Covering,
           NEW r \in Reader, SavePosition(r) \/ SaveLast(r)
    PROVE  Covering'
<1>1. Named(r) /\ r \notin Listeners
  BY DEF SavePosition, SaveLast, Placed, Apart, ListenerPlaces
<1>2. SaveOffset(consumerOf[r], cursor[r])
  BY DEF SavePosition, SaveLast, Position
<1>3. UNCHANGED <<stream, covered, cursor, batch>>
  BY <1>2 DEF SaveOffset, SavePosition, SaveLast, buffers, history
<1>4. /\ consumerOf[r] \in Consumer /\ cursor[r] \in Nat /\ LogTypeOK
  BY <1>1, Given DEF Placed, TypeOK
<1>5. \A d \in Consumer : offsets'[d] # offsets[d]
                             => d = consumerOf[r] /\ offsets'[d] = cursor[r]
  BY <1>2, <1>4, SaveTypes
<1>6. OffsetsCover'
  <2> SUFFICES ASSUME NEW q \in Reader, Named(q)
               PROVE  Reach(q, offsets'[consumerOf[q]])
    BY <1>3 DEF OffsetsCover, Reach, Named
  <2>1. consumerOf[q] \in Consumer
    BY Given
  <2>2. CASE offsets'[consumerOf[q]] = offsets[consumerOf[q]]
    BY <2>2 DEF Covering, OffsetsCover, Reach
  <2>3. CASE offsets'[consumerOf[q]] # offsets[consumerOf[q]]
    <3>1. consumerOf[q] = consumerOf[r] /\ offsets'[consumerOf[q]] = cursor[r]
      BY <1>5, <2>1, <2>3
    <3>2. topicOf[q] = topicOf[r]
      BY <2>1, <3>1 DEF ReaderAssumption
    <3>3. Reach(r, cursor[r])
      BY <1>1 DEF Covering, CursorsCover
    <3> QED  BY <3>1, <3>2, <3>3 DEF Reach
  <2> QED  BY <2>2, <2>3
<1>7. CursorsCover' /\ BatchesNext'
  BY <1>3 DEF Covering, CursorsCover, BatchesNext, Reach, Named
<1> QED  BY <1>6, <1>7 DEF Covering

-----------------------------------------------------------------------------
(* The steps together. *)

LEMMA WriterCovers ==
    ASSUME Placed, Covering, WriterStep \/ Signal, UNCHANGED readerVars
    PROVE  Covering'
<1>1. ASSUME NEW t \in Topic, Publish(t)
      PROVE  Covering'
  BY <1>1, PublishCovers
<1>2. ASSUME (\E t \in Topic : Notify(t)) \/ PruneNotifications \/ Signal
      PROVE  Covering'
  <2>1. UNCHANGED <<stream, offsets, covered, cursor, batch>>
    BY <1>2 DEF Notify, PruneNotifications, Signal, tables, readerVars, buffers, history
  <2> QED  BY <2>1, Bystander
<1> QED  BY <1>1, <1>2 DEF WriterStep

(* What a Listener does, and what moves no position. *)
LEMMA OthersCover ==
    ASSUME ReaderAssumption, Placed, Covering, NEW r \in Reader,
           \/ Wake(r) \/ Stop(r) \/ ReadFails(r) \/ Receive(r)
           \/ Listen(r) \/ ListenerStep(r) \/ NextCancelled(r) \/ End(r) \/ Crash(r)
    PROVE  Covering'
<1> USE DEF logVars, tables, buffers, history
<1>1. CASE Wake(r) \/ Stop(r) \/ ReadFails(r) \/ Receive(r)
  BY <1>1, Bystander DEF Wake, Stop, ReadFails, Receive
<1>2. CASE \/ CallNext(r) \/ PollNone(r) \/ PollAgain(r) \/ NextClosed(r)
           \/ NextCancelled(r) \/ End(r) \/ Crash(r)
  BY <1>2, Bystander
     DEF CallNext, PollNone, PollAgain, NextClosed, NextCancelled, End, Crash
<1>3. CASE Listen(r) \/ FindLast(r) \/ PollOne(r)
  <2>1. r \in Listeners
    BY <1>3 DEF Listen, FindLast, PollOne, Placed, Apart, SubscriptionPlaces
  <2>2. UNCHANGED <<stream, offsets, covered, batch>>
    BY <1>3 DEF Listen, FindLast, PollOne
  <2>3. \E n : cursor' = [cursor EXCEPT ![r] = n]
    BY <1>3 DEF Listen, Opens, FindLast, Begins, PollOne, Moves
  <2>4. \A q \in Reader \ Listeners : cursor'[q] = cursor[q]
    BY <2>1, <2>3 DEF Placed, TypeOK
  <2> QED  BY <2>2, <2>4, Bystander
<1> QED  BY <1>1, <1>2, <1>3 DEF ListenerStep

LEMMA StepReaders ==
    ASSUME LogAssumption, ReaderAssumption, ReadersInv, [Next]_vars
    PROVE  ReadersInv'
<1> USE DEF ReadersInv
<1>1. Placed'
  BY StepPlaced
<1>2. ASSUME NEW r \in crew, ReaderStep(r)
      PROVE  Covering'
  <2>1. r \in Reader
    BY Given DEF Placed, TypeOK
  <2> QED  BY <1>2, <2>1, SubscribeCovers, GetOffsetCovers, ReadBatchCovers,
              SendCovers, SaveCovers, OthersCover
           DEF ReaderStep, SubscriptionStep
<1>3. ASSUME UNCHANGED vars
      PROVE  Covering'
  BY <1>3, Bystander DEF vars, logVars, tables, readerVars, buffers, history
<1> QED  BY <1>1, <1>2, <1>3, WriterCovers DEF Next

(* An offset changes in a save only, and there to nothing smaller.         *)
LEMMA StepGrows ==
    ASSUME LogAssumption, ReaderAssumption, ReadersInv, [Next]_vars
    PROVE  \A c \in Consumer : offsets'[c] >= offsets[c]
<1> USE DEF ReadersInv
<1>0. \A c \in Consumer : offsets[c] \in Nat
  BY DEF Placed, TypeOK, LogTypeOK
<1>1. ASSUME WriterStep \/ Signal
      PROVE  UNCHANGED offsets
  BY <1>1 DEF WriterStep, Publish, Notify, PruneNotifications, Signal, tables
<1>2. ASSUME NEW r \in Reader, SavePosition(r) \/ SaveLast(r)
      PROVE  \A c \in Consumer : offsets'[c] >= offsets[c]
  <2>1. SaveOffset(consumerOf[r], cursor[r])
    BY <1>2 DEF SavePosition, SaveLast, Position
  <2>2. consumerOf[r] \in Consumer /\ cursor[r] \in Nat /\ LogTypeOK
    BY <1>2, Given DEF SavePosition, SaveLast, Placed, Apart, TypeOK
  <2> QED  BY <2>1, <2>2, SaveTypes
<1>3. ASSUME NEW r \in crew, ReaderStep(r), ~SavePosition(r), ~SaveLast(r)
      PROVE  UNCHANGED offsets
  <2>1. CASE SubscriptionStep(r) \/ Subscribe(r) \/ ReadFails(r) \/ Receive(r)
    BY <1>3, <2>1
       DEF SubscriptionStep, Subscribe, GetOffset, ReadBatch, SendEvent, Sends, Wake,
           Stop, ReadFails, Receive, logVars, tables
  <2>2. CASE \/ Listen(r) \/ ListenerStep(r) \/ NextCancelled(r) \/ End(r) \/ Crash(r)
    BY <2>2
       DEF Listen, ListenerStep, FindLast, CallNext, PollOne, PollNone, PollAgain,
           NextClosed, NextCancelled, End, Crash, logVars, tables
  <2> QED  BY <1>3, <2>1, <2>2 DEF ReaderStep
<1>4. ASSUME UNCHANGED vars
      PROVE  UNCHANGED offsets
  BY <1>4 DEF vars, logVars, tables
<1>5. \A r \in crew : r \in Reader
  BY Given DEF Placed, TypeOK
<1> QED  BY <1>0, <1>1, <1>2, <1>3, <1>4, <1>5 DEF Next

(* The tables, positions, channels and histories of EventLog and Readers   *)
(* keep their types, and a channel its capacity (stream.go:147-159).       *)
THEOREM TypeCorrect ==
    ASSUME LogAssumption, ReaderAssumption
    PROVE  Spec => []TypeOK
<1>1. Init => ReadersInv
  BY InitReaders
<1>2. ReadersInv /\ [Next]_vars => ReadersInv'
  BY StepReaders
<1>3. ReadersInv => TypeOK
  BY DEF ReadersInv, Placed
<1> QED  BY <1>1, <1>2, <1>3, PTL DEF Spec

(* A saved offset covers only events that were sent to a subscription of   *)
(* the consumer, or left out by one that was given a start, whatever       *)
(* saves fail, overtake each other or are cut off (stream.go:161-174,      *)
(* 199-217).                                                               *)
THEOREM OffsetsCorrect ==
    ASSUME LogAssumption, ReaderAssumption
    PROVE  Spec => []OffsetsCover
<1>1. Init => ReadersInv
  BY InitReaders
<1>2. ReadersInv /\ [Next]_vars => ReadersInv'
  BY StepReaders
<1>3. ReadersInv => OffsetsCover
  BY DEF ReadersInv, Covering
<1> QED  BY <1>1, <1>2, <1>3, PTL DEF Spec

(* Of two subscriptions of one consumer the slower one's save does not     *)
(* take the offset back (stream.go:199-217).                               *)
THEOREM OffsetsGrow ==
    ASSUME LogAssumption, ReaderAssumption
    PROVE  Spec => OffsetsOnlyGrow
<1>1. Init => ReadersInv
  BY InitReaders
<1>2. ReadersInv /\ [Next]_vars => ReadersInv'
  BY StepReaders
<1>3. ReadersInv /\ [Next]_vars => [\A c \in Consumer : offsets'[c] >= offsets[c]]_vars
  BY StepGrows
<1> QED  BY <1>1, <1>2, <1>3, PTL DEF Spec, OffsetsOnlyGrow

-----------------------------------------------------------------------------
(* What was received: the invariant behind NothingSkipped. *)

(* Where a subscription stands, what it has in hand and what it has sent.  *)
(* It may have been given a start that the stream has not reached yet.     *)
Served(r) ==
    /\ start[r] <= cursor[r]
    /\ start[r] = cursor[r] \/ cursor[r] \in DOMAIN stream
    /\ \A o \in batch[r] : stream[o] = topicOf[r]
    /\ at[r] = "resolving" => got[r] = <<>> /\ chan[r] = <<>>
    /\ at[r] \notin {"out", "resolving"}
       => Rising(got[r] \o chan[r]) /\ Members(got[r] \o chan[r]) = Passed(r)

(* The same of a Listener: its lastID is an id that was given to a row, so *)
(* no later row comes behind it.                                           *)
Told(r) ==
    /\ chan[r] = <<>>
    /\ cursor[r] <= noteSeq
    /\ at[r] = "listening" => got[r] = <<>>
    /\ \A i \in Members(got[r]) : i <= cursor[r]
    /\ Rising(got[r])
    /\ \A i \in Ids(r) : start[r] < i /\ i <= cursor[r] => i \in Members(got[r])

OrderInv ==
    /\ \A n \in notes : n.id <= noteSeq
    /\ \A r \in Reader \ Listeners : Served(r)
    /\ \A r \in Reader \cap Listeners : Told(r)

LEMMA AppendRises ==
    ASSUME NEW s \in Seq(Nat), NEW o \in Nat, Rising(s), \A n \in Members(s) : n < o
    PROVE  /\ Append(s, o) \in Seq(Nat)
           /\ Rising(Append(s, o))
           /\ Members(Append(s, o)) = Members(s) \cup {o}
<1>1. PICK n \in Nat : n = Len(s)
  OBVIOUS
<1>2. DOMAIN s = 1..n /\ \A i \in 1..n : s[i] \in Nat /\ s[i] < o
  BY <1>1 DEF Members
<1>3. PICK t : t = Append(s, o)
  OBVIOUS
<1>4. /\ t \in Seq(Nat) /\ DOMAIN t = 1..(n + 1) /\ t[n + 1] = o
      /\ \A i \in 1..n : t[i] = s[i]
  BY <1>1, <1>3
<1>5. Rising(t)
  BY <1>2, <1>4 DEF Rising
<1>6. Members(t) = Members(s) \cup {o}
  <2>1. Members(s) = {s[i] : i \in 1..n}
    BY <1>2 DEF Members
  <2>2. Members(t) = {t[i] : i \in 1..(n + 1)}
    BY <1>4 DEF Members
  <2>3. \A i : i \in 1..(n + 1) <=> i \in 1..n \/ i = n + 1
    BY <1>1
  <2> QED  BY <1>4, <2>1, <2>2, <2>3
<1> QED  BY <1>3, <1>4, <1>5, <1>6

LEMMA ReceivedFirst ==
    ASSUME NEW g \in Seq(Nat), NEW c \in Seq(Nat), c # <<>>
    PROVE  Append(g, Head(c)) \o Tail(c) = g \o c
OBVIOUS

LEMMA Nothing ==
    /\ <<>> \in Seq(Nat) /\ <<>> \o <<>> = <<>>
    /\ Rising(<<>>) /\ Members(<<>>) = {}
BY DEF Rising, Members

LEMMA InitOrder ==
    ASSUME LogAssumption, ReaderAssumption, Init
    PROVE  OrderInv
<1>1. \A r \in Reader : /\ start[r] = 0 /\ cursor[r] = 0 /\ batch[r] = {}
                        /\ got[r] = <<>> /\ chan[r] = <<>> /\ at[r] = "out"
  BY DEF Init
<1>2. notes = {} /\ noteSeq = 0
  BY DEF Init, LogInit
<1>3. \A r \in Reader : Served(r)
  BY <1>1 DEF Served
<1>4. \A r \in Reader : Told(r)
  BY <1>1, <1>2, Nothing DEF Told, Ids
<1> QED  BY <1>2, <1>3, <1>4 DEF OrderInv

(* A subscription is served as before when nothing of it changes but its   *)
(* place, and that not to one where more is asked of it; or when it ends.  *)
LEMMA ServedKept ==
    ASSUME NEW r \in Reader, Served(r), UNCHANGED stream,
           start'[r] = start[r], cursor'[r] = cursor[r], batch'[r] \subseteq batch[r],
           \/ at'[r] = "out"
           \/ /\ got'[r] = got[r] /\ chan'[r] = chan[r]
              /\ \/ at'[r] = at[r]
                 \/ at[r] \notin {"out", "resolving"} /\ at'[r] # "resolving"
    PROVE  Served(r)'
BY DEF Served, Passed

LEMMA ToldKept ==
    ASSUME NEW r \in Reader, Told(r), UNCHANGED <<notes, noteSeq>>,
           start'[r] = start[r], cursor'[r] = cursor[r], got'[r] = got[r],
           chan'[r] = chan[r], at'[r] = "listening" => at[r] = "listening"
    PROVE  Told(r)'
BY DEF Told, Ids

(* A step of one reader is none of another's. *)
OthersSame(r) ==
    \A q \in Reader \ {r} :
        /\ start'[q] = start[q] /\ cursor'[q] = cursor[q] /\ batch'[q] = batch[q]
        /\ got'[q] = got[q] /\ chan'[q] = chan[q] /\ at'[q] = at[q]

LEMMA OneReader ==
    ASSUME OrderInv, NEW r \in Reader, UNCHANGED <<stream, notes, noteSeq>>,
           OthersSame(r),
           r \notin Listeners => Served(r)',
           r \in Listeners => Told(r)'
    PROVE  OrderInv'
<1>1. ASSUME NEW q \in Reader \ Listeners PROVE Served(q)'
  <2>1. CASE q = r
    BY <2>1
  <2>2. CASE q # r
    BY <2>2, ServedKept DEF OrderInv, OthersSame
  <2> QED  BY <2>1, <2>2
<1>2. ASSUME NEW q \in Reader \cap Listeners PROVE Told(q)'
  <2>1. CASE q = r
    BY <2>1
  <2>2. CASE q # r
    BY <2>2, ToldKept DEF OrderInv, OthersSame
  <2> QED  BY <2>1, <2>2
<1>3. \A n \in notes' : n.id <= noteSeq'
  BY DEF OrderInv
<1> QED  BY <1>1, <1>2, <1>3 DEF OrderInv

-----------------------------------------------------------------------------
(* The writers. *)

(* A new event comes behind every cursor that has moved. *)
LEMMA PublishServes ==
    ASSUME Placed, Covering, NEW t \in Topic, Publish(t), UNCHANGED readerVars,
           NEW r \in Reader \ Listeners, Served(r)
    PROVE  Served(r)'
<1>1. /\ DOMAIN stream = 1..Len(stream) /\ DOMAIN stream' = 1..(Len(stream) + 1)
      /\ Len(stream) \in Nat
      /\ \A o \in DOMAIN stream : stream'[o] = stream[o]
  BY DEF Publish, Placed, TypeOK, LogTypeOK
<1>2. UNCHANGED <<start, cursor, batch, got, chan, at>>
  BY DEF readerVars, buffers, history
<1>3. start[r] \in Nat /\ cursor[r] \in Nat
  BY DEF Placed, TypeOK
<1>4. start[r] = cursor[r] \/ cursor[r] \in DOMAIN stream
  BY DEF Served
<1>5. Passed(r)' = Passed(r)
  <2>1. ASSUME NEW o, o \in DOMAIN stream \/ o \in DOMAIN stream',
               start[r] < o, o <= cursor[r]
        PROVE  o \in DOMAIN stream
    BY <1>1, <1>3, <1>4, <2>1
  <2> QED  BY <1>1, <1>2, <2>1 DEF Passed
<1>6. \A o \in batch[r] : stream'[o] = topicOf[r]
  BY <1>1 DEF Covering, BatchesNext, Served
<1>7. start[r] = cursor[r] \/ cursor[r] \in DOMAIN stream'
  BY <1>1, <1>4
<1> QED  BY <1>2, <1>5, <1>6, <1>7 DEF Served

(* A new row comes behind every lastID. *)
LEMMA InsertTells ==
    ASSUME Placed, NEW t \in Topic, Insert(t), UNCHANGED readerVars,
           NEW r \in Reader, Told(r)
    PROVE  Told(r)'
<1>1. /\ noteSeq \in Nat /\ noteSeq' = noteSeq + 1 /\ cursor[r] \in Nat
      /\ notes' = notes \cup {[id |-> noteSeq + 1, channel |-> t]}
  BY DEF Insert, NextId, Placed, TypeOK, LogTypeOK
<1>2. UNCHANGED <<start, cursor, got, chan, at>>
  BY DEF readerVars, buffers, history
<1>3. ASSUME NEW i \in Ids(r)', i <= cursor[r] PROVE i \in Ids(r)
  <2>1. PICK n \in notes' : n.channel = topicOf[r] /\ n.id = i
    BY DEF Ids
  <2>2. cursor[r] <= noteSeq
    BY DEF Told
  <2>3. n \in notes
    BY <1>1, <1>3, <2>1, <2>2
  <2> QED  BY <2>1, <2>3 DEF Ids
<1>4. cursor[r] <= noteSeq'
  BY <1>1 DEF Told
<1> QED  BY <1>2, <1>3, <1>4 DEF Told

LEMMA WriterOrders ==
    ASSUME LogAssumption, ReaderAssumption, ReadersInv, OrderInv,
           WriterStep \/ Signal, UNCHANGED readerVars
    PROVE  OrderInv'
<1>0. /\ noteSeq \in Nat /\ \A n \in notes : n.id \in Nat /\ n.id <= noteSeq
      /\ Placed /\ Covering
  BY DEF ReadersInv, Placed, TypeOK, LogTypeOK, Note, OrderInv
<1>1. UNCHANGED <<start, cursor, batch, got, chan, at>>
  BY DEF readerVars, buffers, history
<1>2. ASSUME UNCHANGED stream, NEW r \in Reader \ Listeners PROVE Served(r)'
  BY <1>1, <1>2, ServedKept DEF OrderInv
<1>3. ASSUME NEW t \in Topic, Insert(t)
      PROVE  /\ \A n \in notes' : n.id <= noteSeq'
             /\ \A r \in Reader \cap Listeners : Told(r)'
  <2>1. \A n \in notes' : n.id <= noteSeq'
    BY <1>0, <1>3 DEF Insert, NextId
  <2> QED  BY <1>0, <1>3, <2>1, InsertTells DEF OrderInv
<1>4. ASSUME NEW t \in Topic, Publish(t) PROVE OrderInv'
  <2>1. \A r \in Reader \ Listeners : Served(r)'
    BY <1>0, <1>4, PublishServes DEF OrderInv
  <2> QED  BY <1>3, <1>4, <2>1 DEF Publish, OrderInv
<1>5. ASSUME NEW t \in Topic, Notify(t) PROVE OrderInv'
  BY <1>2, <1>3, <1>5 DEF Notify, OrderInv
<1>6. CASE PruneNotifications
  <2>1. notes' \subseteq notes /\ UNCHANGED <<stream, noteSeq>>
    BY <1>6 DEF PruneNotifications, Newest
  <2>2. ASSUME NEW r \in Reader \cap Listeners PROVE Told(r)'
    <3>1. Ids(r)' \subseteq Ids(r) /\ Told(r)
      BY <2>1 DEF Ids, OrderInv
    <3> QED  BY <1>1, <2>1, <3>1 DEF Told
  <2> QED  BY <1>0, <1>2, <2>1, <2>2 DEF OrderInv
<1>7. CASE Signal
  <2>1. UNCHANGED <<stream, notes, noteSeq>>
    BY <1>7 DEF Signal, tables
  <2>2. ASSUME NEW r \in Reader \cap Listeners PROVE Told(r)'
    BY <1>1, <2>1, <2>2, ToldKept DEF OrderInv
  <2> QED  BY <1>0, <1>2, <2>1, <2>2 DEF OrderInv
<1> QED  BY <1>4, <1>5, <1>6, <1>7 DEF WriterStep

-----------------------------------------------------------------------------
(* The steps of a reader, and what they leave alone. *)

LEMMA SubscriptionAlone ==
    ASSUME LogAssumption, ReaderAssumption, Placed, NEW r \in Reader,
           Subscribe(r) \/ SubscriptionStep(r) \/ ReadFails(r) \/ Receive(r)
    PROVE  UNCHANGED <<stream, notes, noteSeq>> /\ OthersSame(r)
<1> USE DEF OthersSame, Placed, TypeOK, Goes, Moves, Leaves, logVars, tables, buffers,
            history
<1>1. CASE Subscribe(r)
  BY <1>1 DEF Subscribe, Opens
<1>2. CASE GetOffset(r)
  BY <1>2 DEF GetOffset, Begins
<1>3. CASE ReadBatch(r)
  BY <1>3 DEF ReadBatch
<1>4. CASE SendEvent(r)
  <2>1. PICK o, place : /\ chan' = [chan EXCEPT ![r] = Append(@, o)]
                        /\ Moves(r, o) /\ Goes(r, place)
                        /\ batch' = [batch EXCEPT ![r] = @ \ {o}]
    BY <1>4 DEF SendEvent, Sends
  <2>2. UNCHANGED <<logVars, start, got>>
    BY <1>4 DEF SendEvent, Sends
  <2> QED  BY <2>1, <2>2
<1>5. CASE SavePosition(r)
  BY <1>5 DEF SavePosition, SaveOffset
<1>6. CASE Wake(r)
  BY <1>6 DEF Wake
<1>7. CASE Stop(r)
  BY <1>7 DEF Stop
<1>8. CASE SaveLast(r)
  BY <1>8 DEF SaveLast, SaveOffset
<1>9. CASE ReadFails(r)
  BY <1>9 DEF ReadFails
<1>10. CASE Receive(r)
  BY <1>10 DEF Receive
<1> QED  BY <1>1, <1>2, <1>3, <1>4, <1>5, <1>6, <1>7, <1>8, <1>9, <1>10
         DEF SubscriptionStep

LEMMA ListenerAlone ==
    ASSUME LogAssumption, ReaderAssumption, Placed, NEW r \in Reader,
           Listen(r) \/ ListenerStep(r) \/ NextCancelled(r) \/ End(r) \/ Crash(r)
    PROVE  UNCHANGED <<stream, notes, noteSeq>> /\ OthersSame(r)
<1> USE DEF OthersSame, Placed, TypeOK, Goes, Moves, Leaves, logVars, tables, buffers,
            history
<1>1. CASE Listen(r)
  BY <1>1 DEF Listen, Opens
<1>2. CASE FindLast(r)
  BY <1>2 DEF FindLast, Begins
<1>3. CASE PollOne(r)
  BY <1>3 DEF PollOne
<1>4. CASE CallNext(r) \/ PollNone(r) \/ PollAgain(r) \/ NextClosed(r) \/ NextCancelled(r)
  BY <1>4 DEF CallNext, PollNone, PollAgain, NextClosed, NextCancelled
<1>5. CASE End(r)
  BY <1>5 DEF End
<1>6. CASE Crash(r)
  BY <1>6 DEF Crash
<1> QED  BY <1>1, <1>2, <1>3, <1>4, <1>5, <1>6 DEF ListenerStep

-----------------------------------------------------------------------------
(* The steps of a subscription. *)

LEMMA SubscribeServes ==
    ASSUME LogAssumption, ReaderAssumption, Placed, NEW r \in Reader, Subscribe(r)
    PROVE  Served(r)'
<1>1. PICK from \in Starts :
         /\ Moves(r, from) /\ start' = [start EXCEPT ![r] = from]
         /\ got' = [got EXCEPT ![r] = <<>>]
  BY DEF Subscribe, Opens
<1>2. batch' = [batch EXCEPT ![r] = {}] /\ chan' = [chan EXCEPT ![r] = <<>>]
  BY DEF Subscribe
<1>3. /\ start'[r] = from /\ cursor'[r] = from /\ from \in Nat
      /\ batch'[r] = {} /\ got'[r] = <<>> /\ chan'[r] = <<>>
  BY <1>1, <1>2, Given DEF Moves, Placed, TypeOK
<1>4. stream' = stream /\ DOMAIN stream \subseteq Nat
  BY EventNumbers DEF Subscribe, tables, Placed
<1>5. Passed(r)' = {}
  BY <1>3, <1>4 DEF Passed
<1> QED  BY <1>3, <1>5, Nothing DEF Served

LEMMA GetOffsetServes ==
    ASSUME LogAssumption, ReaderAssumption, Placed, NEW r \in Reader, GetOffset(r),
           Served(r)
    PROVE  Served(r)'
<1>1. PICK n \in Nat : cursor'[r] = n /\ start'[r] = n
  BY Given DEF GetOffset, Begins, Moves, Larger, Placed, Apart, TypeOK, LogTypeOK
<1>2. got'[r] = <<>> /\ chan'[r] = <<>> /\ batch'[r] = batch[r] /\ stream' = stream
  BY DEF GetOffset, Served, logVars, tables, buffers
<1>3. Passed(r)' = {}
  BY <1>1, <1>2, EventNumbers DEF Passed, Placed
<1> QED  BY <1>1, <1>2, <1>3, Nothing DEF Served

LEMMA ReadBatchServes ==
    ASSUME LogAssumption, ReaderAssumption, Placed, NEW r \in Reader, ReadBatch(r),
           Served(r)
    PROVE  Served(r)'
<1>1. UNCHANGED <<stream, start, cursor, got, chan>>
  BY DEF ReadBatch, logVars, tables, history
<1>2. \A o \in batch'[r] : stream[o] = topicOf[r]
  BY DEF ReadBatch, First, Beyond, Placed, TypeOK
<1>3. at[r] = "reading"
  BY DEF ReadBatch
<1> QED  BY <1>1, <1>2, <1>3 DEF Served, Passed, ReadBatch, Goes, Placed, TypeOK

(* The event sent is the next of its topic after the cursor.               *)
LEMMA SendServes ==
    ASSUME LogAssumption, ReaderAssumption, Placed, Covering,
           NEW r \in Reader, SendEvent(r), Served(r)
    PROVE  Served(r)'
<1>1. PICK o \in batch[r] : /\ \A p \in batch[r] : o <= p
                            /\ chan' = [chan EXCEPT ![r] = Append(@, o)]
                            /\ Moves(r, o)
                            /\ batch' = [batch EXCEPT ![r] = @ \ {o}]
  BY DEF SendEvent, Sends
<1>2. UNCHANGED <<stream, start, got>> /\ at[r] = "sending" /\ r \notin Listeners
  BY DEF SendEvent, Sends, logVars, tables, Placed, Apart, ListenerPlaces
<1>3. /\ o \in Nat /\ cursor'[r] = o /\ cursor[r] \in Nat /\ start[r] \in Nat
      /\ got[r] \in Seq(Nat) /\ chan[r] \in Seq(Nat)
      /\ chan'[r] = Append(chan[r], o) /\ batch'[r] = batch[r] \ {o}
  BY <1>1 DEF Moves, Placed, TypeOK
<1>4. /\ o \in DOMAIN stream /\ o > cursor[r] /\ stream[o] = topicOf[r]
      /\ \A p \in DOMAIN stream :
            cursor[r] < p /\ p < o /\ stream[p] = topicOf[r] => p \in batch[r]
  BY <1>2 DEF Covering, BatchesNext, Served
<1>5. /\ start[r] <= cursor[r]
      /\ Rising(got[r] \o chan[r]) /\ Members(got[r] \o chan[r]) = Passed(r)
  BY <1>2 DEF Served
<1>6. PICK seen, sent : seen = got[r] \o chan[r] /\ sent = got[r] \o chan'[r]
  OBVIOUS
<1>7. \A n \in Members(seen) : n < o
  <2>1. \A n \in Passed(r) : n \in Nat /\ n <= cursor[r]
    BY EventNumbers DEF Passed, Placed
  <2> QED  BY <1>3, <1>4, <1>5, <1>6, <2>1
<1>8. seen \in Seq(Nat) /\ sent = Append(seen, o)
  <2>1. /\ got[r] \in Seq(Nat) /\ chan[r] \in Seq(Nat) /\ o \in Nat
        /\ sent = got[r] \o Append(chan[r], o)
    BY <1>3, <1>6, Zenon
  <2>2. PICK g \in Seq(Nat) : g = got[r]
    BY <2>1
  <2>3. PICK c \in Seq(Nat) : c = chan[r]
    BY <2>1
  <2>4. PICK n \in Nat : n = o
    BY <2>1
  <2>5. g \o c \in Seq(Nat) /\ g \o Append(c, n) = Append(g \o c, n)
    OBVIOUS
  <2> QED  BY <1>6, <2>1, <2>2, <2>3, <2>4, <2>5, Zenon
<1>9. Rising(sent) /\ Members(sent) = Passed(r) \cup {o}
  <2>1. o \in Nat /\ Rising(seen) /\ Members(seen) = Passed(r)
    BY <1>3, <1>5, <1>6
  <2>2. Rising(Append(seen, o)) /\ Members(Append(seen, o)) = Members(seen) \cup {o}
    BY <1>7, <1>8, <2>1, AppendRises
  <2> QED  BY <1>8, <2>1, <2>2, Zenon
<1>10. Passed(r)' = Passed(r) \cup {o}
  <2>1. Passed(r)' = {p \in DOMAIN stream : start[r] < p /\ p <= o /\ stream[p] = topicOf[r]}
    BY <1>2, <1>3 DEF Passed
  <2>2. ASSUME NEW p \in DOMAIN stream, cursor[r] < p, p <= o, stream[p] = topicOf[r]
        PROVE  p = o
    <3>1. p \in Nat /\ o \in Nat
      BY <1>3, EventNumbers DEF Placed
    <3>2. p < o => p \in batch[r]
      BY <1>4, <2>2
    <3>3. p \in batch[r] => o <= p
      BY <1>1
    <3> QED  BY <2>2, <3>1, <3>2, <3>3
  <2>3. ASSUME NEW p \in DOMAIN stream, start[r] < p, p <= o, stream[p] = topicOf[r]
        PROVE  p \in Passed(r) \cup {o}
    <3>1. p \in Nat
      BY EventNumbers DEF Placed
    <3> QED  BY <1>3, <2>2, <2>3, <3>1 DEF Passed
  <2>4. ASSUME NEW p \in Passed(r) \cup {o}
        PROVE  p \in DOMAIN stream /\ start[r] < p /\ p <= o /\ stream[p] = topicOf[r]
    <3>1. p = o => start[r] < p /\ p <= o
      BY <1>3, <1>4, <1>5
    <3>2. p \in Passed(r) => p \in Nat /\ p <= o
      BY <1>3, <1>4, EventNumbers DEF Passed, Placed
    <3> QED  BY <1>4, <2>4, <3>1, <3>2 DEF Passed
  <2> QED  BY <2>1, <2>3, <2>4
<1>11. start[r] <= cursor'[r] /\ cursor'[r] \in DOMAIN stream
  BY <1>3, <1>4, <1>5
<1>12. at'[r] # "resolving"
  BY DEF SendEvent, Sends, Onward, Goes, Placed, TypeOK
<1>13. \A p \in batch'[r] : stream[p] = topicOf[r]
  BY <1>3 DEF Served
<1> QED  BY <1>2, <1>3, <1>6, <1>9, <1>10, <1>11, <1>12, <1>13 DEF Served

LEMMA ReceiveServes ==
    ASSUME Placed, NEW r \in Reader, Receive(r), Served(r)
    PROVE  Served(r)'
<1>1. /\ got[r] \in Seq(Nat) /\ chan[r] \in Seq(Nat) /\ chan[r] # <<>>
      /\ got'[r] = Append(got[r], Head(chan[r])) /\ chan'[r] = Tail(chan[r])
      /\ UNCHANGED <<stream, start, cursor, batch, at>>
  BY DEF Receive, Placed, TypeOK, logVars, tables
<1>2. got'[r] \o chan'[r] = got[r] \o chan[r]
  BY <1>1, ReceivedFirst
<1>3. Passed(r)' = Passed(r)
  BY <1>1 DEF Passed
<1> QED  BY <1>1, <1>2, <1>3 DEF Served

LEMMA SubscriptionOrders ==
    ASSUME LogAssumption, ReaderAssumption, ReadersInv, OrderInv, NEW r \in Reader,
           Subscribe(r) \/ SubscriptionStep(r) \/ ReadFails(r) \/ Receive(r)
    PROVE  OrderInv'
<1>0. Placed /\ Covering
  BY DEF ReadersInv
<1>1. UNCHANGED <<stream, notes, noteSeq>> /\ OthersSame(r)
  BY <1>0, SubscriptionAlone
<1>2. r \notin Listeners
  BY <1>0 DEF OrderInv, Told, Subscribe, SubscriptionStep, GetOffset, ReadBatch,
              SendEvent, Sends, SavePosition, Wake, Stop, SaveLast, ReadFails, Receive,
              Placed, Apart, ListenerPlaces
<1>3. Served(r)
  BY <1>2 DEF OrderInv
<1>4. CASE Subscribe(r) \/ GetOffset(r) \/ ReadBatch(r) \/ SendEvent(r) \/ Receive(r)
  BY <1>0, <1>1, <1>2, <1>3, <1>4, OneReader, SubscribeServes, GetOffsetServes,
     ReadBatchServes, SendServes, ReceiveServes
<1>5. CASE SavePosition(r) \/ Wake(r) \/ Stop(r) \/ SaveLast(r) \/ ReadFails(r)
  <2>1. UNCHANGED <<start, cursor, batch, got, chan>>
    BY <1>5 DEF SavePosition, Wake, Stop, SaveLast, ReadFails, history, buffers
  <2>2. \/ at'[r] = "out"
        \/ at[r] \notin {"out", "resolving"} /\ at'[r] # "resolving"
    BY <1>0, <1>5 DEF SavePosition, Wake, Stop, SaveLast, ReadFails, Onward, Goes, Leaves,
                      Placed, TypeOK
  <2>3. Served(r)'
    BY <1>1, <1>3, <2>1, <2>2, ServedKept
  <2> QED  BY <1>1, <1>2, <2>3, OneReader
<1> QED  BY <1>4, <1>5 DEF SubscriptionStep

-----------------------------------------------------------------------------
(* The steps of a Listener. *)

LEMMA ListenTells ==
    ASSUME ReaderAssumption, Placed, NEW r \in Reader, Listen(r), Told(r)
    PROVE  Told(r)'
<1>1. /\ start'[r] = 0 /\ cursor'[r] = 0 /\ got'[r] = <<>>
      /\ UNCHANGED <<chan, notes, noteSeq>>
  BY DEF Listen, Opens, Moves, tables, buffers, Placed, TypeOK
<1>2. \A i \in Ids(r)' : i \in Nat
  BY <1>1 DEF Ids, Placed, TypeOK, LogTypeOK, Note
<1>3. noteSeq \in Nat
  BY DEF Placed, TypeOK, LogTypeOK
<1> QED  BY <1>1, <1>2, <1>3, Nothing DEF Told

LEMMA FindLastTells ==
    ASSUME Placed, OrderInv, NEW r \in Reader, FindLast(r), Told(r)
    PROVE  Told(r)'
<1>1. PICK last \in Ids(r) \cup {0} : Begins(r, last)
  BY DEF FindLast
<1>2. /\ start'[r] = last /\ cursor'[r] = last
      /\ UNCHANGED <<chan, got, notes, noteSeq>> /\ at[r] = "listening"
  BY <1>1 DEF FindLast, Begins, Moves, logVars, tables, buffers, Placed, TypeOK
<1>3. \A i \in Ids(r) : i \in Nat /\ i <= noteSeq
  BY DEF Ids, OrderInv, Placed, TypeOK, LogTypeOK, Note
<1>4. last \in Nat /\ last <= noteSeq
  BY <1>1, <1>3 DEF Placed, TypeOK, LogTypeOK
<1>5. chan[r] = <<>> /\ got[r] = <<>>
  BY <1>2 DEF Told
<1>6. Ids(r)' = Ids(r)
  BY <1>2 DEF Ids
<1> QED  BY <1>2, <1>3, <1>4, <1>5, <1>6, Nothing DEF Told

(* Next gives the first row after lastID, which is the new one.            *)
LEMMA PollTells ==
    ASSUME Placed, OrderInv, NEW r \in Reader, PollOne(r), Told(r)
    PROVE  Told(r)'
<1>1. PICK i \in New(r) : /\ \A k \in New(r) : i <= k
                          /\ Moves(r, i) /\ got' = [got EXCEPT ![r] = Append(@, i)]
  BY DEF PollOne
<1>2. /\ cursor'[r] = i /\ got'[r] = Append(got[r], i)
      /\ UNCHANGED <<chan, start, notes, noteSeq>> /\ at'[r] = "idle"
  BY <1>1 DEF PollOne, Moves, Goes, logVars, tables, buffers, Placed, TypeOK
<1>3. \A k \in Ids(r) : k \in Nat /\ k <= noteSeq
  BY DEF Ids, OrderInv, Placed, TypeOK, LogTypeOK, Note
<1>4. /\ i \in Nat /\ i <= noteSeq /\ i > cursor[r] /\ cursor[r] \in Nat
      /\ got[r] \in Seq(Nat)
  BY <1>3 DEF New, Placed, TypeOK
<1>5. \A n \in Members(got[r]) : n \in Nat /\ n < i /\ n <= i
  <2>1. \A n \in Members(got[r]) : n \in Nat
    BY <1>4 DEF Members
  <2> QED  BY <1>4, <2>1 DEF Told
<1>6. Rising(got'[r]) /\ Members(got'[r]) = Members(got[r]) \cup {i}
  BY <1>2, <1>4, <1>5, AppendRises DEF Told
<1>7. Ids(r)' = Ids(r)
  BY <1>2 DEF Ids
<1>8. ASSUME NEW k \in Ids(r), start[r] < k, k <= i
      PROVE  k \in Members(got[r]) \cup {i}
  <2>1. CASE k <= cursor[r]
    BY <1>8, <2>1 DEF Told
  <2>2. CASE k > cursor[r]
    <3>1. k \in New(r) /\ k \in Nat
      BY <1>3, <2>2 DEF New
    <3> QED  BY <1>1, <1>4, <1>8, <3>1
  <2> QED  BY <1>3, <1>4, <2>1, <2>2
<1>9. \A n \in Members(got'[r]) : n <= i
  BY <1>4, <1>5, <1>6
<1> QED  BY <1>2, <1>4, <1>6, <1>7, <1>8, <1>9 DEF Told

LEMMA ListenerOrders ==
    ASSUME LogAssumption, ReaderAssumption, ReadersInv, OrderInv, NEW r \in Reader,
           Listen(r) \/ ListenerStep(r) \/ NextCancelled(r) \/ End(r) \/ Crash(r)
    PROVE  OrderInv'
<1>0. Placed
  BY DEF ReadersInv
<1>1. UNCHANGED <<stream, notes, noteSeq>> /\ OthersSame(r)
  BY <1>0, ListenerAlone
<1>2. CASE Listen(r) \/ FindLast(r) \/ PollOne(r)
  <2>1. r \in Listeners
    BY <1>0, <1>2 DEF Listen, FindLast, PollOne, Placed, Apart, SubscriptionPlaces
  <2>2. Told(r)
    BY <2>1 DEF OrderInv
  <2>3. Told(r)'
    BY <1>0, <1>2, <2>2, ListenTells, FindLastTells, PollTells
  <2> QED  BY <1>1, <2>1, <2>3, OneReader
<1>3. CASE CallNext(r) \/ PollNone(r) \/ PollAgain(r) \/ NextClosed(r) \/ NextCancelled(r)
  <2>1. UNCHANGED <<start, cursor, batch, got, chan>>
    BY <1>3 DEF CallNext, PollNone, PollAgain, NextClosed, NextCancelled, history, buffers
  <2>2. at[r] \in {"idle", "polling", "waiting"} /\ at'[r] \notin {"listening", "resolving"}
    BY <1>0, <1>3 DEF CallNext, PollNone, PollAgain, NextClosed, NextCancelled, Goes,
                      Placed, TypeOK
  <2>3. r \notin Listeners => Served(r)'
    BY <1>1, <2>1, <2>2, ServedKept DEF OrderInv
  <2>4. r \in Listeners => Told(r)'
    BY <1>1, <2>1, <2>2, ToldKept DEF OrderInv
  <2> QED  BY <1>1, <2>3, <2>4, OneReader
<1>4. CASE End(r)
  <2>1. UNCHANGED <<start, cursor, batch, got, chan, at>>
    BY <1>4 DEF End, history, buffers
  <2>2. r \notin Listeners => Served(r)'
    BY <1>1, <2>1, ServedKept DEF OrderInv
  <2>3. r \in Listeners => Told(r)'
    BY <1>1, <2>1, ToldKept DEF OrderInv
  <2> QED  BY <1>1, <2>2, <2>3, OneReader
<1>5. CASE Crash(r)
  <2>1. /\ UNCHANGED <<start, cursor, batch, got>>
        /\ at'[r] = "out" /\ chan'[r] = <<>>
    BY <1>0, <1>5 DEF Crash, Leaves, Goes, history, Placed, TypeOK
  <2>2. r \notin Listeners => Served(r)'
    BY <1>1, <2>1, ServedKept DEF OrderInv
  <2>3. r \in Listeners => Told(r)'
    BY <1>1, <2>1, ToldKept DEF OrderInv, Told
  <2> QED  BY <1>1, <2>2, <2>3, OneReader
<1> QED  BY <1>2, <1>3, <1>4, <1>5 DEF ListenerStep

LEMMA StepOrders ==
    ASSUME LogAssumption, ReaderAssumption, ReadersInv, OrderInv, [Next]_vars
    PROVE  OrderInv'
<1>1. ASSUME NEW r \in crew, ReaderStep(r)
      PROVE  OrderInv'
  <2>1. r \in Reader
    BY Given DEF ReadersInv, Placed, TypeOK
  <2> QED  BY <1>1, <2>1, SubscriptionOrders, ListenerOrders DEF ReaderStep
<1>2. ASSUME UNCHANGED vars
      PROVE  OrderInv'
  <2>1. UNCHANGED <<stream, notes, noteSeq, start, cursor, batch, got, chan, at>>
    BY <1>2 DEF vars, logVars, tables, readerVars, buffers, history
  <2>2. \A r \in Reader \ Listeners : Served(r)'
    BY <2>1, ServedKept DEF OrderInv
  <2>3. \A r \in Reader \cap Listeners : Told(r)'
    BY <2>1, ToldKept DEF OrderInv
  <2> QED  BY <2>1, <2>2, <2>3 DEF OrderInv
<1> QED  BY <1>1, <1>2, WriterOrders DEF Next

(* A subscription's program gets every event of its topic from the start   *)
(* on, once and in order, and a Listener's program every row that was      *)
(* there when it came to it, none twice (stream.go:147-176,                *)
(* notify.go:51-58, 145-152): for any readers at once, batch sizes,        *)
(* channels, pruning, crashes and failing saves.                           *)
THEOREM AllReceived ==
    ASSUME LogAssumption, ReaderAssumption
    PROVE  Spec => []NothingSkipped
<1>1. Init => ReadersInv /\ OrderInv
  BY InitReaders, InitOrder
<1>2. ReadersInv /\ OrderInv /\ [Next]_vars => (ReadersInv /\ OrderInv)'
  BY StepReaders, StepOrders
<1>3. ReadersInv /\ OrderInv => NothingSkipped
  <2>1. ASSUME ReadersInv PROVE crew \subseteq Reader
    BY <2>1, Given DEF ReadersInv, Placed, TypeOK
  <2> QED  BY <2>1 DEF OrderInv, Served, Told, NothingSkipped, EventsInOrder, NotesInOrder
<1> QED  BY <1>1, <1>2, <1>3, PTL DEF Spec

=============================================================================
