---------------------------- MODULE SearchProofs ----------------------------
(***************************************************************************)
(* Proofs about the search leg, for every set of videos, fabricated ids,   *)
(* events of others, untitled records and concurrent invocations.          *)
(***************************************************************************)
EXTENDS Search, ConsumerProofs

\* What an invocation has established: the event says PROCESSED, the record it puts
\* has a title, and it ends on the publisher's event of a video that is there only
\* once the item stands, or stood until it was cleared.
PutInv(c) ==
    /\ worker[c].at \in {"get_record", "put_item"} => Usable(worker[c].msg)
    /\ worker[c].at = "put_item" => worker[c].msg.video \notin Untitled
    /\ /\ worker[c].at = "done" /\ worker[c].msg \in Events
       /\ worker[c].msg.video \notin deleted \cup Untitled
       => StaleReads \/ worker[c].msg.video \in index \cup cleared

\* What a rebuild has yet to bring back is in what it has yet to put.
RebuildInv ==
    /\ \A v \in rebuild.todo \cup rebuild.due : status[v] = PROCESSED
    /\ rebuild.due \cap Untitled = {}
    /\ rebuild.at = "put" /\ ~ StaleReads
          => rebuild.due \ deleted \subseteq index \cup rebuild.todo

\* What only consistent reads give.
Lossless == StaleReads \/ NoEventLost
Restored == StaleReads \/ RebuildIsComplete

IInv == /\ ConsumerInv
        /\ TypeOK
        /\ \A c \in Consumers : PutInv(c)
        /\ RebuildInv
        /\ IndexedIsProcessed
        /\ Lossless
        /\ Restored

LEMMA MessageTypes ==
    /\ \A v \in Videos : Event(v) \in Events /\ Event(v).video = v
    /\ \A m \in Events : m.video \in Videos /\ m = Event(m.video) /\ m.status = PROCESSED
    /\ \A m \in Messages : m \in Events \/ (m \in Foreign /\ m.from = "other")
BY ConsumerAssumption DEF Event, Events, Messages, ForeignEvents

LEMMA IInvInit == Init => IInv
BY ConsumerStart
   DEF Init, IInv, ConsumerInit, TypeOK, PutInv, RebuildInv, IndexedIsProcessed,
       Lossless, NoEventLost, Restored, RebuildIsComplete, Rebuilds, Idle, Life!Init, ConsumerInv

\* Whatever leaves the leg's own stores alone keeps what is true of them.
LEMMA OwnKept ==
    ASSUME IInv, ConsumerInv', Kept, UNCHANGED own
    PROVE  TypeOK' /\ RebuildInv' /\ IndexedIsProcessed' /\ Restored'
<1> USE Vocabulary DEF IInv, Kept, own
<1>1. TypeOK'
  BY DEF TypeOK, ConsumerInv
<1>2. RebuildInv'
  BY DEF RebuildInv, TypeOK, Rebuilds
<1>3. IndexedIsProcessed'
  BY DEF IndexedIsProcessed
<1>4. Restored'
  BY DEF Restored, RebuildIsComplete
<1> QED  BY <1>1, <1>2, <1>3, <1>4

-----------------------------------------------------------------------------
LEMMA IInvWorld ==
    ASSUME IInv, UNCHANGED own,
           \/ \E v \in Videos : Live(v) \/ Announce(v)
           \/ \E m \in Messages : Deliver(m)
    PROVE  IInv'
<1>1. ConsumerInv' /\ Kept
  BY LiveKeeps, AnnounceKeeps, DeliverKeeps DEF IInv
<1>2. /\ UNCHANGED worker
      /\ queue \subseteq queue'
      /\ \A v \in announced' \ announced : Event(v) \in queue'
  BY DEF Live, Announce, Deliver, life, Life!Create, Life!Move, Life!Remove,
         Life!Announce
<1>3. \A c \in Consumers : PutInv(c)'
  BY <1>1, <1>2 DEF IInv, PutInv, Kept, own
<1>4. Lossless'
  BY <1>1, <1>2 DEF IInv, Lossless, NoEventLost, Kept, own
<1> QED  BY <1>1, <1>3, <1>4, OwnKept DEF IInv

LEMMA IInvTake ==
    ASSUME IInv, NEW c \in Consumers, NEW m \in Messages, Take(c, m)
    PROVE  IInv'
<1>1. ConsumerInv' /\ Kept
  BY ReceiveKeeps DEF IInv, Take
<1>2. \A d \in Consumers : PutInv(d)'
  <2>1. /\ worker'[c] = [at |-> IF Usable(m) THEN "get_record" ELSE "done", msg |-> m]
        /\ \A d \in Consumers \ {c} : worker'[d] = worker[d]
    BY DEF IInv, ConsumerInv, ConsumerTypeOK, Take, Receive
  <2>2. m \in Events => Usable(m)
    BY MessageTypes DEF Usable
  <2>3. PutInv(c)'
    BY <2>1, <2>2 DEF PutInv
  <2>4. ASSUME NEW d \in Consumers \ {c}  PROVE PutInv(d)'
    BY <2>1 DEF IInv, PutInv, Take, Receive, life, own
  <2> QED  BY <2>3, <2>4
<1>3. Lossless'
  BY DEF IInv, Lossless, NoEventLost, Take, Receive, life, own
<1> QED  BY <1>1, <1>2, <1>3, OwnKept DEF IInv, Take

\* One invocation moves on, and the others are where they were.
LEMMA OneMoves ==
    ASSUME IInv, NEW c \in Consumers, worker[c].at # "idle",
           NEW stage \in {"put_item", "done"}, GoTo(c, stage)
    PROVE  /\ worker'[c].at = stage /\ worker'[c].msg = worker[c].msg
           /\ \A d \in Consumers \ {c} : worker'[d] = worker[d]
<1>1. worker[c] \in Workers /\ worker \in [Consumers -> Workers \cup {Idle}]
  BY DEF IInv, ConsumerInv, ConsumerTypeOK, Idle
<1> QED  BY <1>1 DEF GoTo, Workers

LEMMA IInvLookUp ==
    ASSUME IInv, NEW c \in Consumers, LookUp(c)
    PROVE  IInv'
<1>0. PICK found \in BOOLEAN :
          /\ GoTo(c, IF found THEN "put_item" ELSE "done")
          /\ found => VideoOf(c) \in Videos \ Untitled /\ status[VideoOf(c)] # Absent
          /\ ~found /\ ~StaleReads => ~Known(VideoOf(c)) \/ VideoOf(c) \in Untitled
  BY DEF LookUp, Found, Known
<1> USE DEF LookUp, At
<1>1. ConsumerInv' /\ Kept
  BY <1>0, GoToKeeps DEF IInv, own
<1>2. ~Known(VideoOf(c)) /\ worker[c].msg \in Events => VideoOf(c) \in deleted
  BY Vocabulary, MessageTypes DEF IInv, ConsumerInv, WorkInv, Announced, Known, VideoOf
<1>3. /\ worker'[c].at = IF found THEN "put_item" ELSE "done"
      /\ worker'[c].msg = worker[c].msg
      /\ \A d \in Consumers \ {c} : worker'[d] = worker[d]
  BY <1>0, OneMoves
<1>4. PutInv(c)'
  BY <1>0, <1>2, <1>3 DEF IInv, PutInv, VideoOf, life, own
<1>5. \A d \in Consumers \ {c} : PutInv(d)'
  BY <1>3 DEF IInv, PutInv, life, own
<1>6. Lossless'
  BY DEF IInv, Lossless, NoEventLost, life, own
<1> QED  BY <1>1, <1>4, <1>5, <1>6, OwnKept DEF IInv

\* A put for a record with a title, by the consumer or the rebuild.
LEMMA PutItemKeeps ==
    ASSUME IInv, NEW v \in Videos \ Untitled, NEW said \in BOOLEAN, PutItem(v, said),
           status[v] # Absent, ~ said => status[v] = PROCESSED,
           UNCHANGED <<life, clearing>>
    PROVE  /\ index' \subseteq Videos /\ hearsay' \subseteq Videos
           /\ cleared' \subseteq Videos /\ clearing' \subseteq Videos
           /\ IndexedIsProcessed'
           /\ index \cup cleared \subseteq (index \cup cleared)'
           /\ index \subseteq index' /\ v \in index'
BY DEF IInv, TypeOK, PutItem, IndexedIsProcessed, life

\* The consumer puts a video that had a record and has a title; and a PROCESSED one
\* unless it works for somebody else's event.
LEMMA WhatIsPut ==
    ASSUME IInv, NEW c \in Consumers, At(c, "put_item")
    PROVE  /\ VideoOf(c) \in Videos \ Untitled /\ status[VideoOf(c)] # Absent
           /\ Said(c) \in BOOLEAN /\ (~ Said(c) => status[VideoOf(c)] = PROCESSED)
           /\ Said(c) => worker[c].msg \in Foreign /\ Usable(worker[c].msg)
<1>1. worker[c].msg \in Messages /\ WorkInv(c) /\ PutInv(c)
  BY DEF IInv, ConsumerInv, ConsumerTypeOK, Workers, Idle, At
<1>2. Usable(worker[c].msg)
  BY <1>1 DEF PutInv, At
<1>3. Said(c) => worker[c].msg \notin Events
  BY DEF Said, Events, Event
<1>4. ~ Said(c) => worker[c].msg \in Events
  BY <1>1, <1>2, MessageTypes DEF Said, Usable
<1>5. worker[c].msg \in Events => status[VideoOf(c)] = PROCESSED
  BY <1>1 DEF WorkInv, Announced, IInv, ConsumerInv, VideoOf, At
<1> QED  BY <1>1, <1>2, <1>3, <1>4, <1>5, MessageTypes
         DEF WorkInv, PutInv, VideoOf, At, Said

LEMMA IInvPut ==
    ASSUME IInv, NEW c \in Consumers, Put(c)
    PROVE  IInv'
<1> USE DEF Put, At
<1>1. ConsumerInv' /\ Kept
  BY GoToKeeps, StutterKeeps DEF IInv
<1>2. /\ VideoOf(c) \in Videos \ Untitled /\ status[VideoOf(c)] # Absent
      /\ Said(c) \in BOOLEAN /\ (~ Said(c) => status[VideoOf(c)] = PROCESSED)
  BY WhatIsPut
<1>3. /\ index' \subseteq Videos /\ hearsay' \subseteq Videos
      /\ cleared' \subseteq Videos /\ clearing' \subseteq Videos
      /\ IndexedIsProcessed'
      /\ index \cup cleared \subseteq (index \cup cleared)'
      /\ index \subseteq index' /\ VideoOf(c) \in index'
  BY <1>2, PutItemKeeps
<1>4. TypeOK' /\ RebuildInv' /\ Restored'
  BY <1>1, <1>3 DEF IInv, TypeOK, ConsumerInv, RebuildInv, Restored, RebuildIsComplete, life
<1>5. \A d \in Consumers : PutInv(d)'
  <2>1. CASE GoTo(c, "done")
    <3>1. /\ worker'[c].at = "done" /\ worker'[c].msg = worker[c].msg
          /\ \A d \in Consumers \ {c} : worker'[d] = worker[d]
      BY <2>1, OneMoves
    <3>2. PutInv(c)'
      BY <1>3, <3>1 DEF PutInv, VideoOf
    <3> QED  BY <1>3, <3>1, <3>2 DEF IInv, PutInv, life
  <2>2. CASE UNCHANGED worker
    BY <1>3, <2>2 DEF IInv, PutInv, life
  <2> QED  BY <2>1, <2>2
<1>6. Lossless'
  BY <1>3 DEF IInv, Lossless, NoEventLost, life
<1> QED  BY <1>1, <1>3, <1>4, <1>5, <1>6 DEF IInv

LEMMA IInvEnd ==
    ASSUME IInv, NEW c \in Consumers, Acknowledge(c) \/ Crash(c), UNCHANGED own
    PROVE  IInv'
<1>1. ConsumerInv' /\ Kept
  BY EndKeeps DEF IInv
<1>2. UNCHANGED life /\ worker' = [worker EXCEPT ![c] = Idle]
  BY DEF Acknowledge, Crash
<1>3. \A d \in Consumers : PutInv(d)'
  BY <1>2 DEF IInv, ConsumerInv, ConsumerTypeOK, PutInv, Idle, life, own
<1>4. ASSUME NEW v \in announced \ (deleted \cup Untitled)
      PROVE  StaleReads \/ v \in index \cup cleared \/ Event(v) \in queue'
  <2>1. Event(v) \in Events /\ Event(v).video = v
    BY MessageTypes DEF IInv, ConsumerInv, ConsumerTypeOK, Life!TypeOK
  <2>2. CASE Acknowledge(c)
    BY <1>4, <2>1, <2>2 DEF Acknowledge, At, IInv, PutInv, Lossless, NoEventLost
  <2>3. CASE Crash(c)
    BY <1>4, <2>3 DEF Crash, IInv, Lossless, NoEventLost
  <2> QED  BY <2>2, <2>3
<1>5. Lossless'
  BY <1>2, <1>4 DEF Lossless, NoEventLost, life, own
<1> QED  BY <1>1, <1>3, <1>5, OwnKept DEF IInv

-----------------------------------------------------------------------------
LEMMA IInvRebuild ==
    ASSUME IInv, Rebuild
    PROVE  IInv'
<1>1. UNCHANGED <<life, queue, worker, clearing>>
  BY DEF Rebuild, Begin, ScanRecords, RebuildItem, RebuildDone, RebuildFails
<1>2. ConsumerInv' /\ Kept
  BY <1>1, StutterKeeps DEF IInv
<1>3. /\ TypeOK' /\ RebuildInv' /\ IndexedIsProcessed' /\ Restored'
      /\ index \cup cleared \subseteq (index \cup cleared)'
  <2> USE <1>1, <1>2, Vocabulary
      DEF IInv, TypeOK, ConsumerInv, Rebuilds, RebuildInv, IndexedIsProcessed,
          Restored, RebuildIsComplete, life
  <2>1. CASE Begin
    BY <2>1 DEF Begin, Processed, Known
  <2>2. CASE ScanRecords
    <3>1. PICK todo \in Scans : rebuild' = [rebuild EXCEPT !.at = "put", !.todo = todo]
      BY <2>2 DEF ScanRecords
    <3>2. /\ todo \subseteq {v \in Videos : status[v] = PROCESSED}
          /\ ~ StaleReads => todo = {v \in Videos \ deleted : status[v] = PROCESSED}
      BY DEF Scans, Processed, Known
    <3>3. /\ rebuild' \in Rebuilds /\ rebuild'.at = "put"
          /\ rebuild'.todo = todo /\ rebuild'.due = rebuild.due
      BY <3>1, <3>2
    <3> QED  BY <2>2, <3>2, <3>3 DEF ScanRecords
  <2>3. CASE RebuildItem
    <3>1. PICK v \in rebuild.todo :
            /\ rebuild.at = "put"
            /\ IF v \in Untitled THEN UNCHANGED <<index, hearsay, cleared>>
                              ELSE PutItem(v, FALSE)
            /\ rebuild' = [rebuild EXCEPT !.todo = @ \ {v}]
      BY <2>3 DEF RebuildItem
    <3>2. v \in Videos /\ status[v] = PROCESSED
      BY <3>1
    <3>3. /\ index' \subseteq Videos /\ hearsay' \subseteq Videos /\ cleared' \subseteq Videos
          /\ IndexedIsProcessed'
          /\ index \cup cleared \subseteq (index \cup cleared)'
          /\ index \subseteq index' /\ v \in index' \cup Untitled
      <4>1. CASE v \in Untitled
        BY <3>1, <4>1
      <4>2. CASE v \notin Untitled
        BY <3>1, <3>2, <4>2, PutItemKeeps, Vocabulary
      <4> QED  BY <4>1, <4>2
    <3>4. /\ rebuild' \in Rebuilds /\ rebuild'.at = "put"
          /\ rebuild'.todo = rebuild.todo \ {v} /\ rebuild'.due = rebuild.due
      BY <3>1
    <3> QED  BY <3>1, <3>3, <3>4
  <2>4. CASE RebuildDone
    BY <2>4 DEF RebuildDone
  <2>5. CASE RebuildFails
    BY <2>5 DEF RebuildFails
  <2> QED  BY <2>1, <2>2, <2>3, <2>4, <2>5 DEF Rebuild
<1>4. Lossless' /\ \A d \in Consumers : PutInv(d)'
  BY <1>1, <1>3 DEF IInv, Lossless, NoEventLost, PutInv, life
<1> QED  BY <1>2, <1>3, <1>4 DEF IInv

LEMMA IInvOperator ==
    ASSUME IInv, ClearScan \/ \E v \in Videos : ClearItem(v) \/ CleanUp(v)
    PROVE  IInv'
<1>1. UNCHANGED <<life, queue, worker>>
  BY DEF ClearScan, ClearItem, CleanUp, TakeAway
<1>2. ConsumerInv' /\ Kept
  BY <1>1, StutterKeeps DEF IInv
<1>3. /\ TypeOK' /\ RebuildInv' /\ IndexedIsProcessed' /\ Restored'
      /\ index \cup cleared \subseteq (index \cup cleared)'
  <2> USE <1>1, <1>2
      DEF IInv, TypeOK, ConsumerInv, Rebuilds, RebuildInv, IndexedIsProcessed,
          Restored, RebuildIsComplete, life
  <2>1. CASE ClearScan
    BY <2>1 DEF ClearScan
  <2>2. ASSUME NEW v \in Videos, ClearItem(v) \/ CleanUp(v)
        PROVE  /\ TypeOK' /\ RebuildInv' /\ IndexedIsProcessed' /\ Restored'
               /\ index \cup cleared \subseteq (index \cup cleared)'
    BY <2>2 DEF ClearItem, CleanUp, TakeAway
  <2> QED  BY <2>1, <2>2
<1>4. Lossless' /\ \A d \in Consumers : PutInv(d)'
  BY <1>1, <1>3 DEF IInv, Lossless, NoEventLost, PutInv, life
<1> QED  BY <1>2, <1>3, <1>4 DEF IInv

LEMMA IInvNext == IInv /\ [Next]_vars => IInv'
<1> SUFFICES ASSUME IInv, [Next]_vars  PROVE IInv'
  OBVIOUS
<1>1. CASE UNCHANGED vars
  <2>1. UNCHANGED <<life, queue, worker>> /\ UNCHANGED own
    BY <1>1 DEF vars
  <2>2. ConsumerInv' /\ Kept
    BY <2>1, StutterKeeps DEF IInv
  <2>3. Lossless' /\ \A d \in Consumers : PutInv(d)'
    BY <2>1 DEF IInv, Lossless, NoEventLost, PutInv, life, own
  <2> QED  BY <2>1, <2>2, <2>3, OwnKept DEF IInv
<1>2. CASE /\ UNCHANGED own
           /\ \/ \E v \in Videos : Live(v) \/ Announce(v)
              \/ \E m \in Messages : Deliver(m)
  BY <1>2, IInvWorld
<1>3. ASSUME NEW c \in Consumers, Consume(c)  PROVE IInv'
  BY <1>3, IInvTake, IInvLookUp, IInvPut, IInvEnd DEF Consume
<1>4. CASE Rebuild
  BY <1>4, IInvRebuild
<1>5. CASE ClearScan \/ \E v \in Videos : ClearItem(v) \/ CleanUp(v)
  BY <1>5, IInvOperator
<1> QED  BY <1>1, <1>2, <1>3, <1>4, <1>5 DEF Next

LEMMA Invariance == Spec => []IInv
BY IInvInit, IInvNext, PTL DEF Spec

-----------------------------------------------------------------------------
\* Every variable of the search leg keeps its type: nothing but a video is ever
\* indexed.
THEOREM TypeCorrect == Spec => []TypeOK
<1>1. IInv => TypeOK
  BY DEF IInv
<1> QED  BY <1>1, Invariance, PTL

\* Whatever anybody sends, both writers of search-index put only videos that had a
\* record and have a title; and only a PROCESSED one, but for somebody else's
\* PROCESSED event, at whose word the consumer takes it.
THEOREM IndexIsTrue == Spec => []IndexedIsProcessed
<1>1. IInv => IndexedIsProcessed
  BY DEF IInv
<1> QED  BY <1>1, Invariance, PTL

\* With consistent reads, no invocation gives an announced event up before its
\* item stands.
THEOREM NothingGivenUp == ASSUME ~ StaleReads  PROVE Spec => []NoEventLost
<1>1. IInv => NoEventLost
  BY DEF IInv, Lossless
<1> QED  BY <1>1, Invariance, PTL

\* With consistent reads, a rebuild that has returned has brought back every
\* record that was there when it was invoked and has not been taken away since.
THEOREM RebuildRestores == ASSUME ~ StaleReads  PROVE Spec => []RebuildIsComplete
<1>1. IInv => RebuildIsComplete
  BY DEF IInv, Restored
<1> QED  BY <1>1, Invariance, PTL

\* With consistent reads only work in flight leaves an item of a removed video:
\* no later rebuild and no redelivery brings one back.
THEOREM NoOrphanFromNothing == ASSUME ~ StaleReads  PROVE Spec => RemovedStaysGone
<1>1. ASSUME IInv, [Next]_vars
      PROVE  [\A v \in deleted : Gone(v) => Gone(v)']_vars
  <2> SUFFICES ASSUME NEW v \in deleted, Gone(v)  PROVE Gone(v)'
    OBVIOUS
  <2>1. /\ worker \in [Consumers -> Workers \cup {Idle}]
        /\ \A c \in Consumers : At(c, "put_item") => VideoOf(c) # v
        /\ v \notin index \cup rebuild.todo /\ rebuild \in Rebuilds
    BY <1>1 DEF Gone, IInv, ConsumerInv, ConsumerTypeOK, TypeOK
  <2>2. ASSUME NEW c \in Consumers, LookUp(c)  PROVE Gone(v)'
    <3>1. Known(VideoOf(c)) => VideoOf(c) # v
      BY DEF Known
    <3> QED  BY <2>1, <2>2, <3>1
             DEF Gone, LookUp, Found, GoTo, At, VideoOf, own, Workers, Idle
  <2>3. ASSUME NEW c \in Consumers, Put(c)  PROVE Gone(v)'
    BY <2>1, <2>3 DEF Gone, Put, PutItem, GoTo, At, VideoOf, Workers, Idle
  <2>4. ASSUME NEW c \in Consumers,
               \/ \E m \in Messages : Take(c, m)
               \/ (Acknowledge(c) \/ Crash(c)) /\ UNCHANGED own
        PROVE  Gone(v)'
    BY <2>1, <2>4 DEF Gone, Take, Receive, Acknowledge, Crash, At, VideoOf,
                      own, Workers, Idle
  <2>5. CASE Rebuild
    <3>1. v \notin Processed
      BY DEF Processed, Known
    <3>2. v \notin index' \cup rebuild'.todo
      <4> USE <2>1 DEF Rebuilds
      <4>1. CASE Begin
        BY <4>1 DEF Begin
      <4>2. CASE RebuildDone
        BY <4>2 DEF RebuildDone
      <4>3. CASE RebuildFails
        BY <4>3 DEF RebuildFails
      <4>4. CASE ScanRecords
        BY <3>1, <4>4 DEF ScanRecords, Scans
      <4>5. CASE RebuildItem
        <5>1. PICK w \in rebuild.todo :
                /\ index' \subseteq index \cup {w}
                /\ rebuild' = [rebuild EXCEPT !.todo = @ \ {w}]
          BY <4>5 DEF RebuildItem, PutItem
        <5> QED  BY <5>1
      <4> QED  BY <2>5, <4>1, <4>2, <4>4, <4>5, <4>3 DEF Rebuild
    <3> QED  BY <2>1, <2>5, <3>2
             DEF Gone, At, VideoOf, Rebuild, Begin, ScanRecords, RebuildItem, RebuildDone,
                 RebuildFails
  <2>6. CASE UNCHANGED worker /\ index' \subseteq index /\ rebuild'.todo = rebuild.todo
    BY <2>1, <2>6 DEF Gone, At, VideoOf
  <2>7. ASSUME NEW w \in Videos, ClearItem(w) \/ CleanUp(w)
        PROVE  index' \subseteq index /\ rebuild'.todo = rebuild.todo /\ UNCHANGED worker
    BY <2>1, <2>7 DEF ClearItem, CleanUp, TakeAway, Rebuilds
  <2> QED  BY <1>1, <2>2, <2>3, <2>4, <2>5, <2>6, <2>7
           DEF Next, vars, own, Live, Announce, Deliver, Consume, ClearScan, life
<1> QED  BY <1>1, Invariance, PTL DEF Spec, RemovedStaysGone

-----------------------------------------------------------------------------
(* The search leg keeps a derived store.                                   *)

Owing  == {v \in Videos : Event(v) \in queue}
Spoken == {v \in Videos : \E m \in Foreign : m.video = v /\ Usable(m)}

LEMMA SameLife ==
    ASSUME NEW v \in Videos
    PROVE  /\ Life!Create(v)   => Store!Create(v)
           /\ Life!Announce(v) => Store!Announce(v)
           /\ Life!Remove(v)   => Store!Remove(v)
           /\ \A to \in STATUSES : Life!Move(v, to) => to \in Store!STATUSES /\ Store!Move(v, to)
BY DEF Life!Create, Life!Announce, Life!Remove, Life!Move, Store!Create, Store!Announce,
       Store!Remove, Store!Move, Life!Legal, Store!Legal, Life!LEGAL_TRANSITIONS,
       Store!LEGAL_TRANSITIONS, Life!UPLOADED, Store!UPLOADED, Life!PROCESSING,
       Store!PROCESSING, Life!PROCESSED, Store!PROCESSED, Life!FAILED, Store!FAILED,
       Life!Absent, Store!Absent, STATUSES, Store!STATUSES, UPLOADED, PROCESSING,
       PROCESSED, FAILED

LEMMA SameStatus == Store!PROCESSED = PROCESSED /\ Store!Absent = Absent
BY DEF Store!PROCESSED, PROCESSED, Store!Absent, Absent

LEMMA SameEvent == \A v, w \in Videos : Event(v) = Event(w) => v = w
BY MessageTypes

LEMMA StoreStarts == Init => Store!StoreInit
BY DEF Init, ConsumerInit, Life!Init, Life!Absent, Store!StoreInit, Store!Init,
       Store!Absent

LEMMA StoreWorld ==
    ASSUME IInv, UNCHANGED own, NEW v \in Videos, Live(v) \/ Announce(v)
    PROVE  Store!StoreNext
<1>1. index' = index /\ cleared' = cleared
  BY DEF own
<1>2. CASE Live(v)
  <2>1. Owing' = Owing
    BY <1>2 DEF Live, Owing
  <2>2. ASSUME Life!Create(v) \/ \E to \in STATUSES : Life!Move(v, to)  PROVE Store!Live(v)
    <3>1. deleted' = deleted
      BY <2>2 DEF Life!Create, Life!Move
    <3> QED  BY <1>1, <2>1, <2>2, <3>1, SameLife DEF Store!Live, Store!store, Owing
  <2>3. ASSUME Life!Remove(v)  PROVE Store!Forget(v)
    <3>1. deleted' = deleted \cup {v}
      BY <2>3 DEF Life!Remove
    <3>2. (cleared \ deleted)' = (cleared \ deleted) \ {v}
      BY <1>1, <3>1
    <3> QED  BY <1>1, <2>1, <2>3, <3>2, SameLife DEF Store!Forget, Owing
  <2> QED  BY <1>2, <2>2, <2>3 DEF Live, Store!StoreNext
<1>3. CASE Announce(v)
  <2>1. Owing' = Owing \cup {v} /\ deleted' = deleted
    BY <1>3, SameEvent DEF Announce, Life!Announce, Owing
  <2>2. Store!Tell(v)
    BY <1>1, <1>3, <2>1, SameLife DEF Announce, Store!Tell, Owing
  <2> QED  BY <2>2 DEF Store!StoreNext
<1> QED  BY <1>2, <1>3

LEMMA StoreDeliver ==
    ASSUME IInv, UNCHANGED own, NEW m \in Messages, Deliver(m)
    PROVE  Store!StoreNext \/ UNCHANGED Store!storeVars
<1>1. UNCHANGED <<life, index, cleared>>
  BY DEF own, Deliver
<1>2. CASE m \in Foreign
  <2>1. \A v \in Videos : m # Event(v)
    BY <1>2, Strangers, MessageTypes
  <2>2. Owing' = Owing
    BY <2>1 DEF Deliver, Owing
  <2> QED  BY <1>1, <2>2 DEF Store!storeVars, Store!store, Store!vars, Owing, life
<1>3. CASE \E v \in announced : m = Event(v)
  <2>1. PICK v \in announced : m = Event(v)
    BY <1>3
  <2>2. v \in Videos
    BY DEF IInv, ConsumerInv, ConsumerTypeOK, Life!TypeOK
  <2>3. Owing' = Owing \cup {v}
    BY <2>1, <2>2, SameEvent DEF Deliver, Owing
  <2>4. Store!Tell(v)
    BY <1>1, <2>3 DEF Store!Tell, Store!vars, Owing, life
  <2> QED  BY <2>2, <2>4 DEF Store!StoreNext
<1> QED  BY <1>2, <1>3 DEF Deliver

\* A put, of the consumer or of the rebuild.
LEMMA StorePut ==
    ASSUME IInv, NEW v \in Videos \ Untitled, NEW said \in BOOLEAN, PutItem(v, said),
           status[v] = PROCESSED \/ (v \in Spoken /\ status[v] # Absent),
           UNCHANGED <<life, queue>>
    PROVE  Store!StoreNext
<1>1. /\ index' = index \cup {v}
      /\ (cleared \ deleted)' = (cleared \ deleted) \ {v}
      /\ Owing' = Owing
  BY DEF PutItem, Owing, life
<1>2. Store!Write(v)
  BY <1>1, SameStatus DEF Store!Write, Store!vars, Owing, Spoken, life
<1> QED  BY <1>2 DEF Store!StoreNext

LEMMA StoreAcknowledge ==
    ASSUME IInv, ~ StaleReads, UNCHANGED own, NEW c \in Consumers, Acknowledge(c)
    PROVE  Store!StoreNext \/ UNCHANGED Store!storeVars
<1> DEFINE m == worker[c].msg
<1>1. UNCHANGED <<life, index, cleared>> /\ queue' = queue \ {m}
  BY DEF own, Acknowledge
<1>2. ASSUME NEW v \in Videos, m = Event(v), m \in queue
      PROVE  Store!StoreNext
  <2>1. v \in Owing
    BY <1>2 DEF Owing
  <2>2. Owing' = Owing \ {v}
    BY <1>1, <1>2, SameEvent DEF Owing
  <2>3. v \in index \cup (cleared \ deleted) \cup deleted \cup Untitled
    BY <1>2, MessageTypes DEF Acknowledge, At, IInv, PutInv
  <2>4. Store!Settle(v)
    BY <1>1, <2>1, <2>2, <2>3 DEF Store!Settle, Store!vars, Owing, life
  <2> QED  BY <2>4 DEF Store!StoreNext
<1>3. CASE m \notin queue \/ \A v \in Videos : m # Event(v)
  <2>1. Owing' = Owing
    BY <1>1, <1>3 DEF Owing
  <2> QED  BY <1>1, <2>1 DEF Store!storeVars, Store!store, Store!vars, Owing, life
<1> QED  BY <1>2, <1>3

\* A delete, of the operator's clear or of a clean-up.
LEMMA StoreTakeAway ==
    ASSUME IInv, NEW v \in Videos, TakeAway(v)
    PROVE  Store!StoreNext \/ UNCHANGED Store!storeVars
<1>1. /\ index' = index \ {v} /\ Owing' = Owing /\ UNCHANGED life
      /\ cleared' = cleared \cup (index \cap {v})
  BY DEF TakeAway, Owing
<1>2. CASE v \in index
  <2>1. (cleared \ deleted)' = (cleared \ deleted) \cup ({v} \ deleted)
    BY <1>1, <1>2 DEF life
  <2>2. Store!Erase(v)
    BY <1>1, <1>2, <2>1 DEF Store!Erase, Store!vars, Owing, life
  <2> QED  BY <2>2 DEF Store!StoreNext
<1>3. CASE v \notin index
  <2>1. index' = index /\ cleared' = cleared
    BY <1>1, <1>3
  <2> QED  BY <1>1, <2>1 DEF Store!storeVars, Store!store, Store!vars, Owing, life
<1> QED  BY <1>2, <1>3

\* With consistent reads the search leg, rebuild and operator included, implements
\* the derived store: an event is settled only once its item stands or was cleared,
\* and others' events add none but of a video that had a record.
THEOREM ImplementsStore == ASSUME ~ StaleReads  PROVE Spec => StoreSpec
<1>1. ASSUME IInv, [Next]_vars
      PROVE  [Store!StoreNext]_(Store!storeVars)
  <2>1. ASSUME UNCHANGED <<life, queue, index, cleared>>
        PROVE  UNCHANGED Store!storeVars
    BY <2>1 DEF Store!storeVars, Store!store, Store!vars, life
  <2>2. ASSUME NEW c \in Consumers, Consume(c)
        PROVE  Store!StoreNext \/ UNCHANGED Store!storeVars
    <3>1. CASE Put(c)
      <4>1. PICK v \in Videos \ Untitled, said \in BOOLEAN :
                v = VideoOf(c) /\ said = Said(c)
        BY <1>1, <3>1, WhatIsPut DEF Put
      <4>2. status[v] = PROCESSED \/ (v \in Spoken /\ status[v] # Absent)
        BY <1>1, <3>1, <4>1, WhatIsPut DEF Put, Spoken, VideoOf
      <4>3. PutItem(v, said) /\ UNCHANGED <<life, queue>>
        BY <3>1, <4>1 DEF Put
      <4> QED  BY <1>1, <4>2, <4>3, StorePut
    <3>2. CASE Acknowledge(c) /\ UNCHANGED own
      BY <1>1, <3>2, StoreAcknowledge
    <3>3. CASE \/ \E m \in Messages : Take(c, m)
               \/ LookUp(c) \/ (Crash(c) /\ UNCHANGED own)
      BY <2>1, <3>3 DEF Take, Receive, LookUp, Crash, own
    <3> QED  BY <2>2, <3>1, <3>2, <3>3 DEF Consume
  <2>3. CASE RebuildItem
    <3>1. PICK v \in rebuild.todo :
            IF v \in Untitled THEN UNCHANGED <<index, hearsay, cleared>>
                              ELSE PutItem(v, FALSE)
      BY <2>3 DEF RebuildItem
    <3>2. v \in Videos /\ status[v] = PROCESSED /\ UNCHANGED <<life, queue>>
      BY <1>1, <2>3, <3>1 DEF RebuildItem, IInv, TypeOK, Rebuilds, RebuildInv
    <3>3. CASE v \in Untitled
      BY <2>1, <3>1, <3>2, <3>3
    <3>4. CASE v \notin Untitled
      BY <1>1, <3>1, <3>2, <3>4, StorePut
    <3> QED  BY <3>3, <3>4
  <2>4. CASE \/ Begin \/ ScanRecords \/ RebuildDone \/ RebuildFails
             \/ ClearScan \/ UNCHANGED vars
    BY <2>1, <2>4 DEF Begin, ScanRecords, RebuildDone, RebuildFails, ClearScan, vars, own
  <2>5. ASSUME NEW v \in Videos, ClearItem(v) \/ CleanUp(v)  PROVE TakeAway(v)
    BY <2>5 DEF ClearItem, CleanUp
  <2> QED  BY <1>1, <2>2, <2>3, <2>4, <2>5, StoreWorld, StoreDeliver, StoreTakeAway
           DEF Next, Rebuild
<1> QED  BY <1>1, StoreStarts, Invariance, PTL DEF Spec, StoreSpec, Store!StoreSpec

\* A store that behaves so forgets no announced video that has something to store.
THEOREM StoreForgetsNothing == Store!StoreSpec => []Store!NothingForgotten
<1> USE DEF Store!NothingForgotten
<1>1. Store!StoreInit => Store!NothingForgotten
  BY DEF Store!StoreInit, Store!Init
<1>2. ASSUME Store!NothingForgotten, [Store!StoreNext]_(Store!storeVars)
      PROVE  Store!NothingForgotten'
  <2>1. CASE UNCHANGED Store!storeVars
    BY <1>2, <2>1 DEF Store!storeVars, Store!store, Store!vars
  <2>2. ASSUME NEW v \in Videos, Store!Live(v) \/ Store!Forget(v)
        PROVE  Store!NothingForgotten'
    BY <1>2, <2>2 DEF Store!Live, Store!Forget, Store!store, Store!Create, Store!Move,
                      Store!Remove
  <2>3. ASSUME NEW v \in Videos, Store!Tell(v)  PROVE Store!NothingForgotten'
    BY <1>2, <2>3 DEF Store!Tell, Store!Announce, Store!vars
  <2>4. ASSUME NEW v \in Videos, Store!Write(v) \/ Store!Settle(v) \/ Store!Erase(v)
        PROVE  Store!NothingForgotten'
    BY <1>2, <2>4 DEF Store!Write, Store!Settle, Store!Erase, Store!vars
  <2> QED  BY <1>2, <2>1, <2>2, <2>3, <2>4 DEF Store!StoreNext
<1> QED  BY <1>1, <1>2, PTL DEF Store!StoreSpec
=============================================================================
