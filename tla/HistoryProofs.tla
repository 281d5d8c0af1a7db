--------------------------- MODULE HistoryProofs ---------------------------
(***************************************************************************)
(* Proofs about the history leg, for every set of videos, fabricated ids,  *)
(* events of others and concurrent invocations.                            *)
(***************************************************************************)
EXTENDS History, ConsumerProofs

\* An invocation works on a usable message, and with consistent reads it only ends
\* on the event of a video that is there once its entry stands.
InvocationInv(c) ==
    /\ worker[c].at \in {"get_record", "put_item"} => Usable(worker[c].msg)
    /\ worker[c].at = "done" /\ worker[c].msg \in Events
           /\ worker[c].msg.video \notin deleted \cup Usurpable
           => StaleReads \/ EntryFor(worker[c].msg) # {}

Lossless == StaleReads \/ NoEventLost

\* The query scans only for a video that had a record.
QueryInv == query.at \in {"scan", "200"} =>
               query.video \in Videos /\ status[query.video] # Absent

IInv == /\ ConsumerInv
        /\ TypeOK
        /\ \A c \in Consumers : InvocationInv(c)
        /\ QueryInv
        /\ EntriesAreBacked
        /\ Lossless
        /\ AnswerIsTrue

LEMMA MessageTypes ==
    /\ \A v \in Videos : /\ Event(v) \in Events /\ Event(v).video = v /\ Event(v).id = v
                         /\ Event(v).status = PROCESSED /\ Event(v).from = "publisher"
    /\ \A m \in Events : m.video \in Videos /\ m = Event(m.video) /\ m.status = PROCESSED
    /\ \A m \in Messages : m.id \in Ids /\ m.video \in Ids /\ (m \in Events \/ m \in Foreign)
    /\ PROCESSED \in STATUSES
BY ConsumerAssumption DEF Event, Events, Messages, ForeignEvents, Ids, STATUSES

\* Under the eventId of a video that cannot be usurped only its own events are
\* recorded.
LEMMA OwnRow ==
    ASSUME NEW m \in Messages, m.status \in STATUSES, m.video \in Videos,
           NEW v \in Videos \ Usurpable, m.id = v
    PROVE  m.video = v
BY MessageTypes DEF Usurpable, Usable

LEMMA IInvInit == Init => IInv
BY ConsumerStart, Vocabulary
   DEF Init, IInv, ConsumerInit, TypeOK, InvocationInv, QueryInv, EntriesAreBacked,
       Lossless, NoEventLost, AnswerIsTrue, Idle, NoQuery, Life!Init, ConsumerInv

\* Whatever leaves the leg's own stores alone keeps what is true of them.
LEMMA OwnKept ==
    ASSUME IInv, ConsumerInv', Kept, UNCHANGED own
    PROVE  TypeOK' /\ QueryInv' /\ EntriesAreBacked' /\ AnswerIsTrue'
<1> USE DEF IInv, Kept, own
<1>1. TypeOK'
  BY DEF TypeOK, ConsumerInv
<1>2. QueryInv'
  BY DEF QueryInv
<1>3. EntriesAreBacked'
  <2>1. \A e \in history : e.of \in Events => status[e.of.video] \in TERMINAL_STATUSES
    BY MessageTypes, Vocabulary DEF EntriesAreBacked
  <2> QED  BY <2>1 DEF EntriesAreBacked
<1>4. AnswerIsTrue'
  <2> SUFFICES ASSUME query.at = "200"  PROVE AnswerIsTrue'
    BY DEF AnswerIsTrue
  <2>1. \A m \in query.found : m \in Events => status[m.video] \in TERMINAL_STATUSES
    BY MessageTypes, Vocabulary DEF AnswerIsTrue
  <2>2. \A m \in query.found : m.video \in Videos
    BY DEF AnswerIsTrue
  <2> QED  BY <2>1, <2>2 DEF AnswerIsTrue
<1> QED  BY <1>1, <1>2, <1>3, <1>4

-----------------------------------------------------------------------------
LEMMA IInvWorld ==
    ASSUME IInv, UNCHANGED own,
           \/ \E v \in Videos : Live(v) \/ Announce(v)
           \/ \E m \in Messages : Deliver(m)
    PROVE  IInv'
<1>1. ConsumerInv' /\ Kept
  BY LiveKeeps, AnnounceKeeps, DeliverKeeps DEF IInv
<1>2. /\ UNCHANGED worker
      /\ queue \subseteq queue'
      /\ \A v \in announced' \ announced : Event(v) \in queue'
  BY DEF Live, Announce, Deliver, life, Life!Create, Life!Move, Life!Remove,
         Life!Announce
<1>3. \A m : EntryFor(m)' = EntryFor(m)
  BY DEF EntryFor, own
<1>4. \A c \in Consumers : InvocationInv(c)'
  BY <1>1, <1>2, <1>3 DEF IInv, InvocationInv, Kept
<1>5. Lossless'
  BY <1>1, <1>2, <1>3 DEF IInv, Lossless, NoEventLost, Kept
<1> QED  BY <1>1, <1>4, <1>5, OwnKept DEF IInv

LEMMA IInvTake ==
    ASSUME IInv, NEW c \in Consumers, NEW m \in Messages, Take(c, m)
    PROVE  IInv'
<1>1. m \in Events => Usable(m)
  BY MessageTypes DEF Usable
<1>3. ConsumerInv' /\ Kept
  BY ReceiveKeeps DEF IInv, Take
<1>4. \A n : EntryFor(n)' = EntryFor(n)
  BY DEF EntryFor, Take, own
<1>5. \A d \in Consumers : InvocationInv(d)'
  <2>1. /\ worker'[c] = [at |-> IF Usable(m) THEN "get_record" ELSE "done", msg |-> m]
        /\ \A d \in Consumers \ {c} : worker'[d] = worker[d]
    BY DEF IInv, ConsumerInv, ConsumerTypeOK, Take, Receive
  <2>2. InvocationInv(c)'
    BY <1>1, <2>1 DEF InvocationInv
  <2>3. ASSUME NEW d \in Consumers \ {c}  PROVE InvocationInv(d)'
    BY <1>4, <2>1 DEF IInv, InvocationInv, Take, Receive, life
  <2> QED  BY <2>2, <2>3
<1>6. Lossless'
  BY <1>4 DEF IInv, Lossless, NoEventLost, Take, Receive, life
<1> QED  BY <1>3, <1>5, <1>6, OwnKept DEF IInv, Take

LEMMA IInvLookUp ==
    ASSUME IInv, NEW c \in Consumers, LookUp(c)
    PROVE  IInv'
<1>0. PICK found \in BOOLEAN :
          /\ GoTo(c, IF found THEN "put_item" ELSE "done")
          /\ found => VideoOf(c) \in Videos /\ status[VideoOf(c)] # Absent
          /\ ~found /\ ~StaleReads => ~Known(VideoOf(c))
  BY DEF LookUp, Found, Known
<1> USE DEF LookUp, At
<1>1. ConsumerInv' /\ Kept
  BY <1>0, GoToKeeps DEF IInv, own
<1>2. \A n : EntryFor(n)' = EntryFor(n)
  BY DEF EntryFor, own
<1>3. ~Known(VideoOf(c)) /\ worker[c].msg \in Events => VideoOf(c) \in deleted
  BY Vocabulary, MessageTypes DEF IInv, ConsumerInv, WorkInv, Announced, Known, VideoOf
<1>4. \A d \in Consumers : InvocationInv(d)'
  <2>1. /\ worker'[c].at = "done" => ~found
        /\ worker'[c].at \in {"put_item", "done"}
        /\ worker'[c].msg = worker[c].msg
        /\ \A d \in Consumers \ {c} : worker'[d] = worker[d]
    BY <1>0 DEF IInv, ConsumerInv, ConsumerTypeOK, GoTo, Workers, Idle
  <2>2. InvocationInv(c)'
    BY <1>0, <1>3, <2>1 DEF IInv, InvocationInv, VideoOf, life
  <2>3. ASSUME NEW d \in Consumers \ {c}  PROVE InvocationInv(d)'
    BY <1>2, <2>1 DEF IInv, InvocationInv, life
  <2> QED  BY <2>2, <2>3
<1>5. Lossless'
  BY <1>2 DEF IInv, Lossless, NoEventLost, life
<1> QED  BY <1>1, <1>4, <1>5, OwnKept DEF IInv

LEMMA IInvDedupe ==
    ASSUME IInv, NEW c \in Consumers, Dedupe(c)
    PROVE  IInv'
<1> USE DEF Dedupe, At
<1>1. ConsumerInv' /\ Kept
  BY GoToKeeps DEF IInv
<1>2. \A n : EntryFor(n)' = EntryFor(n)
  BY DEF EntryFor, own
<1>3. \A d \in Consumers : InvocationInv(d)'
  BY <1>2 DEF IInv, ConsumerInv, ConsumerTypeOK, InvocationInv, GoTo, life
<1>4. Lossless'
  BY <1>2 DEF IInv, Lossless, NoEventLost, life
<1> QED  BY <1>1, <1>3, <1>4, OwnKept DEF IInv

LEMMA IInvAppend ==
    ASSUME IInv, NEW c \in Consumers, Append(c)
    PROVE  IInv'
<1> USE DEF Append, At
<1> DEFINE msg == worker[c].msg
<1>1. ConsumerInv' /\ Kept
  BY GoToKeeps, StutterKeeps DEF IInv
<1>2. /\ msg \in Messages /\ msg.video \in Videos /\ status[msg.video] # Absent
      /\ msg \in Events => status[msg.video] = msg.status
      /\ Entry(c).of = msg
  <2>1. msg \in Messages /\ WorkInv(c)
    BY DEF IInv, ConsumerInv, ConsumerTypeOK, Workers, Idle
  <2> QED  BY <2>1, MessageTypes DEF IInv, ConsumerInv, WorkInv, Announced, Entry
<1>3. \A n : EntryFor(n) \subseteq EntryFor(n)' /\ (n = msg => EntryFor(n)' # {})
  <2>1. Entry(c).of = msg
    BY <1>2
  <2>2. history' = history \cup {Entry(c)}
    OBVIOUS
  <2>3. ASSUME NEW n, n = msg  PROVE Entry(c) \in EntryFor(n)'
    BY <2>1, <2>2, <2>3 DEF EntryFor
  <2> QED  BY <2>2, <2>3 DEF EntryFor
<1>4. TypeOK' /\ EntriesAreBacked'
  <2>1. Entry(c) \in Entries
    BY <1>2 DEF IInv, InvocationInv, Usable, Entry, Entries
  <2>2. TypeOK'
    BY <1>1, <2>1 DEF IInv, TypeOK, ConsumerInv
  <2>3. EntriesAreBacked'
    BY <1>2 DEF IInv, EntriesAreBacked, life
  <2> QED  BY <2>2, <2>3
<1>5. QueryInv' /\ AnswerIsTrue'
  BY DEF IInv, QueryInv, AnswerIsTrue, life
<1>6. \A d \in Consumers : InvocationInv(d)'
  <2>1. /\ worker'[c].msg = msg /\ worker'[c].at \in {"put_item", "done"}
        /\ \A d \in Consumers \ {c} : worker'[d] = worker[d]
    <3>1. worker[c] \in Workers /\ worker \in [Consumers -> Workers \cup {Idle}]
      BY DEF IInv, ConsumerInv, ConsumerTypeOK, Idle
    <3>2. CASE GoTo(c, "done")
      BY <3>1, <3>2 DEF GoTo, Workers
    <3>3. CASE UNCHANGED worker
      BY <3>3
    <3> QED  BY <3>2, <3>3
  <2>2. InvocationInv(c)'
    BY <1>3, <2>1 DEF IInv, InvocationInv
  <2>3. ASSUME NEW d \in Consumers \ {c}  PROVE InvocationInv(d)'
    BY <1>3, <2>1 DEF IInv, InvocationInv, life
  <2> QED  BY <2>2, <2>3
<1>7. Lossless'
  BY <1>3 DEF IInv, Lossless, NoEventLost, life
<1> QED  BY <1>1, <1>4, <1>5, <1>6, <1>7 DEF IInv

LEMMA IInvEnd ==
    ASSUME IInv, NEW c \in Consumers, Acknowledge(c) \/ Crash(c), UNCHANGED own
    PROVE  IInv'
<1>1. ConsumerInv' /\ Kept
  BY EndKeeps DEF IInv
<1>2. \A n : EntryFor(n)' = EntryFor(n)
  BY DEF EntryFor, own
<1>3. UNCHANGED life /\ worker' = [worker EXCEPT ![c] = Idle]
  BY DEF Acknowledge, Crash
<1>4. \A d \in Consumers : InvocationInv(d)'
  BY <1>2, <1>3 DEF IInv, ConsumerInv, ConsumerTypeOK, InvocationInv, Idle, life
<1>5. ASSUME NEW v \in announced \ (deleted \cup Usurpable)
      PROVE  StaleReads \/ Event(v) \in queue' \/ EntryFor(Event(v)) # {}
  <2>1. v \in Videos /\ Event(v) \in Events /\ Event(v).video = v
    BY MessageTypes DEF IInv, ConsumerInv, ConsumerTypeOK, Life!TypeOK
  <2>2. CASE Acknowledge(c)
    BY <1>5, <2>1, <2>2
       DEF Acknowledge, At, IInv, InvocationInv, Lossless, NoEventLost
  <2>3. CASE Crash(c)
    BY <1>5, <2>3 DEF Crash, IInv, Lossless, NoEventLost
  <2> QED  BY <2>2, <2>3
<1>6. Lossless'
  BY <1>2, <1>3, <1>5 DEF Lossless, NoEventLost, life
<1> QED  BY <1>1, <1>4, <1>6, OwnKept DEF IInv

LEMMA IInvCleanUp ==
    ASSUME IInv, NEW e \in history, CleanUp(e)
    PROVE  IInv'
<1> USE DEF CleanUp, life
<1>1. ConsumerInv' /\ Kept
  BY StutterKeeps DEF IInv
<1>2. \A v \in Videos \ (deleted \cup Usurpable) :
          EntryFor(Event(v))' = EntryFor(Event(v))
  <2> SUFFICES ASSUME NEW v \in Videos \ (deleted \cup Usurpable)
               PROVE  e.of.id # v
    BY MessageTypes DEF EntryFor
  <2>1. e.of \in Messages /\ e.of.status \in STATUSES /\ e.of.video \in Videos
    BY DEF IInv, TypeOK, Entries, EntriesAreBacked
  <2>2. e.of.id = v => e.of.video = v
    BY <2>1, OwnRow
  <2> QED  BY <2>2
<1>3. TypeOK' /\ EntriesAreBacked' /\ QueryInv' /\ AnswerIsTrue'
  BY <1>1 DEF IInv, TypeOK, EntriesAreBacked, ConsumerInv, QueryInv, AnswerIsTrue
<1>4. \A d \in Consumers : InvocationInv(d)'
  <2> SUFFICES ASSUME NEW d \in Consumers, worker[d].msg \in Events,
                      worker[d].msg.video \notin deleted \cup Usurpable
               PROVE  EntryFor(worker[d].msg)' = EntryFor(worker[d].msg)
    BY DEF IInv, InvocationInv
  <2>1. /\ worker[d].msg = Event(worker[d].msg.video)
        /\ worker[d].msg.video \in Videos \ (deleted \cup Usurpable)
    BY MessageTypes
  <2>2. UNCHANGED worker
    OBVIOUS
  <2> QED  BY <1>2, <2>1, <2>2
<1>5. Lossless'
  BY <1>1, <1>2 DEF IInv, Lossless, NoEventLost, ConsumerInv, ConsumerTypeOK, Life!TypeOK
<1> QED  BY <1>1, <1>3, <1>4, <1>5 DEF IInv

LEMMA IInvAsk ==
    ASSUME IInv, Ask
    PROVE  IInv'
<1>1. UNCHANGED <<life, queue, worker, history>>
  BY DEF Ask, Gate, Asked, Scan, QueryError, Answered
<1>2. ConsumerInv' /\ Kept
  BY <1>1, StutterKeeps DEF IInv
<1>3. EntriesAreBacked' /\ Lossless' /\ \A d \in Consumers : InvocationInv(d)'
  BY <1>1 DEF IInv, EntriesAreBacked, Lossless, NoEventLost, InvocationInv, EntryFor, life
<1>4. TypeOK' /\ QueryInv' /\ AnswerIsTrue'
  <2> USE <1>1, <1>2 DEF IInv, TypeOK, QueryInv, AnswerIsTrue, ConsumerInv, Queries,
                         NoQuery, life
  <2>1. CASE \E v \in Ids : Gate(v)
    <3>1. PICK v \in Ids, found \in BOOLEAN :
            /\ Asked(v, IF found THEN "scan" ELSE "404")
            /\ found => v \in Videos /\ status[v] # Absent
      BY <2>1 DEF Gate, Found, Known
    <3> QED  BY <3>1 DEF Asked
  <2>2. CASE Scan
    <3>1. query \in Queries /\ query.video \in Videos
      BY <2>2 DEF Scan
    <3>2. \A e \in history : /\ e.of \in Messages
                             /\ e.of \in Events => status[e.of.video] = e.of.status
      BY DEF EntriesAreBacked, Entries
    <3> DEFINE found == {e.of : e \in {f \in history : f.of.video = query.video}}
    <3>3. \A m \in found : /\ m \in Messages /\ m.video = query.video
                           /\ m \in Events => status[m.video] = m.status
      BY <3>2
    <3>4. query' = [query EXCEPT !.at = "200", !.found = found]
      BY <2>2 DEF Scan
    <3> HIDE DEF found
    <3>5. /\ query' \in Queries /\ query'.at = "200"
          /\ query'.video = query.video /\ query'.found = found
      BY <3>1, <3>3, <3>4
    <3>6. query.at = "scan" /\ UNCHANGED status
      BY <2>2 DEF Scan
    <3> QED  BY <3>1, <3>3, <3>5, <3>6
  <2>3. CASE QueryError
    <3>1. CASE \E v \in Ids : Asked(v, "500")
      BY <3>1 DEF Asked
    <3>2. CASE query.at = "scan" /\ query' = [query EXCEPT !.at = "500"]
      BY <3>2
    <3> QED  BY <2>3, <3>1, <3>2 DEF QueryError
  <2>4. CASE Answered
    BY <2>4 DEF Answered
  <2> QED  BY <2>1, <2>2, <2>3, <2>4 DEF Ask
<1> QED  BY <1>2, <1>3, <1>4 DEF IInv

LEMMA IInvNext == IInv /\ [Next]_vars => IInv'
<1> SUFFICES ASSUME IInv, [Next]_vars  PROVE IInv'
  OBVIOUS
<1>1. CASE UNCHANGED vars
  <2>1. UNCHANGED <<life, queue, worker>> /\ UNCHANGED own
    BY <1>1 DEF vars
  <2>2. ConsumerInv' /\ Kept
    BY <2>1, StutterKeeps DEF IInv
  <2>3. Lossless' /\ \A d \in Consumers : InvocationInv(d)'
    BY <2>1 DEF IInv, Lossless, NoEventLost, InvocationInv, EntryFor, life, own
  <2> QED  BY <2>1, <2>2, <2>3, OwnKept DEF IInv
<1>2. CASE /\ UNCHANGED own
           /\ \/ \E v \in Videos : Live(v) \/ Announce(v)
              \/ \E m \in Messages : Deliver(m)
  BY <1>2, IInvWorld
<1>3. ASSUME NEW c \in Consumers, Consume(c)  PROVE IInv'
  BY <1>3, IInvTake, IInvLookUp, IInvDedupe, IInvAppend, IInvEnd DEF Consume
<1>4. ASSUME NEW e \in history, CleanUp(e)  PROVE IInv'
  BY <1>4, IInvCleanUp
<1>5. CASE Ask
  BY <1>5, IInvAsk
<1> QED  BY <1>1, <1>2, <1>3, <1>4, <1>5 DEF Next

LEMMA Invariance == Spec => []IInv
BY IInvInit, IInvNext, PTL DEF Spec

-----------------------------------------------------------------------------
\* Every variable of the history leg keeps its type: whoever sends it, only a usable
\* event, of one of the four statuses, is ever recorded.
THEOREM TypeCorrect == Spec => []TypeOK
<1>1. IInv => TypeOK
  BY DEF IInv
<1> QED  BY <1>1, Invariance, PTL

\* Whatever anybody sends, in any order and beside any clean-up, an entry of
\* status-history is of a video that had a record; and one of the publisher's event
\* tells of the status its video still has.  Of others' events, which the consumer
\* takes at their word, no more is true.
THEOREM HistoryIsTrue == Spec => []EntriesAreBacked
<1>1. IInv => EntriesAreBacked
  BY DEF IInv
<1> QED  BY <1>1, Invariance, PTL

\* With consistent reads, no invocation gives an announced event up before its
\* entry stands, unless another video's event may carry its eventId.
THEOREM NothingGivenUp == ASSUME ~ StaleReads  PROVE Spec => []NoEventLost
<1>1. IInv => NoEventLost
  BY DEF IInv, Lossless
<1> QED  BY <1>1, Invariance, PTL

\* A 200 of the history query is of a video that had a record, lists no entry of
\* another, and what it lists of the publisher's events is true of it.
THEOREM QueryIsTrue == Spec => []AnswerIsTrue
<1>1. IInv => AnswerIsTrue
  BY DEF IInv
<1> QED  BY <1>1, Invariance, PTL

\* An entry is written once, for any number of redeliveries, concurrent invocations
\* and events with its eventId, and only the clean-up of its video takes it away.
THEOREM WrittenOnce == Spec => AppendOnly
<1>1. ASSUME [Next]_vars
      PROVE  [\A e \in history' :
                 \/ e \in history
                 \/ \A f \in history : f.of.id # e.of.id]_vars
  <2>1. ASSUME NEW c \in Consumers, Append(c), NEW e \in history', e \notin history,
               NEW f \in history
        PROVE  f.of.id # e.of.id
    BY <2>1 DEF Append, EntryFor, Entry
  <2>2. CASE \E c \in Consumers : Append(c)
    BY <2>1, <2>2
  <2>3. CASE history' \subseteq history
    BY <2>3
  <2> QED  BY <1>1, <2>2, <2>3
         DEF Next, vars, own, Consume, Take, LookUp, Dedupe, CleanUp, Ask, Gate, Scan,
             QueryError, Answered
<1>2. ASSUME [Next]_vars
      PROVE  [\A e \in history \ history' : e.of.video \in deleted]_vars
  <2>1. CASE history \subseteq history'
    BY <2>1
  <2>2. CASE \E e \in history : CleanUp(e)
    BY <2>2 DEF CleanUp
  <2> QED  BY <1>2, <2>1, <2>2
         DEF Next, vars, own, Consume, Take, LookUp, Append, Dedupe, Ask, Gate, Scan,
             QueryError, Answered
<1> QED  BY <1>1, <1>2, PTL
         DEF Spec, AppendOnly, EntryNeverRewritten, OnlyCleanUpDeletes

\* With consistent reads only work in flight leaves an entry of a removed video.
THEOREM NoOrphanFromNothing == ASSUME ~ StaleReads  PROVE Spec => RemovedStaysGone
<1>1. ASSUME IInv, [Next]_vars
      PROVE  [\A v \in deleted : Gone(v) => Gone(v)']_vars
  <2> SUFFICES ASSUME NEW v \in deleted, Gone(v)  PROVE Gone(v)'
    OBVIOUS
  <2>1. /\ worker \in [Consumers -> Workers \cup {Idle}]
        /\ \A c \in Consumers : At(c, "put_item") => VideoOf(c) # v
        /\ \A e \in history : e.of.video # v
    BY <1>1 DEF Gone, IInv, ConsumerInv, ConsumerTypeOK
  <2>2. ASSUME NEW c \in Consumers, LookUp(c)  PROVE Gone(v)'
    <3>1. Known(VideoOf(c)) => VideoOf(c) # v
      BY DEF Known
    <3> QED  BY <2>1, <2>2, <3>1
             DEF Gone, LookUp, Found, GoTo, At, VideoOf, own, Workers, Idle
  <2>3. ASSUME NEW c \in Consumers, Append(c)  PROVE Gone(v)'
    BY <2>1, <2>3 DEF Gone, Append, Entry, GoTo, At, VideoOf, Workers, Idle
  <2>4. ASSUME NEW c \in Consumers,
               \/ \E m \in Messages : Take(c, m)
               \/ Dedupe(c)
               \/ (Acknowledge(c) \/ Crash(c)) /\ UNCHANGED own
        PROVE  Gone(v)'
    BY <2>1, <2>4 DEF Gone, Take, Receive, Dedupe, Acknowledge, Crash, GoTo, At, VideoOf,
                      own, Workers, Idle
  <2>5. CASE UNCHANGED worker /\ history' \subseteq history
    BY <2>1, <2>5 DEF Gone, At, VideoOf
  <2> QED  BY <1>1, <2>2, <2>3, <2>4, <2>5
           DEF Next, vars, own, Live, Announce, Deliver, Consume, CleanUp, Ask, Gate, Scan,
               QueryError, Answered, life
<1> QED  BY <1>1, Invariance, PTL DEF Spec, RemovedStaysGone

-----------------------------------------------------------------------------
(* The history leg keeps a derived store.                                  *)

Spoken   == {v \in Videos : \E m \in Foreign : m.video = v}
Recorded == {v \in Videos \ Usurpable : \E e \in history : e.of.id = v}
Owing    == {v \in Videos : Event(v) \in queue}

LEMMA SameLife ==
    ASSUME NEW v \in Videos
    PROVE  /\ Life!Create(v)   => Store!Create(v)
           /\ Life!Announce(v) => Store!Announce(v)
           /\ Life!Remove(v)   => Store!Remove(v)
           /\ \A to \in STATUSES : Life!Move(v, to) => to \in Store!STATUSES /\ Store!Move(v, to)
BY DEF Life!Create, Life!Announce, Life!Remove, Life!Move, Store!Create, Store!Announce,
       Store!Remove, Store!Move, Life!Legal, Store!Legal, Life!LEGAL_TRANSITIONS,
       Store!LEGAL_TRANSITIONS, Life!UPLOADED, Store!UPLOADED, Life!PROCESSING,
       Store!PROCESSING, Life!PROCESSED, Store!PROCESSED, Life!FAILED, Store!FAILED,
       Life!Absent, Store!Absent, STATUSES, Store!STATUSES, UPLOADED, PROCESSING,
       PROCESSED, FAILED

LEMMA SameStatus == Store!PROCESSED = PROCESSED /\ Store!Absent = Absent
BY DEF Store!PROCESSED, PROCESSED, Store!Absent, Absent

LEMMA StoreStarts == Init => Store!StoreInit
BY DEF Init, ConsumerInit, Life!Init, Life!Absent, Store!StoreInit, Store!Init,
       Store!Absent

LEMMA SameEvent == \A v, w \in Videos : Event(v) = Event(w) => v = w
BY MessageTypes

LEMMA StoreWorld ==
    ASSUME IInv, UNCHANGED own, NEW v \in Videos, Live(v) \/ Announce(v)
    PROVE  Store!StoreNext
<1>1. Recorded' = Recorded
  BY DEF own, Recorded
<1>2. CASE Live(v)
  <2>1. Owing' = Owing
    BY <1>2 DEF Live, Owing
  <2>2. (Life!Create(v) \/ \E to \in STATUSES : Life!Move(v, to)) => Store!Live(v)
    BY <1>1, <2>1, SameLife DEF Store!Live, Store!store, Recorded, Owing
  <2>3. Life!Remove(v) => Store!Forget(v)
    BY <1>1, <2>1, SameLife DEF Store!Forget, Recorded, Owing
  <2> QED  BY <1>2, <2>2, <2>3 DEF Live, Store!StoreNext
<1>3. CASE Announce(v)
  <2>1. Owing' = Owing \cup {v}
    BY <1>3, SameEvent DEF Announce, Owing
  <2>2. Store!Tell(v)
    BY <1>1, <1>3, <2>1, SameLife DEF Announce, Store!Tell, Recorded, Owing
  <2> QED  BY <2>2 DEF Store!StoreNext
<1> QED  BY <1>2, <1>3

LEMMA StoreDeliver ==
    ASSUME IInv, UNCHANGED own, NEW m \in Messages, Deliver(m)
    PROVE  Store!StoreNext \/ UNCHANGED Store!storeVars
<1>1. Recorded' = Recorded /\ UNCHANGED life
  BY DEF own, Recorded, Deliver
<1>2. CASE m \in Foreign
  <2>1. \A v \in Videos : m # Event(v)
    BY <1>2, Strangers, MessageTypes
  <2>2. Owing' = Owing
    BY <2>1 DEF Deliver, Owing
  <2> QED  BY <1>1, <2>2
           DEF Store!storeVars, Store!store, Store!vars, Recorded, Owing, life
<1>3. CASE \E v \in announced : m = Event(v)
  <2>1. PICK v \in announced : m = Event(v)
    BY <1>3
  <2>2. v \in Videos
    BY DEF IInv, ConsumerInv, ConsumerTypeOK, Life!TypeOK
  <2>3. Owing' = Owing \cup {v}
    BY <2>1, <2>2, SameEvent DEF Deliver, Owing
  <2>4. Store!Tell(v)
    BY <1>1, <2>3 DEF Store!Tell, Store!vars, Recorded, Owing, life
  <2> QED  BY <2>2, <2>4 DEF Store!StoreNext
<1> QED  BY <1>2, <1>3 DEF Deliver

LEMMA StoreAppend ==
    ASSUME IInv, NEW c \in Consumers, Append(c)
    PROVE  Store!StoreNext \/ UNCHANGED Store!storeVars
<1> DEFINE m == worker[c].msg
<1>1. /\ m \in Messages /\ m.status \in STATUSES /\ Announced(m)
      /\ m.video \in Videos /\ status[m.video] # Absent
  <2>1. worker[c] \in Workers /\ WorkInv(c) /\ Usable(m)
    BY DEF Append, At, IInv, ConsumerInv, ConsumerTypeOK, InvocationInv, Idle
  <2> QED  BY <2>1 DEF Append, At, WorkInv, Usable, Workers
<1>2. history' = history \cup {Entry(c)} /\ Entry(c).of = m
  BY DEF Append, Entry
<1>3. Owing' = Owing /\ UNCHANGED <<life, queue>>
  BY DEF Append, Owing
<1> HIDE DEF m
<1>4. CASE m.id \in Videos \ Usurpable
  <2>1. PICK v \in Videos \ Usurpable : v = m.id
    BY <1>4
  <2>2. m.video = v
    BY <1>1, <2>1, OwnRow
  <2>3. Recorded' = Recorded \cup {v}
    BY <1>2, <2>1 DEF Recorded
  <2>4. status[v] = PROCESSED \/ (v \in Spoken /\ status[v] # Absent)
    <3>1. CASE m \in Events
      BY <1>1, <2>2, <3>1 DEF Announced, IInv, ConsumerInv
    <3>2. CASE m \in Foreign
      BY <1>1, <2>2, <3>2 DEF Spoken
    <3> QED  BY <1>1, <3>1, <3>2, MessageTypes
  <2>5. Store!Write(v)
    BY <1>3, <2>3, <2>4, SameStatus
       DEF life, Store!Write, Store!vars, Recorded, Owing, Spoken
  <2> QED  BY <2>5 DEF Store!StoreNext
<1>5. CASE m.id \notin Videos \ Usurpable
  <2>1. Recorded' = Recorded
    BY <1>2, <1>5 DEF Recorded
  <2> QED  BY <1>3, <2>1
           DEF Store!storeVars, Store!store, Store!vars, Recorded, Owing, life
<1> QED  BY <1>4, <1>5

LEMMA StoreAcknowledge ==
    ASSUME IInv, ~ StaleReads, UNCHANGED own, NEW c \in Consumers, Acknowledge(c)
    PROVE  Store!StoreNext \/ UNCHANGED Store!storeVars
<1> DEFINE m == worker[c].msg
<1>1. Recorded' = Recorded /\ UNCHANGED life /\ queue' = queue \ {m}
  BY DEF own, Recorded, Acknowledge
<1>2. ASSUME NEW v \in Videos, m = Event(v), m \in queue
      PROVE  Store!StoreNext
  <2>1. v \in Owing
    BY <1>2 DEF Owing
  <2>2. Owing' = Owing \ {v}
    BY <1>1, <1>2, SameEvent DEF Owing
  <2>3. v \in Recorded \cup deleted \cup Usurpable
    <3>1. m \in Events /\ m.video = v /\ m.id = v
      BY <1>2, MessageTypes
    <3>2. v \in deleted \cup Usurpable \/ EntryFor(m) # {}
      BY <3>1 DEF Acknowledge, At, IInv, InvocationInv
    <3> QED  BY <3>1, <3>2 DEF EntryFor, Recorded
  <2>4. Store!Settle(v)
    BY <1>1, <2>1, <2>2, <2>3 DEF Store!Settle, Store!vars, Recorded, Owing, life
  <2> QED  BY <2>4 DEF Store!StoreNext
<1>3. CASE m \notin queue \/ \A v \in Videos : m # Event(v)
  <2>1. Owing' = Owing
    BY <1>1, <1>3 DEF Owing
  <2> QED  BY <1>1, <2>1
           DEF Store!storeVars, Store!store, Store!vars, Recorded, Owing, life
<1> QED  BY <1>2, <1>3

LEMMA StoreCleanUp ==
    ASSUME IInv, NEW e \in history, CleanUp(e)
    PROVE  Store!StoreNext \/ UNCHANGED Store!storeVars
<1> DEFINE v == e.of.id
<1>1. /\ history' = history \ {e} /\ e.of.video \in deleted
      /\ Owing' = Owing /\ UNCHANGED <<life, queue>>
  BY DEF CleanUp, Owing
<1>2. e.of \in Messages /\ e.of.status \in STATUSES /\ e.of.video \in Videos
  BY DEF IInv, TypeOK, Entries, EntriesAreBacked
<1>3. \A w \in Videos \ Usurpable : w # v => (w \in Recorded' <=> w \in Recorded)
  BY <1>1 DEF Recorded
<1>4. Recorded' \subseteq Recorded
  BY <1>1 DEF Recorded
<1>5. CASE v \in Recorded /\ v \notin Recorded'
  <2>1. v \in Videos \ Usurpable
    BY <1>5 DEF Recorded
  <2>2. v \in deleted
    BY <1>1, <1>2, <2>1, OwnRow
  <2>3. Recorded' = Recorded \ {v}
    BY <1>3, <1>4, <1>5 DEF Recorded
  <2>4. Store!Erase(v)
    BY <1>1, <1>5, <2>2, <2>3 DEF Store!Erase, Store!vars, Recorded, Owing, life
  <2> QED  BY <2>1, <2>4 DEF Store!StoreNext
<1>6. CASE v \notin Recorded \/ v \in Recorded'
  <2>1. Recorded' = Recorded
    BY <1>3, <1>4, <1>6 DEF Recorded
  <2> QED  BY <1>1, <2>1
           DEF Store!storeVars, Store!store, Store!vars, Recorded, Owing, life
<1> QED  BY <1>5, <1>6

\* With consistent reads the history leg implements the derived store: an event is
\* settled only once its entry stands, nothing but clean-up takes entries away, and
\* others' events add none but of a video that had a record.
THEOREM ImplementsStore == ASSUME ~ StaleReads  PROVE Spec => StoreSpec
<1>1. ASSUME IInv, [Next]_vars
      PROVE  [Store!StoreNext]_(Store!storeVars)
  <2>1. ASSUME UNCHANGED <<life, queue, history>>  PROVE UNCHANGED Store!storeVars
    BY <2>1 DEF Store!storeVars, Store!store, Store!vars, life
  <2>2. ASSUME NEW c \in Consumers, Consume(c)
        PROVE  Store!StoreNext \/ UNCHANGED Store!storeVars
    <3>1. CASE Append(c)
      BY <1>1, <3>1, StoreAppend
    <3>2. CASE Acknowledge(c) /\ UNCHANGED own
      BY <1>1, <3>2, StoreAcknowledge
    <3>3. CASE \/ \E m \in Messages : Take(c, m)
               \/ LookUp(c) \/ Dedupe(c) \/ (Crash(c) /\ UNCHANGED own)
      BY <2>1, <3>3 DEF Take, Receive, LookUp, Dedupe, Crash, own
    <3> QED  BY <2>2, <3>1, <3>2, <3>3 DEF Consume
  <2>3. CASE Ask \/ UNCHANGED vars
    BY <2>1, <2>3 DEF Ask, Gate, Scan, QueryError, Answered, vars, own
  <2> QED  BY <1>1, <2>2, <2>3, StoreWorld, StoreDeliver, StoreCleanUp DEF Next
<1> QED  BY <1>1, StoreStarts, Invariance, PTL DEF Spec, StoreSpec, Store!StoreSpec

\* A store that behaves so forgets no announced video that has something to store.
THEOREM StoreForgetsNothing == Store!StoreSpec => []Store!NothingForgotten
<1> USE DEF Store!NothingForgotten
<1>1. Store!StoreInit => Store!NothingForgotten
  BY DEF Store!StoreInit, Store!Init
<1>2. ASSUME Store!NothingForgotten, [Store!StoreNext]_(Store!storeVars)
      PROVE  Store!NothingForgotten'
  <2>1. CASE UNCHANGED Store!storeVars
    BY <1>2, <2>1 DEF Store!storeVars, Store!store, Store!vars
  <2>2. ASSUME NEW v \in Videos, Store!Live(v) \/ Store!Forget(v)
        PROVE  Store!NothingForgotten'
    BY <1>2, <2>2 DEF Store!Live, Store!Forget, Store!store, Store!Create, Store!Move,
                      Store!Remove
  <2>3. ASSUME NEW v \in Videos, Store!Tell(v)  PROVE Store!NothingForgotten'
    BY <1>2, <2>3 DEF Store!Tell, Store!Announce, Store!vars
  <2>4. ASSUME NEW v \in Videos, Store!Write(v) \/ Store!Settle(v) \/ Store!Erase(v)
        PROVE  Store!NothingForgotten'
    BY <1>2, <2>4 DEF Store!Write, Store!Settle, Store!Erase, Store!vars
  <2> QED  BY <1>2, <2>1, <2>2, <2>3, <2>4 DEF Store!StoreNext
<1> QED  BY <1>1, <1>2, PTL DEF Store!StoreSpec
=============================================================================
