--------------------------- MODULE ConsumerProofs ---------------------------
(***************************************************************************)
(* What the proofs of the two consumers share: an invariant of the videos, *)
(* the queue and the invocations, and its preservation by every step a     *)
(* consumer's module is built from.                                        *)
(***************************************************************************)
EXTENDS Consumer, TLAPS

\* The publisher's event has been announced.
Announced(m) == m \in Events => m.video \in announced

\* What an invocation has established before it sends its next request.
WorkInv(c) ==
    /\ worker[c].at # "idle" => Announced(worker[c].msg)
    /\ worker[c].at = "put_item" =>
          worker[c].msg.video \in Videos /\ status[worker[c].msg.video] # Absent

ConsumerInv ==
    /\ ConsumerTypeOK
    /\ \A v \in announced : status[v] = PROCESSED
    /\ \A v \in deleted : status[v] # Absent
    /\ \A m \in queue : Announced(m)
    /\ \A c \in Consumers : WorkInv(c)

\* What no step takes back.
Kept == /\ deleted \subseteq deleted' /\ announced \subseteq announced'
        /\ \A v \in Videos :
            /\ status[v] \in TERMINAL_STATUSES => status'[v] = status[v]
            /\ status[v] # Absent => status'[v] # Absent

LEMMA Vocabulary ==
    /\ PROCESSED \in TERMINAL_STATUSES /\ TERMINAL_STATUSES \subseteq STATUSES
    /\ Absent \notin STATUSES /\ Unusable \notin STATUSES /\ Absent \notin TERMINAL_STATUSES
    /\ Life!Absent = Absent /\ Life!STATUSES = STATUSES
    /\ Life!UPLOADED \in STATUSES /\ Life!PROCESSED = PROCESSED
    /\ \A from, to : Life!Legal(from, to) =>
          from \in STATUSES /\ from \notin TERMINAL_STATUSES /\ to # Absent
BY DEF Life!Absent, Life!STATUSES, Life!UPLOADED, Life!PROCESSED, Life!PROCESSING,
       Life!FAILED, Life!Legal, Life!LEGAL_TRANSITIONS, Absent, Unusable, UPLOADED,
       PROCESSING, PROCESSED, FAILED, STATUSES, TERMINAL_STATUSES

LEMMA ConsumerStart == ConsumerInit => ConsumerInv
BY DEF ConsumerInit, ConsumerInv, ConsumerTypeOK, WorkInv, Idle, Life!Init, Life!TypeOK

-----------------------------------------------------------------------------
LEMMA LiveKeeps ==
    ASSUME ConsumerInv, NEW v \in Videos, Live(v)
    PROVE  ConsumerInv' /\ Kept
<1> USE Vocabulary DEF ConsumerInv, ConsumerTypeOK, Life!TypeOK
<1>1. Kept /\ UNCHANGED <<queue, worker>> /\ Life!TypeOK'
  <2>1. CASE Life!Create(v)
    BY <2>1 DEF Live, Life!Create, Kept
  <2>2. CASE \E to \in STATUSES : Life!Move(v, to)
    BY <2>2 DEF Live, Life!Move, Kept
  <2>3. CASE Life!Remove(v)
    BY <2>3 DEF Live, Life!Remove, Kept
  <2> QED  BY <2>1, <2>2, <2>3 DEF Live
<1>2. announced' = announced /\ \A w \in deleted' : status'[w] # Absent
  BY <1>1 DEF Live, Life!Create, Life!Move, Life!Remove, Kept
<1>3. \A m : Announced(m) => Announced(m)'
  BY <1>2 DEF Announced
<1> QED  BY <1>1, <1>2, <1>3 DEF WorkInv, Kept

LEMMA AnnounceKeeps ==
    ASSUME ConsumerInv, NEW v \in Videos, Announce(v)
    PROVE  ConsumerInv' /\ Kept
<1> USE Vocabulary DEF ConsumerInv, ConsumerTypeOK, Life!TypeOK, Announce, Life!Announce
<1>1. Event(v) \in Messages /\ Event(v).video = v
  BY DEF Messages, Events, Event
<1>2. \A m : Announced(m) => Announced(m)'
  BY DEF Announced
<1>3. \A c \in Consumers : WorkInv(c)'
  BY <1>2 DEF WorkInv
<1>4. Announced(Event(v))'
  BY <1>1 DEF Announced
<1> QED  BY <1>1, <1>2, <1>3, <1>4 DEF Kept

\* An event of somebody else is not the publisher's.
LEMMA Strangers == Foreign \cap Events = {} /\ Foreign \subseteq Messages
BY ConsumerAssumption DEF ForeignEvents, Events, Event, Messages

LEMMA DeliverKeeps ==
    ASSUME ConsumerInv, NEW m \in Messages, Deliver(m)
    PROVE  ConsumerInv' /\ Kept
<1> USE DEF ConsumerInv, ConsumerTypeOK, Life!TypeOK, Deliver, life
<1>1. Announced(m)
  <2>1. CASE m \in Foreign
    BY <2>1, Strangers DEF Announced
  <2>2. CASE \E v \in announced : m = Event(v)
    BY <2>2 DEF Announced, Event
  <2> QED  BY <2>1, <2>2
<1>2. \A n : Announced(n)' <=> Announced(n)
  BY DEF Announced
<1>3. \A c \in Consumers : WorkInv(c)'
  BY <1>2 DEF WorkInv
<1> QED  BY <1>1, <1>2, <1>3 DEF Kept

\* Steps of an invocation.
LEMMA ReceiveKeeps ==
    ASSUME ConsumerInv, NEW c \in Consumers, NEW m \in Messages,
           NEW stage \in {"get_record", "done"}, Receive(c, m, stage)
    PROVE  ConsumerInv' /\ Kept
<1> USE DEF ConsumerInv, ConsumerTypeOK, Life!TypeOK, Receive, life
<1>1. worker' \in [Consumers -> Workers \cup {Idle}]
  BY DEF Workers
<1>2. \A n : Announced(n)' <=> Announced(n)
  BY DEF Announced
<1>3. \A d \in Consumers : WorkInv(d)'
  BY <1>2 DEF WorkInv
<1> QED  BY <1>1, <1>2, <1>3 DEF Kept

LEMMA GoToKeeps ==
    ASSUME ConsumerInv, NEW c \in Consumers, NEW stage \in {"put_item", "done"},
           GoTo(c, stage), worker[c].at # "idle", UNCHANGED <<life, queue>>,
           stage = "put_item" => VideoOf(c) \in Videos /\ status[VideoOf(c)] # Absent
    PROVE  ConsumerInv' /\ Kept
<1> USE DEF ConsumerInv, ConsumerTypeOK, Life!TypeOK, GoTo, VideoOf, life
<1>1. worker[c] \in Workers
  BY DEF Idle
<1>2. worker' \in [Consumers -> Workers \cup {Idle}]
  BY <1>1 DEF Workers
<1>3. \A n : Announced(n)' <=> Announced(n)
  BY DEF Announced
<1>4. \A d \in Consumers : WorkInv(d)'
  BY <1>1, <1>3 DEF WorkInv, Workers
<1> QED  BY <1>2, <1>3, <1>4 DEF Kept

LEMMA EndKeeps ==
    ASSUME ConsumerInv, NEW c \in Consumers, Acknowledge(c) \/ Crash(c)
    PROVE  ConsumerInv' /\ Kept
<1> USE DEF ConsumerInv, ConsumerTypeOK, Life!TypeOK, life
<1>1. /\ worker' = [worker EXCEPT ![c] = Idle] /\ UNCHANGED life
      /\ queue' \subseteq queue
  BY DEF Acknowledge, Crash
<1>2. \A n : Announced(n)' <=> Announced(n)
  BY <1>1 DEF Announced
<1>3. \A d \in Consumers : WorkInv(d)'
  BY <1>1, <1>2 DEF WorkInv, Idle
<1> QED  BY <1>1, <1>2, <1>3 DEF Kept

LEMMA StutterKeeps ==
    ASSUME ConsumerInv, UNCHANGED <<life, queue, worker>>
    PROVE  ConsumerInv' /\ Kept
<1> USE DEF ConsumerInv, ConsumerTypeOK, Life!TypeOK, life
<1>1. \A n : Announced(n)' <=> Announced(n)
  BY DEF Announced
<1>2. \A d \in Consumers : WorkInv(d)'
  BY <1>1 DEF WorkInv
<1> QED  BY <1>1, <1>2 DEF Kept
=============================================================================
