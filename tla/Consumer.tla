------------------------------ MODULE Consumer ------------------------------
(***************************************************************************)
(* What the two consumers of video.processed share: the life of the videos *)
(* they read, their SQS queue, and invocations of the Lambda that take a   *)
(* message, work, and have it deleted from the queue or not.  Each leg has *)
(* a queue of its own and one message per invocation (batch_size = 1), so  *)
(* an invocation that raises leaves exactly its message in the queue.      *)
(*                                                                         *)
(* The rules copy whatever is put on the bus under the publisher's source  *)
(* and name, and no consumer compares an event with the record or with the *)
(* eventId it should have: Foreign is what anybody else sends, at any      *)
(* time, of any status, early, or under another event's eventId.  Only the *)
(* closed list of publishers keeps it empty; System has it empty.          *)
(***************************************************************************)
EXTENDS Status

CONSTANTS Videos,     \* videoIds of uploads
          Ghosts,     \* videoIds of fabricated events, of which no record exists
          Foreign,    \* the events that others than the publisher may send
          Consumers,  \* concurrent invocations of the consumer
          StaleReads  \* whether video-metadata may be read from a replica that
                      \* lags: no read asks for consistency

Ids == Videos \cup Ghosts

\* In place of a status: a body that is not a usable event (no detail, a field
\* missing or empty, an unknown status).
Unusable == "unusable"

\* An eventId is written as the videoId whose PROCESSED event derives it, or as
\* one of the ghosts; an event of somebody else may carry any.
ForeignEvents == [from : {"other"}, id : Ids, video : Ids, status : STATUSES \cup {Unusable}]

ASSUME ConsumerAssumption == /\ Videos \cap Ghosts = {}
                             /\ Foreign \subseteq ForeignEvents
                             /\ StaleReads \in BOOLEAN

VARIABLES status, deleted, announced,   \* as in VideoLifecycle
          queue,                        \* messages in the leg's queue
          worker                        \* what each invocation is doing

life == <<status, deleted, announced>>

Life == INSTANCE VideoLifecycle

\* The publisher's event.
Event(v) == [from |-> "publisher", id |-> v, video |-> v, status |-> PROCESSED]

Events    == {Event(v) : v \in Videos}
Messages  == Events \cup Foreign
NoMessage == <<>>

Idle == [at |-> "idle", msg |-> NoMessage]

Workers == [at : {"get_record", "put_item", "done"}, msg : Messages]

ConsumerTypeOK == /\ Life!TypeOK
                  /\ queue \subseteq Messages
                  /\ worker \in [Consumers -> Workers \cup {Idle}]

ConsumerInit == /\ Life!Init
                /\ queue = {}
                /\ worker = [c \in Consumers |-> Idle]

-----------------------------------------------------------------------------
\* The processing leg and its operator, as far as the consumers see them.
Live(v) == /\ \/ Life!Create(v)
              \/ \E to \in STATUSES : Life!Move(v, to)
              \/ Life!Remove(v)
           /\ UNCHANGED <<queue, worker>>

\* The publisher's event reaches the queue by the rule of the leg.
Announce(v) == /\ Life!Announce(v)
               /\ queue' = queue \cup {Event(v)}
               /\ UNCHANGED worker

\* A message arrives: an announced event again, or anybody's at any time.
Deliver(m) == /\ m \in Foreign \/ \E v \in announced : m = Event(v)
              /\ queue' = queue \cup {m}
              /\ UNCHANGED <<life, worker>>

-----------------------------------------------------------------------------
At(c, stage)   == worker[c].at = stage
VideoOf(c)     == worker[c].msg.video
GoTo(c, stage) == worker' = [worker EXCEPT ![c].at = stage]

\* The table has the record.
Known(v) == v \in Videos \ deleted /\ status[v] # Absent

\* What get_record may find: the record, or an earlier state of it.
Found(v) == {Known(v)} \cup
            IF StaleReads /\ v \in Videos /\ status[v] # Absent THEN BOOLEAN ELSE {}

\* An invocation takes a message, which stays in the queue.
Receive(c, m, stage) ==
    /\ worker[c] = Idle
    /\ m \in queue
    /\ worker' = [worker EXCEPT ![c] = [at |-> stage, msg |-> m]]
    /\ UNCHANGED <<life, queue>>

\* The invocation has returned: its message is deleted.
Acknowledge(c) == /\ At(c, "done")
                  /\ queue' = queue \ {worker[c].msg}
                  /\ worker' = [worker EXCEPT ![c] = Idle]
                  /\ UNCHANGED life

\* Mutant of Crash: the error is caught, and the message deleted with it.
CrashSwallowed(c) == /\ worker[c] # Idle
                     /\ queue' = queue \ {worker[c].msg}
                     /\ worker' = [worker EXCEPT ![c] = Idle]
                     /\ UNCHANGED life

\* A request fails and the handler raises, the Lambda is killed or times out,
\* or the deletion is lost: the message is seen again.
Crash(c) == /\ worker[c] # Idle
            /\ worker' = [worker EXCEPT ![c] = Idle]
            /\ UNCHANGED <<life, queue>>
=============================================================================
