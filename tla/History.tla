------------------------------ MODULE History ------------------------------
(***************************************************************************)
(* The history leg: the history consumer appends one entry per eventId to  *)
(* status-history, and the history query reads them behind a 404 gate.     *)
(***************************************************************************)
EXTENDS Consumer

VARIABLES history,   \* the items of status-history
          query      \* the one client's query

own  == <<history, query>>
vars == <<life, queue, worker, own>>

\* An entry keeps what its event says; who wrote it stands for the timestamp.
Entries == [of : {m \in Messages : m.status \in STATUSES}, by : Consumers]

NoQuery == [at |-> "idle"]
Queries == [at : {"scan", "404", "200", "500"}, video : Ids,
            found : SUBSET Messages]

TypeOK == /\ ConsumerTypeOK
          /\ history \subseteq Entries
          /\ query \in Queries \cup {NoQuery}

Init == ConsumerInit /\ history = {} /\ query = NoQuery

\* The item under the key of a message: its eventId, as it came.
EntryFor(m) == {e \in history : e.of.id = m.id}

-----------------------------------------------------------------------------
(* The consumer.                                                           *)

\* Mutant of Usable: the status is not validated.
UsableAny(m) == TRUE

\* Required fields present, status legal; anything else is skipped.
Usable(m) == m.status \in STATUSES

Take(c, m) == /\ Receive(c, m, IF Usable(m) THEN "get_record" ELSE "done")
              /\ UNCHANGED own

\* Mutant of LookUp: an error of the lookup counts as an unknown video.
LookUpDropsOnError(c) ==
    /\ At(c, "get_record")
    /\ \/ Known(VideoOf(c)) /\ GoTo(c, "put_item")
       \/ GoTo(c, "done")
    /\ UNCHANGED <<life, queue, own>>

\* Mutant of LookUp: no lookup, every usable event is recorded.
LookUpSkipped(c) == /\ At(c, "get_record")
                    /\ GoTo(c, "put_item")
                    /\ UNCHANGED <<life, queue, own>>

\* get_record: NotFoundError is poison, dropped.
LookUp(c) == /\ At(c, "get_record")
             /\ \E found \in Found(VideoOf(c)) :
                    GoTo(c, IF found THEN "put_item" ELSE "done")
             /\ UNCHANGED <<life, queue, own>>

Entry(c) == [of |-> worker[c].msg, by |-> c]

\* Mutant of Append: the put carries no condition and replaces the item.
AppendBlind(c) ==
    /\ At(c, "put_item")
    /\ history' = (history \ EntryFor(worker[c].msg)) \cup {Entry(c)}
    /\ GoTo(c, "done")
    /\ UNCHANGED <<life, queue, query>>

\* put_item with attribute_not_exists(eventId); staying is the SDK's re-send.
Append(c) == /\ At(c, "put_item")
             /\ EntryFor(worker[c].msg) = {}
             /\ history' = history \cup {Entry(c)}
             /\ GoTo(c, "done") \/ UNCHANGED worker
             /\ UNCHANGED <<life, queue, query>>

\* ConditionalCheckFailed: a duplicate, acknowledged.
Dedupe(c) == /\ At(c, "put_item")
             /\ EntryFor(worker[c].msg) # {}
             /\ GoTo(c, "done")
             /\ UNCHANGED <<life, queue, own>>

Consume(c) == \/ \E m \in Messages : Take(c, m)
              \/ LookUp(c) \/ Append(c) \/ Dedupe(c)
              \/ (Acknowledge(c) \/ Crash(c)) /\ UNCHANGED own

\* cleanup_video, after the record: scan, then one delete_item after the other.
CleanUp(e) == /\ e \in history
              /\ e.of.video \in deleted
              /\ history' = history \ {e}
              /\ UNCHANGED <<life, queue, worker, query>>

-----------------------------------------------------------------------------
(* The query.                                                              *)

Asked(v, at) == query' = [at |-> at, video |-> v, found |-> {}]

\* Mutant of Gate: the scan alone answers.
GateOpen(v) == /\ query = NoQuery
               /\ Asked(v, "scan")
               /\ UNCHANGED <<life, queue, worker, history>>

\* get_record on the metadata table: 404 before any scan.
Gate(v) == /\ query = NoQuery
           /\ \E found \in Found(v) : Asked(v, IF found THEN "scan" ELSE "404")
           /\ UNCHANGED <<life, queue, worker, history>>

Scan == /\ query.at = "scan"
        /\ query' = [query EXCEPT !.at = "200",
                         !.found = {e.of : e \in {f \in history : f.of.video = query.video}}]
        /\ UNCHANGED <<life, queue, worker, history>>

\* Either request fails.
QueryError == /\ \/ query = NoQuery /\ \E v \in Ids : Asked(v, "500")
                 \/ query.at = "scan" /\ query' = [query EXCEPT !.at = "500"]
              /\ UNCHANGED <<life, queue, worker, history>>

Answered == /\ query.at \in {"404", "200", "500"}
            /\ query' = NoQuery
            /\ UNCHANGED <<life, queue, worker, history>>

Ask == (\E v \in Ids : Gate(v)) \/ Scan \/ QueryError \/ Answered

-----------------------------------------------------------------------------
Next == \/ \E v \in Videos : (Live(v) \/ Announce(v)) /\ UNCHANGED own
        \/ \E m \in Messages : Deliver(m) /\ UNCHANGED own
        \/ \E e \in history : CleanUp(e)
        \/ \E c \in Consumers : Consume(c)
        \/ Ask

\* SQS hands out every message it keeps, again and again; an invocation ends;
\* and errors are transient: a request that is made again and again for the
\* same event succeeds at last.
Fairness ==
    /\ \A c \in Consumers : WF_vars(Consume(c))
    /\ \A v \in Videos :
        LET Working(c) == worker[c].msg = Event(v)
        IN  /\ SF_vars(\E c \in Consumers : Take(c, Event(v)))
            /\ SF_vars(\E c \in Consumers : Working(c) /\ LookUp(c))
            /\ SF_vars(\E c \in Consumers : Working(c) /\ Append(c))

Spec == Init /\ [][Next]_vars

FairSpec == Spec /\ Fairness

-----------------------------------------------------------------------------
(* Properties.                                                             *)

\* Nothing is left of a removed video: no entry, and no invocation that found
\* its record before it went.
Gone(v) == /\ \A e \in history : e.of.video # v
           /\ \A c \in Consumers : At(c, "put_item") => VideoOf(c) # v

\* An entry put after the clean-up of its video is never removed.  Only work in
\* flight leaves one: a removed video that is gone stays gone, whatever is
\* redelivered (with consistent reads).
RemovedStaysGone ==
    [][\A v \in deleted : Gone(v) => Gone(v)']_vars

\* FR-14: an entry, its timestamp included, is written once: a duplicate, a
\* redelivery, a second invocation or a fabricated event with the same eventId
\* neither adds nor replaces anything, and only the clean-up of its video takes
\* it away.
EntryNeverRewritten ==
    [][\A e \in history' :
          \/ e \in history
          \/ \A f \in history : f.of.id # e.of.id]_vars

OnlyCleanUpDeletes ==
    [][\A e \in history \ history' : e.of.video \in deleted]_vars

AppendOnly == EntryNeverRewritten /\ OnlyCleanUpDeletes

\* FR-15 and the audit trail, beside a clean-up and whatever anybody sends, early
\* or late: an entry belongs to a video that had a record when it was looked up.
\* An entry of the publisher's event tells of the status the video ended in, as the
\* publisher's events do (ProcessedEventIsBacked of Pipeline); the consumer takes
\* any other event at its word, so the status of its entry may be untrue.
EntriesAreBacked ==
    \A e \in history :
        /\ e.of.video \in Videos /\ status[e.of.video] # Absent
        /\ e.of \in Events => status[e.of.video] = e.of.status

\* The videos whose eventId an event of another video carries: its entry takes
\* the place of theirs.
Usurpable == {v \in Videos : \E m \in Foreign : /\ m.id = v /\ Usable(m)
                                              /\ m.video \in Videos \ {v}}

\* FR-15: no message is given up before its entry stands: an announced video has
\* an entry under the eventId of its event or still has its message, unless it is
\* being removed.  Others' events do not change that, but for one: an event of
\* another video under its eventId.
NoEventLost ==
    \A v \in announced \ (deleted \cup Usurpable) :
        Event(v) \in queue \/ EntryFor(Event(v)) # {}

\* FR-13 and FR-16: a 200 is only given for a video that exists or existed, lists
\* no entry of another video, and what it lists of the publisher is true.
AnswerIsTrue ==
    query.at = "200" =>
        /\ query.video \in Videos /\ status[query.video] # Absent
        /\ \A m \in query.found : /\ m.video = query.video
                                  /\ m \in Events => status[m.video] = m.status

\* FR-14: every announced video gets its entry, however often invocations fail.
EventRecorded ==
    \A v \in Videos \ Usurpable :
        v \in announced ~> (EntryFor(Event(v)) # {} \/ v \in deleted)

\* FR-14, FR-15: seen as a set of recorded videos, the history is a derived store
\* that forgets an event only once its entry stands, and from which nothing but
\* clean-up takes (with consistent reads).
Store == INSTANCE DerivedStore WITH
             Open    <- {v \in Videos : \E m \in Foreign : m.video = v},
             Rowless <- Usurpable, Clearable <- FALSE,
             rows    <- {v \in Videos \ Usurpable : \E e \in history : e.of.id = v},
             taken   <- {},
             owed    <- {v \in Videos : Event(v) \in queue}

StoreSpec == Store!StoreSpec
=============================================================================
