------------------------------- MODULE Search -------------------------------
(***************************************************************************)
(* The search leg: the search consumer and the admin rebuild both upsert   *)
(* into search-index, which an operator may clear at any time.             *)
(*                                                                         *)
(* The index is keyed by videoId, so an item is written as its videoId.    *)
(* Its title comes from the record; its processedKey comes from the record *)
(* (rebuild) or from the event (consumer), whoever sent that.              *)
(***************************************************************************)
EXTENDS Consumer

CONSTANT Untitled   \* videos whose record has no usable title

ASSUME SearchAssumption == Untitled \subseteq Videos

VARIABLES index,     \* the videoIds that have an item in search-index
          hearsay,   \* those of them last put for somebody else's PROCESSED event
          cleared,   \* history: those that had an item until an operator took it away
          clearing,  \* items the operator's clear has read and not yet deleted
          rebuild    \* the last invocation of search-rebuild

own  == <<index, hearsay, cleared, clearing, rebuild>>
vars == <<life, queue, worker, own>>

\* due is history: the records it must bring back, less what was taken away
\* under its feet.
Rebuilds == [at : {"idle", "scan", "put", "done", "failed"}, todo : SUBSET Videos,
             due : SUBSET Videos]

TypeOK == /\ ConsumerTypeOK
          /\ index \subseteq Videos
          /\ hearsay \subseteq Videos
          /\ cleared \subseteq Videos
          /\ clearing \subseteq Videos
          /\ rebuild \in Rebuilds

Init == /\ ConsumerInit
        /\ index = {} /\ hearsay = {} /\ cleared = {} /\ clearing = {}
        /\ rebuild = [at |-> "idle", todo |-> {}, due |-> {}]

\* Mutant of PutItem: keyed by the event, as the history is.
PutItemByEvent(v, said) == /\ index' = index \cup {<<v, PROCESSED>>}
                           /\ hearsay' = IF said THEN hearsay \cup {v} ELSE hearsay \ {v}
                           /\ cleared' = cleared \ {v}

\* put_item, keyed by videoId: inserts or replaces.
PutItem(v, said) == /\ index' = index \cup {v}
                    /\ hearsay' = IF said THEN hearsay \cup {v} ELSE hearsay \ {v}
                    /\ cleared' = cleared \ {v}

-----------------------------------------------------------------------------
(* The consumer.                                                           *)

\* Mutant of Usable: every legal status is indexed.
UsableAny(m) == m.status \in STATUSES

\* Required fields present and status PROCESSED; else skipped or filtered.
Usable(m) == m.status = PROCESSED

Take(c, m) == /\ Receive(c, m, IF Usable(m) THEN "get_record" ELSE "done")
              /\ UNCHANGED own

\* Mutant of LookUp: an error of the lookup counts as an unknown video.
LookUpDropsOnError(c) ==
    /\ At(c, "get_record")
    /\ \/ Known(VideoOf(c)) /\ VideoOf(c) \notin Untitled /\ GoTo(c, "put_item")
       \/ GoTo(c, "done")
    /\ UNCHANGED <<life, queue, own>>

\* get_record: an unknown video is poison and so is a record without a title.
LookUp(c) ==
    /\ At(c, "get_record")
    /\ \E found \in Found(VideoOf(c)) :
           GoTo(c, IF found /\ VideoOf(c) \notin Untitled THEN "put_item" ELSE "done")
    /\ UNCHANGED <<life, queue, own>>

\* The invocation works for a PROCESSED event that is not the publisher's.
Said(c) == worker[c].msg.from = "other" /\ worker[c].msg.status = PROCESSED

\* put_item without a condition; staying is the SDK's re-send.
Put(c) == /\ At(c, "put_item")
          /\ PutItem(VideoOf(c), Said(c))
          /\ GoTo(c, "done") \/ UNCHANGED worker
          /\ UNCHANGED <<life, queue, clearing, rebuild>>

Consume(c) == \/ \E m \in Messages : Take(c, m)
              \/ LookUp(c) \/ Put(c)
              \/ (Acknowledge(c) \/ Crash(c)) /\ UNCHANGED own

-----------------------------------------------------------------------------
(* search-rebuild.                                                         *)

Processed == {v \in Videos : Known(v) /\ status[v] = PROCESSED}

Running == rebuild.at \in {"scan", "put"}

Begin == /\ ~Running
         /\ rebuild' = [at |-> "scan", todo |-> {}, due |-> Processed \ Untitled]
         /\ UNCHANGED <<life, queue, worker, index, hearsay, cleared, clearing>>

\* What the filtered scan may find: the records, or earlier states of some.
Scans == IF StaleReads THEN SUBSET {v \in Videos : status[v] = PROCESSED}
                       ELSE {Processed}

\* Mutant of ScanRecords: videos already removed are not left out.
ScanRemovedToo ==
    /\ rebuild.at = "scan"
    /\ rebuild' = [rebuild EXCEPT !.at = "put",
                                  !.todo = {v \in Videos : status[v] = PROCESSED}]
    /\ UNCHANGED <<life, queue, worker, index, hearsay, cleared, clearing>>

\* The filtered scan of video-metadata.
ScanRecords ==
    /\ rebuild.at = "scan"
    /\ \E todo \in Scans : rebuild' = [rebuild EXCEPT !.at = "put", !.todo = todo]
    /\ UNCHANGED <<life, queue, worker, index, hearsay, cleared, clearing>>

\* Mutant of RebuildItem: the first unusable record ends the loop.
RebuildItemOrStop ==
    /\ rebuild.at = "put"
    /\ \E v \in rebuild.todo :
        IF v \in Untitled
        THEN /\ rebuild' = [rebuild EXCEPT !.todo = {}]
             /\ UNCHANGED <<index, hearsay, cleared>>
        ELSE /\ PutItem(v, FALSE)
             /\ rebuild' = [rebuild EXCEPT !.todo = @ \ {v}]
    /\ UNCHANGED <<life, queue, worker, clearing>>

\* One item of the scan: a record without a title is skipped, any other is put.
RebuildItem ==
    /\ rebuild.at = "put"
    /\ \E v \in rebuild.todo :
        /\ IF v \in Untitled THEN UNCHANGED <<index, hearsay, cleared>> ELSE PutItem(v, FALSE)
        /\ rebuild' = [rebuild EXCEPT !.todo = @ \ {v}]
    /\ UNCHANGED <<life, queue, worker, clearing>>

RebuildDone == /\ rebuild.at = "put" /\ rebuild.todo = {}
               /\ rebuild' = [rebuild EXCEPT !.at = "done"]
               /\ UNCHANGED <<life, queue, worker, index, hearsay, cleared, clearing>>

\* A scan or a put raises, or the Lambda times out: FunctionError.
RebuildFails == /\ Running
                /\ rebuild' = [rebuild EXCEPT !.at = "failed", !.todo = {}]
                /\ UNCHANGED <<life, queue, worker, index, hearsay, cleared, clearing>>

Rebuild == Begin \/ ScanRecords \/ RebuildItem \/ RebuildDone \/ RebuildFails

-----------------------------------------------------------------------------
(* The operator.                                                           *)

\* delete_item.
TakeAway(v) == /\ index' = index \ {v}
               /\ hearsay' = hearsay \ {v}
               /\ cleared' = cleared \cup (index \cap {v})
               /\ rebuild' = [rebuild EXCEPT !.due = @ \ {v}]
               /\ UNCHANGED <<life, queue, worker>>

\* clear_search_index: a scan, then one delete_item after the other.
ClearScan == /\ clearing = {}
             /\ clearing' = index
             /\ UNCHANGED <<life, queue, worker, index, hearsay, cleared, rebuild>>

ClearItem(v) == v \in clearing /\ TakeAway(v) /\ clearing' = clearing \ {v}

\* cleanup_video, after the record: the index item of the removed video.
CleanUp(v) == v \in deleted /\ TakeAway(v) /\ UNCHANGED clearing

-----------------------------------------------------------------------------
Next == \/ \E v \in Videos : (Live(v) \/ Announce(v)) /\ UNCHANGED own
        \/ \E m \in Messages : Deliver(m) /\ UNCHANGED own
        \/ \E c \in Consumers : Consume(c)
        \/ Rebuild
        \/ ClearScan
        \/ \E v \in Videos : ClearItem(v) \/ CleanUp(v)

\* As in History: redelivery, invocations that end, errors that are transient.
Fairness ==
    /\ \A c \in Consumers : WF_vars(Consume(c))
    /\ \A v \in Videos :
        LET Working(c) == worker[c].msg = Event(v)
        IN  /\ SF_vars(\E c \in Consumers : Take(c, Event(v)))
            /\ SF_vars(\E c \in Consumers : Working(c) /\ LookUp(c))
            /\ SF_vars(\E c \in Consumers : Working(c) /\ Put(c))

Spec == Init /\ [][Next]_vars

FairSpec == Spec /\ Fairness

-----------------------------------------------------------------------------
(* Properties.                                                             *)

\* Nothing is left of a removed video: no item, and no work that found its record
\* before it went.
Gone(v) == /\ v \notin index \cup rebuild.todo
           /\ \A c \in Consumers : At(c, "put_item") => VideoOf(c) # v

\* A video cleaned up between the scan of a rebuild, or a lookup, and the put is
\* indexed again for ever: the rebuild never deletes.  Only work in flight does
\* that: a removed video that is gone stays gone, whatever is redelivered and
\* rebuilt (with consistent reads).
RemovedStaysGone ==
    [][\A v \in deleted : Gone(v) => Gone(v)']_vars

\* FR-17 and FR-19: whatever anybody sends, early or late, and whatever was
\* deleted meanwhile, an item is of a video that had a record and has a title;
\* and unless it was put for a PROCESSED event of somebody else, which the
\* consumer takes at its word, and not been put again since by the rebuild or for the
\* publisher, that video is PROCESSED.  No event of another status indexes a video.
IndexedIsProcessed ==
    \A v \in index : /\ v \in Videos \ Untitled /\ status[v] # Absent
                     /\ v \notin hearsay => status[v] = PROCESSED

\* FR-15: no message is given up before its item stands: an announced video has
\* its item or still has its message, unless it was removed or cleared.
NoEventLost ==
    \A v \in announced \ (deleted \cup Untitled) :
        v \in index \cup cleared \/ Event(v) \in queue

\* FR-19: when a rebuild has returned, every titled record that was PROCESSED when
\* it was invoked is in the index, announced or not, unless it was removed or its
\* item cleared meanwhile.
RebuildIsComplete ==
    rebuild.at = "done" => rebuild.due \ deleted \subseteq index

\* FR-17: every announced video becomes searchable, however often invocations
\* fail, unless it is removed, has no title, or was cleared.
EventIndexed ==
    \A v \in Videos \ Untitled :
        v \in announced ~> v \in index \cup cleared \cup deleted

\* FR-15, FR-17, FR-19: consumer, rebuild, clear and clean-up together keep a derived
\* store of the PROCESSED videos with a title, and of those somebody else calls so,
\* which the operator may clear (with consistent reads).
Store == INSTANCE DerivedStore WITH
             Open    <- {v \in Videos : \E m \in Foreign : m.video = v /\ Usable(m)},
             Rowless <- Untitled, Clearable <- TRUE,
             rows    <- index,
             taken   <- cleared \ deleted,
             owed    <- {v \in Videos : Event(v) \in queue}

StoreSpec == Store!StoreSpec
=============================================================================
