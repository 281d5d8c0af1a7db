------------------------------ MODULE Pipeline ------------------------------
(***************************************************************************)
(* The ingest and processing legs: the upload handler, the bus rule and    *)
(* queue of video.uploaded, the sfn-trigger-shim, the Step Functions       *)
(* machine of processing.asl.json with its two Lambdas (transcode and      *)
(* event-publisher), and the operator who starts executions by hand, seeds *)
(* and cleans up videos.                                                   *)
(*                                                                         *)
(* Every request to a service is one step.  A request may fail without     *)
(* effect; it may be applied and still fail its caller (a timeout, a       *)
(* crash, a lost reply); and the SDK may send an applied request again.    *)
(*                                                                         *)
(* eventId is a function of (videoId, status), so the execution name       *)
(* eb-{eventId} of a video.uploaded event is written as the videoId.       *)
(***************************************************************************)
EXTENDS Status

CONSTANTS Videos,    \* the videoIds the handler mints, one per upload request
          AdHoc,     \* the names of executions the operator starts by hand
          Names,     \* what an object key may end in: the file names that
                     \* _sanitize_filename lets through, and stripped ones
          Strip(_)   \* what str.strip() of an object key leaves of the name
                     \* it ends in; "" when nothing is left

ASSUME NameAssumption ==
    /\ Videos \cap AdHoc = {}
    /\ "" \notin Names
    /\ \A n \in Names \cup {""} : Strip(n) \in Names \cup {""}

Execs == Videos \cup AdHoc

\* An object key is {videoId}/{filename}; the key of its processed object
\* differs by the prefix of the other bucket, which is left out.
Keys  == Videos \X (Names \cup {""})
NoKey == <<>>

VARIABLES
    request,          \* where the upload handler is with each request
    filename,         \* the sanitized file name of each request
    uploads,          \* keys in the video-uploads bucket
    processed,        \* keys in the video-processed bucket
    status,           \* video-metadata: the status of each record ...
    processedKey,     \* ... its processedKey attribute ...
    deleted,          \* ... and the videoIds whose record has been removed
    uploadedEvents,   \* videoIds whose video.uploaded the bus has accepted
    processedEvents,  \* video.processed events the bus has accepted
    triggerQueue,     \* videoIds with a message in processing-trigger-queue
    at,               \* the state each execution is in
    input,            \* the input each execution was started with
    output            \* the processedKey its Transcode task returned

ingest == <<request, filename, uploads, uploadedEvents>>
table  == <<status, processedKey, deleted>>
leg    == <<processed, processedEvents, at, input, output>>
vars   == <<ingest, table, leg, triggerQueue>>

RequestStages == {"idle", "put_object", "create_record", "put_events",
                  "ok", "rejected", "failed", "seeded"}

\* "PutProcessed" is the second half of the Transcode task.
Running == {"MarkProcessing", "Transcode", "PutProcessed", "MarkProcessed",
            "PublishProcessed"}
Stages  == Running \cup {"none", "succeeded", "failed"}

Inputs  == [video : Videos, key : Keys]
NoInput == [video |-> Absent, key |-> NoKey]

ProcessedEvents == [video : Videos, processedKey : Keys, by : Execs]

TypeOK ==
    /\ request \in [Videos -> RequestStages]
    /\ filename \in [Videos -> Names]
    /\ uploads \subseteq Keys /\ processed \subseteq Keys
    /\ status \in [Videos -> STATUSES \cup {Absent}]
    /\ processedKey \in [Videos -> Keys \cup {NoKey}]
    /\ deleted \subseteq Videos
    /\ uploadedEvents \subseteq Videos /\ triggerQueue \subseteq Videos
    /\ processedEvents \subseteq ProcessedEvents
    /\ at \in [Execs -> Stages]
    /\ input \in [Execs -> Inputs \cup {NoInput}]
    /\ output \in [Execs -> Keys \cup {NoKey}]

Init ==
    /\ request = [v \in Videos |-> "idle"]
    /\ filename \in [Videos -> Names]
    /\ uploads = {} /\ processed = {}
    /\ status = [v \in Videos |-> Absent]
    /\ processedKey = [v \in Videos |-> NoKey]
    /\ deleted = {}
    /\ uploadedEvents = {} /\ processedEvents = {} /\ triggerQueue = {}
    /\ at = [n \in Execs |-> "none"]
    /\ input = [n \in Execs |-> NoInput]
    /\ output = [n \in Execs |-> NoKey]

OriginalKey(v) == <<v, filename[v]>>

\* key.strip(): the videoId in front has no white space.
StripKey(key) == <<key[1], Strip(key[2])>>

-----------------------------------------------------------------------------
(* The upload handler.                                                     *)

Advance(v, from, to) == request[v] = from /\ request' = [request EXCEPT ![v] = to]

\* The body parses and the name survives; the videoId is minted here.
Accept(v) == /\ Advance(v, "idle", "put_object")
             /\ UNCHANGED <<filename, uploads, uploadedEvents, table, leg, triggerQueue>>

\* Any MalformedInputError: 400, nothing written.
Reject(v) == /\ Advance(v, "idle", "rejected")
             /\ UNCHANGED <<filename, uploads, uploadedEvents, table, leg, triggerQueue>>

\* Mutant of PutObject: the event is published before the record exists.
PutObjectThenAnnounce(v) ==
    /\ \E next \in {"put_events", "failed"} : Advance(v, "put_object", next)
    /\ uploads' = uploads \cup {OriginalKey(v)}
    /\ UNCHANGED <<filename, uploadedEvents, table, leg, triggerQueue>>

PutObject(v) ==
    /\ \E next \in {"create_record", "failed"} : Advance(v, "put_object", next)
    /\ uploads' = uploads \cup {OriginalKey(v)}
    /\ UNCHANGED <<filename, uploadedEvents, table, leg, triggerQueue>>

\* create_record; staying means the write was applied and the SDK resends it.
CreateRecord(v) ==
    /\ status[v] = Absent
    /\ \E next \in {"put_events", "create_record", "failed"} :
           Advance(v, "create_record", next)
    /\ status' = [status EXCEPT ![v] = UPLOADED]
    /\ UNCHANGED <<filename, uploads, uploadedEvents, processedKey, deleted, leg,
                   triggerQueue>>

\* The resent write is refused and the layer returns the existing record.
FindRecord(v) ==
    /\ status[v] # Absent
    /\ Advance(v, "create_record", "put_events")
    /\ UNCHANGED <<filename, uploads, uploadedEvents, table, leg, triggerQueue>>

\* The bus accepts video.uploaded and its rule copies it to the queue.
PutUploaded(v) ==
    /\ \E next \in {"ok", "put_events", "failed"} : Advance(v, "put_events", next)
    /\ uploadedEvents' = uploadedEvents \cup {v}
    /\ triggerQueue' = triggerQueue \cup {v}
    /\ UNCHANGED <<filename, uploads, table, leg>>

\* A request fails or the Lambda is killed: what is written stays written.
HandlerError(v) ==
    /\ \E from \in {"put_object", "create_record", "put_events"} :
           Advance(v, from, "failed")
    /\ UNCHANGED <<filename, uploads, uploadedEvents, table, leg, triggerQueue>>

Serve(v) == \/ PutObject(v) \/ CreateRecord(v) \/ FindRecord(v)
            \/ PutUploaded(v) \/ HandlerError(v)

Upload(v) == Accept(v) \/ Reject(v) \/ Serve(v)

-----------------------------------------------------------------------------
(* The trigger leg: an at-least-once queue and the shim.                   *)

\* The bus or SQS delivers an accepted event again.
Redeliver(v) == /\ v \in uploadedEvents
                /\ triggerQueue' = triggerQueue \cup {v}
                /\ UNCHANGED <<ingest, table, leg>>

Ack(v) == triggerQueue' = triggerQueue \ {v}

Start(n, in) == /\ at[n] = "none"
                /\ at' = [at EXCEPT ![n] = "MarkProcessing"]
                /\ input' = [input EXCEPT ![n] = in]

\* asl_input: the values of the event, stripped.
AslInput(v) == [video |-> v, key |-> StripKey(OriginalKey(v))]

\* Mutant of ShimStart: an error of StartExecution is logged and acknowledged.
ShimStartSwallow(v) ==
    /\ v \in triggerQueue
    /\ at[v] = "none"
    /\ Start(v, AslInput(v)) \/ UNCHANGED <<at, input>>
    /\ Ack(v)
    /\ UNCHANGED <<ingest, table, processed, processedEvents, output>>

\* StartExecution accepts the name; the message may outlive the reply.
ShimStart(v) ==
    /\ v \in triggerQueue
    /\ Start(v, AslInput(v))
    /\ Ack(v) \/ UNCHANGED triggerQueue
    /\ UNCHANGED <<ingest, table, processed, processedEvents, output>>

\* ExecutionAlreadyExists: the collision is the idempotency.
ShimDedupe(v) ==
    /\ v \in triggerQueue
    /\ at[v] # "none"
    /\ Ack(v)
    /\ UNCHANGED <<ingest, table, leg>>

Shim(v) == ShimStart(v) \/ ShimDedupe(v)

-----------------------------------------------------------------------------
(* The processing state machine.                                           *)

VideoOf(n) == input[n].video

\* The state is left; its task may still fail after taking effect.
Leave(n, from, to) == /\ at[n] = from
                      /\ \E next \in {to, "failed"} : at' = [at EXCEPT ![n] = next]

\* Mutant of Holds: a re-run may pick up a record that is PROCESSING.
HoldsForRedrive(v, expected) ==
    v \notin deleted /\ status[v] \in {expected, PROCESSING}

\* Mutant of Holds: the condition only asks that the item exists.
HoldsIfPresent(v, expected) == v \notin deleted /\ status[v] # Absent

\* The ConditionExpression #s = :expected, false for a missing item.
Holds(v, expected) == v \notin deleted /\ status[v] = expected

MarkProcessing(n) ==
    /\ Leave(n, "MarkProcessing", "Transcode")
    /\ Holds(VideoOf(n), UPLOADED)
    /\ status' = [status EXCEPT ![VideoOf(n)] = PROCESSING]
    /\ UNCHANGED <<ingest, processedKey, deleted, processed, processedEvents,
                   input, output, triggerQueue>>

\* Mutant of SourceKey: cut to its last segment, as for the processed key.
SourceKeyLastSegment(n) == <<"", Strip(input[n].key[2])>>

\* transcode's originalKey: require_field strips it (again).
SourceKey(n) == StripKey(input[n].key)

\* Mutant of ProcessedKey: the original key is nested whole.
ProcessedKeyNested(v, key) == <<v, key>>

\* _processed_key: the videoId and the last segment of the original key.
ProcessedKey(v, key) == <<v, key[2]>>

\* transcode reads the source object; a key without a file name is malformed.
ReadSource(n) ==
    /\ at[n] = "Transcode"
    /\ at' = [at EXCEPT ![n] = "PutProcessed"]
    /\ SourceKey(n)[2] # ""
    /\ SourceKey(n) \in uploads
    /\ UNCHANGED <<ingest, table, processed, processedEvents, input, output,
                   triggerQueue>>

\* Mutant of PutProcessed: the event is published before the status is written.
PutProcessedThenPublish(n) ==
    LET key == ProcessedKey(VideoOf(n), SourceKey(n)) IN
    /\ Leave(n, "PutProcessed", "PublishProcessed")
    /\ processed' = processed \cup {key}
    /\ output' = [output EXCEPT ![n] = key]
    /\ UNCHANGED <<ingest, table, processedEvents, input, triggerQueue>>

PutProcessed(n) ==
    LET key == ProcessedKey(VideoOf(n), SourceKey(n)) IN
    /\ Leave(n, "PutProcessed", "MarkProcessed")
    /\ processed' = processed \cup {key}
    /\ output' = [output EXCEPT ![n] = key]
    /\ UNCHANGED <<ingest, table, processedEvents, input, triggerQueue>>

\* Mutant of MarkProcessed: the update carries no condition.
MarkProcessedBlind(n) ==
    /\ Leave(n, "MarkProcessed", "PublishProcessed")
    /\ status' = [status EXCEPT ![VideoOf(n)] = PROCESSED]
    /\ processedKey' = [processedKey EXCEPT ![VideoOf(n)] = output[n]]
    /\ UNCHANGED <<ingest, deleted, processed, processedEvents, input, output,
                   triggerQueue>>

MarkProcessed(n) ==
    /\ Leave(n, "MarkProcessed", "PublishProcessed")
    /\ Holds(VideoOf(n), PROCESSING)
    /\ status' = [status EXCEPT ![VideoOf(n)] = PROCESSED]
    /\ processedKey' = [processedKey EXCEPT ![VideoOf(n)] = output[n]]
    /\ UNCHANGED <<ingest, deleted, processed, processedEvents, input, output,
                   triggerQueue>>

\* event-publisher; staying means the bus accepted and the SDK resends.
PublishProcessed(n) ==
    /\ \/ Leave(n, "PublishProcessed", "succeeded")
       \/ at[n] = "PublishProcessed" /\ UNCHANGED at
    /\ processedEvents' = processedEvents \cup
           {[video |-> VideoOf(n), processedKey |-> output[n], by |-> n]}
    /\ UNCHANGED <<ingest, table, processed, input, output, triggerQueue>>

\* Mutant of TaskFails: a Catch ends the execution as if nothing had happened.
TaskFailsCaught(n) ==
    /\ at[n] \in Running
    /\ at' = [at EXCEPT ![n] = "succeeded"]
    /\ UNCHANGED <<ingest, table, processed, processedEvents, input, output,
                   triggerQueue>>

\* A refused condition, a service error, a Lambda error: the machine has no
\* Retry and no Catch, so the execution fails.
TaskFails(n) ==
    /\ at[n] \in Running
    /\ at' = [at EXCEPT ![n] = "failed"]
    /\ UNCHANGED <<ingest, table, processed, processedEvents, input, output,
                   triggerQueue>>

Task(n) == \/ MarkProcessing(n) \/ ReadSource(n) \/ PutProcessed(n)
           \/ MarkProcessed(n) \/ TaskFails(n)

Execute(n) == Task(n) \/ PublishProcessed(n)

-----------------------------------------------------------------------------
(* The operator, who knows a videoId from its 200 response or chose it.    *)

Known(v) == request[v] \in {"ok", "seeded"}

\* seed_video: an object under a plain name and an UPLOADED record, no event.
Seed(v) == /\ Advance(v, "idle", "seeded")
           /\ Strip(filename[v]) = filename[v]
           /\ uploads' = uploads \cup {OriginalKey(v)}
           /\ status' = [status EXCEPT ![v] = UPLOADED]
           /\ UNCHANGED <<filename, uploadedEvents, processedKey, deleted, leg,
                          triggerQueue>>

\* The same video.uploaded again, or a first one for a seeded video.
Republish(v) == /\ Known(v)
                /\ uploadedEvents' = uploadedEvents \cup {v}
                /\ triggerQueue' = triggerQueue \cup {v}
                /\ UNCHANGED <<request, filename, uploads, table, leg>>

\* StartExecution under a fresh name, with the key as it is in the bucket.
StartAdHoc(n, v) ==
    /\ n \in AdHoc /\ Known(v)
    /\ Start(n, [video |-> v, key |-> OriginalKey(v)])
    /\ UNCHANGED <<ingest, table, processed, processedEvents, output, triggerQueue>>

\* cleanup_video: first the record, later the objects.
RemoveRecord(v) == /\ Known(v)
                   /\ deleted' = deleted \cup {v}
                   /\ UNCHANGED <<ingest, status, processedKey, leg, triggerQueue>>

\* Mutant of RemoveObjects: the objects go first.
RemoveObjectsFirst(v) ==
    /\ Known(v)
    /\ uploads' = {k \in uploads : k[1] # v}
    /\ processed' = {k \in processed : k[1] # v}
    /\ UNCHANGED <<request, filename, uploadedEvents, table, processedEvents,
                   at, input, output, triggerQueue>>

RemoveObjects(v) ==
    /\ v \in deleted
    /\ uploads' = {k \in uploads : k[1] # v}
    /\ processed' = {k \in processed : k[1] # v}
    /\ UNCHANGED <<request, filename, uploadedEvents, table, processedEvents,
                   at, input, output, triggerQueue>>

Operator(v) == \/ Seed(v) \/ Republish(v) \/ RemoveRecord(v) \/ RemoveObjects(v)
               \/ \E n \in AdHoc : StartAdHoc(n, v)

-----------------------------------------------------------------------------
Next == \/ \E v \in Videos : Upload(v) \/ Redeliver(v) \/ Shim(v) \/ Operator(v)
        \/ \E n \in Execs : Execute(n)

\* A Lambda or an execution that has started ends, one way or the other (its
\* timeout sees to that), and SQS hands out a message until it is acknowledged.
Fairness == /\ \A v \in Videos : WF_vars(Serve(v)) /\ WF_vars(Shim(v))
            /\ \A n \in Execs : WF_vars(Execute(n))

Spec == Init /\ [][Next]_vars

FairSpec == Spec /\ Fairness

-----------------------------------------------------------------------------
(* Properties.                                                             *)

\* An execution has passed its first condition and not failed since.
Working == Running \ {"MarkProcessing"}
Past(n) == at[n] \in Working \cup {"succeeded"}

\* FR-9: whatever is redelivered, republished or started by hand, at most one
\* execution of a video gets past MarkProcessing, so at most one transcodes.
SoleOwner ==
    \A m, n \in Execs :
        Past(m) /\ Past(n) /\ VideoOf(m) = VideoOf(n) => m = n

\* FR-6 and FR-7: a video.processed event on the bus means the PROCESSED status
\* was written before it, with the processedKey the event carries, and that
\* key names an object of the video (until the operator removes the video).
ProcessedEventIsBacked ==
    \A e \in processedEvents :
        /\ status[e.video] = PROCESSED
        /\ processedKey[e.video] = e.processedKey
        /\ e.video \notin deleted => e.processedKey \in processed

\* FR-8, the half that holds: no two executions publish for the same video and
\* no video has two different terminal events.
AtMostOneTerminalEvent ==
    \A d, e \in processedEvents : d.video = e.video => d = e

\* FR-4: a video.uploaded event is on the bus only after the object and the
\* record it names, and a 200 response means all three are there.
UploadedIsBacked ==
    \A v \in Videos :
        /\ v \in uploadedEvents \/ request[v] = "ok" => status[v] # Absent
        /\ v \in uploadedEvents \ deleted => OriginalKey(v) \in uploads
        /\ request[v] = "ok" => v \in uploadedEvents

\* FR-8, as far as the other half goes: a record stays PROCESSING, or PROCESSED
\* without its event, only while an execution works on it or after one of its
\* executions has failed.  No step loses a video silently.
Published(v) == \E e \in processedEvents : e.video = v

NoSilentStranding ==
    \A v \in Videos :
        /\ status[v] = PROCESSING =>
              \E n \in Execs : VideoOf(n) = v /\ at[n] \in Working \cup {"failed"}
        /\ status[v] = PROCESSED =>
              \/ Published(v)
              \/ \E n \in Execs : VideoOf(n) = v /\ at[n] \in {"PublishProcessed", "failed"}

\* FR-6, for file names that strip() leaves alone: whoever started an execution,
\* with whichever of the keys, its Transcode finds the object (until the operator
\* removes the video).
PlainNamesAreRead ==
    \A n \in Execs :
        /\ at[n] \in {"MarkProcessing", "Transcode"}
        /\ VideoOf(n) \notin deleted
        /\ Strip(filename[VideoOf(n)]) = filename[VideoOf(n)]
        => SourceKey(n) \in uploads /\ SourceKey(n)[2] # ""

\* Every accepted upload is settled: its terminal event is published, or the
\* execution its event started has failed; no message is acknowledged early.
AcceptedIsSettled ==
    \A v \in Videos :
        request[v] = "ok" ~> (Published(v) \/ at[v] = "failed")

\* The leg implements the life of a video that the consumers rely on.
announced == {e.video : e \in processedEvents}

Lifecycle == INSTANCE VideoLifecycle

LifecycleSpec == Lifecycle!Spec

\* PRD FR-8 and AD-6: exactly one event per terminal transition, so a PROCESSED
\* record with no execution at work has its event on the bus.
EveryTerminalIsAnnounced ==
    \A v \in Videos :
        status[v] = PROCESSED /\ (\A n \in Execs : VideoOf(n) = v => ~ Past(n))
            => Published(v)

\* sfn_trigger_shim's comments: a record is validated and normalised so that it
\* never starts an execution that fails mid-flight with the message already
\* acknowledged; the key an execution will read is that of a stored object.
StartedExecutionCanRead ==
    \A v \in Videos \ deleted :
        at[v] \in {"MarkProcessing", "Transcode"} => SourceKey(v) \in uploads
=============================================================================
