--------------------------- MODULE PipelineProofs ---------------------------
(***************************************************************************)
(* Proofs about Pipeline, for every set of videos, names and executions.   *)
(***************************************************************************)
EXTENDS Pipeline, TLAPS

LEMMA StatusFacts ==
    /\ Absent \notin STATUSES
    /\ UPLOADED \in STATUSES /\ PROCESSING \in STATUSES /\ PROCESSED \in STATUSES
    /\ UPLOADED # PROCESSING /\ UPLOADED # PROCESSED /\ PROCESSING # PROCESSED
BY DEF Absent, STATUSES, UPLOADED, PROCESSING, PROCESSED, FAILED

LEMMA KeyTypes ==
    ASSUME TypeOK
    PROVE  /\ \A v \in Videos : OriginalKey(v) \in Keys
           /\ \A k \in Keys : StripKey(k) \in Keys /\ StripKey(k)[1] = k[1]
           /\ \A v \in Videos, k \in Keys : ProcessedKey(v, k) \in Keys /\ ProcessedKey(v, k)[1] = v
BY NameAssumption DEF TypeOK, OriginalKey, Keys, StripKey, ProcessedKey

(***************************************************************************)
(* Type correctness.                                                       *)
(***************************************************************************)

\* An execution that has started has an input, and one that has transcoded
\* has a key of its own video as output.
Transcoded(n) == at[n] \in {"MarkProcessed", "PublishProcessed", "succeeded"}

Started ==
    \A n \in Execs : /\ at[n] # "none" => input[n] \in Inputs
                     /\ Transcoded(n) => /\ output[n] \in Keys
                                         /\ output[n][1] = VideoOf(n)

TInv == TypeOK /\ Started

LEMMA TInvInit == Init => TInv
BY DEF Init, TInv, TypeOK, Started, Transcoded, VideoOf, RequestStages, Stages, Running

LEMMA TInvUpload ==
    ASSUME TInv, NEW v \in Videos, Upload(v)
    PROVE  TInv'
<1> USE StatusFacts, KeyTypes
    DEF TInv, TypeOK, Started, Transcoded, VideoOf, ingest, table, leg, Advance,
        RequestStages
<1>1. CASE Accept(v)        BY <1>1 DEF Accept
<1>2. CASE Reject(v)        BY <1>2 DEF Reject
<1>3. CASE PutObject(v)     BY <1>3 DEF PutObject
<1>4. CASE CreateRecord(v)  BY <1>4 DEF CreateRecord
<1>5. CASE FindRecord(v)    BY <1>5 DEF FindRecord
<1>6. CASE PutUploaded(v)   BY <1>6 DEF PutUploaded
<1>7. CASE HandlerError(v)  BY <1>7 DEF HandlerError
<1> QED  BY <1>1, <1>2, <1>3, <1>4, <1>5, <1>6, <1>7 DEF Upload, Serve

LEMMA TInvTrigger ==
    ASSUME TInv, NEW v \in Videos, Redeliver(v) \/ Shim(v)
    PROVE  TInv'
<1> USE KeyTypes DEF TInv, TypeOK, Started, Transcoded, VideoOf, ingest, table,
                     leg, Stages, Running
<1>1. CASE Redeliver(v)   BY <1>1 DEF Redeliver
<1>2. CASE ShimStart(v)
  <2>1. v \in Execs /\ AslInput(v) \in Inputs  BY DEF Execs, AslInput, Inputs
  <2> QED  BY <1>2, <2>1 DEF ShimStart, Start, Ack
<1>3. CASE ShimDedupe(v)  BY <1>3 DEF ShimDedupe, Ack
<1> QED  BY <1>1, <1>2, <1>3 DEF Shim

LEMMA TInvOperator ==
    ASSUME TInv, NEW v \in Videos, Operator(v)
    PROVE  TInv'
<1> USE StatusFacts, KeyTypes
    DEF TInv, TypeOK, Started, Transcoded, VideoOf, ingest, table, leg, Stages,
        Running
<1>1. CASE Seed(v)           BY <1>1 DEF Seed, Advance, RequestStages
<1>2. CASE Republish(v)      BY <1>2 DEF Republish
<1>3. CASE RemoveRecord(v)   BY <1>3 DEF RemoveRecord
<1>4. CASE RemoveObjects(v)  BY <1>4 DEF RemoveObjects
<1>5. ASSUME NEW n \in AdHoc, StartAdHoc(n, v)  PROVE TInv'
  <2>1. n \in Execs /\ [video |-> v, key |-> OriginalKey(v)] \in Inputs
    BY DEF Execs, Inputs
  <2> QED  BY <1>5, <2>1 DEF StartAdHoc, Start
<1> QED  BY <1>1, <1>2, <1>3, <1>4, <1>5 DEF Operator

LEMMA TInvExecute ==
    ASSUME TInv, NEW n \in Execs, Execute(n)
    PROVE  TInv'
<1> USE StatusFacts, KeyTypes
    DEF TInv, TypeOK, Started, Transcoded, VideoOf, ingest, table, leg, Stages,
        Running, Leave
<1>0. at[n] # "none" => VideoOf(n) \in Videos /\ SourceKey(n) \in Keys
  BY DEF SourceKey, Inputs
<1>1. CASE MarkProcessing(n)    BY <1>0, <1>1 DEF MarkProcessing
<1>2. CASE ReadSource(n)        BY <1>0, <1>2 DEF ReadSource
<1>3. CASE PutProcessed(n)      BY <1>0, <1>3 DEF PutProcessed
<1>4. CASE MarkProcessed(n)     BY <1>0, <1>4 DEF MarkProcessed
<1>5. CASE PublishProcessed(n)  BY <1>0, <1>5 DEF PublishProcessed, ProcessedEvents
<1>6. CASE TaskFails(n)         BY <1>6 DEF TaskFails
<1> QED  BY <1>1, <1>2, <1>3, <1>4, <1>5, <1>6 DEF Execute, Task

LEMMA TInvNext == TInv /\ [Next]_vars => TInv'
<1> SUFFICES ASSUME TInv, [Next]_vars  PROVE TInv'
  OBVIOUS
<1>1. CASE UNCHANGED vars
  BY <1>1 DEF vars, ingest, table, leg, TInv, TypeOK, Started, Transcoded, VideoOf
<1>2. ASSUME NEW v \in Videos, Upload(v) \/ Redeliver(v) \/ Shim(v) \/ Operator(v)
      PROVE  TInv'
  BY <1>2, TInvUpload, TInvTrigger, TInvOperator
<1>3. ASSUME NEW n \in Execs, Execute(n)  PROVE TInv'
  BY <1>3, TInvExecute
<1> QED  BY <1>1, <1>2, <1>3 DEF Next

\* Every variable stays in its type, whatever the number of uploads,
\* executions and file names.
THEOREM TypeCorrect == Spec => []TypeOK
<1>1. TInv => TypeOK  BY DEF TInv
<1> QED  BY <1>1, TInvInit, TInvNext, PTL DEF Spec

(***************************************************************************)
(* The inductive invariant.  SoleOwner alone is not inductive: it needs    *)
(* that an execution past a condition left its mark in the status, and     *)
(* that no record is created under an execution's feet.                    *)
(***************************************************************************)

\* The status of a video follows the stage of the execution that owns it.
StageInv ==
    \A n \in Execs :
        /\ at[n] \in {"Transcode", "PutProcessed", "MarkProcessed"}
              => status[VideoOf(n)] = PROCESSING
        /\ at[n] \in {"PublishProcessed", "succeeded"}
              => /\ status[VideoOf(n)] = PROCESSED
                 /\ processedKey[VideoOf(n)] = output[n]

\* An event is the record's last word, and its publisher the only owner.
EventInv ==
    \A e \in processedEvents :
        /\ status[e.video] = PROCESSED
        /\ processedKey[e.video] = e.processedKey
        /\ \A n \in Execs : Past(n) /\ VideoOf(n) = e.video => n = e.by

\* The processed object outlives its record.
ObjectInv ==
    /\ \A v \in Videos : status[v] = PROCESSED =>
           /\ processedKey[v][1] = v
           /\ v \notin deleted => processedKey[v] \in processed
    /\ \A n \in Execs : at[n] = "MarkProcessed" /\ VideoOf(n) \notin deleted
           => output[n] \in processed

\* What the handler has written by each of its stages.
IngestInv ==
    \A v \in Videos :
        /\ request[v] \in {"idle", "put_object"} => status[v] = Absent
        /\ request[v] \in {"create_record", "put_events", "ok", "seeded"}
              => v \in deleted \/ OriginalKey(v) \in uploads
        /\ request[v] \in {"put_events", "ok", "seeded"} => status[v] # Absent
        /\ v \in deleted => Known(v)
        /\ v \in uploadedEvents =>
              /\ status[v] # Absent
              /\ v \in deleted \/ OriginalKey(v) \in uploads
        /\ request[v] = "ok" => v \in uploadedEvents

LegInv == /\ StageInv /\ SoleOwner /\ EventInv /\ AtMostOneTerminalEvent
          /\ ObjectInv /\ NoSilentStranding

IInv == TInv /\ LegInv /\ IngestInv

LEMMA IInvInit == Init => IInv
BY TInvInit, StatusFacts
   DEF Init, IInv, LegInv, StageInv, SoleOwner, EventInv, AtMostOneTerminalEvent,
       ObjectInv, NoSilentStranding, Published, IngestInv, Past, Working, Running, VideoOf,
       NoInput

LEMMA IngestUpload ==
    ASSUME IInv, NEW v \in Videos, Upload(v)
    PROVE  IngestInv'
<1> USE StatusFacts
    DEF IInv, TInv, TypeOK, IngestInv, Known, OriginalKey, ingest, table, leg, Advance
<1>1. CASE Accept(v)        BY <1>1 DEF Accept
<1>2. CASE Reject(v)        BY <1>2 DEF Reject
<1>3. CASE PutObject(v)     BY <1>3 DEF PutObject
<1>4. CASE CreateRecord(v)  BY <1>4 DEF CreateRecord
<1>5. CASE FindRecord(v)    BY <1>5 DEF FindRecord
<1>6. CASE PutUploaded(v)   BY <1>6 DEF PutUploaded
<1>7. CASE HandlerError(v)  BY <1>7 DEF HandlerError
<1> QED  BY <1>1, <1>2, <1>3, <1>4, <1>5, <1>6, <1>7 DEF Upload, Serve

LEMMA IngestTrigger ==
    ASSUME IInv, NEW v \in Videos, Redeliver(v) \/ Shim(v)
    PROVE  IngestInv'
BY DEF IInv, IngestInv, Known, OriginalKey, ingest, table, leg, Redeliver, Shim,
       ShimStart, ShimDedupe

LEMMA IngestOperator ==
    ASSUME IInv, NEW v \in Videos, Operator(v)
    PROVE  IngestInv'
<1> USE StatusFacts
    DEF IInv, TInv, TypeOK, IngestInv, Known, OriginalKey, ingest, table, leg
<1>1. CASE Seed(v)           BY <1>1 DEF Seed, Advance
<1>2. CASE Republish(v)      BY <1>2 DEF Republish
<1>3. CASE RemoveRecord(v)   BY <1>3 DEF RemoveRecord
<1>4. CASE RemoveObjects(v)  BY <1>4 DEF RemoveObjects
<1>5. ASSUME NEW n \in AdHoc, StartAdHoc(n, v)  PROVE IngestInv'
  BY <1>5 DEF StartAdHoc
<1> QED  BY <1>1, <1>2, <1>3, <1>4, <1>5 DEF Operator

LEMMA IngestExecute ==
    ASSUME IInv, NEW n \in Execs, Execute(n)
    PROVE  IngestInv'
<1> USE StatusFacts
    DEF IInv, TInv, TypeOK, IngestInv, Known, OriginalKey, ingest, table, leg, Leave,
        Holds
<1>1. CASE MarkProcessing(n)    BY <1>1 DEF MarkProcessing
<1>2. CASE ReadSource(n)        BY <1>2 DEF ReadSource
<1>3. CASE PutProcessed(n)      BY <1>3 DEF PutProcessed
<1>4. CASE MarkProcessed(n)     BY <1>4 DEF MarkProcessed
<1>5. CASE PublishProcessed(n)  BY <1>5 DEF PublishProcessed
<1>6. CASE TaskFails(n)         BY <1>6 DEF TaskFails
<1> QED  BY <1>1, <1>2, <1>3, <1>4, <1>5, <1>6 DEF Execute, Task

\* Steps of the ingest leg and of the queue touch nothing LegInv speaks of.
LEMMA LegFrame ==
    ASSUME LegInv, UNCHANGED <<table, leg>>
    PROVE  LegInv'
BY DEF LegInv, StageInv, SoleOwner, EventInv, AtMostOneTerminalEvent, ObjectInv,
       NoSilentStranding, Published, Past, VideoOf, table, leg

\* A record is created only where none was, so no execution and no event
\* has the video yet.
LEMMA LegCreated ==
    ASSUME IInv, NEW v \in Videos, status[v] = Absent,
           status' = [status EXCEPT ![v] = UPLOADED],
           UNCHANGED <<processedKey, deleted, leg>>
    PROVE  LegInv'
<1> USE StatusFacts DEF IInv, TInv, TypeOK, LegInv, Past, VideoOf, leg
<1>1. StageInv'  BY DEF StageInv, Started, Inputs
<1>2. SoleOwner'  BY DEF SoleOwner
<1>3. EventInv' /\ AtMostOneTerminalEvent'
  BY DEF EventInv, AtMostOneTerminalEvent, ProcessedEvents
<1>4. ObjectInv'  BY DEF ObjectInv
<1>5. NoSilentStranding'  BY DEF NoSilentStranding, Published
<1> QED  BY <1>1, <1>2, <1>3, <1>4, <1>5

LEMMA LegUpload ==
    ASSUME IInv, NEW v \in Videos, Upload(v)
    PROVE  LegInv'
<1>1. CASE Accept(v) \/ Reject(v) \/ PutObject(v) \/ FindRecord(v) \/ PutUploaded(v)
           \/ HandlerError(v)
  BY <1>1, LegFrame
  DEF IInv, Accept, Reject, PutObject, FindRecord, PutUploaded, HandlerError
<1>2. CASE CreateRecord(v)
  BY <1>2, LegCreated DEF CreateRecord
<1> QED  BY <1>1, <1>2 DEF Upload, Serve

\* Starting an execution gives it an input and nothing else.
LEMMA LegStart ==
    ASSUME IInv, NEW n \in Execs, NEW in \in Inputs, Start(n, in),
           UNCHANGED <<table, processed, processedEvents, output>>
    PROVE  LegInv'
<1> USE DEF IInv, TInv, TypeOK, LegInv, Start, Past, VideoOf, Working, Running, table
<1>1. StageInv'  BY DEF StageInv
<1>2. SoleOwner'  BY DEF SoleOwner
<1>3. EventInv' /\ AtMostOneTerminalEvent'
  BY DEF EventInv, AtMostOneTerminalEvent
<1>4. ObjectInv'  BY DEF ObjectInv
<1>5. NoSilentStranding'  BY DEF NoSilentStranding, Published
<1> QED  BY <1>1, <1>2, <1>3, <1>4, <1>5

LEMMA LegTrigger ==
    ASSUME IInv, NEW v \in Videos, Redeliver(v) \/ Shim(v)
    PROVE  LegInv'
<1>1. CASE Redeliver(v) \/ ShimDedupe(v)
  BY <1>1, LegFrame DEF IInv, Redeliver, ShimDedupe
<1>2. CASE ShimStart(v)
  <2>1. v \in Execs /\ AslInput(v) \in Inputs
    BY KeyTypes DEF IInv, TInv, Execs, AslInput, Inputs
  <2> QED  BY <1>2, <2>1, LegStart DEF ShimStart
<1> QED  BY <1>1, <1>2 DEF Shim

LEMMA LegOperator ==
    ASSUME IInv, NEW v \in Videos, Operator(v)
    PROVE  LegInv'
<1>1. CASE Seed(v)
  BY <1>1, LegCreated DEF IInv, IngestInv, Seed, Advance
<1>2. CASE Republish(v)
  BY <1>2, LegFrame DEF IInv, Republish
<1>3. CASE RemoveRecord(v)
  BY <1>3 DEF RemoveRecord, IInv, LegInv, StageInv, SoleOwner, EventInv, ObjectInv,
     AtMostOneTerminalEvent, NoSilentStranding, Published, Past, VideoOf, leg
<1>4. CASE RemoveObjects(v)
  <2> USE <1>4 DEF RemoveObjects, IInv, LegInv, table, Past, VideoOf
  <2>1. ObjectInv'
    BY DEF ObjectInv, TInv, Started, Transcoded, VideoOf
  <2>2. StageInv' /\ SoleOwner' /\ NoSilentStranding'
    BY DEF StageInv, SoleOwner, NoSilentStranding, Published
  <2>3. EventInv' /\ AtMostOneTerminalEvent'
    BY DEF EventInv, AtMostOneTerminalEvent
  <2> QED  BY <2>1, <2>2, <2>3
<1>5. ASSUME NEW n \in AdHoc, StartAdHoc(n, v)  PROVE LegInv'
  <2>1. n \in Execs /\ [video |-> v, key |-> OriginalKey(v)] \in Inputs
    BY KeyTypes DEF IInv, TInv, Execs, Inputs
  <2> QED  BY <1>5, <2>1, LegStart DEF StartAdHoc
<1> QED  BY <1>1, <1>2, <1>3, <1>4, <1>5 DEF Operator

(***************************************************************************)
(* The steps of an execution, one lemma each.                              *)
(***************************************************************************)

\* Only a record that is UPLOADED gets an owner, and by StageInv and EventInv
\* it has neither an owner nor an event yet.
LEMMA LegMarkProcessing ==
    ASSUME IInv, NEW n \in Execs, MarkProcessing(n)
    PROVE  LegInv'
<1> USE StatusFacts
    DEF IInv, TInv, TypeOK, LegInv, MarkProcessing, Leave, Holds, Past, VideoOf,
        Working, Running, Stages
<1>0. input[n] \in Inputs /\ VideoOf(n) \in Videos
  BY DEF Started, Inputs
<1>1. StageInv'  BY <1>0 DEF StageInv
<1>2. SoleOwner'  BY <1>0 DEF SoleOwner, StageInv
<1>3. EventInv' /\ AtMostOneTerminalEvent'
  BY <1>0 DEF EventInv, AtMostOneTerminalEvent
<1>4. ObjectInv'  BY <1>0 DEF ObjectInv
<1>5. NoSilentStranding'  BY <1>0 DEF NoSilentStranding, Published, Started
<1> QED  BY <1>1, <1>2, <1>3, <1>4, <1>5

LEMMA LegReadSource ==
    ASSUME IInv, NEW n \in Execs, ReadSource(n)
    PROVE  LegInv'
<1> USE DEF IInv, TInv, TypeOK, LegInv, ReadSource, Past, VideoOf, Working, Running,
            Stages, table
<1>1. StageInv' /\ SoleOwner'  BY DEF StageInv, SoleOwner
<1>2. EventInv' /\ AtMostOneTerminalEvent'
  BY DEF EventInv, AtMostOneTerminalEvent
<1>3. ObjectInv'  BY DEF ObjectInv
<1>4. NoSilentStranding'  BY DEF NoSilentStranding, Published
<1> QED  BY <1>1, <1>2, <1>3, <1>4

LEMMA LegPutProcessed ==
    ASSUME IInv, NEW n \in Execs, PutProcessed(n)
    PROVE  LegInv'
<1> USE StatusFacts
    DEF IInv, TInv, TypeOK, LegInv, PutProcessed, Leave, Past, VideoOf, Working,
        Running, Stages, table
<1>1. StageInv' /\ SoleOwner'  BY DEF StageInv, SoleOwner
<1>2. EventInv' /\ AtMostOneTerminalEvent'
  BY DEF EventInv, AtMostOneTerminalEvent
<1>3. ObjectInv'  BY DEF ObjectInv
<1>4. NoSilentStranding'  BY DEF NoSilentStranding, Published
<1> QED  BY <1>1, <1>2, <1>3, <1>4

LEMMA LegMarkProcessed ==
    ASSUME IInv, NEW n \in Execs, MarkProcessed(n)
    PROVE  LegInv'
<1> USE StatusFacts
    DEF IInv, TInv, TypeOK, LegInv, MarkProcessed, Leave, Holds, Past, VideoOf,
        Working, Running, Stages
<1>0. /\ input[n] \in Inputs /\ VideoOf(n) \in Videos
      /\ output[n] \in Keys /\ output[n][1] = VideoOf(n)
  BY DEF Started, Transcoded, Inputs
<1>1. StageInv'
  BY <1>0 DEF StageInv, SoleOwner
<1>2. SoleOwner'  BY DEF SoleOwner
<1>3. EventInv' /\ AtMostOneTerminalEvent'
  BY <1>0 DEF EventInv, AtMostOneTerminalEvent
<1>4. ObjectInv'  BY <1>0 DEF ObjectInv
<1>5. NoSilentStranding'  BY <1>0 DEF NoSilentStranding, Published
<1> QED  BY <1>1, <1>2, <1>3, <1>4, <1>5

LEMMA LegPublishProcessed ==
    ASSUME IInv, NEW n \in Execs, PublishProcessed(n)
    PROVE  LegInv'
<1> USE StatusFacts
    DEF IInv, TInv, TypeOK, LegInv, PublishProcessed, Leave, Past, VideoOf, Working,
        Running, Stages, table
<1>1. StageInv' /\ SoleOwner'  BY DEF StageInv, SoleOwner
<1>2. EventInv'
  BY DEF EventInv, StageInv, SoleOwner
<1>3. AtMostOneTerminalEvent'
  BY DEF AtMostOneTerminalEvent, EventInv, StageInv, ProcessedEvents
<1>4. ObjectInv'  BY DEF ObjectInv
<1>5. NoSilentStranding'
  <2>1. Published(VideoOf(n))'
    <3> DEFINE e == [video |-> VideoOf(n), processedKey |-> output[n], by |-> n]
    <3>1. e \in processedEvents' /\ input' = input
      OBVIOUS
    <3>2. e.video = VideoOf(n)
      OBVIOUS
    <3> HIDE DEF e
    <3> QED  BY <3>1, <3>2 DEF Published
  <2>2. \A v \in Videos : Published(v) => Published(v)'
    BY DEF Published
  <2>3. /\ status' = status /\ status[VideoOf(n)] # PROCESSING
        /\ \A m \in Execs : m # n => at'[m] = at[m]
    BY DEF StageInv
  <2> QED  BY <2>1, <2>2, <2>3 DEF NoSilentStranding
<1> QED  BY <1>1, <1>2, <1>3, <1>4, <1>5

LEMMA LegTaskFails ==
    ASSUME IInv, NEW n \in Execs, TaskFails(n)
    PROVE  LegInv'
<1> USE DEF IInv, TInv, TypeOK, LegInv, TaskFails, Past, VideoOf, Working, Running,
            Stages, table
<1>1. StageInv' /\ SoleOwner'  BY DEF StageInv, SoleOwner
<1>2. EventInv' /\ AtMostOneTerminalEvent'
  BY DEF EventInv, AtMostOneTerminalEvent
<1>3. ObjectInv'  BY DEF ObjectInv
<1>4. NoSilentStranding'  BY DEF NoSilentStranding, Published
<1> QED  BY <1>1, <1>2, <1>3, <1>4

LEMMA IInvNext == IInv /\ [Next]_vars => IInv'
<1> SUFFICES ASSUME IInv, [Next]_vars  PROVE LegInv' /\ IngestInv'
  BY TInvNext DEF IInv
<1>1. CASE UNCHANGED vars
  <2>1. LegInv'  BY <1>1, LegFrame DEF IInv, vars
  <2>2. IngestInv'
    BY <1>1 DEF IInv, IngestInv, Known, OriginalKey, vars, ingest, table, leg
  <2> QED  BY <2>1, <2>2
<1>2. ASSUME NEW v \in Videos, Upload(v) \/ Redeliver(v) \/ Shim(v) \/ Operator(v)
      PROVE  LegInv' /\ IngestInv'
  BY <1>2, LegUpload, LegTrigger, LegOperator, IngestUpload, IngestTrigger,
     IngestOperator
<1>3. ASSUME NEW n \in Execs, Execute(n)  PROVE LegInv' /\ IngestInv'
  BY <1>3, IngestExecute, LegMarkProcessing, LegReadSource, LegPutProcessed,
     LegMarkProcessed, LegPublishProcessed, LegTaskFails DEF Execute, Task
<1> QED  BY <1>1, <1>2, <1>3 DEF Next

LEMMA Invariance == Spec => []IInv
BY IInvInit, IInvNext, PTL DEF Spec

(***************************************************************************)
(* The safety properties of the runs, for every value of the constants.    *)
(***************************************************************************)

\* FR-9: at most one execution of a video is ever past MarkProcessing, however
\* often its event is redelivered, republished or its execution repeated.
THEOREM OneOwner == Spec => []SoleOwner
<1>1. IInv => SoleOwner  BY DEF IInv, LegInv
<1> QED  BY <1>1, Invariance, PTL

\* FR-6, FR-7: a terminal event on the bus was preceded by the status it
\* announces and names an object that is in the processed bucket.
THEOREM EventsAreBacked == Spec => []ProcessedEventIsBacked
<1>1. IInv => ProcessedEventIsBacked
  BY DEF IInv, TInv, TypeOK, LegInv, EventInv, ObjectInv, ProcessedEventIsBacked,
     ProcessedEvents
<1> QED  BY <1>1, Invariance, PTL

\* FR-8: a video never has two terminal events, nor two publishers of one.
THEOREM OneTerminalEvent == Spec => []AtMostOneTerminalEvent
<1>1. IInv => AtMostOneTerminalEvent  BY DEF IInv, LegInv
<1> QED  BY <1>1, Invariance, PTL

\* FR-4: the event of an upload follows its object and its record.
THEOREM UploadsAreBacked == Spec => []UploadedIsBacked
<1>1. IInv => UploadedIsBacked
  BY DEF IInv, IngestInv, UploadedIsBacked
<1> QED  BY <1>1, Invariance, PTL

\* A video left PROCESSING, or PROCESSED without its event, has a failed execution
\* to show for it: the true half of FR-8's "exactly one event" that remains.
THEOREM StrandingIsVisible == Spec => []NoSilentStranding
<1>1. IInv => NoSilentStranding  BY DEF IInv, LegInv
<1> QED  BY <1>1, Invariance, PTL

(***************************************************************************)
(* The source of a transcode.                                              *)
(***************************************************************************)

\* An execution reads the key of its video's object, as it is or stripped, and the
\* object was there before anybody could start the execution.
InputInv ==
    /\ triggerQueue \subseteq uploadedEvents
    /\ \A n \in Execs : at[n] # "none" =>
          /\ input[n].video \in uploadedEvents \/ Known(input[n].video)
          /\ input[n].key \in {OriginalKey(input[n].video),
                               StripKey(OriginalKey(input[n].video))}

LEMMA InputStart ==
    ASSUME IInv, InputInv, NEW n \in Execs, NEW v \in Videos,
           v \in uploadedEvents \/ Known(v),
           NEW key \in {OriginalKey(v), StripKey(OriginalKey(v))},
           Start(n, [video |-> v, key |-> key]), UNCHANGED ingest,
           triggerQueue' \subseteq triggerQueue
    PROVE  InputInv'
<1> DEFINE in == [video |-> v, key |-> key]
<1>1. at \in [Execs -> Stages] /\ input \in [Execs -> Inputs \cup {NoInput}]
  BY DEF IInv, TInv, TypeOK
<1>2. /\ at' = [at EXCEPT ![n] = "MarkProcessing"] /\ input' = [input EXCEPT ![n] = in]
      /\ UNCHANGED <<request, filename, uploadedEvents>>
  BY DEF Start, ingest
<1>3. in.video = v /\ in.key = key
  OBVIOUS
<1> HIDE DEF in
<1> QED  BY <1>1, <1>2, <1>3 DEF InputInv, Known, OriginalKey, StripKey

LEMMA InputFrame ==
    ASSUME InputInv, UNCHANGED <<filename, input>>, uploadedEvents \subseteq uploadedEvents',
           triggerQueue' \subseteq uploadedEvents',
           \A v \in Videos : Known(v) => Known(v)',
           \A n \in Execs : at[n] = "none" => at'[n] = "none", IInv
    PROVE  InputInv'
BY DEF InputInv, OriginalKey, StripKey, IInv, TInv, Started, Inputs

LEMMA InputNext == IInv /\ InputInv /\ [Next]_vars => InputInv'
<1> SUFFICES ASSUME IInv, InputInv, [Next]_vars  PROVE InputInv'
  OBVIOUS
<1>1. CASE UNCHANGED vars
  BY <1>1 DEF vars, ingest, leg, InputInv, Known, OriginalKey, StripKey
<1>2. ASSUME NEW v \in Videos, Upload(v) \/ Seed(v)  PROVE InputInv'
  <2>1. /\ UNCHANGED <<filename, input, at>> /\ uploadedEvents \subseteq uploadedEvents'
        /\ triggerQueue' \subseteq uploadedEvents'
        /\ request[v] \in {"idle", "put_object", "create_record", "put_events"}
        /\ \E next : request' = [request EXCEPT ![v] = next]
    BY <1>2 DEF Upload, Serve, Accept, Reject, PutObject, CreateRecord, FindRecord,
                PutUploaded, HandlerError, Seed, Advance, leg, InputInv
  <2>2. \A w \in Videos : Known(w) => Known(w)'
    BY <2>1 DEF Known, IInv, TInv, TypeOK
  <2> QED  BY <2>1, <2>2, InputFrame
<1>3. ASSUME NEW v \in Videos, ShimStart(v)  PROVE InputInv'
  <2>1. v \in Execs /\ v \in uploadedEvents
    BY <1>3 DEF Execs, ShimStart, InputInv
  <2> QED  BY <1>3, <2>1, InputStart DEF ShimStart, AslInput, Ack
<1>4. ASSUME NEW v \in Videos, NEW n \in AdHoc, StartAdHoc(n, v)  PROVE InputInv'
  BY <1>4, InputStart DEF StartAdHoc, Execs
<1>5. ASSUME NEW v \in Videos, \/ Redeliver(v) \/ ShimDedupe(v) \/ Republish(v)
                               \/ RemoveRecord(v) \/ RemoveObjects(v)
      PROVE  InputInv'
  <2>1. /\ UNCHANGED <<request, filename, input, at>> /\ uploadedEvents \subseteq uploadedEvents'
        /\ triggerQueue' \subseteq uploadedEvents'
    BY <1>5 DEF InputInv, Ack, Redeliver, ShimDedupe, Republish, RemoveRecord, RemoveObjects, ingest, leg
  <2> QED  BY <2>1, InputFrame DEF Known
<1>6. ASSUME NEW n \in Execs, Execute(n)  PROVE InputInv'
  <2>1. UNCHANGED <<ingest, input, triggerQueue>>
    BY <1>6 DEF Execute, Task, MarkProcessing, ReadSource, PutProcessed, MarkProcessed,
                PublishProcessed, TaskFails
  <2>2. at[n] # "none" /\ \A m \in Execs : m # n => at'[m] = at[m]
    BY <1>6 DEF IInv, TInv, TypeOK, Execute, Task, MarkProcessing, ReadSource,
                PutProcessed, MarkProcessed, PublishProcessed, TaskFails, Leave, Running
  <2> QED  BY <2>1, <2>2, InputFrame DEF ingest, Known, InputInv
<1> QED  BY <1>1, <1>2, <1>3, <1>4, <1>5, <1>6 DEF Next, Shim, Operator

\* FR-6: of a video whose file name strip() leaves alone, every execution finds the
\* object, by whichever key it was started; only the other names can strand a video
\* at its source.
THEOREM PlainNamesAreTranscoded == Spec => []PlainNamesAreRead
<1>1. Spec => []InputInv
  <2>1. Init => InputInv
    BY DEF Init, InputInv
  <2> QED  BY <2>1, InputNext, Invariance, PTL DEF Spec
<1>2. IInv /\ InputInv => PlainNamesAreRead
  <2> SUFFICES ASSUME IInv, InputInv, NEW n \in Execs,
                      at[n] \in {"MarkProcessing", "Transcode"},
                      VideoOf(n) \notin deleted,
                      Strip(filename[VideoOf(n)]) = filename[VideoOf(n)]
               PROVE  SourceKey(n) \in uploads /\ SourceKey(n)[2] # ""
    BY DEF PlainNamesAreRead
  <2> DEFINE v == VideoOf(n)
  <2>1. v \in Videos /\ (v \in uploadedEvents \/ Known(v))
    BY DEF IInv, TInv, Started, Inputs, InputInv, VideoOf
  <2>2. OriginalKey(v) \in uploads
    BY <2>1 DEF IInv, IngestInv, Known
  <2>3. StripKey(OriginalKey(v)) = OriginalKey(v)
    BY DEF StripKey, OriginalKey
  <2>4. input[n].key = OriginalKey(v)
    BY <2>3 DEF InputInv, VideoOf
  <2>5. OriginalKey(v)[2] # ""
    <3>1. filename[v] \in Names
      BY <2>1 DEF IInv, TInv, TypeOK
    <3>2. "" \notin Names
      BY NameAssumption
    <3> QED  BY <3>1, <3>2 DEF OriginalKey
  <2> QED  BY <2>2, <2>3, <2>4, <2>5 DEF SourceKey
<1> QED  BY <1>1, <1>2, Invariance, PTL

(***************************************************************************)
(* Refinement: the leg implements VideoLifecycle.                          *)
(***************************************************************************)

\* The instance has its own copy of the vocabulary; the two agree.
LEMMA SameVocabulary ==
    /\ Lifecycle!Absent = Absent
    /\ Lifecycle!UPLOADED = UPLOADED /\ Lifecycle!PROCESSED = PROCESSED
    /\ PROCESSING \in Lifecycle!STATUSES /\ PROCESSED \in Lifecycle!STATUSES
    /\ Lifecycle!Legal(UPLOADED, PROCESSING)
    /\ Lifecycle!Legal(PROCESSING, PROCESSED)
BY DEF Lifecycle!Legal, Lifecycle!LEGAL_TRANSITIONS, Lifecycle!STATUSES,
       Lifecycle!UPLOADED, Lifecycle!PROCESSING, Lifecycle!PROCESSED,
       Lifecycle!FAILED, Lifecycle!Absent, UPLOADED, PROCESSING, PROCESSED, Absent

LEMMA LifecycleFrame ==
    ASSUME UNCHANGED <<table, processedEvents>>
    PROVE  UNCHANGED Lifecycle!vars
BY DEF table, Lifecycle!vars, announced

\* A publication announces the execution's video, which is PROCESSED.
LEMMA PublishAnnounces ==
    ASSUME IInv, NEW n \in Execs, PublishProcessed(n)
    PROVE  VideoOf(n) \in Videos /\ Lifecycle!Announce(VideoOf(n))
<1> DEFINE v == VideoOf(n)
<1>1. at[n] = "PublishProcessed"
  BY DEF PublishProcessed, Leave
<1>2. v \in Videos
  BY <1>1 DEF IInv, TInv, Started, Inputs, VideoOf
<1>3. status[v] = PROCESSED
  BY <1>1 DEF IInv, LegInv, StageInv
<1>4. announced' = announced \cup {v}
  <2> DEFINE e == [video |-> v, processedKey |-> output[n], by |-> n]
  <2>1. processedEvents' = processedEvents \cup {e}
    BY DEF PublishProcessed
  <2>2. e.video = v
    OBVIOUS
  <2> HIDE DEF e
  <2> QED  BY <2>1, <2>2 DEF announced
<1> QED  BY <1>2, <1>3, <1>4, SameVocabulary
         DEF PublishProcessed, table, announced, Lifecycle!Announce

LEMMA AnnounceIsAStep ==
    ASSUME NEW v \in Videos, Lifecycle!Announce(v)
    PROVE  [Lifecycle!Next]_(Lifecycle!vars)
BY DEF Lifecycle!Next

LEMMA LifecycleStep ==
    ASSUME IInv, [Next]_vars
    PROVE  [Lifecycle!Next]_(Lifecycle!vars)
<1> USE SameVocabulary DEF Lifecycle!Next, Lifecycle!vars
<1>1. CASE UNCHANGED vars
  BY <1>1, LifecycleFrame DEF vars, leg
<1>2. ASSUME NEW v \in Videos, Upload(v)
      PROVE  [Lifecycle!Next]_(Lifecycle!vars)
  <2>1. CASE CreateRecord(v)
    <3>1. Lifecycle!Create(v)
      BY <2>1 DEF CreateRecord, leg, announced, Lifecycle!Create
    <3> QED  BY <3>1
  <2>2. CASE ~ CreateRecord(v)
    BY <1>2, <2>2, LifecycleFrame
    DEF Upload, Serve, Accept, Reject, PutObject, FindRecord, PutUploaded,
        HandlerError, leg
  <2> QED  BY <2>1, <2>2
<1>3. ASSUME NEW v \in Videos, Redeliver(v) \/ Shim(v)
      PROVE  [Lifecycle!Next]_(Lifecycle!vars)
  BY <1>3, LifecycleFrame DEF Redeliver, Shim, ShimStart, ShimDedupe, leg
<1>4. ASSUME NEW v \in Videos, Operator(v)
      PROVE  [Lifecycle!Next]_(Lifecycle!vars)
  <2>1. CASE Seed(v)
    <3>1. Lifecycle!Create(v)
      BY <2>1 DEF IInv, IngestInv, Seed, Advance, leg, announced, Lifecycle!Create
    <3> QED  BY <3>1
  <2>2. CASE RemoveRecord(v)
    <3>1. Lifecycle!Remove(v)
      BY <2>2 DEF IInv, IngestInv, Known, RemoveRecord, leg, announced, Lifecycle!Remove
    <3> QED  BY <3>1
  <2>3. CASE Republish(v) \/ RemoveObjects(v) \/ \E n \in AdHoc : StartAdHoc(n, v)
    BY <2>3, LifecycleFrame DEF Republish, RemoveObjects, StartAdHoc, leg
  <2> QED  BY <1>4, <2>1, <2>2, <2>3 DEF Operator
<1>5. ASSUME NEW n \in Execs, Execute(n)
      PROVE  [Lifecycle!Next]_(Lifecycle!vars)
  <2>1. at[n] # "none" => VideoOf(n) \in Videos
    BY DEF IInv, TInv, Started, Inputs, VideoOf
  <2>2. CASE MarkProcessing(n)
    <3>1. Lifecycle!Move(VideoOf(n), PROCESSING)
      BY <2>2 DEF MarkProcessing, Holds, announced, Lifecycle!Move
    <3> QED  BY <2>1, <2>2, <3>1 DEF MarkProcessing, Leave
  <2>3. CASE MarkProcessed(n)
    <3>1. Lifecycle!Move(VideoOf(n), PROCESSED)
      BY <2>3 DEF MarkProcessed, Holds, announced, Lifecycle!Move
    <3> QED  BY <2>1, <2>3, <3>1 DEF MarkProcessed, Leave
  <2>4. CASE PublishProcessed(n)
    BY <2>4, PublishAnnounces, AnnounceIsAStep
  <2>5. CASE ReadSource(n) \/ PutProcessed(n) \/ TaskFails(n)
    BY <2>5, LifecycleFrame DEF ReadSource, PutProcessed, TaskFails
  <2> QED  BY <1>5, <2>2, <2>3, <2>4, <2>5 DEF Execute, Task
<1> QED  BY <1>1, <1>2, <1>3, <1>4, <1>5 DEF Next

\* The pipeline is a VideoLifecycle: legal moves only, no event before its
\* status, no record changed after its removal.
THEOREM ImplementsLifecycle == Spec => LifecycleSpec
<1>1. Init => Lifecycle!Init
  BY SameVocabulary DEF Init, announced, Lifecycle!Init
<1>2. IInv /\ [Next]_vars => [Lifecycle!Next]_(Lifecycle!vars)
  BY LifecycleStep
<1> QED  BY <1>1, <1>2, Invariance, PTL DEF Spec, LifecycleSpec, Lifecycle!Spec

(***************************************************************************)
(* Refinement: a life of a video is a legal history of the table.          *)
(***************************************************************************)

\* A removed record has existed, so its videoId is never minted again.
LInv == Lifecycle!TypeOK /\ \A v \in deleted : status[v] # Lifecycle!Absent

LEMMA LVocabulary ==
    /\ Lifecycle!Absent \notin Lifecycle!STATUSES /\ Lifecycle!UPLOADED \in Lifecycle!STATUSES
    /\ Lifecycle!Register!Absent = Lifecycle!Absent
    /\ Lifecycle!Register!UPLOADED = Lifecycle!UPLOADED
    /\ Lifecycle!Register!STATUSES = Lifecycle!STATUSES
    /\ \A from, to : Lifecycle!Legal(from, to) => Lifecycle!Register!Legal(from, to)
BY DEF Lifecycle!Register!Absent, Lifecycle!Register!UPLOADED,
       Lifecycle!Register!STATUSES, Lifecycle!Register!Legal,
       Lifecycle!Register!LEGAL_TRANSITIONS, Lifecycle!Register!PROCESSING,
       Lifecycle!Register!PROCESSED, Lifecycle!Register!FAILED, Lifecycle!Absent,
       Lifecycle!UPLOADED, Lifecycle!PROCESSING, Lifecycle!PROCESSED, Lifecycle!FAILED,
       Lifecycle!STATUSES, Lifecycle!Legal, Lifecycle!LEGAL_TRANSITIONS

LEMMA LInvariance == Lifecycle!Spec => []LInv
<1>1. Lifecycle!Init => LInv
  BY DEF Lifecycle!Init, LInv, Lifecycle!TypeOK
<1>2. LInv /\ [Lifecycle!Next]_(Lifecycle!vars) => LInv'
  <2> HIDE DEF announced
  <2> QED  BY LVocabulary DEF LInv, Lifecycle!TypeOK, Lifecycle!Next, Lifecycle!vars,
              Lifecycle!Create, Lifecycle!Move, Lifecycle!Announce, Lifecycle!Remove
<1> QED  BY <1>1, <1>2, PTL DEF Lifecycle!Spec

LEMMA LStep ==
    ASSUME LInv, [Lifecycle!Next]_(Lifecycle!vars)
    PROVE  [Lifecycle!Register!Next]_(Lifecycle!Visible)
<1> USE LVocabulary DEF LInv, Lifecycle!TypeOK, Lifecycle!Visible
<1> DEFINE Visible == Lifecycle!Visible
<1>1. CASE UNCHANGED Lifecycle!vars
  BY <1>1 DEF Lifecycle!vars
<1>2. ASSUME NEW v \in Videos, Lifecycle!Create(v)
      PROVE  [Lifecycle!Register!Next]_(Lifecycle!Visible)
  <2>1. Visible[v] = Lifecycle!Absent
        /\ Visible' = [Visible EXCEPT ![v] = Lifecycle!UPLOADED]
    BY <1>2 DEF Lifecycle!Create
  <2> QED  BY <2>1 DEF Lifecycle!Register!Next, Lifecycle!Register!Create
<1>3. ASSUME NEW v \in Videos, NEW to \in Lifecycle!STATUSES, Lifecycle!Move(v, to)
      PROVE  [Lifecycle!Register!Next]_(Lifecycle!Visible)
  <2>1. Lifecycle!Legal(Visible[v], to) /\ Visible' = [Visible EXCEPT ![v] = to]
    BY <1>3 DEF Lifecycle!Move
  <2> QED  BY <2>1 DEF Lifecycle!Register!Next, Lifecycle!Register!Move
<1>4. ASSUME NEW v \in Videos, Lifecycle!Announce(v)
      PROVE  [Lifecycle!Register!Next]_(Lifecycle!Visible)
  BY <1>4 DEF Lifecycle!Announce
<1>5. ASSUME NEW v \in Videos, Lifecycle!Remove(v)
      PROVE  [Lifecycle!Register!Next]_(Lifecycle!Visible)
  <2>1. CASE v \in deleted
    BY <1>5, <2>1 DEF Lifecycle!Remove
  <2>2. CASE v \notin deleted
    <3>1. Visible[v] # Lifecycle!Absent
          /\ Visible' = [Visible EXCEPT ![v] = Lifecycle!Absent]
      BY <1>5, <2>2 DEF Lifecycle!Remove
    <3> QED  BY <3>1 DEF Lifecycle!Register!Next, Lifecycle!Register!Remove
  <2> QED  BY <2>1, <2>2
<1> QED  BY <1>1, <1>2, <1>3, <1>4, <1>5 DEF Lifecycle!Next

\* What a reader of the table finds in the life of a video is the abstract register.
THEOREM LifecycleIsRegister == Lifecycle!Spec => Lifecycle!RegisterSpec
<1>1. Lifecycle!Init => Lifecycle!Register!Init
  BY LVocabulary DEF Lifecycle!Init, Lifecycle!Register!Init, Lifecycle!Visible
<1>2. LInv /\ [Lifecycle!Next]_(Lifecycle!vars)
          => [Lifecycle!Register!Next]_(Lifecycle!Visible)
  BY LStep
<1> QED  BY <1>1, <1>2, LInvariance, PTL
         DEF Lifecycle!Spec, Lifecycle!RegisterSpec, Lifecycle!Register!Spec

\* FR-7, FR-11: the machine's inline conditions keep the promise that the shared layer
\* keeps by status.py, whatever the handler, the executions and the operator do.
THEOREM ImplementsRegister == Spec => Lifecycle!RegisterSpec
BY ImplementsLifecycle, LifecycleIsRegister, PTL DEF LifecycleSpec
=============================================================================
