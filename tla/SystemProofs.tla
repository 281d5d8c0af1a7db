---------------------------- MODULE SystemProofs ----------------------------
(***************************************************************************)
(* Proofs about the whole system: the two legs on the pipeline's own       *)
(* events are the legs of their modules, so that the theorems about those  *)
(* carry over, and with them what the system promises end to end.          *)
(***************************************************************************)
EXTENDS System, PipelineProofs

HP == INSTANCE HistoryProofs WITH
          Ghosts <- {}, Foreign <- {}, queue <- historyQueue, worker <- historyWorker

SP == INSTANCE SearchProofs WITH
          Ghosts <- {}, Foreign <- {}, hearsay <- {},
          queue <- searchQueue, worker <- searchWorker

\* The pipeline in the system is the pipeline of its module.
LEMMA SystemRunsPipeline == SystemSpec => Spec
<1>1. SystemInit => Init
  BY DEF SystemInit
<1>2. [SystemNext]_systemVars => [Next]_vars
  BY DEF SystemNext, systemVars, Produce, Publish, InHistory, InSearch, SearchQuery,
         Next, Execute
<1> QED  BY <1>1, <1>2, PTL DEF SystemSpec, Spec

LEMMA SystemInvariance == SystemSpec => []IInv
BY SystemRunsPipeline, Invariance, PTL

-----------------------------------------------------------------------------
\* What a step of the processing leg other than a publication does to the lives
\* of the videos.
LEMMA ProduceLives ==
    ASSUME IInv, Produce
    PROVE  \/ UNCHANGED <<status, deleted, announced>>
           \/ \E v \in Videos : \/ Lifecycle!Create(v)
                                \/ \E to \in Lifecycle!STATUSES : Lifecycle!Move(v, to)
                                \/ Lifecycle!Remove(v)
<1>1. [Next]_vars /\ UNCHANGED processedEvents
  BY DEF Produce, Next, Execute, Task, Upload, Serve, Accept, Reject, PutObject,
         CreateRecord, FindRecord, PutUploaded, HandlerError, Redeliver, Shim, ShimStart,
         ShimDedupe, Operator, Seed, Republish, RemoveRecord, RemoveObjects, StartAdHoc,
         MarkProcessing, ReadSource, PutProcessed, MarkProcessed, TaskFails, leg
<1>2. announced' = announced
  BY <1>1 DEF announced
<1>3. [Lifecycle!Next]_(Lifecycle!vars)
  BY <1>1, LifecycleStep
<1> QED  BY <1>2, <1>3 DEF Lifecycle!Next, Lifecycle!vars, Lifecycle!Announce

LEMMA AnnouncedAreVideos == IInv => announced \subseteq Videos
BY DEF IInv, TInv, TypeOK, ProcessedEvents, announced

\* The instances have copies of the vocabulary; they agree.
LEMMA HistoryVocabulary ==
    /\ H!PROCESSED = PROCESSED
    /\ \A v \in Videos : Event(v) \in H!Messages
    /\ H!STATUSES = Lifecycle!STATUSES
    /\ H!Life!Absent = Lifecycle!Absent
    /\ H!Life!UPLOADED = Lifecycle!UPLOADED
    /\ H!Life!PROCESSED = Lifecycle!PROCESSED
    /\ \A from, to : H!Life!Legal(from, to) <=> Lifecycle!Legal(from, to)
<1> USE DEF H!STATUSES, H!UPLOADED, H!PROCESSING, H!PROCESSED, H!FAILED, PROCESSED,
            H!Life!STATUSES, H!Life!UPLOADED, H!Life!PROCESSING, H!Life!PROCESSED,
            H!Life!FAILED, H!Life!Absent,
            Lifecycle!STATUSES, Lifecycle!UPLOADED, Lifecycle!PROCESSING,
            Lifecycle!PROCESSED, Lifecycle!FAILED, Lifecycle!Absent
<1>1. H!Life!LEGAL_TRANSITIONS = Lifecycle!LEGAL_TRANSITIONS
  BY DEF H!Life!LEGAL_TRANSITIONS, Lifecycle!LEGAL_TRANSITIONS
<1>2. \A from, to : H!Life!Legal(from, to) <=> Lifecycle!Legal(from, to)
  BY <1>1 DEF H!Life!Legal, Lifecycle!Legal
<1>3. \A v \in Videos : Event(v) \in H!Messages
  BY DEF Event, H!Messages, H!Events
<1> QED  BY <1>2, <1>3

LEMMA HistoryLives ==
    ASSUME NEW v \in Videos, UNCHANGED <<historyQueue, historyWorker>>,
           \/ Lifecycle!Create(v)
           \/ \E to \in Lifecycle!STATUSES : Lifecycle!Move(v, to)
           \/ Lifecycle!Remove(v)
    PROVE  H!Live(v)
BY HistoryVocabulary
   DEF H!Live, H!Life!Create, H!Life!Move, H!Life!Remove, Lifecycle!Create,
       Lifecycle!Move, Lifecycle!Remove

LEMMA HistoryStepOK ==
    ASSUME IInv, [SystemNext]_systemVars
    PROVE  [H!Next]_(H!vars)
<1> USE DEF H!vars, H!life, H!own
<1>1. CASE UNCHANGED systemVars
  BY <1>1 DEF systemVars, vars, leg, table, legs, historyLeg, announced
<1>2. CASE Produce
  <2>1. UNCHANGED <<historyQueue, historyWorker, H!own>>
    BY <1>2 DEF Produce, legs, historyLeg
  <2>2. CASE UNCHANGED <<status, deleted, announced>>
    BY <2>1, <2>2
  <2> QED  BY <1>2, <2>1, <2>2, ProduceLives, HistoryLives DEF H!Next
<1>3. ASSUME NEW n \in Execs, Publish(n)  PROVE H!Next
  <2> DEFINE v == VideoOf(n)
  <2>1. v \in Videos /\ Lifecycle!Announce(v)
    BY <1>3, PublishAnnounces DEF Publish
  <2>2. H!Life!Announce(v)
    BY <2>1, HistoryVocabulary DEF H!Life!Announce, Lifecycle!Announce
  <2>3. H!Announce(v) /\ UNCHANGED H!own
    BY <1>3, <2>2, HistoryVocabulary DEF Publish, FanOut, Event, H!Announce
  <2> QED  BY <2>1, <2>3 DEF H!Next
<1>4. CASE InHistory(HistoryStep)
  <2>1. UNCHANGED <<status, deleted, announced>>
    BY <1>4 DEF InHistory, vars, table, leg, announced
  <2>2. ASSUME NEW v \in announced, H!Deliver(Event(v)), UNCHANGED <<history, query>>
        PROVE  H!Next
    <3>1. Event(v) \in H!Messages
      BY AnnouncedAreVideos, HistoryVocabulary
    <3> QED  BY <2>2, <3>1 DEF H!Next
  <2> QED  BY <1>4, <2>1, <2>2 DEF InHistory, HistoryStep, H!Next
<1>5. CASE InSearch(SearchStep) \/ SearchQuery
  BY <1>5 DEF InSearch, SearchQuery, vars, table, leg, historyLeg, announced
<1> QED  BY <1>1, <1>2, <1>3, <1>4, <1>5 DEF SystemNext

\* Whatever the rest of the system does, the history leg in it is the leg of
\* History, and all that is proved there is true of it.
THEOREM RunsHistory == SystemSpec => HistorySpec
<1>1. SystemInit => H!Init
  BY DEF SystemInit
<1> QED  BY <1>1, SystemInvariance, HistoryStepOK, PTL DEF SystemSpec, HistorySpec, H!Spec

-----------------------------------------------------------------------------
LEMMA SearchVocabulary ==
    /\ S!PROCESSED = PROCESSED
    /\ \A v \in Videos : S!Event(v) = Event(v) /\ Event(v) \in S!Messages
    /\ S!STATUSES = Lifecycle!STATUSES
    /\ S!Life!Absent = Lifecycle!Absent
    /\ S!Life!UPLOADED = Lifecycle!UPLOADED
    /\ S!Life!PROCESSED = Lifecycle!PROCESSED
    /\ \A from, to : S!Life!Legal(from, to) <=> Lifecycle!Legal(from, to)
<1> USE DEF S!STATUSES, S!UPLOADED, S!PROCESSING, S!PROCESSED, S!FAILED, PROCESSED,
            S!Life!STATUSES, S!Life!UPLOADED, S!Life!PROCESSING, S!Life!PROCESSED,
            S!Life!FAILED, S!Life!Absent,
            Lifecycle!STATUSES, Lifecycle!UPLOADED, Lifecycle!PROCESSING,
            Lifecycle!PROCESSED, Lifecycle!FAILED, Lifecycle!Absent
<1>1. S!Life!LEGAL_TRANSITIONS = Lifecycle!LEGAL_TRANSITIONS
  BY DEF S!Life!LEGAL_TRANSITIONS, Lifecycle!LEGAL_TRANSITIONS
<1>2. \A from, to : S!Life!Legal(from, to) <=> Lifecycle!Legal(from, to)
  BY <1>1 DEF S!Life!Legal, Lifecycle!Legal
<1>3. \A v \in Videos : S!Event(v) = Event(v) /\ Event(v) \in S!Messages
  BY DEF Event, H!Event, H!PROCESSED, S!Event, S!Messages, S!Events
<1> QED  BY <1>2, <1>3

LEMMA SearchLives ==
    ASSUME NEW v \in Videos, UNCHANGED <<searchQueue, searchWorker>>,
           \/ Lifecycle!Create(v)
           \/ \E to \in Lifecycle!STATUSES : Lifecycle!Move(v, to)
           \/ Lifecycle!Remove(v)
    PROVE  S!Live(v)
BY SearchVocabulary
   DEF S!Live, S!Life!Create, S!Life!Move, S!Life!Remove, Lifecycle!Create,
       Lifecycle!Move, Lifecycle!Remove

LEMMA SearchStepOK ==
    ASSUME IInv, [SystemNext]_systemVars
    PROVE  [S!Next]_(S!vars)
<1> USE DEF S!vars, S!life, S!own
<1>1. CASE UNCHANGED systemVars
  BY <1>1 DEF systemVars, vars, leg, table, legs, searchLeg, announced
<1>2. CASE Produce
  <2>1. UNCHANGED <<searchQueue, searchWorker, S!own>>
    BY <1>2 DEF Produce, legs, searchLeg
  <2>2. CASE UNCHANGED <<status, deleted, announced>>
    BY <2>1, <2>2
  <2> QED  BY <1>2, <2>1, <2>2, ProduceLives, SearchLives DEF S!Next
<1>3. ASSUME NEW n \in Execs, Publish(n)  PROVE S!Next
  <2> DEFINE v == VideoOf(n)
  <2>1. v \in Videos /\ Lifecycle!Announce(v)
    BY <1>3, PublishAnnounces DEF Publish
  <2>2. S!Life!Announce(v)
    BY <2>1, SearchVocabulary DEF S!Life!Announce, Lifecycle!Announce
  <2>3. searchQueue' = searchQueue \cup {Event(v)} /\ UNCHANGED <<searchWorker, S!own>>
    BY <1>3 DEF Publish, FanOut
  <2>4. S!Event(v) = Event(v)
    BY <2>1, SearchVocabulary
  <2>5. S!Announce(v) /\ UNCHANGED S!own
    BY <2>2, <2>3, <2>4 DEF S!Announce
  <2> QED  BY <2>1, <2>5 DEF S!Next
<1>4. CASE InSearch(SearchStep)
  <2>1. UNCHANGED <<status, deleted, announced>>
    BY <1>4 DEF InSearch, vars, table, leg, announced
  <2>2. ASSUME NEW v \in announced, S!Deliver(Event(v)),
               UNCHANGED <<index, cleared, clearing, rebuild>>
        PROVE  S!Next
    <3>1. Event(v) \in S!Messages
      BY AnnouncedAreVideos, SearchVocabulary
    <3> QED  BY <2>2, <3>1 DEF S!Next
  <2> QED  BY <1>4, <2>1, <2>2 DEF InSearch, SearchStep, S!Next
<1>5. CASE InHistory(HistoryStep) \/ SearchQuery
  BY <1>5 DEF InHistory, SearchQuery, vars, table, leg, searchLeg, announced
<1> QED  BY <1>1, <1>2, <1>3, <1>4, <1>5 DEF SystemNext

\* The search leg in the system is the leg of Search.
THEOREM RunsSearch == SystemSpec => SearchSpec
<1>1. SystemInit => S!Init
  BY DEF SystemInit
<1> QED  BY <1>1, SystemInvariance, SearchStepOK, PTL DEF SystemSpec, SearchSpec, S!Spec

-----------------------------------------------------------------------------
\* The modules with the proofs speak of the same legs: their definitions expand
\* to the same formulas.
LEMMA SameHistory == H!Spec => HP!Spec
<1> USE DEF H!UPLOADED, H!PROCESSING, H!PROCESSED, H!FAILED, H!STATUSES, H!Event, H!Events,
            H!Absent, H!Unusable, H!Ids, H!Messages, H!NoMessage, H!Idle,
            H!Life!UPLOADED, H!Life!PROCESSING, H!Life!PROCESSED, H!Life!FAILED,
            H!Life!STATUSES, H!Life!Absent, H!Life!LEGAL_TRANSITIONS, H!Life!Legal,
            H!Life!Init, H!Life!Create, H!Life!Move, H!Life!Announce, H!Life!Remove,
            H!life, H!vars, H!own, H!At, H!VideoOf, H!GoTo, H!Known, H!Found, H!Receive,
            H!Acknowledge, H!Crash, H!Live, H!Announce, H!Deliver, H!NoQuery,
            H!EntryFor, H!Usable, H!Take, H!LookUp, H!Entry, H!Append, H!Dedupe,
            H!Consume, H!CleanUp, H!Asked, H!Gate, H!Scan, H!QueryError, H!Answered,
            H!Ask, H!ConsumerInit, H!Init, H!Next, HP!UPLOADED, HP!PROCESSING,
            HP!PROCESSED, HP!FAILED, HP!STATUSES, HP!Event, HP!Events, HP!Absent,
            HP!Unusable, HP!Ids, HP!Messages, HP!NoMessage, HP!Idle, HP!Life!UPLOADED,
            HP!Life!PROCESSING, HP!Life!PROCESSED, HP!Life!FAILED, HP!Life!STATUSES,
            HP!Life!Absent, HP!Life!LEGAL_TRANSITIONS, HP!Life!Legal, HP!Life!Init,
            HP!Life!Create, HP!Life!Move, HP!Life!Announce, HP!Life!Remove, HP!life,
            HP!vars, HP!own, HP!At, HP!VideoOf, HP!GoTo, HP!Known, HP!Found, HP!Receive,
            HP!Acknowledge, HP!Crash, HP!Live, HP!Announce, HP!Deliver, HP!NoQuery,
            HP!EntryFor, HP!Usable, HP!Take, HP!LookUp, HP!Entry, HP!Append, HP!Dedupe,
            HP!Consume, HP!CleanUp, HP!Asked, HP!Gate, HP!Scan, HP!QueryError,
            HP!Answered, HP!Ask, HP!ConsumerInit, HP!Init, HP!Next
<1>1. H!Init => HP!Init
  OBVIOUS
<1>2. [H!Next]_(H!vars) => [HP!Next]_(HP!vars)
  OBVIOUS
<1> QED  BY <1>1, <1>2, PTL DEF H!Spec, HP!Spec

LEMMA SearchOperators ==
    /\ S!Init => SP!Init
    /\ S!Rebuild => SP!Rebuild
    /\ S!ClearScan => SP!ClearScan
    /\ \A c \in Consumers : S!Consume(c) => SP!Consume(c)
    /\ \A v \in Videos : /\ S!Live(v) => SP!Live(v)
                         /\ S!Announce(v) => SP!Announce(v)
                         /\ S!ClearItem(v) => SP!ClearItem(v)
                         /\ S!CleanUp(v) => SP!CleanUp(v)
    /\ \A m \in S!Messages : m \in SP!Messages /\ (S!Deliver(m) => SP!Deliver(m))
<1> USE DEF S!UPLOADED, S!PROCESSING, S!PROCESSED, S!FAILED, S!STATUSES, S!Event, S!Events,
            S!Absent, S!Unusable, S!Ids, S!Messages, S!NoMessage, S!Idle,
            S!Life!UPLOADED, S!Life!PROCESSING, S!Life!PROCESSED, S!Life!FAILED,
            S!Life!STATUSES, S!Life!Absent, S!Life!LEGAL_TRANSITIONS, S!Life!Legal,
            S!Life!Init, S!Life!Create, S!Life!Move, S!Life!Announce, S!Life!Remove,
            S!life, S!vars, S!own, S!At, S!VideoOf, S!GoTo, S!Known, S!Found, S!Receive,
            S!Acknowledge, S!Crash, S!Live, S!Announce, S!Deliver, S!PutItem, S!Said, S!Usable,
            S!Take, S!LookUp, S!Put, S!Consume, S!Processed, S!Running, S!Begin,
            S!Scans, S!ScanRecords, S!RebuildItem, S!RebuildDone, S!RebuildFails,
            S!Rebuild, S!TakeAway, S!ClearScan, S!ClearItem, S!CleanUp, S!ConsumerInit,
            S!Init, S!Next, SP!UPLOADED, SP!PROCESSING, SP!PROCESSED, SP!FAILED,
            SP!STATUSES, SP!Event, SP!Events, SP!Absent, SP!Unusable, SP!Ids,
            SP!Messages, SP!NoMessage, SP!Idle, SP!Life!UPLOADED, SP!Life!PROCESSING,
            SP!Life!PROCESSED, SP!Life!FAILED, SP!Life!STATUSES, SP!Life!Absent,
            SP!Life!LEGAL_TRANSITIONS, SP!Life!Legal, SP!Life!Init, SP!Life!Create,
            SP!Life!Move, SP!Life!Announce, SP!Life!Remove, SP!life, SP!vars, SP!own,
            SP!At, SP!VideoOf, SP!GoTo, SP!Known, SP!Found, SP!Receive, SP!Acknowledge,
            SP!Crash, SP!Live, SP!Announce, SP!Deliver, SP!PutItem, SP!Said, SP!Usable, SP!Take,
            SP!LookUp, SP!Put, SP!Consume, SP!Processed, SP!Running, SP!Begin, SP!Scans,
            SP!ScanRecords, SP!RebuildItem, SP!RebuildDone, SP!RebuildFails, SP!Rebuild,
            SP!TakeAway, SP!ClearScan, SP!ClearItem, SP!CleanUp, SP!ConsumerInit,
            SP!Init, SP!Next
<1>1. S!Init => SP!Init
  OBVIOUS
<1>2. S!Rebuild => SP!Rebuild
  OBVIOUS
<1>3. \A c \in Consumers : S!Consume(c) => SP!Consume(c)
  OBVIOUS
<1>4. \A v \in Videos : /\ S!Live(v) => SP!Live(v)
                        /\ S!Announce(v) => SP!Announce(v)
                        /\ S!ClearItem(v) => SP!ClearItem(v)
                        /\ S!CleanUp(v) => SP!CleanUp(v)
  OBVIOUS
<1>5. /\ \A m \in S!Messages : m \in SP!Messages /\ (S!Deliver(m) => SP!Deliver(m))
      /\ S!ClearScan => SP!ClearScan
  OBVIOUS
<1> QED  BY <1>1, <1>2, <1>3, <1>4, <1>5

LEMMA SameSearch == S!Spec => SP!Spec
<1>1. [S!Next]_(S!vars) => [SP!Next]_(SP!vars)
  BY SearchOperators DEF S!Next, SP!Next, S!vars, SP!vars, S!own, SP!own, S!life, SP!life
<1> QED  BY <1>1, SearchOperators, PTL DEF S!Spec, SP!Spec


-----------------------------------------------------------------------------
\* What the modules with the proofs assume of their constants.
LEMMA LegAssumptions ==
    /\ Videos \cap {} = {} /\ {} \subseteq HP!ForeignEvents /\ {} \subseteq SP!ForeignEvents
    /\ StaleReads \in BOOLEAN /\ Untitled \subseteq Videos
BY SystemAssumption

\* Where an accepted video is in the processing leg.
Accounted ==
    \A v \in Videos :
        /\ v \in uploadedEvents => v \in triggerQueue \/ at[v] # "none"
        /\ at[v] # "none" => VideoOf(v) = v
        /\ at[v] = "succeeded" => v \in announced

LEMMA AccountedInit == Init => Accounted
BY DEF Init, Accounted, Execs

LEMMA AccountedNext == IInv /\ Accounted /\ [Next]_vars => Accounted'
<1> SUFFICES ASSUME IInv, Accounted, [Next]_vars  PROVE Accounted'
  OBVIOUS
<1> USE DEF Accounted, VideoOf, announced
<1>0. Videos \subseteq Execs /\ at \in [Execs -> Stages] /\ input \in [Execs -> Inputs \cup {NoInput}]
  BY DEF IInv, TInv, TypeOK, Execs
<1>1. CASE UNCHANGED vars
  BY <1>1 DEF vars, ingest, leg
<1>2. ASSUME NEW w \in Videos, Upload(w) \/ Redeliver(w)  PROVE Accounted'
  BY <1>2 DEF Upload, Serve, Accept, Reject, PutObject, CreateRecord, FindRecord,
              PutUploaded, HandlerError, Redeliver, ingest, leg
<1>3. ASSUME NEW w \in Videos, Shim(w)  PROVE Accounted'
  <2>1. CASE ShimStart(w)
    BY <1>0, <2>1 DEF ShimStart, Start, Ack, AslInput, ingest
  <2>2. CASE ShimDedupe(w)
    BY <2>2 DEF ShimDedupe, Ack, ingest, leg
  <2> QED  BY <1>3, <2>1, <2>2 DEF Shim
<1>4. ASSUME NEW w \in Videos, Operator(w)  PROVE Accounted'
  <2>1. CASE Seed(w) \/ Republish(w) \/ RemoveRecord(w) \/ RemoveObjects(w)
    BY <2>1 DEF Seed, Republish, RemoveRecord, RemoveObjects, ingest, leg
  <2>2. ASSUME NEW n \in AdHoc, StartAdHoc(n, w)  PROVE Accounted'
    <3>1. n \in Execs /\ n \notin Videos
      BY NameAssumption DEF Execs
    <3> QED  BY <1>0, <2>2, <3>1 DEF StartAdHoc, Start, ingest
  <2> QED  BY <1>4, <2>1, <2>2 DEF Operator
<1>5. ASSUME NEW n \in Execs, Task(n)  PROVE Accounted'
  <2>1. /\ UNCHANGED <<uploadedEvents, triggerQueue, input, processedEvents>>
        /\ at[n] # "none"
        /\ \E next \in Stages \ {"none", "succeeded"} : at' = [at EXCEPT ![n] = next]
    BY <1>5 DEF Task, MarkProcessing, ReadSource, PutProcessed, MarkProcessed, TaskFails,
                Leave, ingest, Stages, Running
  <2> QED  BY <1>0, <2>1
<1>6. ASSUME NEW n \in Execs, PublishProcessed(n)  PROVE Accounted'
  <2>1. announced' = announced \cup {VideoOf(n)}
    BY <1>6, PublishAnnounces DEF Lifecycle!Announce
  <2>2. /\ UNCHANGED <<uploadedEvents, triggerQueue, input>>
        /\ at[n] # "none"
        /\ \/ UNCHANGED at
           \/ \E next \in {"succeeded", "failed"} : at' = [at EXCEPT ![n] = next]
    BY <1>6 DEF PublishProcessed, Leave, ingest
  <2> HIDE DEF announced
  <2> QED  BY <1>0, <2>1, <2>2
<1> QED  BY <1>1, <1>2, <1>3, <1>4, <1>5, <1>6 DEF Next, Execute

\* With consistent reads, an accepted video is at every moment queued, executing,
\* visibly failed, or in each derived store or its queue.
THEOREM NothingIsLost == ASSUME ~ StaleReads  PROVE SystemSpec => []NothingLost
<1>1. Spec => []Accounted
  BY AccountedInit, AccountedNext, Invariance, PTL DEF Spec
<1>2. SystemSpec => []HP!NoEventLost
  <2>1. HP!Spec => []HP!NoEventLost
    BY LegAssumptions, HP!NothingGivenUp
  <2> QED  BY <2>1, RunsHistory, SameHistory, PTL DEF HistorySpec
<1>3. SystemSpec => []SP!NoEventLost
  <2>1. SP!Spec => []SP!NoEventLost
    BY LegAssumptions, SP!NothingGivenUp
  <2> QED  BY <2>1, RunsSearch, SameSearch, PTL DEF SearchSpec
<1>4. IInv /\ Accounted /\ HP!NoEventLost /\ SP!NoEventLost => NothingLost
  <2> SUFFICES ASSUME IInv, Accounted, HP!NoEventLost, SP!NoEventLost,
                      NEW v \in Videos \ deleted, request[v] = "ok",
                      v \notin triggerQueue, at[v] \notin Running \cup {"failed"}
               PROVE  /\ Event(v) \in historyQueue \/ H!EntryFor(Event(v)) # {}
                      /\ Event(v) \in searchQueue \/ v \in index \cup cleared \cup Untitled
    BY DEF NothingLost
  <2>1. v \in announced
    BY DEF IInv, TInv, TypeOK, IngestInv, Accounted, Execs, Stages
  <2>2. Event(v) \in historyQueue \/ H!EntryFor(Event(v)) # {}
    BY <2>1 DEF HP!NoEventLost, HP!Usurpable, HP!EntryFor, H!EntryFor, Event, H!Event,
                HP!Event, H!PROCESSED, HP!PROCESSED
  <2>3. Event(v) \in searchQueue \/ v \in index \cup cleared \cup Untitled
    BY <2>1 DEF SP!NoEventLost, Event, H!Event, SP!Event, H!PROCESSED, SP!PROCESSED
  <2> QED  BY <2>2, <2>3
<1> QED  BY <1>1, <1>2, <1>3, <1>4, SystemInvariance, SystemRunsPipeline, PTL

-----------------------------------------------------------------------------
\* A hit is of a video that was PROCESSED when it was read, and so for ever.
HitsInv == \A v \in hits : v \in Videos /\ status[v] = PROCESSED

LEMMA HitsInvNext ==
    ASSUME IInv, SP!IndexedIsProcessed, HitsInv, [SystemNext]_systemVars
    PROVE  HitsInv'
<1>1. [Lifecycle!Next]_(Lifecycle!vars)
  <2>1. [Next]_vars
    BY DEF SystemNext, systemVars, Produce, Publish, InHistory, InSearch, SearchQuery,
           Next, Execute
  <2> QED  BY <2>1, LifecycleStep
<1>2. \A v \in Videos : status[v] = PROCESSED => status'[v] = PROCESSED
  <2>1. status \in [Videos -> STATUSES \cup {Absent}]
    BY DEF IInv, TInv, TypeOK
  <2>2. Lifecycle!Absent # PROCESSED /\ \A to : ~ Lifecycle!Legal(PROCESSED, to)
    BY DEF Lifecycle!Absent, PROCESSED, Lifecycle!Legal, Lifecycle!LEGAL_TRANSITIONS,
           Lifecycle!STATUSES, Lifecycle!UPLOADED, Lifecycle!PROCESSING,
           Lifecycle!PROCESSED, Lifecycle!FAILED
  <2> QED  BY <1>1, <2>1, <2>2
           DEF Lifecycle!Next, Lifecycle!vars, Lifecycle!Create, Lifecycle!Move,
               Lifecycle!Announce, Lifecycle!Remove
<1>3. UNCHANGED hits \/ SearchQuery
  BY DEF SystemNext, systemVars, legs, Produce, Publish, FanOut, InHistory, InSearch
<1>4. CASE SearchQuery
  <2>1. \A v \in index : v \in Videos /\ status[v] = PROCESSED
    BY DEF SP!IndexedIsProcessed, SP!PROCESSED, PROCESSED
  <2>2. hits' \subseteq index
    BY <1>4 DEF SearchQuery
  <2> QED  BY <1>2, <2>1, <2>2 DEF HitsInv
<1> QED  BY <1>2, <1>3, <1>4 DEF HitsInv

\* Whatever was cleared, rebuilt or redelivered, a hit of the search names a
\* PROCESSED video whose object is there, until the operator removes the video.
THEOREM HitsAreTrue == SystemSpec => []HitsAreServable
<1>1. SystemSpec => []SP!IndexedIsProcessed
  <2>1. SP!Spec => []SP!IndexedIsProcessed
    BY LegAssumptions, SP!IndexIsTrue
  <2> QED  BY <2>1, RunsSearch, SameSearch, PTL DEF SearchSpec
<1>2. SystemInit => HitsInv
  BY DEF SystemInit, HitsInv
<1>3. SystemSpec => []HitsInv
  BY <1>1, <1>2, HitsInvNext, SystemInvariance, PTL DEF SystemSpec
<1>4. IInv /\ HitsInv => HitsAreServable
  BY DEF IInv, LegInv, ObjectInv, HitsInv, HitsAreServable
<1> QED  BY <1>3, <1>4, SystemInvariance, PTL

-----------------------------------------------------------------------------
(* What holds of a leg by itself holds of it in the system.                *)

\* Uploads, executions and clean-up keep their promises while consumers, rebuilds and
\* queries run beside them.
THEOREM PipelineInSystem ==
    SystemSpec => /\ [](/\ SoleOwner /\ ProcessedEventIsBacked /\ AtMostOneTerminalEvent
                        /\ UploadedIsBacked /\ NoSilentStranding /\ PlainNamesAreRead)
                  /\ Lifecycle!RegisterSpec
BY SystemRunsPipeline, OneOwner, EventsAreBacked, OneTerminalEvent, UploadsAreBacked,
   StrandingIsVisible, PlainNamesAreTranscoded, ImplementsRegister, PTL

LEMMA SameHistoryProperties ==
    /\ HP!EntriesAreBacked => H!EntriesAreBacked
    /\ HP!AnswerIsTrue => H!AnswerIsTrue
    /\ HP!NoEventLost => H!NoEventLost
    /\ HP!AppendOnly => H!AppendOnly
    /\ HP!RemovedStaysGone => H!RemovedStaysGone
<1>1. HP!EntriesAreBacked => H!EntriesAreBacked
  BY DEF HP!EntriesAreBacked, H!EntriesAreBacked, HP!Absent, H!Absent, HP!Events, H!Events,
         HP!Event, H!Event, HP!PROCESSED, H!PROCESSED
<1>2. HP!AnswerIsTrue => H!AnswerIsTrue
  BY DEF HP!AnswerIsTrue, H!AnswerIsTrue, HP!Absent, H!Absent, HP!Events, H!Events,
         HP!Event, H!Event, HP!PROCESSED, H!PROCESSED
<1>3. HP!NoEventLost => H!NoEventLost
  BY DEF HP!NoEventLost, H!NoEventLost, HP!EntryFor, H!EntryFor, HP!Usurpable, H!Usurpable,
         HP!Event, H!Event, HP!PROCESSED, H!PROCESSED
<1>4. HP!AppendOnly => H!AppendOnly
  <2> USE DEF HP!vars, H!vars, HP!life, H!life, HP!own, H!own
  <2>1. HP!EntryNeverRewritten => H!EntryNeverRewritten
    BY PTL DEF HP!EntryNeverRewritten, H!EntryNeverRewritten
  <2>2. HP!OnlyCleanUpDeletes => H!OnlyCleanUpDeletes
    BY PTL DEF HP!OnlyCleanUpDeletes, H!OnlyCleanUpDeletes
  <2> QED  BY <2>1, <2>2 DEF HP!AppendOnly, H!AppendOnly
<1>5. HP!RemovedStaysGone => H!RemovedStaysGone
  <2>1. [\A v \in deleted : HP!Gone(v) => HP!Gone(v)']_(HP!vars)
            => [\A v \in deleted : H!Gone(v) => H!Gone(v)']_(H!vars)
    BY DEF HP!Gone, H!Gone, HP!At, H!At, HP!VideoOf, H!VideoOf, HP!vars, H!vars,
           HP!life, H!life, HP!own, H!own
  <2> QED  BY <2>1, PTL DEF HP!RemovedStaysGone, H!RemovedStaysGone
<1> QED  BY <1>1, <1>2, <1>3, <1>4, <1>5

\* Every message is the publisher's here: every entry, and every entry that the query
\* answers with, tells of the status its video has.
OnlyTruth ==
    /\ \A e \in history : e.of.video \in Videos /\ status[e.of.video] = e.of.status
    /\ query.at = "200" => \A m \in query.found : status[m.video] = m.status

\* With nobody but the publisher on the bus, the history and the answers of its query
\* are true of the videos of the pipeline itself, and an entry is written once.
THEOREM HistoryInSystem ==
    SystemSpec => [](H!EntriesAreBacked /\ H!AnswerIsTrue /\ OnlyTruth) /\ H!AppendOnly
<1>1. HP!Spec => [](HP!TypeOK /\ HP!EntriesAreBacked /\ HP!AnswerIsTrue) /\ HP!AppendOnly
  BY LegAssumptions, HP!TypeCorrect, HP!HistoryIsTrue, HP!QueryIsTrue, HP!WrittenOnce, PTL
<1>2. HP!TypeOK /\ HP!EntriesAreBacked /\ HP!AnswerIsTrue => OnlyTruth
  BY DEF HP!TypeOK, HP!Entries, HP!Queries, HP!NoQuery, HP!Messages, HP!EntriesAreBacked,
         HP!AnswerIsTrue, OnlyTruth
<1> QED  BY <1>1, <1>2, RunsHistory, SameHistory, SameHistoryProperties, PTL DEF HistorySpec

LEMMA SameSearchProperties ==
    /\ SP!IndexedIsProcessed => S!IndexedIsProcessed
    /\ SP!NoEventLost => S!NoEventLost
    /\ SP!RebuildIsComplete => S!RebuildIsComplete
    /\ SP!RemovedStaysGone => S!RemovedStaysGone
<1>1. SP!IndexedIsProcessed => S!IndexedIsProcessed
  BY DEF SP!IndexedIsProcessed, S!IndexedIsProcessed, SP!PROCESSED, S!PROCESSED,
         SP!Absent, S!Absent
<1>2. SP!NoEventLost => S!NoEventLost
  BY DEF SP!NoEventLost, S!NoEventLost, SP!Event, S!Event, SP!PROCESSED, S!PROCESSED
<1>3. SP!RebuildIsComplete => S!RebuildIsComplete
  BY DEF SP!RebuildIsComplete, S!RebuildIsComplete
<1>4. SP!RemovedStaysGone => S!RemovedStaysGone
  <2>1. [\A v \in deleted : SP!Gone(v) => SP!Gone(v)']_(SP!vars)
            => [\A v \in deleted : S!Gone(v) => S!Gone(v)']_(S!vars)
    BY DEF SP!Gone, S!Gone, SP!At, S!At, SP!VideoOf, S!VideoOf, SP!vars, S!vars,
           SP!life, S!life, SP!own, S!own
  <2> QED  BY <2>1, PTL DEF SP!RemovedStaysGone, S!RemovedStaysGone
<1> QED  BY <1>1, <1>2, <1>3, <1>4

\* With nobody but the publisher on the bus, consumer and rebuild index nothing but
\* PROCESSED videos of the pipeline: nothing is indexed on hearsay.
THEOREM SearchInSystem ==
    SystemSpec => [](/\ S!IndexedIsProcessed
                     /\ \A v \in index : v \in Videos \ Untitled /\ status[v] = PROCESSED)
<1>1. SP!Spec => []SP!IndexedIsProcessed
  BY LegAssumptions, SP!IndexIsTrue
<1>2. SP!IndexedIsProcessed =>
          \A v \in index : v \in Videos \ Untitled /\ status[v] = PROCESSED
  BY DEF SP!IndexedIsProcessed, SP!PROCESSED, PROCESSED
<1> QED  BY <1>1, <1>2, RunsSearch, SameSearch, SameSearchProperties, PTL DEF SearchSpec

\* With consistent reads, a rebuild beside the running pipeline brings back every record
\* it owes, and a removed video that is gone from a store stays gone: neither a
\* redelivery, a republish, an execution nor a rebuild brings it back.
THEOREM StoresInSystem ==
    ASSUME ~ StaleReads
    PROVE  SystemSpec => /\ [](H!NoEventLost /\ S!NoEventLost /\ S!RebuildIsComplete)
                         /\ H!RemovedStaysGone /\ S!RemovedStaysGone
<1>1. HP!Spec => []HP!NoEventLost /\ HP!RemovedStaysGone
  BY LegAssumptions, HP!NothingGivenUp, HP!NoOrphanFromNothing
<1>2. SP!Spec => [](SP!NoEventLost /\ SP!RebuildIsComplete) /\ SP!RemovedStaysGone
  BY LegAssumptions, SP!NothingGivenUp, SP!RebuildRestores, SP!NoOrphanFromNothing, PTL
<1> QED  BY <1>1, <1>2, RunsHistory, RunsSearch, SameHistory, SameSearch,
            SameHistoryProperties, SameSearchProperties, PTL DEF HistorySpec, SearchSpec

LEMMA SameHistoryStore == HP!StoreSpec => H!StoreSpec
<1> USE DEF H!Store!Absent, H!Store!UPLOADED, H!Store!PROCESSING, H!Store!PROCESSED,
            H!Store!FAILED, H!Store!STATUSES, H!Store!LEGAL_TRANSITIONS, H!Store!Legal,
            H!Store!Init, H!Store!Create, H!Store!Move, H!Store!Announce,
            H!Store!Remove, H!Store!vars, H!Store!store, H!Store!storeVars,
            H!Store!StoreInit, H!Store!Live, H!Store!Forget, H!Store!Tell,
            H!Store!Write, H!Store!Settle, H!Store!Erase, H!Store!StoreNext,
            HP!Store!Absent, HP!Store!UPLOADED, HP!Store!PROCESSING,
            HP!Store!PROCESSED, HP!Store!FAILED, HP!Store!STATUSES,
            HP!Store!LEGAL_TRANSITIONS, HP!Store!Legal, HP!Store!Init, HP!Store!Create,
            HP!Store!Move, HP!Store!Announce, HP!Store!Remove, HP!Store!vars,
            HP!Store!store, HP!Store!storeVars, HP!Store!StoreInit, HP!Store!Live,
            HP!Store!Forget, HP!Store!Tell, HP!Store!Write, HP!Store!Settle,
            HP!Store!Erase, HP!Store!StoreNext, H!UPLOADED, H!PROCESSING, H!PROCESSED,
            H!FAILED, H!Event, H!Usurpable, HP!UPLOADED, HP!PROCESSING, HP!PROCESSED,
            HP!FAILED, HP!Event, HP!Usurpable
<1>1. HP!Store!StoreInit => H!Store!StoreInit
  OBVIOUS
<1>2. [HP!Store!StoreNext]_(HP!Store!storeVars) => [H!Store!StoreNext]_(H!Store!storeVars)
  OBVIOUS
<1> QED  BY <1>1, <1>2, PTL
         DEF HP!StoreSpec, H!StoreSpec, HP!Store!StoreSpec, H!Store!StoreSpec

LEMMA SameSearchStore == SP!StoreSpec => S!StoreSpec
<1> USE DEF S!Store!Absent, S!Store!UPLOADED, S!Store!PROCESSING, S!Store!PROCESSED,
            S!Store!FAILED, S!Store!STATUSES, S!Store!LEGAL_TRANSITIONS, S!Store!Legal,
            S!Store!Init, S!Store!Create, S!Store!Move, S!Store!Announce,
            S!Store!Remove, S!Store!vars, S!Store!store, S!Store!storeVars,
            S!Store!StoreInit, S!Store!Live, S!Store!Forget, S!Store!Tell,
            S!Store!Write, S!Store!Settle, S!Store!Erase, S!Store!StoreNext,
            SP!Store!Absent, SP!Store!UPLOADED, SP!Store!PROCESSING,
            SP!Store!PROCESSED, SP!Store!FAILED, SP!Store!STATUSES,
            SP!Store!LEGAL_TRANSITIONS, SP!Store!Legal, SP!Store!Init, SP!Store!Create,
            SP!Store!Move, SP!Store!Announce, SP!Store!Remove, SP!Store!vars,
            SP!Store!store, SP!Store!storeVars, SP!Store!StoreInit, SP!Store!Live,
            SP!Store!Forget, SP!Store!Tell, SP!Store!Write, SP!Store!Settle,
            SP!Store!Erase, SP!Store!StoreNext, S!PROCESSED, SP!PROCESSED, S!Event,
            SP!Event
<1>1. SP!Store!StoreInit => S!Store!StoreInit
  OBVIOUS
<1>2. [SP!Store!StoreNext]_(SP!Store!storeVars) => [S!Store!StoreNext]_(S!Store!storeVars)
  OBVIOUS
<1> QED  BY <1>1, <1>2, PTL
         DEF SP!StoreSpec, S!StoreSpec, SP!Store!StoreSpec, S!Store!StoreSpec

\* With consistent reads, both derived stores of the running system keep what
\* DerivedStore promises: what is settled is stored.
THEOREM DerivedStoresInSystem ==
    ASSUME ~ StaleReads
    PROVE  SystemSpec => H!StoreSpec /\ S!StoreSpec
<1>1. (HP!Spec => HP!StoreSpec) /\ (SP!Spec => SP!StoreSpec)
  BY LegAssumptions, HP!ImplementsStore, SP!ImplementsStore
<1> QED  BY <1>1, RunsHistory, RunsSearch, SameHistory, SameSearch, SameHistoryStore,
            SameSearchStore, PTL DEF HistorySpec, SearchSpec
=============================================================================
