# TLA+ model of the serverless video pipeline

A verification development kept beside the code: TLA+ modules for the parts of
the system that hold or move state, TLC configurations that check them on small
instances, and TLAPS proofs of the main results for every instance. Source paths
below are relative to the repository's root (`src/`).

## 1. The system

A client uploads a video over HTTP. The upload handler stores the object, creates
a metadata record and publishes `video.uploaded`. A bus rule copies the event to a
queue; the sfn-trigger-shim takes it from there and starts a Step Functions
execution under a name derived from the event. The execution marks the record
PROCESSING, has the transcode worker copy the object, marks the record PROCESSED
and has the event-publisher publish `video.processed`. Two queues feed that event
to the history consumer and the search consumer, which keep two derived tables;
an admin tool rebuilds the search index; three gateway routes upload, read the
history, and search.

| Component | Source | State it keeps | Operations |
|---|---|---|---|
| status state machine | `lambdas/_shared/status.py` | `video-metadata` (PK videoId) | create_record, get_record, transition |
| errors, events, clients | `lambdas/_shared/*.py` | none | require_field, map_error; event_id, build_envelope, parse_detail; boto3 clients |
| upload handler | `lambdas/upload_handler/handler.py` | `video-uploads` bucket | POST /videos/upload |
| trigger leg | `terraform/trigger.tf`, `lambdas/sfn_trigger_shim/handler.py` | `processing-trigger-queue` | rule, queue, shim |
| processing state machine | `terraform/processing.asl.json` | executions | four tasks |
| transcode worker | `lambdas/transcode/handler.py` | `video-processed` bucket | copy |
| event-publisher | `lambdas/event_publisher/handler.py` | none | publish `video.processed` |
| history leg | `terraform/history.tf`, `lambdas/history_consumer`, `lambdas/history_query` | `history-queue`, `status-history` (PK eventId) | consume, GET history |
| search leg | `terraform/search*.tf`, `lambdas/search_consumer`, `lambdas/search_rebuild`, `lambdas/search_query` | `search-queue`, `search-index` (PK videoId) | consume, rebuild, GET search |
| operator, integration tests | `tests/integration/conftest.py` | none | seed, republish, start by hand, clear, clean up |

The components share no memory. They interact through the tables (conditional
writes), the buckets, and the bus and queues (at-least-once delivery). What is
hard, and what would make each part correct:

* **Several requests per call.** `transition` reads, decides, writes, and re-reads
  to explain a refusal; others run between the requests. Correct: the table only
  ever changes by a legal transition, and every answer was true at some moment of
  its call.
* **Applied but not answered.** A write may be applied and its reply lost; the SDK
  sends it again, or a Lambda dies and its caller tries again. Correct: nothing is
  done twice, nothing is overwritten.
* **No transaction across services.** The upload is three writes, the processing
  leg five. Correct: an event never precedes what it announces, and what a failure
  leaves behind is visible.
* **Redelivery and executions started by hand.** Correct: one execution owns a
  video, one terminal event exists for it, no status regresses.
* **Acknowledgement.** Correct: a message is acknowledged only when its work is
  done or provably pointless, so that an accepted upload is settled and an
  announced event is recorded and indexed.
* **Derived tables with several writers.** Two invocations may append the same
  entry, a consumer and a rebuild may upsert the same item while an operator clears.
  Correct: an entry is written once, only PROCESSED videos are indexed (as far as the
  publisher's events and the records go), and a rebuild that returned is complete.
* **Clean-up beside running work.** Correct: no step brings a removed record back, and
  what a late append or put of the publisher's leaves behind is still true of the video it names.
* **Messages from anybody.** The rules copy what any publisher sends, and no consumer compares
  an event with the record or its eventId with the one it should have. Each of the three consumers validates what it receives
  in code of its own, and a queue without a dead-letter queue retries what raises for
  ever. Correct: a message is answered whatever is in it, the publishers' own events are
  never taken for malformed, no row or input lacks a field its readers rely on, and what others say
  reaches the derived tables only of videos that have a record, replaces no entry, and loses none but
  one whose eventId it has taken.
* **Names from clients.** A file name becomes part of two object keys, through a parser,
  a sanitizer, a strip and a second derivation. Correct: the keys keep their shape and agree.

## 2. Modules

| Module | Role |
|---|---|
| `Status` | the statuses, the transition table, its inverse |
| `StatusRegister` | abstract: what the metadata table promises about a status |
| `MetadataStore` | `status.py`: concurrent multi-request calls on the table |
| `VideoLifecycle` | abstract: the life of a video, all that the consumers rely on |
| `DerivedStore` | abstract: what a table derived from the events promises, whoever writes it |
| `Pipeline` | upload handler, trigger leg, state machine, transcode, publisher, operator |
| `Consumer` | what the two consumers share: queue, invocations, the videos they read |
| `History` | history consumer, history query, clean-up of entries |
| `Search` | search consumer, search-rebuild, clear and clean-up of items |
| `System` | `Pipeline` with both legs on its events, and the search query |
| `Records` | one message in full: wire shape, routing, the three handlers' checks, the rows |
| `UploadForm` | the form's parts, the file name and the two keys made of it |
| `MCMetadataStore`, `MCPipeline`, `MCHistory`, `MCSearch`, `MCSystem`, `MCRecords`, `MCUploadForm` | instances for TLC |
| `MetadataStoreProofs`, `PipelineProofs`, `RecordsProofs`, `UploadFormProofs` | theorems |
| `ConsumerProofs`, `HistoryProofs`, `SearchProofs`, `SystemProofs` | theorems |

```
StatusRegister  <-- implemented by --  MetadataStore           (shared layer)
      ^
      +-- implemented by -- VideoLifecycle <-- implemented by -- Pipeline
                                  ^
                                  +-- instantiated by -- Consumer
                                                           ^   ^
       DerivedStore <-- implemented by -- both of   History    Search
                                                           ^   ^
                               System  =  Pipeline  +  History + Search

Records, UploadForm: what Pipeline, History and Search take as given about
a message and about a file name
```

The shared layer and the ASL write the same table by different code: `status.py`
through boto3, the machine through inline conditions. Both are shown to keep the
promise of `StatusRegister`.

### MetadataStore

`item` is the table, `call` what each concurrent caller is doing: the request it
is about to send, or its outcome. One action per request: `PutItem`, `PutRefused`,
`GetRecord`, `ReadCurrent`, `UpdateItem`, `UpdateRefused`, `ReadFresh`. A write that
is applied either ends its call or leaves it where it was, which is the SDK sending
it again. `ServiceError` is any other exception, at any request. `Cleanup` deletes a
record between any two requests (`cleanup_video`). `seen` is a history variable:
the statuses the record had while the call was open. An item's data is abstracted to
its creator, which stands for everything a create writes and no transition may touch,
and to the names of the extra attributes set on it.

### Pipeline

`request` is the upload handler's control state for each videoId, `status`,
`processedKey` and `deleted` the metadata table, `uploads` and `processed` the
buckets, `uploadedEvents` and `processedEvents` what the bus has accepted,
`triggerQueue` the queue, `at`, `input` and `output` the executions. `status` keeps the
last status of a removed record (`deleted` says that the table no longer has it), so
that properties can speak of it.

* A step of the handler applies its write and goes on, stays (the SDK re-sends),
  or fails after the write; `HandlerError` fails without it.
* The event's eventId is a UUID5 of (videoId, status), so the execution name
  `eb-{eventId}` of an uploaded video is written as the videoId, and executions
  started by hand have names of their own (`AdHoc`).
* A key is `<<videoId, name>>`. `Strip` is a parameter: what Python's `strip()` of a
  key leaves of its name. It is applied where the code applies it (the shim and
  `require_field`), never by the upload handler.
* `ReadSource` and `PutProcessed` are the two halves of the transcode task.
  `TaskFails` covers a refused condition, a service error, a Lambda error and a
  timeout; `Leave` lets a task fail after it took effect. There is no retry: the ASL
  has neither Retry nor Catch.
* The operator does what `tests/integration/conftest.py` and the README's
  snippets do: seed a video, republish its event, start an execution by hand, delete the
  record and, later, the objects.

### Consumer, History, Search

The consumers know the processing leg by three things only: the records they look
up, the `video.processed` events, and removals. `Consumer` therefore instantiates
`VideoLifecycle`, which `Pipeline` implements, in place of the leg itself, so that what holds
of a consumer holds beside every behaviour of the leg.

* A message is a record of who sent it, its eventId, videoId and status. The eventId is written
  as the videoId whose PROCESSED event derives it (`Event`), or as one of the `Ghosts`, which also serve as
  the videoIds of fabricated events; `Unusable` in the place of the status is a body
  that lacks a field or carries an unknown status.
* `Foreign` is what others than the publisher may send: any status, of a video that has a record,
  has none yet or never will, under any eventId. `Deliver` brings an announced event again, and any foreign one
  at any time. Neither consumer compares an event with the record, so what the tables say
  on others' word may be untrue, and the properties claim no more than the lookup and the filters give: a row is of a
  video that had a record (and, in the index, a title). Of the publisher's events they claim the truth.
  `_bmad-output/implementation-artifacts/deferred-work.md` (40-42) knows of this and counts on the closed
  list of publishers (AD-6).
* `worker` is what each concurrent invocation is about to request: `get_record`,
  `put_item`, or nothing more (`done`), after which `Acknowledge` deletes the message.
  `Crash` is every failure: a request that raises, a killed or timed-out Lambda, a
  lost deletion. The message stays. `batch_size = 1`, so an invocation has one message.
* A put that was applied either ends the work or leaves it where it was (the SDK's
  re-send, or a crash after the write).
* **History.** `history` is the table; the writer of an entry stands for its
  timestamp, so that a rewritten entry differs from the first. `Append` and `Dedupe` are the two answers
  of the conditional put, whose key is the eventId as it came. An event of another video
  under a video's eventId takes the place of its entry; `Usurpable` are the videos to which `Foreign` can do
  that, and the properties that promise a video its entry except them. `CleanUp` deletes one entry after the other. The query
  is two requests, `Gate` and `Scan`, with anything in between, and either may fail.
* **Search.** `index` is the set of videoIds that have an item: the table is keyed by them, and both writers
  take the title from the record. `hearsay` is the part of it last put for a PROCESSED event of
  somebody else, which the consumer takes at its word. `rebuild` is one invocation of search-rebuild: a scan
  of the PROCESSED records, then one put after the other in the scan's order, which is arbitrary.
  `clearing` is what an operator's clear has read and not yet deleted. `cleared` and
  `rebuild.due` are history variables.
* **Stale reads.** The handlers call `get_item` and `scan` without ConsistentRead, so on AWS
  a read may miss a record, or a change of it, just made. With `StaleReads` a lookup may
  find nothing where there is a record, and the rebuild's scan may miss some. Such a
  lookup acknowledges the event as one of an unknown video. The shared layer needs no
  such parameter: a stale first read is one more record that changed before the
  conditional write, which re-checks the source.
* **DerivedStore** is what the two tables have in common, on top of `VideoLifecycle`: `rows` are the
  videos that have a row, `owed` those whose event has been told and not settled, `taken` those whose row
  an operator took away. Each leg's `Store` says what these are in its own variables, of which
  videos others send events it stores (`Open`), which videos it skips (`Rowless`) and whether it may be cleared
  (`Clearable`). Consumer and rebuild are one `Write` there, clean-up and clear one `Erase`.

### System

`System` extends `Pipeline` and instantiates `History` and `Search` on its tables. `FanOut` is
conjoined to the publisher's step: the two rules copy each `video.processed` to both queues.
`Redeliver` and the legs' own `Deliver` bring later copies. `Foreign` is empty here: nobody but the
publisher is on the list of publishers. `hits` is what the last search was
answered with; the match of the needle is any subset of the items.

### Records

`Records` has one message at a time, in full. A field is missing (or not a string), or a
word that may have white space around it; a body is an event, unusable, or nested too deep for
the JSON parser. `Wire` is the envelope with its detail promoted, `Targets` the rules.
Each consumer the message is routed to has an `outcome`, and tries again while it is `queued`
or `failed`. The disjuncts of `Finish` are the returns of `_process_record`, in its order:
`Readable` stands for the parse and the field checks, `Wanted` for the status filter, and the
rest for the requests. The differences are kept: the shim checks that the eventId can name an execution,
the history consumer that the status is one of the four, the search consumer
that there is a processedKey, and it alone catches `RecursionError`.

### UploadForm

`ReadPart` is one round of the loop over the parts, `Store` what follows it, `Transcode` the
second derivation. A name is a sequence of the characters that `_sanitize_filename`,
`strip()` and `_processed_key` tell apart. `Pipeline` takes the result as given.

## 3. Runs

| Run | Instance | Question |
|---|---|---|
| `metadata_store` | 1 video, 2 callers (symmetric), a settable and an unknown attribute | `TypeOK`, `AnswersJustified`, `OnlyLegalChanges`, and the refinement `RegisterSpec` |
| `reassertion` | same | violated: a re-asserted status can be refused (finding) |
| `pipeline` | 2 videos, 1 execution by hand, 3 names, with fairness | `TypeOK`, `SoleOwner`, `AtMostOneTerminalEvent`, `NoSilentStranding`, `ProcessedEventIsBacked`, `UploadedIsBacked`, `PlainNamesAreRead`, `AcceptedIsSettled`, refinement `LifecycleSpec` |
| `lost_event` | 1 video, 2 executions by hand, 3 names | violated: a PROCESSED record without its event (finding) |
| `stripped_key` | same | violated: a started execution cannot read its object (finding) |
| `history` | 1 video, 1 fabricated id, 2 invocations, others' events, with fairness | `TypeOK`, `EntriesAreBacked`, `AnswerIsTrue`, `AppendOnly`, `RemovedStaysGone`, `EventRecorded`, refinement `StoreSpec` |
| `search` | a titled and an untitled video, 1 invocation, 1 rebuild, others' events, with fairness | `TypeOK`, `IndexedIsProcessed`, `RebuildIsComplete`, `RemovedStaysGone`, `EventIndexed`, refinement `StoreSpec` |
| `system` | 1 video, 1 invocation of each consumer, the rebuild, the queries | `NothingLost`, `HitsAreServable`, refinements `HistorySpec`, `SearchSpec` |
| `system_live` | same, with fairness | `UploadIsServed` |
| `records` | 1 video, details with a faulty field, records with one, with fairness | `TypeOK`, `StoresAreWhole`, `OwnEventsAreTaken`, `TakenAlike`, `Answered` |
| `malformed` | same | violated: a malformed record is raised and retried (finding) |
| `upload_form` | names of up to 5 characters, forms of up to 3 parts | `TypeOK`, `AcceptsWellFormed`, `KeyIsOneSegment`, `NameSurvives` |

A run with fairness checks its safety properties under it, too: fairness takes no finite behaviour away.

**Bounds.** One record suffices for `MetadataStore`: no request names two, and calls
on different records share nothing. Two callers are what a race needs. In `Pipeline`
a video's triggered execution and one by hand contend for its record, and the second
video shows that keys, events and records of different uploads are not mixed up. The three names
are one that `strip()` leaves alone, one that it shortens and one that it empties. No counter
is bounded: every variable ranges over a finite set. A history entry belongs to one video, and two
invocations are what a race for it needs. Others' events there are an UPLOADED one under the eventId of the
publisher's, a PROCESSED one that may come before the video's record or its end, and an unusable one; before
the record is created, and after it was removed, they are events of an unknown videoId. That an event of another video takes an entry's
place needs a second video, which the run has not: `Usurpable` is empty there, and covered by the theorems only.
In the search run others send a PROCESSED and an UPLOADED event of the titled video.
The search run has a rebuild as the second writer; its two videos are an ordinary one and one without
a title, which the loop of the rebuild treats differently. A removed video is its unknown id.

`system` has one of each actor: the races inside a leg are the business of the
leg's own runs, whose results the refinements carry over. `MCApart` keeps the history query out
of the rebuild's and the clear's way, with which it shares nothing. `system_live` leaves the query, the
rebuild and the clear out altogether (`MCQuiet`): no fairness mentions them, and an
uncleared index is the harder case, because `cleared` would excuse a missing item. In `records` each
field of a detail has its good value and every kind of bad one, one field at a time: the checks of a consumer
come one after the other and none changes anything, so a second fault cannot undo the first. Only
a comparison of two consumers can depend on a second fault, in a field that one of them ignores; that is the
status beside a missing processedKey, which the instance has. The proofs know no such bounds.
A name of five characters has room for a directory, a separator, a dot, a control character and a
trailing space together; three parts hold a file, a second one and a field in each order.

The pipeline and system runs switch deadlock checking off, because a platform whose
uploads are all settled and cleaned up has nothing left to do; so does `upload_form`, where a request ends.

**Fairness.** `Serve` and `Execute` are weakly fair because a Lambda and an execution that
have started end, if only by their timeout (`terraform/*.tf`, `timeout = 30`): their failing is
one of the steps that fairness may take. `Shim` is weakly fair because SQS hands out a message until
it is acknowledged (no dead-letter queue, `terraform/trigger.tf`). Message retention
(four days) is taken as longer than any outage. No fairness is assumed of clients,
the operator, or redelivery. In `History` and `Search` an invocation is weakly fair for the same reason
(it ends, if only by `Crash`); strong fairness of taking, looking up and putting one video's
event says that SQS keeps handing out what it keeps, and that errors are transient: a
request made again and again for the same event succeeds at last. The code relies on exactly that,
since there is no dead-letter queue; with a lasting error the event is retried for ever.
`System` takes over the fairness of its parts. In `Records` a consumer that keeps trying gets as
far as an answer at last (`Finish`), for the same reason; what raises by its content alone, the
too deeply nested body, is not given that fairness, and `Answered` makes an exception of it.

**Stale reads.** All runs read consistently, as the emulator does. The theorems on `EntriesAreBacked`,
`AnswerIsTrue`, `AppendOnly` and `IndexedIsProcessed` hold with `StaleReads`, too, and no run repeats them with it: a row
rests on the publisher's event, which stays true because PROCESSED has no exit, or on a record that was found, so
an old record is never wrong, only missing. `NoEventLost`, `RebuildIsComplete`,
`RemovedStaysGone`, `StoreSpec` and `NothingLost` need current reads (set `StaleReads` in their cfg to see how they
break): a lookup that misses the record drops its event for good. Their theorems state the assumption.

**Findings.**
1. `ReassertionSucceeds`: after a lost race, or the re-send of its own write,
   `transition` answers ConflictError for a record that has the target already
   (`status.py:181-191` against its docstring and PRD FR-11).
2. `EveryTerminalIsAnnounced`: FR-8's "exactly one event per terminal transition" is
   "at most one": `AtMostOneTerminalEvent` holds, the other half does not.
   In the trace the task MarkProcessed fails after its write was applied, so that the publisher's task never runs;
   a failing publisher leaves the same behind, and a later execution stops at the first condition.
   What is left of FR-8 is `NoSilentStranding`: a PROCESSED record without its event has an
   execution that is about to publish it or has failed. The README (292-299) accepts it.
3. `StartedExecutionCanRead`: the shim strips the object key that the upload handler
   stored unstripped; a file name whose trailing space survives `_sanitize_filename`
   strands its video in PROCESSING. `PlainNamesAreRead` says that no other name does.
4. `MalformedNeverRaised`: JSON nested too deep raises `RecursionError`, which is no
   `ValueError`: the history consumer and the shim raise and retry it for ever, where their
   docstrings say that a malformed record is skipped; the search consumer catches it.

## 4. Proofs

All theorems hold for every value of the constants: any number of videos, callers,
executions and names. The assumptions are `ExtraAssumption` (callers pass sets of
attribute names) and `NameAssumption` (execution names of the operator are not eventIds,
names are not empty, stripping a name yields a name or nothing; `NamesFitPipeline` proves the last
of the sanitizer's names), and those named below.

* **MetadataStore.** `TInv` adds to the type invariant what the code has established
  before it sends a request (`CallInv`: an update is only sent with a
  legal target and settable attributes). From it follow `TypeCorrect`,
  `LegalChangesOnly` and `ImplementsRegister`; the argument is that of the code: the
  condition of the write re-checks the source the stale decision rested on. `AnswersTrue`
  needs one more conjunct, `RefusedInv`: a refused update was seen to lack its source, else a Conflict
  answered from the re-read would have no ground.
* **Pipeline.** `SoleOwner` is not inductive. `IInv` adds `StageInv` (an execution past a
  condition left its mark in the status), `EventInv` (an event's publisher is its video's
  only owner), `ObjectInv` and `IngestInv` (what the handler wrote at each stage; no record is
  created under an execution's feet). One lemma per group of actions; the safety theorems are corollaries.
  `PlainNamesAreTranscoded` needs `InputInv` as well: whoever starts an execution takes
  the video from an event or a record, and the key as it is stored or as `strip()` makes it. A name that
  `strip()` leaves alone makes the two one key, and its object is older than either.
* **Consumers.** `ConsumerInv` says that every event of the publisher, queued or in hand, has been announced, so that its
  video is PROCESSED and stays so, and that an invocation about to put works for a video that had a
  record. Of others' events it says only the second; `ConsumerProofs` proves it once for every
  step both legs are built from. `HistoryProofs` adds `InvocationInv` (an invocation only appends usable events, and ends on the
  publisher's event of a present video only once its entry stands), without which `NoEventLost` is not inductive, and
  `QueryInv`. An entry under a video's eventId is the video's own unless it is `Usurpable` (`OwnRow`). `SearchProofs` adds `PutInv`
  and `RebuildInv` (what a rebuild owes is in the index or still to be put). The assumptions are `ConsumerAssumption` (fabricated
  ids are not videos, `Foreign` is made of events) and `SearchAssumption`. The theorems on `NoEventLost`, `RebuildIsComplete` and
  `RemovedStaysGone`, and `ImplementsStore`, assume `~ StaleReads`; the others do not.
  In `ImplementsStore` the invariant is the guard of the abstract step: `InvocationInv` and `PutInv` that of
  `Settle`, `ConsumerInv` that of `Write` (the publisher's event is true, or the video is `Open` and had a record) and of `Tell`.
  `StoreForgetsNothing` says what the abstract store is
  good for: an announced video has its row, or is owed it, or there is a reason why it has none. `NoEventLost` is the same in the
  words of a leg, a part of its invariant and of `NothingIsLost`; no run checks it beside `StoreSpec`.
* **System.** A step of the system is a step of `Pipeline` or none, and seen from a leg a step of
  its module or none (`RunsHistory`, `RunsSearch`); the `VideoLifecycle` that a leg brings along
  steps with the pipeline by the case analysis of `ImplementsLifecycle`. So the
  legs' invariants hold of the system. `NothingIsLost` adds `Accounted`: an accepted upload is queued,
  in an execution that runs or has failed, or announced. `HitsAreTrue` adds that an answered hit was
  an indexed video; PROCESSED has no exit and its object stays while the record does.
  `PipelineInSystem`, `HistoryInSystem`, `SearchInSystem`, `StoresInSystem` and `DerivedStoresInSystem` carry the theorems
  of the parts over: the modules with the proofs are instantiated on the system's tables, and their
  definitions are shown to be those of the legs. With only the publisher on the bus they say more there: every entry and
  every answer is true (`OnlyTruth`), and every indexed video is PROCESSED.
* **Records.** `RowsAreWhole` rests on one lemma: what passes the check for blank is clean
  once stripped. `OwnEventsAreTaken` and `TakenAlike` speak of answers given at different moments and
  need `Classified`: an answer still says of the message what it said when it was given, since the
  message does not change and a removed record does not come back. The assumption is `RecordsAssumption`.
* **UploadForm.** Names and forms of any length, any set of characters. `UploadFormInv` has the loop's
  invariant, `ReadInv`: what the loop holds after k parts says of the first k parts what the
  reference definition says of the form. `LastIndex` and `StripEnd` are characterized by induction over
  the length of a name. Induction theorems over a predicate are out of reach of the
  provers, so the lemmas state it with sets: a set that holds 0 and each n whose predecessor it holds
  has every number up to the length (`NatInductionUpTo`, from the well-foundedness of < on Nat).
  `NamesFitPipeline` ties this module to `Pipeline`, which takes a name as an atom: `strip()` is
  idempotent on the sanitizer's names, so the worker, which strips after the shim, agrees with it, and it
  leaves alone exactly the names that do not end in a space. The assumption is `UploadFormAssumption` (a form
  is a sequence of parts).
* **Refinements.** `MetadataStore` and `VideoLifecycle` refine `StatusRegister` (`ImplementsRegister`,
  `LifecycleIsRegister`), `Pipeline` refines `VideoLifecycle` (`ImplementsLifecycle`) and so `StatusRegister`
  (`ImplementsRegister` of `PipelineProofs`), `History` and `Search` refine `DerivedStore`, and
  `System` refines `Pipeline`, `History` and `Search`.
* **Vocabulary.** `InversionExact` is the assertion that `status.py` makes at import.

Only model-checked: `AcceptedIsSettled`, `EventRecorded`, `EventIndexed`, `UploadIsServed` and
`Answered` (liveness under fairness is beyond the prover), and the four violations, of which
TLC's counterexamples are the proof. Every invariant and every action property of a
passing run is stated by a theorem.

## 5. Not modelled

* **Shared clients** (`clients.py`): boto3 clients built from environment variables and cached.
* **Upload body before its parts**: base64, content type, the parser of the standard library;
  `UploadForm` begins with the parts they yield.
* **Numbers and wording of the API**: `map_error`'s status codes, message texts, timestamps; the order of
  entries and hits.
* **Second pages.** All scans are single-page: the code warns and goes on. The tables of
  the models fit in a page, so a rebuild or a query cut short by one is outside them.
* **Declarations**: gateway, buckets, tables, IAM, packaging, smoke stack. What they provide
  is in the actions that use it. A rule or a queue is modelled by what it delivers.
* **Test harness**: polling, the capture queue and the assertions; what the harness *does* to the
  system is the operator of `Pipeline`, `History` and `Search`.
* **Planning tools** (`_bmad/scripts`) and planning documents: third-party tooling that prepares documents, no
  part of the running system; the PRD is read for what the code promises.
* **Time.** A Step Functions name may be reused 90 days after its execution ended, messages expire
  after four days, and a Lambda whose task timed out may take effect later than the model's failed step.
* **FAILED.** No component writes it today. `transition` and `VideoLifecycle`, on which the consumers' modules rest, allow it; an event that says
  FAILED could only be somebody else's, and `Foreign` may hold it.

The models contain, and the code accepts, that an item or an entry put after the clean-up of
its video stays behind: `RemovedStaysGone` shows that only an invocation that had found the
record does so. A rebuild that had scanned it counts as one.
