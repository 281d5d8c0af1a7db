------------------------------ MODULE Records ------------------------------
(***************************************************************************)
(* One SQS record on its way through the three consumers: the wire shape   *)
(* the two publishers give it, the rules that route it, how each handler   *)
(* parses and classifies it, and the rows and inputs it leaves behind.     *)
(* Search-rebuild writes the same rows from the records of the table.      *)
(*                                                                         *)
(* The other modules abstract a message to what it is about; this one has  *)
(* the message itself, one at a time, which each consumer it is routed to  *)
(* retries until its handler returns.                                      *)
(***************************************************************************)
EXTENDS Status

CONSTANTS Videos,    \* videoIds
          Ids,       \* the words that arrive as an eventId
          Nameable,  \* those of them that may follow "eb-" in an execution name
          EventId,   \* the uuid5 of a videoId and a status
          Details,   \* the details that others than the two publishers send
          Known      \* the records of video-metadata there may be

\* A field as it arrives: missing, or not a string; or a word, with or without
\* white space around it.  The word "" makes a blank string.
NoText      == <<>>
Text(words) == {NoText} \cup (words \X BOOLEAN)
Plain(w)    == <<w, FALSE>>
Word(x)     == x[1]
Blank(x)    == x # NoText => Word(x) = ""
Clean(x)    == x # NoText /\ Word(x) # "" /\ ~ x[2]

\* Mutant of Strip: a value is checked, and used as it came.
StripNothing(x) == x

Strip(x) == Plain(Word(x))

\* object stands for bucket and key.
Fields == {"eventId", "videoId", "status", "object", "processedKey"}
Detail == [eventId : Text(Ids \cup {""}), videoId : Text(Videos \cup {"", "stranger"}),
           status : Text(STATUSES \cup {"", "bogus"}),
           object : Text({"", "object"}), processedKey : Text({"", "file"})]

\* What a body is: unusable JSON or no detail in it; JSON nested too deep for the
\* parser, in the body or in a detail sent as a string; or an event.
TooDeep  == {"deep body", "deep detail"}
NoDetail == [f \in Fields |-> NoText]
Messages(details) == [body : TooDeep \cup {"malformed"}, detail : {NoDetail}]
                         \cup [body : {"event"}, detail : details]

Record   == [status : STATUSES, title : Text({"", "title"}), processedKey : Text({"", "file"})]
NoRecord == [status |-> Absent, title |-> NoText, processedKey |-> NoText]
NoRow    == [title |-> NoText, processedKey |-> NoText]

ASSUME RecordsAssumption ==
    /\ "" \notin Videos \cup Ids
    /\ Nameable \subseteq Ids
    /\ EventId \in [Videos \X STATUSES -> Nameable]
    /\ Details \subseteq Detail
    /\ Known \subseteq Record

Consumers == {"shim", "history", "search"}
Pending   == {"queued", "failed"}
Outcomes  == Pending \cup {"none", "skipped", "filtered", "dropped", "deduped",
                           "started", "recorded", "indexed"}

VARIABLES records,  \* video-metadata
          msg,      \* the message of the moment
          sender,   \* "publisher" (upload handler, event-publisher) or "other"
          outcome,  \* what each consumer has made of it so far
          started,  \* the executions: eventId in the name, and the input sent
          entries,  \* status-history
          index     \* search-index

stores == <<started, entries, index>>
vars   == <<records, msg, sender, outcome, stores>>

TypeOK == /\ records \in [Videos -> Record \cup {NoRecord}]
          /\ msg \in Messages(Detail)
          /\ sender \in {"publisher", "other"}
          /\ outcome \in [Consumers -> Outcomes]
          /\ started \subseteq [eventId : Text(Ids), input : [{"videoId", "status", "object"} ->
                Text(Videos \cup STATUSES \cup {"stranger", "bogus", "object"})]]
          /\ entries \subseteq [eventId : Text(Ids), videoId : Text(Videos), status : Text(STATUSES)]
          /\ index \in [Videos -> [title : Text({"title"}), processedKey : Text({"file"})]]

Init == /\ records \in [Videos -> Known \cup {NoRecord}]
        /\ msg = [body |-> "malformed", detail |-> NoDetail]
        /\ sender = "other"
        /\ outcome = [c \in Consumers |-> "none"]
        /\ started = {} /\ entries = {}
        /\ index = [v \in Videos |-> NoRow]

-----------------------------------------------------------------------------
(* The publishers and the rules.                                           *)

uploaded_detail(v, object) ==
    [videoId |-> Plain(v), status |-> Plain(UPLOADED), object |-> object]

\* Its bucket and originalKey are not the bucket and key the shim asks for.
processed_detail(v) ==
    [videoId |-> Plain(v), status |-> Plain(PROCESSED), processedKey |-> Plain("file")]

build_envelope(v, detail) ==
    [eventId |-> Plain(EventId[<<v, Word(detail.status)>>]), detail |-> detail]

\* Mutant of Wire: the envelope as it is, nothing promoted.
WireNested(e) == [f \in Fields |-> IF f = "eventId" THEN e.eventId ELSE NoText]

\* {**envelope, **envelope["detail"]}.
Wire(e) == [f \in Fields |-> IF f \in DOMAIN e.detail THEN e.detail[f]
                             ELSE IF f \in DOMAIN e THEN e[f] ELSE NoText]

Targets == [name \in {"video.uploaded", "video.processed"} |->
               IF name = "video.uploaded" THEN {"shim"} ELSE {"history", "search"}]

\* A message is in the queues of the consumers its name is routed to.
Send(name, m, from) ==
    /\ \A c \in Consumers : outcome[c] \notin Pending
    /\ msg' = m
    /\ sender' = from
    /\ outcome' = [c \in Consumers |-> IF c \in Targets[name] THEN "queued" ELSE "none"]
    /\ UNCHANGED <<records, stores>>

SendEvent(name, v, detail) ==
    Send(name, [body |-> "event", detail |-> Wire(build_envelope(v, detail))], "publisher")

\* The file name, and with it the key, may end in white space.
PublishUploaded(v) == /\ records[v] # NoRecord
                      /\ \E object \in {"object"} \X BOOLEAN :
                            SendEvent("video.uploaded", v, uploaded_detail(v, object))

PublishProcessed(v) == /\ records[v].status = PROCESSED
                       /\ SendEvent("video.processed", v, processed_detail(v))

SendOther ==
    \E name \in DOMAIN Targets, m \in Messages(Details) : Send(name, m, "other")

-----------------------------------------------------------------------------
(* The consumers: _process_record, up to the first request it makes.       *)

Required == [c \in Consumers |->
    {"eventId", "videoId", "status"} \cup CASE c = "shim"    -> {"object"}
                                            [] c = "history" -> {}
                                            [] c = "search"  -> {"processedKey"}]

Field(f) == Strip(msg.detail[f])
Video    == Word(Field("videoId"))

\* RecursionError is not a ValueError; only the search consumer catches it.
Raises(c) == msg.body \in TooDeep /\ c # "search"

\* Mutant of Readable: the status is validated before it is stripped.
ReadableUnstripped(c) ==
    /\ msg.body = "event"
    /\ \A f \in Required[c] : ~ Blank(msg.detail[f])
    /\ c = "shim" => Word(Field("eventId")) \in Nameable
    /\ c = "history" => msg.detail["status"] \in {Plain(s) : s \in STATUSES}

\* Mutant of Readable: any status will do.
ReadableAnyStatus(c) == /\ msg.body = "event"
                        /\ \A f \in Required[c] : ~ Blank(msg.detail[f])
                        /\ c = "shim" => Word(Field("eventId")) \in Nameable

Readable(c) == /\ msg.body = "event"
               /\ \A f \in Required[c] : ~ Blank(msg.detail[f])
               /\ c = "shim" => Word(Field("eventId")) \in Nameable
               /\ c = "history" => Word(Field("status")) \in STATUSES

InTable == Video \in Videos /\ records[Video] # NoRecord

Return(c, result) == /\ outcome[c] \in Pending
                     /\ outcome' = [outcome EXCEPT ![c] = result]
                     /\ UNCHANGED <<records, msg, sender>>

ParseRaises(c) == Raises(c) /\ Return(c, "failed") /\ UNCHANGED stores

Skip(c) == ~ Raises(c) /\ ~ Readable(c) /\ Return(c, "skipped") /\ UNCHANGED stores

\* The search consumer's status filter.
Wanted(c) == Readable(c) /\ (c = "search" => Word(Field("status")) = PROCESSED)

Filter(c) == Readable(c) /\ ~ Wanted(c) /\ Return(c, "filtered") /\ UNCHANGED stores

-----------------------------------------------------------------------------
(* The requests.                                                           *)

\* A request of the handler fails: it raises, and the message stays.
RequestFails(c) == Wanted(c) /\ Return(c, "failed") /\ UNCHANGED stores

\* Mutant of Drop: a record without a title is no poison, its .strip() raises.
DropUnknown(c) == /\ Wanted(c) /\ c # "shim"
                  /\ ~ InTable
                  /\ Return(c, "dropped") /\ UNCHANGED stores

Drop(c) == /\ Wanted(c) /\ c # "shim"
           /\ InTable => c = "search" /\ Blank(records[Video].title)
           /\ Return(c, "dropped") /\ UNCHANGED stores

Same(rows) == \E r \in rows : r.eventId = Field("eventId")

\* ExecutionAlreadyExists, or the condition of the history put.
Dedupe(c) == /\ Wanted(c)
             /\ \/ c = "shim" /\ Same(started)
                \/ c = "history" /\ InTable /\ Same(entries)
             /\ Return(c, "deduped") /\ UNCHANGED stores

Start == /\ Wanted("shim") /\ ~ Same(started)
         /\ started' = started \cup {[eventId |-> Field("eventId"), input |->
                           [f \in {"videoId", "status", "object"} |-> Field(f)]]}
         /\ Return("shim", "started") /\ UNCHANGED <<entries, index>>

Append == /\ Wanted("history") /\ InTable /\ ~ Same(entries)
          /\ entries' = entries \cup {[eventId |-> Field("eventId"),
                           videoId |-> Field("videoId"), status |-> Field("status")]}
          /\ Return("history", "recorded") /\ UNCHANGED <<started, index>>

Upsert == /\ Wanted("search") /\ InTable /\ ~ Blank(records[Video].title)
          /\ index' = [index EXCEPT ![Video] =
                [title |-> Strip(records[Video].title), processedKey |-> Field("processedKey")]]
          /\ Return("search", "indexed") /\ UNCHANGED <<started, entries>>

\* The consumer gets as far as an answer.
Finish(c) == \/ Skip(c) \/ Filter(c) \/ Drop(c) \/ Dedupe(c)
             \/ c = "shim" /\ Start
             \/ c = "history" /\ Append
             \/ c = "search" /\ Upsert

\* Search-rebuild, uninterrupted: an unusable record is passed over.
Rebuild == /\ index' = [v \in Videos |->
                IF /\ records[v].status = PROCESSED
                   /\ ~ Blank(records[v].title) /\ ~ Blank(records[v].processedKey)
                THEN [f \in {"title", "processedKey"} |-> Strip(records[v][f])]
                ELSE index[v]]
           /\ UNCHANGED <<records, msg, sender, outcome, started, entries>>

Remove(v) == /\ records' = [records EXCEPT ![v] = NoRecord]
             /\ UNCHANGED <<msg, sender, outcome, stores>>

Next == \/ \E v \in Videos : PublishUploaded(v) \/ PublishProcessed(v) \/ Remove(v)
        \/ SendOther
        \/ \E c \in Consumers : ParseRaises(c) \/ RequestFails(c) \/ Finish(c)
        \/ Rebuild

\* SQS hands a message out again until its handler returns, and what fails a
\* request does not fail it for ever.
Fairness == \A c \in Consumers : WF_vars(Finish(c))

Spec     == Init /\ [][Next]_vars
FairSpec == Spec /\ Fairness

-----------------------------------------------------------------------------
(* Properties.                                                             *)

\* What the consumers and the rebuild leave behind can be used without another
\* look: every field of every row and of every execution's input is there, not
\* blank and stripped.  The queries project these fields with item[...], and one
\* row without a field would fail every search; a padded videoId would fail an
\* execution whose message is gone.
StoresAreWhole ==
    /\ \A e \in started : Clean(e.eventId) /\ \A f \in DOMAIN e.input : Clean(e.input[f])
    /\ \A e \in entries : \A f \in DOMAIN e : Clean(e[f])
    /\ \A v \in Videos : index[v] # NoRow =>
                            Clean(index[v].title) /\ Clean(index[v].processedKey)

\* The shape the two publishers give an event is one every consumer it is routed
\* to can read: it is not skipped or filtered, and only dropped of a video that
\* the operator removed, or that has no title to be found by.
OwnEventsAreTaken ==
    sender = "publisher" =>
        /\ \A c \in Consumers : outcome[c] \notin {"skipped", "filtered"}
        /\ outcome["history"] = "dropped" => ~ InTable
        /\ outcome["search"] = "dropped" => ~ InTable \/ Blank(records[Video].title)

\* The two consumers of video.processed, whose validations are written twice,
\* judge a message alike: what one of them takes, the other one skips or drops for
\* a reason of its own (the processedKey, the status filter) or not at all.
TakenAlike ==
    /\ outcome["search"] = "indexed" =>
        /\ outcome["history"] # "skipped"
        /\ outcome["history"] = "dropped" => ~ InTable
    /\ outcome["history"] \in {"recorded", "deduped"} /\ outcome["search"] = "skipped" =>
        Blank(msg.detail["processedKey"])

\* No message that the JSON parser can take is poison: whatever is in it, whatever
\* the record is like, every consumer answers it in the end.  The search consumer
\* answers the others, too.
Answered ==
    \A c \in Consumers :
        outcome[c] \in Pending /\ ~ Raises(c) ~> outcome[c] \notin Pending

\* history_consumer/handler.py:16-19 and sfn_trigger_shim/handler.py:13-17: a
\* malformed record is "logged and acked (skipped) -- never raised, never retried".
MalformedNeverRaised ==
    \A c \in Consumers : msg.body # "event" => outcome[c] # "failed"
=============================================================================
