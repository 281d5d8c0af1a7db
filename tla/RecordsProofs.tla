--------------------------- MODULE RecordsProofs ---------------------------
(***************************************************************************)
(* What a record can do at the consumers, for all videos, eventIds and     *)
(* details.  The argument is one invariant, Classified: an answer a        *)
(* consumer gave still says of the message what it said when it was given, *)
(* because a message does not change and a removed record stays away.      *)
(***************************************************************************)
EXTENDS Records, TLAPS

Classified ==
    /\ \A c \in Consumers :
        /\ outcome[c] = "skipped" => ~ Readable(c)
        /\ outcome[c] = "filtered" => ~ Wanted(c)
        /\ outcome[c] \in {"deduped", "started", "recorded", "indexed"} => Wanted(c)
        /\ outcome[c] = "dropped" =>
               (InTable => c = "search" /\ Blank(records[Video].title))
        /\ sender = "publisher" /\ outcome[c] # "none" => Wanted(c)

LEMMA StripCleans ==
    ASSUME NEW x, ~ Blank(x)
    PROVE  Clean(Strip(x))
BY DEF Blank, Clean, Strip, Plain, Word, NoText

LEMMA RequiredFields ==
    /\ Required["shim"] = {"eventId", "videoId", "status", "object"}
    /\ Required["history"] = {"eventId", "videoId", "status"}
    /\ Required["search"] = {"eventId", "videoId", "status", "processedKey"}
BY DEF Required, Consumers

LEMMA PlainWords ==
    ASSUME NEW w
    PROVE  /\ Word(Plain(w)) = w
           /\ Strip(Plain(w)) = Plain(w)
           /\ w # "" => ~ Blank(Plain(w))
BY DEF Plain, Strip, Blank, Word, NoText

LEMMA TextWord ==
    ASSUME NEW W, NEW x \in Text(W), ~ Blank(x)
    PROVE  Word(x) \in W /\ Word(x) # ""
BY DEF Text, Blank, Word, NoText

LEMMA WordText ==
    ASSUME NEW W, NEW w \in W
    PROVE  Plain(w) \in Text(W) /\ NoText \in Text(W)
BY DEF Text, Plain, NoText

LEMMA StripText ==
    ASSUME NEW W, NEW x, Word(x) \in W
    PROVE  Strip(x) \in Text(W) /\ Word(Strip(x)) = Word(x)
<1>1. Word(Plain(Word(x))) = Word(x)
  BY PlainWords
<1> QED  BY <1>1, WordText DEF Strip

-----------------------------------------------------------------------------
(* Types.                                                                  *)

LEMMA MessageFields ==
    ASSUME TypeOK, msg.body = "event"
    PROVE  msg.detail \in Detail
BY DEF TypeOK, Messages, TooDeep

LEMMA InitType == Init => TypeOK
<1> SUFFICES ASSUME Init
             PROVE  TypeOK
  OBVIOUS
<1>1. msg \in Messages(Detail)
  BY DEF Init, Messages
<1>2. index \in [Videos -> [title : Text({"title"}), processedKey : Text({"file"})]]
  BY DEF Init, NoRow, Text
<1>3. outcome \in [Consumers -> Outcomes]
  BY DEF Init, Outcomes
<1> QED  BY <1>1, <1>2, <1>3, RecordsAssumption DEF Init, TypeOK

LEMMA WireType ==
    ASSUME NEW v \in Videos, NEW d,
           \/ \E object \in {"object"} \X BOOLEAN : d = uploaded_detail(v, object)
           \/ d = processed_detail(v)
    PROVE  Wire(build_envelope(v, d)) \in Detail
<1> DEFINE w == Wire(build_envelope(v, d))
<1>1. /\ DOMAIN w = Fields
      /\ w = [f \in Fields |-> w[f]]
  BY DEF Wire
<1>2. /\ w["eventId"] \in Text(Ids \cup {""}) /\ w["videoId"] \in Text(Videos \cup {"", "stranger"})
      /\ w["status"] \in Text(STATUSES \cup {"", "bogus"})
      /\ w["object"] \in Text({"", "object"}) /\ w["processedKey"] \in Text({"", "file"})
  <2>1. CASE d = processed_detail(v)
    <3>1. /\ w["eventId"] = Plain(EventId[<<v, PROCESSED>>]) /\ w["videoId"] = Plain(v)
          /\ w["status"] = Plain(PROCESSED) /\ w["processedKey"] = Plain("file")
          /\ w["object"] = NoText
      BY <2>1 DEF Wire, build_envelope, processed_detail, Fields, Plain, Word
    <3>2. EventId[<<v, PROCESSED>>] \in Ids
      BY RecordsAssumption DEF STATUSES
    <3> HIDE DEF w
    <3> QED  BY <3>1, <3>2, WordText DEF STATUSES
  <2>2. ASSUME NEW object \in {"object"} \X BOOLEAN, d = uploaded_detail(v, object)
        PROVE  /\ w["eventId"] \in Text(Ids \cup {""})
               /\ w["videoId"] \in Text(Videos \cup {"", "stranger"})
               /\ w["status"] \in Text(STATUSES \cup {"", "bogus"})
               /\ w["object"] \in Text({"", "object"}) /\ w["processedKey"] \in Text({"", "file"})
    <3>1. /\ w["eventId"] = Plain(EventId[<<v, UPLOADED>>]) /\ w["videoId"] = Plain(v)
          /\ w["status"] = Plain(UPLOADED) /\ w["object"] = object
          /\ w["processedKey"] = NoText
      BY <2>2 DEF Wire, build_envelope, uploaded_detail, Fields, Plain, Word
    <3>2. EventId[<<v, UPLOADED>>] \in Ids
      BY RecordsAssumption DEF STATUSES
    <3>3. object \in Text({"", "object"})
      BY DEF Text
    <3> HIDE DEF w
    <3> QED  BY <3>1, <3>2, <3>3, WordText DEF STATUSES
  <2> QED  BY <2>1, <2>2
<1> HIDE DEF w
<1>3. w = [eventId |-> w["eventId"], videoId |-> w["videoId"], status |-> w["status"],
           object |-> w["object"], processedKey |-> w["processedKey"]]
  BY <1>1 DEF Fields
<1>4. w \in Detail
  BY <1>2, <1>3 DEF Detail
<1> QED  BY <1>4 DEF w

LEMMA SendType ==
    ASSUME TypeOK, NEW name, NEW m \in Messages(Detail), NEW from \in {"publisher", "other"},
           Send(name, m, from)
    PROVE  TypeOK'
<1>1. outcome' \in [Consumers -> Outcomes]
  BY DEF Send, Outcomes, Pending
<1> QED  BY <1>1 DEF Send, TypeOK, stores

LEMMA ReturnType ==
    ASSUME TypeOK, NEW c \in Consumers, NEW result \in Outcomes, Return(c, result),
           UNCHANGED stores
    PROVE  TypeOK'
<1>1. outcome' \in [Consumers -> Outcomes]
  BY DEF TypeOK, Return
<1> QED  BY <1>1 DEF Return, TypeOK, stores

\* The fields of a message that has been found usable.
LEMMA FieldTypes ==
    ASSUME TypeOK, NEW c \in Consumers, Readable(c)
    PROVE  /\ Field("eventId") \in Text(Ids)
           /\ Field("videoId") \in Text(Videos \cup {"stranger"})
           /\ Video \in Videos => Field("videoId") \in Text(Videos)
           /\ Field("status") \in Text(STATUSES \cup {"bogus"})
           /\ Word(Field("status")) \in STATUSES => Field("status") \in Text(STATUSES)
           /\ c = "shim" => Field("object") \in Text({"object"})
           /\ c = "search" => Field("processedKey") \in Text({"file"})
<1>1. msg.detail \in Detail
  BY MessageFields DEF Readable
<1>2. \A f \in Required[c] : ~ Blank(msg.detail[f])
  BY DEF Readable
<1>3. {"eventId", "videoId", "status"} \subseteq Required[c]
  BY RequiredFields DEF Consumers
<1>4. /\ msg.detail["eventId"] \in Text(Ids \cup {""})
      /\ msg.detail["videoId"] \in Text(Videos \cup {"", "stranger"})
      /\ msg.detail["status"] \in Text(STATUSES \cup {"", "bogus"})
      /\ msg.detail["object"] \in Text({"", "object"})
      /\ msg.detail["processedKey"] \in Text({"", "file"})
  BY <1>1 DEF Detail
<1>5. /\ Word(msg.detail["eventId"]) \in Ids
      /\ Word(msg.detail["videoId"]) \in Videos \cup {"stranger"}
      /\ Word(msg.detail["status"]) \in STATUSES \cup {"bogus"}
  <2>1. Word(msg.detail["eventId"]) \in (Ids \cup {""}) \ {""}
    BY <1>2, <1>3, <1>4, TextWord
  <2>2. Word(msg.detail["videoId"]) \in (Videos \cup {"", "stranger"}) \ {""}
    BY <1>2, <1>3, <1>4, TextWord
  <2>3. Word(msg.detail["status"]) \in (STATUSES \cup {"", "bogus"}) \ {""}
    BY <1>2, <1>3, <1>4, TextWord
  <2> QED  BY <2>1, <2>2, <2>3
<1>6. c = "shim" => Word(msg.detail["object"]) \in {"object"}
  <2>1. c = "shim" => Word(msg.detail["object"]) \in {"", "object"} \ {""}
    BY <1>2, <1>4, RequiredFields, TextWord
  <2> QED  BY <2>1
<1>7. c = "search" => Word(msg.detail["processedKey"]) \in {"file"}
  <2>1. c = "search" => Word(msg.detail["processedKey"]) \in {"", "file"} \ {""}
    BY <1>2, <1>4, RequiredFields, TextWord
  <2> QED  BY <2>1
<1> QED  BY <1>5, <1>6, <1>7, StripText DEF Field, Video

LEMMA StartType == TypeOK /\ Start => TypeOK'
<1> SUFFICES ASSUME TypeOK, Start
             PROVE  TypeOK'
  OBVIOUS
<1> DEFINE input == [f \in {"videoId", "status", "object"} |-> Field(f)]
<1>1. Readable("shim") /\ "shim" \in Consumers
  BY DEF Start, Wanted, Consumers
<1>2. \A f \in {"videoId", "status", "object"} :
          Field(f) \in Text(Videos \cup STATUSES \cup {"stranger", "bogus", "object"})
  BY <1>1, FieldTypes DEF Text
<1>3. started' \subseteq [eventId : Text(Ids), input : [{"videoId", "status", "object"} ->
                Text(Videos \cup STATUSES \cup {"stranger", "bogus", "object"})]]
  <2>1. started' = started \cup {[eventId |-> Field("eventId"), input |-> input]}
    BY DEF Start
  <2>2. Field("eventId") \in Text(Ids)
    BY <1>1, FieldTypes
  <2>3. input \in [{"videoId", "status", "object"} ->
                       Text(Videos \cup STATUSES \cup {"stranger", "bogus", "object"})]
    BY <1>2
  <2> HIDE DEF input
  <2>4. [eventId |-> Field("eventId"), input |-> input] \in [eventId : Text(Ids), input :
            [{"videoId", "status", "object"} ->
                Text(Videos \cup STATUSES \cup {"stranger", "bogus", "object"})]]
    BY <2>2, <2>3
  <2> QED  BY <2>1, <2>4 DEF TypeOK
<1>4. outcome' \in [Consumers -> Outcomes]
  BY DEF TypeOK, Start, Return, Outcomes
<1> QED  BY <1>3, <1>4 DEF TypeOK, Start, Return

LEMMA AppendType == TypeOK /\ Append => TypeOK'
<1> SUFFICES ASSUME TypeOK, Append
             PROVE  TypeOK'
  OBVIOUS
<1>1. Readable("history") /\ "history" \in Consumers
  BY DEF Append, Wanted, Consumers
<1>2. Field("videoId") \in Text(Videos) /\ Field("status") \in Text(STATUSES)
  BY <1>1, FieldTypes DEF Append, InTable, Readable
<1>3. entries' \subseteq
          [eventId : Text(Ids), videoId : Text(Videos), status : Text(STATUSES)]
  <2>1. Field("eventId") \in Text(Ids)
    BY <1>1, FieldTypes
  <2>2. [eventId |-> Field("eventId"), videoId |-> Field("videoId"), status |-> Field("status")]
            \in [eventId : Text(Ids), videoId : Text(Videos), status : Text(STATUSES)]
    BY <1>2, <2>1
  <2> QED  BY <2>2 DEF TypeOK, Append
<1>4. outcome' \in [Consumers -> Outcomes]
  BY DEF TypeOK, Append, Return, Outcomes
<1> QED  BY <1>3, <1>4 DEF TypeOK, Append, Return

LEMMA TitleType ==
    ASSUME TypeOK, NEW v \in Videos
    PROVE  /\ ~ Blank(records[v].title) => Strip(records[v].title) \in Text({"title"})
           /\ ~ Blank(records[v].processedKey) =>
                  Strip(records[v].processedKey) \in Text({"file"})
<1>1. records[v] \in Record \cup {NoRecord}
  BY DEF TypeOK
<1>2. /\ records[v].title \in Text({"", "title"})
      /\ records[v].processedKey \in Text({"", "file"})
  <2>1. CASE records[v] \in Record
    BY <2>1 DEF Record
  <2>2. CASE records[v] = NoRecord
    <3>1. NoText \in Text({"", "title"}) /\ NoText \in Text({"", "file"})
      BY DEF Text
    <3>2. records[v].title = NoText /\ records[v].processedKey = NoText
      BY <2>2 DEF NoRecord
    <3> QED  BY <3>1, <3>2
  <2> QED  BY <1>1, <2>1, <2>2
<1>3. ~ Blank(records[v].title) => Word(records[v].title) \in {"", "title"} \ {""}
  BY <1>2, TextWord
<1>4. ~ Blank(records[v].processedKey) =>
          Word(records[v].processedKey) \in {"", "file"} \ {""}
  BY <1>2, TextWord
<1>5. {"", "title"} \ {""} = {"title"} /\ {"", "file"} \ {""} = {"file"}
  OBVIOUS
<1> QED  BY <1>3, <1>4, <1>5, StripText

LEMMA UpsertType == TypeOK /\ Upsert => TypeOK'
<1> SUFFICES ASSUME TypeOK, Upsert
             PROVE  TypeOK'
  OBVIOUS
<1>1. Readable("search") /\ "search" \in Consumers /\ Video \in Videos
  BY DEF Upsert, Wanted, InTable, Consumers
<1>2. [title |-> Strip(records[Video].title), processedKey |-> Field("processedKey")]
          \in [title : Text({"title"}), processedKey : Text({"file"})]
  BY <1>1, FieldTypes, TitleType DEF Upsert
<1>3. index' \in [Videos -> [title : Text({"title"}), processedKey : Text({"file"})]]
  BY <1>2 DEF TypeOK, Upsert
<1>4. outcome' \in [Consumers -> Outcomes]
  BY DEF TypeOK, Upsert, Return, Outcomes
<1> QED  BY <1>3, <1>4 DEF TypeOK, Upsert, Return

LEMMA RebuildType == TypeOK /\ Rebuild => TypeOK'
<1> SUFFICES ASSUME TypeOK, Rebuild
             PROVE  TypeOK'
  OBVIOUS
<1>1. ASSUME NEW v \in Videos, ~ Blank(records[v].title), ~ Blank(records[v].processedKey)
      PROVE  [f \in {"title", "processedKey"} |-> Strip(records[v][f])]
                 \in [title : Text({"title"}), processedKey : Text({"file"})]
  <2>1. [f \in {"title", "processedKey"} |-> Strip(records[v][f])]
            = [title |-> Strip(records[v].title), processedKey |-> Strip(records[v].processedKey)]
    OBVIOUS
  <2> QED  BY <1>1, <2>1, TitleType
<1>2. index' \in [Videos -> [title : Text({"title"}), processedKey : Text({"file"})]]
  BY <1>1 DEF TypeOK, Rebuild
<1> QED  BY <1>2 DEF TypeOK, Rebuild

LEMMA StepType == TypeOK /\ [Next]_vars => TypeOK'
<1> SUFFICES ASSUME TypeOK, [Next]_vars
             PROVE  TypeOK'
  OBVIOUS
<1>1. CASE UNCHANGED vars
  BY <1>1 DEF vars, stores, TypeOK
<1>2. ASSUME NEW v \in Videos, NEW name, NEW d, SendEvent(name, v, d),
             \/ \E object \in {"object"} \X BOOLEAN : d = uploaded_detail(v, object)
             \/ d = processed_detail(v)
      PROVE  TypeOK'
  <2>1. [body |-> "event", detail |-> Wire(build_envelope(v, d))] \in Messages(Detail)
    BY <1>2, WireType DEF Messages
  <2> QED  BY <1>2, <2>1, SendType DEF SendEvent
<1>3. ASSUME NEW v \in Videos, PublishUploaded(v) \/ PublishProcessed(v)
      PROVE  TypeOK'
  BY <1>2, <1>3 DEF PublishUploaded, PublishProcessed
<1>4. ASSUME NEW v \in Videos, Remove(v)
      PROVE  TypeOK'
  BY <1>4 DEF Remove, TypeOK, stores
<1>5. CASE SendOther
  <2>1. Messages(Details) \subseteq Messages(Detail)
    BY RecordsAssumption DEF Messages
  <2> QED  BY <1>5, <2>1, SendType DEF SendOther
<1>6. ASSUME NEW c \in Consumers, ParseRaises(c) \/ RequestFails(c) \/ Finish(c)
      PROVE  TypeOK'
  BY <1>6, ReturnType, StartType, AppendType, UpsertType
     DEF ParseRaises, RequestFails, Finish, Skip, Filter, Drop, Dedupe, Outcomes, Pending
<1>7. CASE Rebuild
  BY <1>7, RebuildType
<1> QED  BY <1>1, <1>3, <1>4, <1>5, <1>6, <1>7 DEF Next

\* Every variable keeps its type; so the history holds legal statuses of videos
\* that were in the table, and the index titles and keys, and nothing else.
THEOREM TypeCorrect == Spec => []TypeOK
BY InitType, StepType, PTL DEF Spec

-----------------------------------------------------------------------------
(* The rows.                                                               *)

LEMMA InitWhole == Init => StoresAreWhole
BY DEF Init, StoresAreWhole

\* Every row is built from fields the handler has found not to be blank.
LEMMA StepWhole == StoresAreWhole /\ [Next]_vars => StoresAreWhole'
<1> SUFFICES ASSUME StoresAreWhole, [Next]_vars
             PROVE  StoresAreWhole'
  OBVIOUS
<1>1. CASE UNCHANGED stores
  BY <1>1 DEF StoresAreWhole, stores
<1>2. CASE Start
  <2>1. \A f \in {"eventId", "videoId", "status", "object"} : Clean(Field(f))
    BY <1>2, StripCleans, RequiredFields DEF Start, Wanted, Readable, Field
  <2>2. PICK e : /\ started' = started \cup {e}
                 /\ e = [eventId |-> Field("eventId"), input |->
                            [f \in {"videoId", "status", "object"} |-> Field(f)]]
    BY <1>2 DEF Start
  <2>3. Clean(e.eventId) /\ \A f \in DOMAIN e.input : Clean(e.input[f])
    BY <2>1, <2>2
  <2> QED  BY <1>2, <2>2, <2>3 DEF Start, StoresAreWhole
<1>3. CASE Append
  <2>1. \A f \in {"eventId", "videoId", "status"} : Clean(Field(f))
    BY <1>3, StripCleans, RequiredFields DEF Append, Wanted, Readable, Field
  <2>2. PICK e : /\ entries' = entries \cup {e}
                 /\ e = [eventId |-> Field("eventId"), videoId |-> Field("videoId"),
                         status |-> Field("status")]
    BY <1>3 DEF Append
  <2>3. \A f \in DOMAIN e : Clean(e[f])
    BY <2>1, <2>2
  <2> QED  BY <1>3, <2>2, <2>3 DEF Append, StoresAreWhole
<1>4. CASE Upsert
  <2>1. Clean(Field("processedKey")) /\ Clean(Strip(records[Video].title))
    BY <1>4, StripCleans, RequiredFields DEF Upsert, Wanted, Readable, Field
  <2> QED  BY <1>4, <2>1 DEF Upsert, StoresAreWhole
<1>5. CASE Rebuild
  <2> SUFFICES ASSUME NEW v \in Videos, index'[v] # NoRow
               PROVE  Clean(index'[v].title) /\ Clean(index'[v].processedKey)
    BY <1>5 DEF Rebuild, StoresAreWhole
  <2>1. CASE ~ Blank(records[v].title) /\ ~ Blank(records[v].processedKey)
                /\ index'[v] = [f \in {"title", "processedKey"} |-> Strip(records[v][f])]
    BY <2>1, StripCleans
  <2>2. CASE index'[v] = index[v]
    BY <2>2 DEF StoresAreWhole
  <2> QED  BY <1>5, <2>1, <2>2 DEF Rebuild
<1> QED
  BY <1>1, <1>2, <1>3, <1>4, <1>5 DEF Next, vars, stores, PublishUploaded, PublishProcessed,
     SendEvent, Send, SendOther, Remove, ParseRaises, RequestFails, Finish, Skip, Filter,
     Drop, Dedupe

\* Nothing a consumer or the rebuild leaves behind needs another look: not for any
\* message, any record or any order of both.
THEOREM RowsAreWhole == Spec => []StoresAreWhole
BY InitWhole, StepWhole, PTL DEF Spec

-----------------------------------------------------------------------------
(* How the consumers judge.                                                *)

\* What is known of the message and its video stays known until the next message.
LEMMA KeepsClassified ==
    ASSUME TypeOK, Classified, UNCHANGED <<msg, sender, outcome>>,
           records' = records \/ \E v \in Videos : Remove(v)
    PROVE  Classified'
<1>1. /\ Video' = Video
      /\ \A c \in Consumers : Readable(c)' = Readable(c) /\ Wanted(c)' = Wanted(c)
  BY DEF Video, Field, Readable, Wanted
<1>2. InTable' => InTable /\ records'[Video] = records[Video]
  BY <1>1 DEF TypeOK, InTable, Remove
<1> QED  BY <1>1, <1>2 DEF Classified

\* One answer more.
LEMMA ReturnClassified ==
    ASSUME Classified, NEW c \in Consumers, NEW result, Return(c, result),
           result = "skipped" => ~ Readable(c),
           result = "filtered" => ~ Wanted(c),
           result \in {"deduped", "started", "recorded", "indexed"} => Wanted(c),
           result = "dropped" => (InTable => c = "search" /\ Blank(records[Video].title))
    PROVE  Classified'
<1>1. Video' = Video /\ InTable' = InTable
      /\ \A d \in Consumers : Readable(d)' = Readable(d) /\ Wanted(d)' = Wanted(d)
  BY DEF Return, Video, Field, InTable, Readable, Wanted
<1>2. \A d \in Consumers : outcome'[d] # outcome[d] =>
          d = c /\ outcome'[d] = result /\ outcome[c] # "none"
  BY DEF Return, Pending
<1> SUFFICES ASSUME NEW d \in Consumers
             PROVE  /\ outcome'[d] = "skipped" => ~ Readable(d)
                    /\ outcome'[d] = "filtered" => ~ Wanted(d)
                    /\ outcome'[d] \in {"deduped", "started", "recorded", "indexed"} => Wanted(d)
                    /\ outcome'[d] = "dropped" =>
                           (InTable => d = "search" /\ Blank(records[Video].title))
                    /\ sender = "publisher" /\ outcome'[d] # "none" => Wanted(d)
  BY <1>1 DEF Classified, Return
<1> QED  BY <1>2 DEF Classified

\* A new message is unanswered; one of the publishers can be read where it goes.
LEMMA SendClassified ==
    ASSUME NEW name \in DOMAIN Targets, NEW m, NEW from, Send(name, m, from),
           from = "publisher" => \A c \in Targets[name] : Wanted(c)'
    PROVE  Classified'
<1>1. \A c \in Consumers : /\ outcome'[c] \in {"queued", "none"}
                           /\ outcome'[c] # "none" => c \in Targets[name]
  BY DEF Send
<1> QED  BY <1>1 DEF Classified, Send

LEMMA UploadedIsWanted ==
    ASSUME NEW v \in Videos, PublishUploaded(v)
    PROVE  Classified'
<1>1. PICK object \in {"object"} \X BOOLEAN :
          SendEvent("video.uploaded", v, uploaded_detail(v, object))
  BY DEF PublishUploaded
<1> DEFINE w == Wire(build_envelope(v, uploaded_detail(v, object)))
<1>2. /\ w["eventId"] = Plain(EventId[<<v, UPLOADED>>]) /\ w["videoId"] = Plain(v)
      /\ w["status"] = Plain(UPLOADED) /\ w["object"] = object
  BY DEF Wire, build_envelope, uploaded_detail, Fields, Plain, Word
<1>3. msg' = [body |-> "event", detail |-> w]
  BY <1>1 DEF SendEvent, Send
<1> HIDE DEF w
<1>4. EventId[<<v, UPLOADED>>] \in Nameable /\ v # "" /\ EventId[<<v, UPLOADED>>] # ""
  BY RecordsAssumption DEF STATUSES
<1>5. \A f \in {"eventId", "videoId", "status", "object"} : ~ Blank(w[f])
  <2>1. PICK padded \in BOOLEAN : object = <<"object", padded>>
    OBVIOUS
  <2>2. ~ Blank(object)
    BY <2>1 DEF Blank, Word, NoText
  <2>3. ~ Blank(Plain(UPLOADED))
    BY PlainWords DEF UPLOADED
  <2> QED  BY <1>2, <1>4, <2>2, <2>3, PlainWords
<1>6. Field("eventId")' = Plain(EventId[<<v, UPLOADED>>])
  BY <1>2, <1>3, PlainWords DEF Field
<1>7. Wanted("shim")'
  BY <1>3, <1>4, <1>5, <1>6, RequiredFields, PlainWords DEF Wanted, Readable
<1>8. Targets["video.uploaded"] = {"shim"} /\ "video.uploaded" \in DOMAIN Targets
  BY DEF Targets
<1> QED  BY <1>1, <1>7, <1>8, SendClassified DEF SendEvent

LEMMA ProcessedIsWanted ==
    ASSUME NEW v \in Videos, PublishProcessed(v)
    PROVE  Classified'
<1> DEFINE w == Wire(build_envelope(v, processed_detail(v)))
<1>1. SendEvent("video.processed", v, processed_detail(v))
  BY DEF PublishProcessed
<1>2. /\ w["eventId"] = Plain(EventId[<<v, PROCESSED>>]) /\ w["videoId"] = Plain(v)
      /\ w["status"] = Plain(PROCESSED) /\ w["processedKey"] = Plain("file")
  BY DEF Wire, build_envelope, processed_detail, Fields, Plain, Word
<1>3. msg' = [body |-> "event", detail |-> w]
  BY <1>1 DEF SendEvent, Send
<1> HIDE DEF w
<1>4. v # "" /\ EventId[<<v, PROCESSED>>] # ""
  BY RecordsAssumption DEF STATUSES
<1>5. \A f \in {"eventId", "videoId", "status", "processedKey"} : ~ Blank(w[f])
  <2>1. ~ Blank(Plain(PROCESSED)) /\ ~ Blank(Plain("file"))
    BY PlainWords DEF PROCESSED
  <2> QED  BY <1>2, <1>4, <2>1, PlainWords
<1>6. Field("status")' = Plain(PROCESSED)
  BY <1>2, <1>3, PlainWords DEF Field
<1>7. Wanted("history")' /\ Wanted("search")'
  BY <1>3, <1>5, <1>6, RequiredFields, PlainWords DEF Wanted, Readable, STATUSES
<1>8. Targets["video.processed"] = {"history", "search"} /\ "video.processed" \in DOMAIN Targets
  BY DEF Targets
<1> QED  BY <1>1, <1>7, <1>8, SendClassified DEF SendEvent

LEMMA InitClassified == Init => Classified
BY DEF Init, Classified

LEMMA StepClassified == TypeOK /\ Classified /\ [Next]_vars => Classified'
<1> SUFFICES ASSUME TypeOK, Classified, [Next]_vars
             PROVE  Classified'
  OBVIOUS
<1>1. CASE UNCHANGED vars
  BY <1>1, KeepsClassified DEF vars
<1>2. ASSUME NEW v \in Videos, PublishUploaded(v) \/ PublishProcessed(v)
      PROVE  Classified'
  BY <1>2, UploadedIsWanted, ProcessedIsWanted
<1>3. ASSUME NEW v \in Videos, Remove(v)
      PROVE  Classified'
  BY <1>3, KeepsClassified DEF Remove
<1>4. CASE SendOther
  BY <1>4, SendClassified DEF SendOther
<1>5. ASSUME NEW c \in Consumers, ParseRaises(c) \/ RequestFails(c)
      PROVE  Classified'
  BY <1>5, ReturnClassified DEF ParseRaises, RequestFails
<1>6. ASSUME NEW c \in Consumers, Finish(c)
      PROVE  Classified'
  <2>1. CASE Skip(c)
    BY <2>1, ReturnClassified DEF Skip
  <2>2. CASE Filter(c)
    BY <2>2, ReturnClassified DEF Filter
  <2>3. CASE Drop(c)
    BY <2>3, ReturnClassified DEF Drop
  <2>4. CASE Dedupe(c)
    BY <2>4, ReturnClassified DEF Dedupe
  <2>5. CASE c = "shim" /\ Start
    BY <2>5, ReturnClassified DEF Start
  <2>6. CASE c = "history" /\ Append
    BY <2>6, ReturnClassified DEF Append
  <2>7. CASE c = "search" /\ Upsert
    BY <2>7, ReturnClassified DEF Upsert
  <2> QED  BY <1>6, <2>1, <2>2, <2>3, <2>4, <2>5, <2>6, <2>7 DEF Finish
<1>7. CASE Rebuild
  BY <1>7, KeepsClassified DEF Rebuild
<1> QED  BY <1>1, <1>2, <1>3, <1>4, <1>5, <1>6, <1>7 DEF Next

\* Whatever the search consumer looks at, the history consumer can read.
LEMMA WantedByBoth == Wanted("search") => Readable("history")
BY RequiredFields DEF Wanted, Readable, STATUSES

LEMMA ReadableByBoth ==
    Readable("history") /\ ~ Blank(msg.detail["processedKey"]) => Readable("search")
BY RequiredFields DEF Readable

\* The publishers' own events are taken by every consumer they are routed to.
THEOREM OwnEventsGetThrough == Spec => []OwnEventsAreTaken
<1>1. Classified => OwnEventsAreTaken
  BY DEF Classified, OwnEventsAreTaken, Consumers, Wanted
<1> QED  BY <1>1, InitClassified, StepClassified, TypeCorrect, PTL DEF Spec

\* The validations of the two consumers of video.processed agree.
THEOREM ConsumersAgree == Spec => []TakenAlike
<1>1. Classified => TakenAlike
  BY WantedByBoth, ReadableByBoth DEF Classified, TakenAlike, Consumers, Wanted
<1> QED  BY <1>1, InitClassified, StepClassified, TypeCorrect, PTL DEF Spec
=============================================================================
