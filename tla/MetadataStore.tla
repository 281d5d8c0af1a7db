---------------------------- MODULE MetadataStore ----------------------------
(***************************************************************************)
(* The shared layer's access to the video-metadata table                   *)
(* (lambdas/_shared/status.py): create_record, get_record and transition,  *)
(* called concurrently.  Each call is several requests to DynamoDB, each   *)
(* request is atomic, and other callers run between them.  A request may   *)
(* fail with a service error, and a write may be applied while its reply   *)
(* is lost, after which the SDK sends it again.                            *)
(*                                                                         *)
(* An item is its status, its creator (standing for everything the create  *)
(* wrote and no transition touches: title, bucket, key, createdAt) and the *)
(* extra attributes the transitions have set.                              *)
(***************************************************************************)
EXTENDS Status

CONSTANTS Videos,       \* videoIds
          Callers,      \* concurrent invocations of the layer
          ExtraChoices  \* the sets of extra_attributes keys callers pass

\* Keys a caller may pass: the settable attributes, and any other key.
ExtraKeys == TRANSITION_EXTRA_ATTRIBUTES \cup {"other"}

ASSUME ExtraAssumption == ExtraChoices \subseteq SUBSET ExtraKeys

VARIABLES item,   \* the table: videoId -> item
          call,   \* the call each caller is in
          seen    \* history: the statuses of the called videoId during the call

vars == <<item, call, seen>>

NoItem == [status |-> Absent]

Items == [status : STATUSES, creator : Callers,
          extras : SUBSET TRANSITION_EXTRA_ATTRIBUTES]

Outcomes == {"ok", "NotFound", "Malformed", "Conflict", "Internal"}

\* The request a call is about to send, or its outcome.
Requests == {"put_item", "get_existing", "get_item", "update_item", "get_fresh"}

\* A target the layer is asked for; "BOGUS" stands for any unknown status.
Targets == STATUSES \cup {"BOGUS"}

Idle == [at |-> "idle"]

Calls == [at : Requests \cup Outcomes, op : {"create", "get", "transition"},
          video : Videos, to : Targets, extras : SUBSET ExtraKeys,
          got : Items \cup {NoItem}]

TypeOK == /\ item \in [Videos -> Items \cup {NoItem}]
          /\ call \in [Callers -> Calls \cup {Idle}]
          /\ seen \in [Callers -> SUBSET (STATUSES \cup {Absent})]

Init == /\ item = [v \in Videos |-> NoItem]
        /\ call = [c \in Callers |-> Idle]
        /\ seen = [c \in Callers |-> {}]

-----------------------------------------------------------------------------
(* Steps of one call.                                                      *)

\* While a call is open, the status its record has after every step joins the
\* call's history; an answered call's history is closed.
Witness ==
    seen' = [c \in Callers |->
                IF call'[c] = Idle              THEN {}
                ELSE IF call[c].at \in Outcomes THEN seen[c]
                ELSE seen[c] \cup {item'[call'[c].video].status}]

\* The call goes on to its next request, or ends with an outcome.
GoTo(c, at) == call' = [call EXCEPT ![c].at = at]

\* The call ends (or moves on) holding a record it read or wrote.
Holding(c, at, i) == call' = [call EXCEPT ![c].at = at, ![c].got = i]

Sends(c, request) == call[c].at = request

Record(c) == item[call[c].video]

Open(c, op, v, to, extras, at) ==
    /\ call[c] = Idle
    /\ call' = [call EXCEPT ![c] = [at |-> at, op |-> op, video |-> v, to |-> to,
                                    extras |-> extras, got |-> NoItem]]
    /\ UNCHANGED item

\* create_record validates its arguments before it touches the table.
BeginCreate(c, v) ==
    \E at \in {"put_item", "Malformed"} : Open(c, "create", v, UPLOADED, {}, at)

BeginGet(c, v) == Open(c, "get", v, UPLOADED, {}, "get_item")

\* transition rejects an unknown target status before it reads.
BeginTransition(c, v) ==
    \E to \in Targets, x \in ExtraChoices :
        Open(c, "transition", v, to, x,
             IF to \in STATUSES THEN "get_item" ELSE "Malformed")

NewItem(c) == [status |-> UPLOADED, creator |-> c, extras |-> {}]

\* Mutant of PutItem: the put carries no condition.
PutItemBlind(c) ==
    /\ Sends(c, "put_item")
    /\ item' = [item EXCEPT ![call[c].video] = NewItem(c)]
    /\ Holding(c, "ok", NewItem(c))

\* PutItem with attribute_not_exists(videoId) ...
PutItem(c) ==
    /\ Sends(c, "put_item")
    /\ Record(c) = NoItem
    /\ item' = [item EXCEPT ![call[c].video] = NewItem(c)]
    /\ \/ Holding(c, "ok", NewItem(c))
       \/ UNCHANGED call    \* applied, the reply lost: the SDK sends it again

\* ... refused: the layer reads the record that is there.
PutRefused(c) ==
    /\ Sends(c, "put_item")
    /\ Record(c) # NoItem
    /\ GoTo(c, "get_existing")
    /\ UNCHANGED item

\* get_record: the whole of a get, and the read after a refused put.
GetRecord(c) ==
    /\ \/ Sends(c, "get_existing")
       \/ Sends(c, "get_item") /\ call[c].op = "get"
    /\ IF Record(c) = NoItem THEN GoTo(c, "NotFound")
                             ELSE Holding(c, "ok", Record(c))
    /\ UNCHANGED item

\* Mutant of Decision: an attribute the layer does not know is let through.
DecisionAnyExtra(c) ==
    IF Record(c) = NoItem                       THEN "NotFound"
    ELSE IF Record(c).status = call[c].to       THEN "ok"
    ELSE IF ExpectedSource(call[c].to) = Absent THEN "Conflict"
    ELSE "update_item"

\* What transition decides from its first read: the outcome, or to write.
Decision(c) ==
    IF Record(c) = NoItem                       THEN "NotFound"
    ELSE IF Record(c).status = call[c].to       THEN "ok"
    ELSE IF ExpectedSource(call[c].to) = Absent THEN "Conflict"
    ELSE IF "other" \in call[c].extras          THEN "Malformed"
    ELSE "update_item"

ReadCurrent(c) ==
    /\ Sends(c, "get_item")
    /\ call[c].op = "transition"
    /\ Holding(c, Decision(c), Record(c))
    /\ UNCHANGED item

\* Mutant of MayUpdate: the write trusts the read that came before it.
MayUpdateStale(c) == Record(c) # NoItem

\* The ConditionExpression #s = :expected; a missing item has no status.
MayUpdate(c) == Record(c).status = ExpectedSource(call[c].to)

Updated(c) == [Record(c) EXCEPT !.status = call[c].to,
                                !.extras = @ \cup call[c].extras]

UpdateItem(c) ==
    /\ Sends(c, "update_item")
    /\ MayUpdate(c)
    /\ item' = [item EXCEPT ![call[c].video] = Updated(c)]
    /\ \/ Holding(c, "ok", Updated(c))
       \/ UNCHANGED call    \* applied, the reply lost: the SDK sends it again

UpdateRefused(c) ==
    /\ Sends(c, "update_item")
    /\ ~ MayUpdate(c)
    /\ GoTo(c, "get_fresh")
    /\ UNCHANGED item

\* Mutant of ReadFresh: every refused update is a conflict.
ReadFreshAlwaysConflict(c) ==
    /\ Sends(c, "get_fresh")
    /\ Holding(c, "Conflict", Record(c))
    /\ UNCHANGED item

\* The re-read after a refused update tells a lost race from a vanished record.
ReadFresh(c) ==
    /\ Sends(c, "get_fresh")
    /\ Holding(c, IF Record(c) = NoItem THEN "NotFound" ELSE "Conflict", Record(c))
    /\ UNCHANGED item

\* A request fails with anything but a refused condition: it propagates.
ServiceError(c) ==
    /\ call[c].at \in Requests
    /\ GoTo(c, "Internal")
    /\ UNCHANGED item

\* The caller has its answer; the next call it makes is a new one.
Finish(c) ==
    /\ call[c].at \in Outcomes
    /\ call' = [call EXCEPT ![c] = Idle]
    /\ UNCHANGED item

\* Cleanup of a record by its owner, between any two requests.
Cleanup(v) ==
    /\ item[v] # NoItem
    /\ item' = [item EXCEPT ![v] = NoItem]
    /\ UNCHANGED call

Begin(c) == \E v \in Videos : BeginCreate(c, v) \/ BeginGet(c, v) \/ BeginTransition(c, v)

Step(c) == \/ PutItem(c) \/ PutRefused(c) \/ GetRecord(c)
           \/ ReadCurrent(c) \/ UpdateItem(c) \/ UpdateRefused(c) \/ ReadFresh(c)
           \/ ServiceError(c) \/ Finish(c)

Next == /\ \/ \E c \in Callers : Begin(c) \/ Step(c)
           \/ \E v \in Videos : Cleanup(v)
        /\ Witness

Spec == Init /\ [][Next]_vars

-----------------------------------------------------------------------------
(* Properties.                                                             *)

\* However calls interleave, a record only appears, disappears, or changes by
\* one legal transition, and no step rewrites what its creator wrote: a create
\* that loses its race, a stale read, a re-sent write never overwrite (FR-11,
\* FR-12; the ConditionExpressions of status.py).
LegalChange(old, new) ==
    \/ old = new
    \/ old = NoItem /\ new.status = UPLOADED
    \/ new = NoItem
    \/ old # NoItem /\ Legal(old.status, new.status) /\ old.creator = new.creator

OnlyLegalChanges == [][\A v \in Videos : LegalChange(item[v], item'[v])]_vars

\* Every answer is true of some moment of the call: a record returned was in
\* the table, a transition that succeeds leaves the caller a record with the
\* status it asked for, NotFound saw the record missing, and a Conflict saw a
\* record that lacked the required source and reports one that was there.
Justified(c) ==
    LET got == call[c].got IN
    CASE call[c].at = "ok" ->
            /\ got.status \in seen[c] \ {Absent}
            /\ call[c].op = "transition" => got.status = call[c].to
      [] call[c].at = "NotFound" -> Absent \in seen[c]
      [] call[c].at = "Conflict" ->
            /\ got.status \in seen[c] \ {Absent}
            /\ \E s \in seen[c] : s # ExpectedSource(call[c].to)
      [] OTHER -> TRUE

AnswersJustified == \A c \in Callers : call[c] # Idle => Justified(c)

\* status.py's docstring and FR-11: re-asserting the current status succeeds,
\* so no transition is refused for a record that already has its target.
ReassertionSucceeds ==
    \A c \in Callers : call[c].at = "Conflict" => call[c].got.status # call[c].to

\* The table, seen as bare statuses, is the abstract register.
Register == INSTANCE StatusRegister WITH status <- [v \in Videos |-> item[v].status]

RegisterSpec == Register!Spec
=============================================================================
