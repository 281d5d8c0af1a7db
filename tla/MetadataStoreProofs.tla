------------------------ MODULE MetadataStoreProofs ------------------------
(***************************************************************************)
(* Proofs about MetadataStore, for every set of videos and callers and     *)
(* every choice of extra attributes.                                       *)
(***************************************************************************)
EXTENDS MetadataStore, TLAPS

LEMMA Vocabulary ==
    /\ Absent \notin STATUSES
    /\ UPLOADED \in STATUSES
    /\ \A to : ExpectedSource(to) # Absent => Legal(ExpectedSource(to), to)
<1>1. Absent \notin STATUSES /\ UPLOADED \in STATUSES
  BY DEF Absent, STATUSES, UPLOADED, PROCESSING, PROCESSED, FAILED
<1>2. ASSUME NEW to, ExpectedSource(to) # Absent
      PROVE  Legal(ExpectedSource(to), to)
  BY <1>2 DEF ExpectedSource, Legal
<1> QED  BY <1>1, <1>2

\* Inverting the transition table loses nothing: no target has two sources,
\* so ExpectedSource, the :expected value of every conditional write, is the
\* one legal source of its target (the assertion of status.py's import).  And
\* the terminal statuses are those the table gives no way out of.
THEOREM InversionExact ==
    /\ SingleSource
    /\ TERMINAL_STATUSES = {s \in STATUSES : LEGAL_TRANSITIONS[s] = {}}
    /\ \A from, to \in STATUSES : Legal(from, to) => ExpectedSource(to) = from
<1>1. SingleSource
  BY DEF SingleSource, LEGAL_TRANSITIONS, STATUSES, UPLOADED, PROCESSING,
         PROCESSED, FAILED
<1>2. ASSUME NEW from \in STATUSES, NEW to \in STATUSES, Legal(from, to)
      PROVE  ExpectedSource(to) = from
  <2>1. \A s \in STATUSES : to \in LEGAL_TRANSITIONS[s] => s = from
    BY <1>1, <1>2 DEF SingleSource, Legal
  <2> QED  BY <1>2, <2>1 DEF ExpectedSource, Legal
<1>3. TERMINAL_STATUSES = {s \in STATUSES : LEGAL_TRANSITIONS[s] = {}}
  BY DEF TERMINAL_STATUSES, LEGAL_TRANSITIONS, STATUSES, UPLOADED, PROCESSING,
         PROCESSED, FAILED
<1> QED  BY <1>1, <1>2, <1>3

LEMMA ItemFacts ==
    /\ NoItem \notin Items /\ NoItem.status = Absent
    /\ \A i \in Items : i.status \in STATUSES /\ i.status # Absent
<1>1. NoItem.status = Absent /\ \A i \in Items : i.status \in STATUSES
  BY DEF NoItem, Items
<1> QED  BY <1>1, Vocabulary

\* An idle caller is in no call, and a request is not an outcome.
LEMMA CallFacts ==
    /\ Requests \cap Outcomes = {}
    /\ "idle" \notin Requests \cup Outcomes
    /\ \A k \in Calls : k # Idle /\ k.at \in Requests \cup Outcomes
BY DEF Requests, Outcomes, Calls, Idle

(***************************************************************************)
(* Type correctness.  The attributes an update may set are checked at the  *)
(* first read, so the check must still hold when the update is sent.       *)
(***************************************************************************)

\* What the code that sent a request has established before it.
CallInv ==
    \A c \in Callers : call[c] # Idle =>
        /\ call[c].at \in {"put_item", "get_existing"} => call[c].op = "create"
        /\ call[c].at = "get_item" /\ call[c].op = "transition" => call[c].to \in STATUSES
        /\ call[c].at \in {"update_item", "get_fresh"} =>
              /\ call[c].op = "transition" /\ call[c].to \in STATUSES
              /\ ExpectedSource(call[c].to) # Absent
              /\ "other" \notin call[c].extras

TInv == TypeOK /\ CallInv

\* What a step leaves of the table and of the calls.
WellTypedStep == /\ item' \in [Videos -> Items \cup {NoItem}]
                 /\ call' \in [Callers -> Calls \cup {Idle}]
                 /\ CallInv'

LEMMA TInvInit == Init => TInv
BY DEF Init, TInv, TypeOK, CallInv

LEMMA TInvBegin ==
    ASSUME TInv, NEW c \in Callers, Begin(c)
    PROVE  WellTypedStep
BY ExtraAssumption
DEF WellTypedStep, TInv, TypeOK, CallInv, Begin, BeginCreate, BeginGet, BeginTransition, Open,
    Calls, Targets, Requests, Outcomes, ExtraKeys, NoItem, Idle, STATUSES,
    UPLOADED, PROCESSING, PROCESSED, FAILED

LEMMA WriteTypes ==
    ASSUME TInv, NEW c \in Callers
    PROVE  /\ NewItem(c) \in Items
           /\ UpdateItem(c) => Updated(c) \in Items
<1>1. NewItem(c) \in Items
  BY Vocabulary DEF NewItem, Items
<1>2. ASSUME UpdateItem(c)  PROVE Updated(c) \in Items
  <2>1. call[c] \in Calls /\ call[c].at = "update_item"
    BY <1>2 DEF UpdateItem, Sends, TInv, TypeOK, Idle
  <2>2. call[c].to \in STATUSES /\ call[c].extras \subseteq TRANSITION_EXTRA_ATTRIBUTES
    BY <2>1, CallFacts DEF TInv, CallInv, Calls, ExtraKeys
  <2>3. Record(c) \in Items
    <3>1. Record(c).status # Absent
      BY <1>2, <2>1, CallFacts DEF UpdateItem, MayUpdate, TInv, CallInv
    <3> QED  BY <2>1, <3>1, ItemFacts DEF Record, TInv, TypeOK, Calls
  <2> QED  BY <2>2, <2>3 DEF Updated, Items
<1> QED  BY <1>1, <1>2

LEMMA TInvStep ==
    ASSUME TInv, NEW c \in Callers, Step(c)
    PROVE  WellTypedStep
<1>1. call[c] \in Calls
  BY DEF Step, PutItem, PutRefused, GetRecord, ReadCurrent, UpdateItem,
         UpdateRefused, ReadFresh, ServiceError, Finish, Sends, Requests,
         Outcomes, TInv, TypeOK, Idle
<1>2. Record(c) \in Items \cup {NoItem}
  BY <1>1 DEF TInv, TypeOK, Record, Calls
<1> USE <1>1, <1>2, CallFacts, WriteTypes
    DEF WellTypedStep, TInv, TypeOK, CallInv, GoTo, Holding, Sends, Requests, Outcomes, Idle
<1>3. CASE PutItem(c)        BY <1>3 DEF PutItem, Calls
<1>4. CASE PutRefused(c)     BY <1>4 DEF PutRefused, Calls
<1>5. CASE GetRecord(c)
  <2>1. item' = item /\ call[c].at \in Requests
    BY <1>5 DEF GetRecord
  <2>2. CASE Record(c) = NoItem
    BY <1>5, <2>1, <2>2 DEF GetRecord, Calls
  <2>3. CASE Record(c) # NoItem
    BY <1>5, <2>1, <2>3 DEF GetRecord, Calls
  <2> QED  BY <2>2, <2>3
<1>6. CASE ReadCurrent(c)    BY <1>6 DEF ReadCurrent, Decision, Calls
<1>7. CASE UpdateItem(c)
  <2>1. Updated(c) \in Items
    BY <1>7
  <2>2. item' = [item EXCEPT ![call[c].video] = Updated(c)]
    BY <1>7 DEF UpdateItem
  <2>3. UNCHANGED call \/ Holding(c, "ok", Updated(c))
    BY <1>7 DEF UpdateItem
  <2> QED  BY <2>1, <2>2, <2>3 DEF Calls
<1>8. CASE UpdateRefused(c)  BY <1>8 DEF UpdateRefused, Calls
<1>9. CASE ReadFresh(c)      BY <1>9 DEF ReadFresh, Calls
<1>10. CASE ServiceError(c)  BY <1>10 DEF ServiceError, Calls
<1>11. CASE Finish(c)        BY <1>11 DEF Finish, Calls
<1> QED  BY <1>3, <1>4, <1>5, <1>6, <1>7, <1>8, <1>9, <1>10, <1>11 DEF Step

LEMMA SeenType ==
    ASSUME TInv, Witness, WellTypedStep
    PROVE  seen' \in [Callers -> SUBSET (STATUSES \cup {Absent})]
<1> DEFINE Now(c) ==
        IF call'[c] = Idle              THEN {}
        ELSE IF call[c].at \in Outcomes THEN seen[c]
        ELSE seen[c] \cup {item'[call'[c].video].status}
<1>1. ASSUME NEW c \in Callers  PROVE Now(c) \subseteq STATUSES \cup {Absent}
  <2>1. call'[c] # Idle => item'[call'[c].video].status \in STATUSES \cup {Absent}
    BY ItemFacts DEF Calls, WellTypedStep
  <2> QED  BY <2>1 DEF TInv, TypeOK
<1>2. seen' = [c \in Callers |-> Now(c)]
  BY DEF Witness
<1> HIDE DEF Now
<1> QED  BY <1>1, <1>2

LEMMA TInvNext == TInv /\ [Next]_vars => TInv'
<1> SUFFICES ASSUME TInv, [Next]_vars  PROVE TInv'
  OBVIOUS
<1>1. CASE UNCHANGED vars
  BY <1>1 DEF vars, TInv, TypeOK, CallInv
<1>2. CASE Next
  <2>1. ASSUME NEW c \in Callers, Begin(c) \/ Step(c)
        PROVE  WellTypedStep
    BY <2>1, TInvBegin, TInvStep
  <2>2. ASSUME NEW v \in Videos, Cleanup(v)
        PROVE  WellTypedStep
    BY <2>2 DEF Cleanup, WellTypedStep, TInv, TypeOK, CallInv
  <2>3. WellTypedStep /\ Witness
    BY <1>2, <2>1, <2>2 DEF Next
  <2> QED  BY <2>3, SeenType DEF TInv, TypeOK, WellTypedStep
<1> QED  BY <1>1, <1>2

\* Every variable stays in its type: in particular no attribute outside
\* TRANSITION_EXTRA_ATTRIBUTES is ever written by a transition.
THEOREM TypeCorrect == Spec => []TypeOK
<1>1. TInv => TypeOK  BY DEF TInv
<1> QED  BY <1>1, TInvInit, TInvNext, PTL DEF Spec

LEMMA TypeInvariance == Spec => []TInv
BY TInvInit, TInvNext, PTL DEF Spec

(***************************************************************************)
(* The table changes by legal moves.  The ConditionExpressions carry the   *)
(* argument: an update re-checks the source its decision rested on.        *)
(***************************************************************************)

\* One record at most changes in a step, and by a put, a move or a removal.
OneChange ==
    \E v \in Videos, new \in Items \cup {NoItem} :
        /\ item' = [item EXCEPT ![v] = new]
        /\ LegalChange(item[v], new)

LEMMA StepChanges ==
    ASSUME TInv, NEW c \in Callers, Step(c)
    PROVE  UNCHANGED item \/ OneChange
<1>1. CASE PutItem(c)
  <2>1. call[c] \in Calls
    BY <1>1 DEF PutItem, Sends, TInv, TypeOK, Idle
  <2>2. /\ item' = [item EXCEPT ![call[c].video] = NewItem(c)]
        /\ item[call[c].video] = NoItem
    BY <1>1 DEF PutItem, Record
  <2>3. LegalChange(item[call[c].video], NewItem(c))
    BY <2>2 DEF LegalChange, NewItem
  <2> QED  BY <2>1, <2>2, <2>3, WriteTypes DEF OneChange, Calls
<1>2. CASE UpdateItem(c)
  <2>1. call[c] \in Calls /\ call[c].at = "update_item" /\ call[c] # Idle
    BY <1>2 DEF UpdateItem, Sends, TInv, TypeOK, Idle
  <2>2. /\ item' = [item EXCEPT ![call[c].video] = Updated(c)]
        /\ Record(c).status = ExpectedSource(call[c].to)
    BY <1>2 DEF UpdateItem, MayUpdate
  <2>3. Legal(Record(c).status, call[c].to) /\ Record(c).status # Absent
    BY <2>1, <2>2, Vocabulary DEF TInv, CallInv
  <2>4. Record(c) \in Items
    BY <2>1, <2>3, ItemFacts DEF Record, TInv, TypeOK, Calls
  <2>5. Updated(c).status = call[c].to /\ Updated(c).creator = Record(c).creator
    BY <2>4 DEF Updated, Items
  <2>6. LegalChange(item[call[c].video], Updated(c))
    BY <2>3, <2>4, <2>5, ItemFacts DEF LegalChange, Record
  <2> QED  BY <1>2, <2>1, <2>2, <2>6, WriteTypes DEF OneChange, Calls
<1>3. CASE ~ PutItem(c) /\ ~ UpdateItem(c)
  BY <1>3 DEF Step, PutRefused, GetRecord, ReadCurrent, UpdateRefused, ReadFresh,
              ServiceError, Finish
<1> QED  BY <1>1, <1>2, <1>3

LEMMA NextChanges ==
    ASSUME TInv, [Next]_vars
    PROVE  UNCHANGED item \/ OneChange
<1>1. CASE UNCHANGED vars
  BY <1>1 DEF vars
<1>2. ASSUME NEW c \in Callers, Begin(c)  PROVE UNCHANGED item
  BY <1>2 DEF Begin, BeginCreate, BeginGet, BeginTransition, Open
<1>3. ASSUME NEW v \in Videos, Cleanup(v)  PROVE OneChange
  BY <1>3 DEF Cleanup, OneChange, LegalChange
<1> QED  BY <1>1, <1>2, <1>3, StepChanges DEF Next

\* However calls interleave, fail and are sent again, records change by one
\* legal transition at a time and keep what their creator wrote (FR-11, FR-12).
THEOREM LegalChangesOnly == Spec => OnlyLegalChanges
<1>1. ASSUME TInv, [Next]_vars
      PROVE  \A v \in Videos : LegalChange(item[v], item'[v])
  <2>1. CASE UNCHANGED item
    BY <2>1 DEF LegalChange
  <2>2. CASE OneChange
    <3>1. PICK w \in Videos, new \in Items \cup {NoItem} :
              item' = [item EXCEPT ![w] = new] /\ LegalChange(item[w], new)
      BY <2>2 DEF OneChange
    <3>2. \A v \in Videos : item'[v] = IF v = w THEN new ELSE item[v]
      BY <3>1, <1>1 DEF TInv, TypeOK
    <3> QED  BY <3>1, <3>2 DEF LegalChange
  <2> QED  BY <1>1, <2>1, <2>2, NextChanges
<1> QED  BY <1>1, TypeInvariance, PTL DEF Spec, OnlyLegalChanges

(***************************************************************************)
(* The table implements the abstract register.                             *)
(***************************************************************************)

shown == [v \in Videos |-> item[v].status]

LEMMA RegisterVocabulary ==
    /\ Register!Absent = Absent /\ Register!UPLOADED = UPLOADED
    /\ Register!STATUSES = STATUSES
    /\ \A from, to : Legal(from, to) => Register!Legal(from, to)
    /\ \A from, to : Legal(from, to) => to \in STATUSES
BY DEF Register!Absent, Register!UPLOADED, Register!STATUSES, Register!Legal,
       Register!LEGAL_TRANSITIONS, Register!PROCESSING, Register!PROCESSED,
       Register!FAILED, Absent, UPLOADED, PROCESSING, PROCESSED, FAILED,
       STATUSES, Legal, LEGAL_TRANSITIONS

LEMMA RegisterStep ==
    ASSUME TInv, [Next]_vars
    PROVE  [Register!Next]_shown
<1>1. CASE UNCHANGED item
  BY <1>1 DEF shown
<1>2. CASE OneChange
  <2>1. PICK v \in Videos, new \in Items \cup {NoItem} :
            item' = [item EXCEPT ![v] = new] /\ LegalChange(item[v], new)
    BY <1>2 DEF OneChange
  <2>2. shown' = [shown EXCEPT ![v] = new.status] /\ shown[v] = item[v].status
    BY <2>1 DEF shown, TInv, TypeOK
  <2>3. CASE item[v] = new
    BY <2>2, <2>3 DEF shown
  <2>4. CASE item[v] = NoItem /\ new.status = UPLOADED
    BY <2>2, <2>4, ItemFacts, RegisterVocabulary DEF Register!Next, Register!Create, shown
  <2>5. CASE item[v] # NoItem /\ new = NoItem
    BY <2>2, <2>5, ItemFacts, RegisterVocabulary
    DEF Register!Next, Register!Remove, shown, TInv, TypeOK
  <2>6. CASE Legal(item[v].status, new.status)
    BY <2>2, <2>6, RegisterVocabulary DEF Register!Next, Register!Move, shown
  <2> QED  BY <2>1, <2>3, <2>4, <2>5, <2>6 DEF LegalChange
<1> QED  BY <1>1, <1>2, NextChanges

\* Seen as bare statuses, the table behaves as StatusRegister.
THEOREM ImplementsRegister == Spec => RegisterSpec
<1>1. Init => Register!Init
  BY ItemFacts, RegisterVocabulary DEF Init, Register!Init
<1>2. TInv /\ [Next]_vars => [Register!Next]_shown
  BY RegisterStep
<1> QED  BY <1>1, <1>2, TypeInvariance, PTL
         DEF Spec, RegisterSpec, Register!Spec, shown

(***************************************************************************)
(* Every answer is true of a moment of its call.  Not inductive alone: an  *)
(* update that was refused must have been seen to lack its source, or the  *)
(* Conflict that the re-read answers would have no ground.                 *)
(***************************************************************************)

RefusedInv ==
    \A c \in Callers : call[c].at = "get_fresh" =>
        \E s \in seen[c] : s # ExpectedSource(call[c].to)

JInv == AnswersJustified /\ RefusedInv

\* While a call is open its history takes in the status each step leaves.
LEMMA SeesNow ==
    ASSUME TInv, Witness, WellTypedStep, NEW c \in Callers,
           call[c].at \in Requests, call'[c] # Idle
    PROVE  seen'[c] = seen[c] \cup {item'[call'[c].video].status}
BY CallFacts DEF Witness

\* A call another caller's step leaves alone forgets nothing.
LEMMA KeepsHistory ==
    ASSUME TInv, Witness, NEW d \in Callers, call[d] # Idle, call'[d] = call[d]
    PROVE  seen[d] \subseteq seen'[d]
BY DEF Witness

LEMMA JInvOthers ==
    ASSUME TInv, JInv, Witness, NEW d \in Callers, call'[d] = call[d]
    PROVE  /\ call'[d] # Idle => Justified(d)'
           /\ call'[d].at = "get_fresh" =>
                 \E s \in seen'[d] : s # ExpectedSource(call'[d].to)
<1>1. CASE call[d] = Idle
  BY <1>1 DEF Idle
<1>2. CASE call[d] # Idle
  <2>1. seen[d] \subseteq seen'[d] /\ Justified(d)
    BY <1>2, KeepsHistory DEF JInv, AnswersJustified
  <2> QED  BY <2>1 DEF Justified, JInv, RefusedInv
<1> QED  BY <1>1, <1>2

\* What a call is after GoTo and Holding.
LEMMA NextRequest ==
    ASSUME TInv, NEW c \in Callers, call[c] \in Calls, NEW r,
           GoTo(c, r) \/ \E i : Holding(c, r, i)
    PROVE  /\ call'[c].at = r
           /\ call'[c].op = call[c].op /\ call'[c].to = call[c].to
           /\ call'[c].video = call[c].video
BY DEF GoTo, Holding, TInv, TypeOK, Calls

LEMMA Held ==
    ASSUME TInv, NEW c \in Callers, call[c] \in Calls, NEW r, NEW i, Holding(c, r, i)
    PROVE  call'[c].got = i
BY DEF Holding, TInv, TypeOK, Calls

LEMMA JInvStep ==
    ASSUME TInv, JInv, Witness, WellTypedStep, NEW c \in Callers, Step(c)
    PROVE  /\ call'[c] # Idle => Justified(c)'
           /\ call'[c].at = "get_fresh" =>
                 \E s \in seen'[c] : s # ExpectedSource(call'[c].to)
<1>1. call[c] \in Calls /\ call[c] # Idle
  BY CallFacts DEF Step, PutItem, PutRefused, GetRecord, ReadCurrent, UpdateItem,
         UpdateRefused, ReadFresh, ServiceError, Finish, Sends, Requests,
         Outcomes, TInv, TypeOK, Idle
<1>2. Record(c) \in Items \cup {NoItem}
  BY <1>1 DEF TInv, TypeOK, Record, Calls
<1>3. CASE Finish(c)
  BY <1>1, <1>3, CallFacts DEF Finish, TInv, TypeOK, Idle
<1>4. CASE ServiceError(c)
  BY <1>1, <1>4, CallFacts DEF ServiceError, GoTo, Justified, TInv, TypeOK, Calls
<1>5. CASE PutItem(c)
  <2>1. call[c].at = "put_item" /\ call[c].op = "create" /\ call[c].video \in Videos
    BY <1>1, <1>5 DEF PutItem, Sends, TInv, CallInv, Calls
  <2>2. item'[call[c].video] = NewItem(c) /\ NewItem(c).status = UPLOADED
    BY <1>5, <2>1 DEF PutItem, NewItem, TInv, TypeOK
  <2>3. CASE UNCHANGED call
    BY <2>1, <2>3 DEF Justified
  <2>4. CASE Holding(c, "ok", NewItem(c))
    <3>1. /\ call'[c].at = "ok" /\ call'[c].got = NewItem(c)
          /\ call'[c].op = "create" /\ call'[c].video = call[c].video
      BY <1>1, <2>1, <2>4, NextRequest, Held
    <3>2. UPLOADED \in seen'[c]
      BY <2>1, <2>2, <3>1, SeesNow, CallFacts DEF Requests, Idle
    <3> QED  BY <2>2, <3>1, <3>2, Vocabulary DEF Justified
  <2> QED  BY <1>5, <2>3, <2>4 DEF PutItem
<1>6. CASE PutRefused(c) \/ UpdateRefused(c)
  <2>1. CASE PutRefused(c)
    <3>1. call'[c].at = "get_existing"
      BY <1>1, <2>1, NextRequest DEF PutRefused
    <3> QED  BY <3>1 DEF Justified
  <2>2. CASE UpdateRefused(c)
    <3>1. /\ call'[c].at = "get_fresh" /\ call[c].at = "update_item"
          /\ call'[c].video = call[c].video /\ call'[c].to = call[c].to
      BY <1>1, <2>2, NextRequest DEF UpdateRefused, Sends
    <3>2. Record(c).status \in seen'[c] /\ Record(c).status # ExpectedSource(call[c].to)
      BY <2>2, <3>1, SeesNow DEF UpdateRefused, MayUpdate, Requests, Record, Idle
    <3> QED  BY <3>1, <3>2 DEF Justified
  <2> QED  BY <1>6, <2>1, <2>2
<1>7. CASE GetRecord(c) \/ ReadCurrent(c) \/ ReadFresh(c)
  <2>1. /\ item' = item
        /\ call[c].at \in {"get_existing", "get_item", "get_fresh"}
    BY <1>7 DEF GetRecord, ReadCurrent, ReadFresh, Sends
  <2>2. call'[c] # Idle /\ call'[c].video = call[c].video =>
            seen'[c] = seen[c] \cup {Record(c).status}
    BY <2>1, SeesNow DEF Requests, Record
  <2>3. CASE GetRecord(c)
    <3>1. call[c].op \in {"create", "get"}
      BY <1>1, <2>3 DEF GetRecord, Sends, TInv, CallInv
    <3>2. CASE Record(c) = NoItem
      <4>1. call'[c].at = "NotFound" /\ call'[c].video = call[c].video
        BY <1>1, <2>3, <3>2, NextRequest DEF GetRecord
      <4> QED  BY <2>2, <3>2, <4>1, ItemFacts DEF Justified, Idle
    <3>3. CASE Record(c) # NoItem
      <4>1. /\ call'[c].at = "ok" /\ call'[c].got = Record(c)
            /\ call'[c].video = call[c].video /\ call'[c].op = call[c].op
        BY <1>1, <2>3, <3>3, NextRequest, Held DEF GetRecord
      <4> QED  BY <1>2, <2>2, <3>1, <3>3, <4>1, ItemFacts DEF Justified, Idle
    <3> QED  BY <3>2, <3>3
  <2>4. CASE ReadCurrent(c)
    <3>1. Decision(c) \in {"NotFound", "ok", "Conflict", "Malformed", "update_item"}
      BY DEF Decision
    <3>2. /\ call'[c].at = Decision(c) /\ call'[c].got = Record(c)
          /\ call'[c].video = call[c].video /\ call'[c].to = call[c].to
      BY <1>1, <2>4, <3>1, NextRequest, Held DEF ReadCurrent
    <3>3. seen'[c] = seen[c] \cup {Record(c).status}
      BY <2>2, <3>1, <3>2 DEF Idle
    <3>4. /\ Decision(c) = "NotFound" => Record(c).status = Absent
          /\ Decision(c) = "ok" => Record(c) \in Items /\ Record(c).status = call[c].to
          /\ Decision(c) = "Conflict" =>
                Record(c) \in Items /\ ExpectedSource(call[c].to) = Absent
      BY <1>2, ItemFacts DEF Decision
    <3> QED  BY <3>1, <3>2, <3>3, <3>4, ItemFacts DEF Justified
  <2>5. CASE ReadFresh(c)
    <3>1. \E s \in seen[c] : s # ExpectedSource(call[c].to)
      BY <2>5 DEF ReadFresh, Sends, JInv, RefusedInv
    <3>2. /\ call'[c].at = (IF Record(c) = NoItem THEN "NotFound" ELSE "Conflict")
          /\ call'[c].got = Record(c)
          /\ call'[c].video = call[c].video /\ call'[c].to = call[c].to
      BY <1>1, <2>5, NextRequest, Held DEF ReadFresh
    <3>3. seen'[c] = seen[c] \cup {Record(c).status}
      BY <2>2, <3>2 DEF Idle
    <3> QED  BY <1>2, <3>1, <3>2, <3>3, ItemFacts DEF Justified
  <2> QED  BY <1>7, <2>3, <2>4, <2>5
<1>8. CASE UpdateItem(c)
  <2>1. call[c].at = "update_item" /\ call[c].video \in Videos
    BY <1>1, <1>8 DEF UpdateItem, Sends, Calls
  <2>2. Updated(c) \in Items /\ item'[call[c].video] = Updated(c)
    BY <1>8, <2>1, WriteTypes DEF UpdateItem, TInv, TypeOK
  <2>3. CASE UNCHANGED call
    BY <2>1, <2>3 DEF Justified
  <2>4. CASE Holding(c, "ok", Updated(c))
    <3>1. /\ call'[c].at = "ok" /\ call'[c].got = Updated(c)
          /\ call'[c].to = call[c].to /\ call'[c].video = call[c].video
      BY <1>1, <2>4, NextRequest, Held
    <3>2. Updated(c).status \in seen'[c]
      BY <2>1, <2>2, <3>1, SeesNow DEF Requests, Idle
    <3>3. Updated(c).status = call[c].to
      <4>1. Record(c) \in Items
        <5>1. Record(c).status # Absent
          BY <1>1, <1>8, <2>1 DEF UpdateItem, MayUpdate, TInv, CallInv
        <5> QED  BY <1>2, <5>1, ItemFacts
      <4> QED  BY <4>1 DEF Updated, Items
    <3> QED  BY <2>2, <3>1, <3>2, <3>3, ItemFacts DEF Justified
  <2> QED  BY <1>8, <2>3, <2>4 DEF UpdateItem
<1> QED  BY <1>3, <1>4, <1>5, <1>6, <1>7, <1>8 DEF Step

LEMMA JInvBegin ==
    ASSUME TInv, NEW c \in Callers, Begin(c)
    PROVE  /\ call'[c] # Idle => Justified(c)'
           /\ call'[c].at # "get_fresh"
<1>1. call'[c].at \in {"put_item", "get_item", "Malformed"}
  BY DEF Begin, BeginCreate, BeginGet, BeginTransition, Open, TInv, TypeOK
<1> QED  BY <1>1 DEF Justified

LEMMA JInvNext == TInv /\ JInv /\ [Next]_vars => JInv'
<1> SUFFICES ASSUME TInv, JInv, [Next]_vars  PROVE JInv'
  OBVIOUS
<1>1. CASE UNCHANGED vars
  BY <1>1 DEF vars, JInv, AnswersJustified, RefusedInv, Justified
<1>2. ASSUME NEW c \in Callers, Begin(c) \/ Step(c), Witness
      PROVE  JInv'
  <2>1. WellTypedStep
    BY <1>2, TInvBegin, TInvStep
  <2>2. \A d \in Callers \ {c} : call'[d] = call[d]
    BY <1>2 DEF Begin, BeginCreate, BeginGet, BeginTransition, Open, Step, PutItem,
        PutRefused, GetRecord, ReadCurrent, UpdateItem, UpdateRefused, ReadFresh,
        ServiceError, Finish, GoTo, Holding, TInv, TypeOK
  <2>3. \A d \in Callers :
            /\ call'[d] # Idle => Justified(d)'
            /\ call'[d].at = "get_fresh" =>
                  \E s \in seen'[d] : s # ExpectedSource(call'[d].to)
    BY <1>2, <2>1, <2>2, JInvOthers, JInvStep, JInvBegin
  <2> QED  BY <2>3 DEF JInv, AnswersJustified, RefusedInv
<1>3. ASSUME NEW v \in Videos, Cleanup(v), Witness
      PROVE  JInv'
  <2>1. \A d \in Callers : call'[d] = call[d]
    BY <1>3 DEF Cleanup
  <2> QED  BY <1>3, <2>1, JInvOthers DEF JInv, AnswersJustified, RefusedInv
<1> QED  BY <1>1, <1>2, <1>3 DEF Next

\* No caller is ever told something that was not so at some moment of its
\* call: a record that was never there, a NotFound for one that always was, a
\* Conflict for one that had the required source throughout.
THEOREM AnswersTrue == Spec => []AnswersJustified
<1>1. Init => JInv
  BY DEF Init, JInv, AnswersJustified, RefusedInv, Idle
<1>2. JInv => AnswersJustified
  BY DEF JInv
<1> QED  BY <1>1, <1>2, JInvNext, TypeInvariance, PTL DEF Spec
=============================================================================
