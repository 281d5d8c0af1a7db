--------------------------- MODULE VideoLifecycle ---------------------------
(***************************************************************************)
(* The life of a video as the derived stores may rely on it: the metadata  *)
(* record appears, walks the legal transitions, may be removed for good,   *)
(* and a terminal video.processed event exists only for a record whose     *)
(* PROCESSED status was written first.  Pipeline implements this module;   *)
(* the consumers read nothing else of the processing leg.                  *)
(***************************************************************************)
EXTENDS Status

CONSTANT Videos

VARIABLES status,     \* the status of each record, its last one if removed
          deleted,    \* the videoIds whose record has been removed
          announced   \* the videoIds that have a video.processed event

vars == <<status, deleted, announced>>

TypeOK == /\ status \in [Videos -> STATUSES \cup {Absent}]
          /\ deleted \in SUBSET Videos
          /\ announced \in SUBSET Videos

Init == /\ status = [v \in Videos |-> Absent]
        /\ deleted = {}
        /\ announced = {}

Create(v) == /\ status[v] = Absent
             /\ status' = [status EXCEPT ![v] = UPLOADED]
             /\ UNCHANGED <<deleted, announced>>

Move(v, to) == /\ v \notin deleted
               /\ Legal(status[v], to)
               /\ status' = [status EXCEPT ![v] = to]
               /\ UNCHANGED <<deleted, announced>>

Announce(v) == /\ status[v] = PROCESSED
               /\ announced' = announced \cup {v}
               /\ UNCHANGED <<status, deleted>>

Remove(v) == /\ status[v] # Absent
             /\ deleted' = deleted \cup {v}
             /\ UNCHANGED <<status, announced>>

Next == \E v \in Videos : \/ Create(v)
                          \/ \E to \in STATUSES : Move(v, to)
                          \/ Announce(v)
                          \/ Remove(v)

Spec == Init /\ [][Next]_vars

\* The status a reader of the table finds.
Visible == [v \in Videos |-> IF v \in deleted THEN Absent ELSE status[v]]

\* A lifecycle is a legal history of the table.
Register == INSTANCE StatusRegister WITH status <- Visible

RegisterSpec == Register!Spec
=============================================================================
