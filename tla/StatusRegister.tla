--------------------------- MODULE StatusRegister ---------------------------
(***************************************************************************)
(* What the video-metadata table promises about a status, whoever writes   *)
(* it: a record appears as UPLOADED, walks the legal transitions one at a  *)
(* time, and may be removed.  The shared layer (MetadataStore) and the     *)
(* processing leg (VideoLifecycle, Pipeline) both implement it.            *)
(***************************************************************************)
EXTENDS Status

CONSTANT Videos

VARIABLE status

Init == status = [v \in Videos |-> Absent]

Create(v) == /\ status[v] = Absent
             /\ status' = [status EXCEPT ![v] = UPLOADED]

Move(v, to) == /\ Legal(status[v], to)
               /\ status' = [status EXCEPT ![v] = to]

Remove(v) == /\ status[v] # Absent
             /\ status' = [status EXCEPT ![v] = Absent]

Next == \E v \in Videos : \/ Create(v)
                          \/ \E to \in STATUSES : Move(v, to)
                          \/ Remove(v)

Spec == Init /\ [][Next]_status
=============================================================================
