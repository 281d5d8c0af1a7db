---------------------------- MODULE DerivedStore ----------------------------
(***************************************************************************)
(* What a table derived from the videos' events promises, whoever writes   *)
(* it: a row is only written for a video that is PROCESSED, or that had a  *)
(* record and that somebody else sends events about; the event of a video  *)
(* is settled only once its row stands, or its video is removed or has     *)
(* nothing to store; and rows go only by the operator's hand.  The history *)
(* leg and the search leg both implement it, and neither reader of a table *)
(* relies on more.                                                         *)
(***************************************************************************)
EXTENDS VideoLifecycle

CONSTANTS Open,       \* the videos that others than the publisher send events about
          Rowless,    \* the videos that have nothing to store
          Clearable   \* whether rows of a video that is not removed may go

VARIABLES rows,    \* the videos that have a row
          taken,   \* those not removed whose row has been taken away
          owed     \* the videos whose event has been told and not been settled

store     == <<rows, taken, owed>>
storeVars == <<vars, store>>

StoreInit == Init /\ rows = {} /\ taken = {} /\ owed = {}

Live(v) == /\ Create(v) \/ (\E to \in STATUSES : Move(v, to))
           /\ UNCHANGED store

Forget(v) == /\ Remove(v)
             /\ taken' = taken \ {v}
             /\ UNCHANGED <<rows, owed>>

\* The event of a video, announced or told again.
Tell(v) == /\ Announce(v) \/ (v \in announced /\ UNCHANGED vars)
           /\ owed' = owed \cup {v}
           /\ UNCHANGED <<rows, taken>>

Write(v) == /\ v \notin Rowless
            /\ status[v] = PROCESSED \/ (v \in Open /\ status[v] # Absent)
            /\ rows' = rows \cup {v}
            /\ taken' = taken \ {v}
            /\ UNCHANGED <<vars, owed>>

Settle(v) == /\ v \in owed \cap (rows \cup taken \cup deleted \cup Rowless)
             /\ owed' = owed \ {v}
             /\ UNCHANGED <<vars, rows, taken>>

Erase(v) == /\ v \in rows
            /\ Clearable \/ v \in deleted
            /\ rows' = rows \ {v}
            /\ taken' = taken \cup ({v} \ deleted)
            /\ UNCHANGED <<vars, owed>>

StoreNext == \E v \in Videos : \/ Live(v) \/ Forget(v) \/ Tell(v)
                               \/ Write(v) \/ Settle(v) \/ Erase(v)

StoreSpec == StoreInit /\ [][StoreNext]_storeVars

\* What a reader of the table is owed: an announced video has its row, or its event
\* is still to be settled, or there is a reason why it has none.
NothingForgotten ==
    announced \subseteq rows \cup owed \cup taken \cup deleted \cup Rowless
=============================================================================
