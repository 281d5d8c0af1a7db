------------------------------- MODULE Status -------------------------------
(***************************************************************************)
(* The vocabulary of the shared layer (lambdas/_shared/status.py and       *)
(* events.py): the statuses of a video, the table of legal transitions,    *)
(* its inverted view (the :expected value of every conditional write) and  *)
(* the two event names with the status each must carry.                    *)
(***************************************************************************)

UPLOADED   == "UPLOADED"
PROCESSING == "PROCESSING"
PROCESSED  == "PROCESSED"
FAILED     == "FAILED"

STATUSES          == {UPLOADED, PROCESSING, PROCESSED, FAILED}
TERMINAL_STATUSES == {PROCESSED, FAILED}

\* Not a status: what a lookup of a missing item, or of a target that no
\* transition reaches, yields in place of one.
Absent == "absent"

LEGAL_TRANSITIONS ==
    [s \in STATUSES |-> CASE s = UPLOADED   -> {PROCESSING}
                          [] s = PROCESSING -> {PROCESSED, FAILED}
                          [] OTHER          -> {}]

\* _EXPECTED_SOURCE.get(to): the unique legal source of a target, Absent for
\* UPLOADED, which only create_record mints.
ExpectedSource(to) ==
    IF \E s \in STATUSES : to \in LEGAL_TRANSITIONS[s]
    THEN CHOOSE s \in STATUSES : to \in LEGAL_TRANSITIONS[s]
    ELSE Absent

\* The assertion status.py makes at import: inverting the table loses nothing,
\* because no target has two sources.
SingleSource ==
    \A s, t \in STATUSES :
        LEGAL_TRANSITIONS[s] \cap LEGAL_TRANSITIONS[t] # {} => s = t

Legal(from, to) == from \in STATUSES /\ to \in LEGAL_TRANSITIONS[from]

TRANSITION_EXTRA_ATTRIBUTES ==
    {"processedKey", "failureReason", "durationSeconds"}
=============================================================================
