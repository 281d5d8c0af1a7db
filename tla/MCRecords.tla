----------------------------- MODULE MCRecords -----------------------------
(* Records for TLC: one video beside an unknown one.  An eventId of the     *)
(* video is written as its status; "odd id" cannot name an execution.       *)
EXTENDS Records, FiniteSets, Naturals

MCEventId  == [x \in Videos \X STATUSES |-> x[2]]
MCNameable == STATUSES
MCIds      == MCNameable \cup {"odd id"}

\* A word as it should be, and in the ways it should not be.
Forms(w) == {Plain(w), <<w, TRUE>>, <<"", TRUE>>, NoText}

Differ(x, y) == {f \in DOMAIN x : x[f] # y[f]}

\* A video.processed with at most one field as it should not be, or with a
\* faulty status, which only the history consumer checks, beside a missing
\* processedKey, which only the search consumer asks for.
Proper == [eventId |-> Plain(PROCESSED), videoId |-> Plain("v1"),
           status |-> Plain(PROCESSED), object |-> Plain("object"),
           processedKey |-> Plain("file")]

MCDetails ==
    {d \in [eventId : Forms(PROCESSED) \cup {Plain("odd id")},
            videoId : Forms("v1") \cup {Plain("stranger")},
            status : Forms(PROCESSED) \cup {Plain(UPLOADED), Plain("bogus")},
            object : Forms("object"), processedKey : Forms("file")] :
       \/ Cardinality(Differ(d, Proper)) <= 1
       \/ Differ(d, Proper) = {"status", "processedKey"} /\ d.processedKey = NoText}

\* A record as it should be, one without a title, one that is not PROCESSED, and
\* one without its key.
Complete == [status |-> PROCESSED, title |-> Plain("title"), processedKey |-> Plain("file")]

MCKnown == {Complete, [Complete EXCEPT !.title = NoText],
            [Complete EXCEPT !.status = UPLOADED, !.processedKey = NoText],
            [Complete EXCEPT !.processedKey = NoText]}
=============================================================================
