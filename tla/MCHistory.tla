----------------------------- MODULE MCHistory -----------------------------
(* History for TLC: what others send of the videos, which have a record or *)
(* not yet, under the publisher's eventId and under another.               *)
EXTENDS History

\* An UPLOADED event that carries the eventId of the publisher's, a PROCESSED
\* event that comes too early, and an unusable one.
MCForeign == [from : {"other"}, id : Videos, video : Videos, status : {UPLOADED}]
             \cup [from : {"other"}, id : Ghosts, video : Videos,
                   status : {PROCESSED, Unusable}]
=============================================================================
