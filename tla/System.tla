------------------------------- MODULE System -------------------------------
(***************************************************************************)
(* The whole system: the ingest and processing legs of Pipeline, with the  *)
(* history leg and the search leg on the events they publish, and the      *)
(* search query.  The legs keep their own queue and tables and share the   *)
(* metadata table, which they only read.                                   *)
(*                                                                         *)
(* Events of others are left to the legs' own modules: every message here  *)
(* comes from the event-publisher, once or again, and so no item rests on  *)
(* anybody else's word.                                                    *)
(***************************************************************************)
EXTENDS Pipeline

CONSTANTS Consumers,   \* concurrent invocations of either consumer
          Untitled,    \* videos whose record has no usable title
          StaleReads   \* whether reads of video-metadata may lag

ASSUME SystemAssumption == Untitled \subseteq Videos /\ StaleReads \in BOOLEAN

VARIABLES historyQueue, historyWorker, history, query,   \* the history leg
          searchQueue, searchWorker, index,              \* the search leg
          cleared, clearing, rebuild,
          hits                 \* the videos the last search was answered with

historyLeg == <<historyQueue, historyWorker, history, query>>
searchLeg  == <<searchQueue, searchWorker, index, cleared, clearing, rebuild>>
legs       == <<historyLeg, searchLeg, hits>>
systemVars == <<vars, legs>>

H == INSTANCE History WITH
         Ghosts <- {}, Foreign <- {}, queue <- historyQueue, worker <- historyWorker

S == INSTANCE Search WITH
         Ghosts <- {}, Foreign <- {}, hearsay <- {},
         queue <- searchQueue, worker <- searchWorker

SystemInit == Init /\ H!Init /\ S!Init /\ hits = {}

-----------------------------------------------------------------------------
Event(v) == H!Event(v)

\* Mutant of FanOut: one rule has lost its target.
FanOutToHistory(v) == /\ historyQueue' = historyQueue \cup {Event(v)}
                      /\ UNCHANGED <<historyWorker, history, query, searchLeg, hits>>

\* The two rules copy video.processed to the queue of each consumer.
FanOut(v) == /\ historyQueue' = historyQueue \cup {Event(v)}
             /\ searchQueue' = searchQueue \cup {Event(v)}
             /\ UNCHANGED <<historyWorker, history, query, searchWorker, index,
                            cleared, clearing, rebuild, hits>>

Publish(n) == PublishProcessed(n) /\ FanOut(VideoOf(n))

\* Everything else the ingest and processing legs and their operator do.
Produce == /\ \/ \E v \in Videos : Upload(v) \/ Redeliver(v) \/ Shim(v) \/ Operator(v)
              \/ \E n \in Execs : Task(n)
           /\ UNCHANGED legs

InHistory(A) == UNCHANGED <<vars, searchLeg, hits>> /\ A

InSearch(A) == UNCHANGED <<vars, historyLeg, hits>> /\ A

HistoryStep ==
    \/ \E v \in announced : H!Deliver(Event(v)) /\ UNCHANGED <<history, query>>
    \/ \E e \in history : H!CleanUp(e)
    \/ \E c \in Consumers : H!Consume(c)
    \/ H!Ask

SearchStep ==
    \/ \E v \in announced : S!Deliver(Event(v))
                             /\ UNCHANGED <<index, cleared, clearing, rebuild>>
    \/ \E v \in Videos : S!ClearItem(v) \/ S!CleanUp(v)
    \/ \E c \in Consumers : S!Consume(c)
    \/ S!Rebuild
    \/ S!ClearScan

\* search-query: one scan, the items whose title contains the needle.
SearchQuery == /\ \E matching \in SUBSET Videos : hits' = index \cap matching
               /\ UNCHANGED <<vars, historyLeg, searchLeg>>

SystemNext == \/ Produce
              \/ \E n \in Execs : Publish(n)
              \/ InHistory(HistoryStep)
              \/ InSearch(SearchStep)
              \/ SearchQuery

SystemSpec == SystemInit /\ [][SystemNext]_systemVars

\* As in Pipeline, History and Search.
SystemFairness ==
    /\ \A v \in Videos :
        /\ WF_systemVars(Serve(v) /\ UNCHANGED legs)
        /\ WF_systemVars(Shim(v) /\ UNCHANGED legs)
        /\ SF_systemVars(\E c \in Consumers : InHistory(H!Take(c, Event(v))))
        /\ SF_systemVars(\E c \in Consumers :
               historyWorker[c].msg = Event(v) /\ InHistory(H!LookUp(c)))
        /\ SF_systemVars(\E c \in Consumers :
               historyWorker[c].msg = Event(v) /\ InHistory(H!Append(c)))
        /\ SF_systemVars(\E c \in Consumers : InSearch(S!Take(c, Event(v))))
        /\ SF_systemVars(\E c \in Consumers :
               searchWorker[c].msg = Event(v) /\ InSearch(S!LookUp(c)))
        /\ SF_systemVars(\E c \in Consumers :
               searchWorker[c].msg = Event(v) /\ InSearch(S!Put(c)))
    /\ \A n \in Execs :
        WF_systemVars((Task(n) /\ UNCHANGED legs) \/ Publish(n))
    /\ \A c \in Consumers : /\ WF_systemVars(InHistory(H!Consume(c)))
                            /\ WF_systemVars(InSearch(S!Consume(c)))

-----------------------------------------------------------------------------
(* Properties.                                                             *)

\* Each leg, on the events the processing leg really publishes, is the leg of
\* its own module, so that all that is shown there holds of the whole system.
HistorySpec == H!Spec
SearchSpec  == S!Spec

\* FR-1, FR-14, FR-15, FR-17 end to end: at every moment an accepted video is
\* somewhere.  Its message is queued, its execution runs or has visibly failed,
\* or each derived store has it or still has its message.
NothingLost ==
    \A v \in Videos \ deleted : request[v] = "ok" =>
        \/ v \in triggerQueue
        \/ at[v] \in Running \cup {"failed"}
        \/ /\ Event(v) \in historyQueue \/ H!EntryFor(Event(v)) # {}
           /\ Event(v) \in searchQueue \/ v \in index \cup cleared \cup Untitled

\* FR-18 over FR-6: whatever was cleared, rebuilt or redelivered, a hit that the
\* search has answered names a PROCESSED video whose processedKey names an
\* object, until the operator removes the video.
HitsAreServable ==
    \A v \in hits \ deleted : /\ status[v] = PROCESSED
                              /\ processedKey[v] \in processed

\* The two client journeys: an accepted upload ends in both derived stores,
\* unless its execution fails visibly or the operator removes it.
Recorded(v) == H!EntryFor(Event(v)) # {}
Indexed(v)  == v \in index \cup cleared \cup Untitled

UploadIsServed ==
    \A v \in Videos :
        request[v] = "ok" ~> \/ Recorded(v) /\ Indexed(v)
                             \/ at[v] = "failed"
                             \/ v \in deleted
=============================================================================
