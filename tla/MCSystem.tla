------------------------------ MODULE MCSystem ------------------------------
(* System for TLC: file names that strip() leaves alone.                   *)
EXTENDS System

MCStrip(n) == n

\* The history query is not asked in the middle of a rebuild or a clearing of the
\* index: they share no state that either writes.
MCApart == query = H!NoQuery \/ (~ S!Running /\ clearing = {})

\* The liveness run: no query is asked and the index is neither rebuilt nor
\* cleared, which bounds the state graph; those steps give nothing up.
MCQuiet == UNCHANGED <<query, hits, rebuild, clearing>>

MCQuietSpec == /\ SystemInit
               /\ [][SystemNext /\ MCQuiet]_systemVars
               /\ SystemFairness
=============================================================================
