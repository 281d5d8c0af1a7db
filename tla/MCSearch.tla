------------------------------ MODULE MCSearch ------------------------------
(* Search for TLC: what others send of the videos, early or late: a        *)
(* PROCESSED event, and one the filter is there for.                       *)
EXTENDS Search

MCForeign == [from : {"other"}, id : Ghosts, video : Videos \ Untitled,
              status : {PROCESSED, UPLOADED}]
=============================================================================
