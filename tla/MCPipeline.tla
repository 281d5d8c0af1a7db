----------------------------- MODULE MCPipeline -----------------------------
(* Pipeline for TLC: file names with and without trailing white space.     *)
EXTENDS Pipeline

\* "clip " stands for any name strip() shortens, " " for one it empties.
MCStrip(n) == CASE n = "clip " -> "clip"
                [] n = " "     -> ""
                [] OTHER       -> n
=============================================================================
