----------------------------- MODULE MCTreeWalk -----------------------------
(* An instance of TreeWalk for TLC: an empty content, two that differ after *)
(* the first block only, one of their size with another block, and a longer *)
(* one with their block.                                                    *)
EXTENDS TreeWalk

MCContents == {"empty", "a1", "a2", "b", "c"}
MCSize     == [c \in MCContents |-> CASE c = "empty" -> 0 [] c = "c" -> 2 [] OTHER -> 1]
MCHead64   == [c \in MCContents |-> IF c \in {"a1", "a2", "c"} THEN "a" ELSE c]
=============================================================================
