----------------------------- MODULE MCHashMap -----------------------------
(* The hash map with a table that starts at two rows, and keys that all    *)
(* share a list in it: "a", "b" and "e" in a table of eight rows as well,  *)
(* while "c" leaves them when the table grows to eight.                    *)
EXTENDS HashMap

MCHash == [k \in Keys |-> CASE k = "a" -> 0 [] k = "b" -> 8 [] k = "c" -> 4 [] OTHER -> 16]
=============================================================================
