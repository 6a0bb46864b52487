--------------------------- MODULE MCStackMachine ---------------------------
(* The stack machine of bytes, with a code and a stack that are too small  *)
(* for some programs and a pool that is for some strings.                  *)
EXTENDS StackMachine

MCNumbers == {0, -1, MinInt}
=============================================================================
