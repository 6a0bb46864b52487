----------------------------- MODULE MCScanner -----------------------------
(* The scanner on every text of some alphabets, short ones that are read   *)
(* in blocks of two characters.                                            *)
EXTENDS Scanner

Texts(alphabet, length) == UNION {[1 .. n -> alphabet] : n \in 0 .. length}

MCFiles ==
  Texts({"/", "*", NL, "a"}, 6)
  \cup Texts({".", "=", "<", ">"}, 4)
  \cup Texts({"i", "f", "1", " ", "@"}, 4)
  \cup Texts({"a", NL, "\"", "BAD", "+"}, 4)
  \cup Texts({"a", NUL, "\"", "="}, 3)

MCWords == << <<"i","f">>, <<"i","n">> >>
=============================================================================
