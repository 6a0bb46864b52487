------------------------------ MODULE MCParser ------------------------------
(* The parser on every text of a few families, against what the grammar    *)
(* derives.                                                                *)
EXTENDS Parser, Derivations

Text == SelectSeq(read, LAMBDA t : t \notin {Eof, "open"})

Texts(kinds, faults, tokens, nested, bad, depth) ==
  [ kinds |-> kinds, faults |-> faults, tokens |-> tokens, nested |-> nested,
    bad |-> bad, depth |-> depth ]

MCFamilies ==
  { Texts({"echo", "number", "id", ":=", "=", "nl", ";"}, {}, 5, 0, 0, 40),
    Texts({"echo", "number", "+", "*", "(", ")"}, {}, 6, 1, 0, 40),
    Texts({"echo", "number", "-", "/", "nl"}, {}, 5, 0, 0, 40),
    Texts({"echo", "number", "(", ")"}, {}, 6, 2, 0, 60),
    Texts({"if", "number", "then", "else", "echo"}, {}, 7, 1, 0, 60),
    Texts({"if", "number", "else", "echo", "{", "}"}, {}, 7, 1, 0, 60),
    Texts({"echo", "number", "+", "nl"}, {"bad", "open"}, 5, 0, 1, 14),
    Texts({"echo", "number", "("}, {"bad"}, 4, 2, 1, 14) }

(* What the grammar derives of every family, but a text with a fault. *)
Language ==
  [ f \in MCFamilies |->
      IF f.faults # {} THEN {}
      ELSE Sentences(f.kinds, "prog", f.tokens, Nested, f.nested) ]

(* No text the grammar derives is rejected, whatever was still to be read  *)
(* when the parser gave up, and its tree is one the grammar gives it.      *)
ProgramsAreParsed ==
  /\ outcome.verdict = "rejected" =>
       \A text \in Language[family] : IF Ended THEN text # Text ELSE ~IsPrefix(Text, text)
  /\ outcome.verdict = "accepted" /\ Text \in Language[family] =>
       outcome.ast \in Programs(Text)

(* What is accepted beyond the grammar is a program with operators that    *)
(* have no right operand: blanked out, they leave a program with the tree  *)
(* that was built (parser.c:504-507, 520-521 drop the operator of a folded chain). *)
Operators == {"+", "-", "*", "/"}

WithoutTokens(text, at) == [k \in DOMAIN text |-> IF k \in at THEN "nl" ELSE text[k]]

OnlyOperatorsAreDropped ==
  outcome.verdict = "accepted" /\ "if" \notin family.kinds =>
    \E dropped \in SUBSET {k \in DOMAIN Text : Text[k] \in Operators} :
      /\ \A k \in dropped : k + 1 \notin DOMAIN Text \/ Text[k + 1] # "number"
      /\ outcome.ast \in Programs(WithoutTokens(Text, dropped))
=============================================================================
