----------------------------- MODULE MCTokenLog -----------------------------
(* Every text of at most MaxLexemes lexemes over one word and every other  *)
(* kind of lexeme.                                                         *)
EXTENDS TokenLog, SequencesExt

CONSTANTS word, MaxLexemes

MCWords == {word}

MCInputs ==
  { text \in SeqOf({word, "nl", "space", "slc", "mlc", "open", "bad"},
                   MaxLexemes) :
      \A k \in 1..Len(text) : text[k] = "open" => k = Len(text) }
=============================================================================
