------------------------------ MODULE Lexemes ------------------------------
(***************************************************************************)
(* The texts the lexer reads, as sequences of lexemes.  What a lexeme is   *)
(* made of is abstracted:                                                  *)
(*   a member of Words   a token the parser sees                           *)
(*   "nl"                a newline, which the parser sees as well          *)
(*   "space" "slc" "mlc" a space, a line comment, a closed block comment   *)
(*   "open"              a block comment the text ends inside of           *)
(*   "bad"               text no token can be made of: a byte >= 0x80, a   *)
(*                       name or a string longer than a token may be       *)
(***************************************************************************)
EXTENDS Naturals, Sequences

CONSTANTS
  Words,  \* the kinds of tokens other than the newline
  Inputs  \* the texts

Blank  == {"space", "slc", "mlc"}
Faulty == {"open", "bad"}

(* The end of the text, as a token and as the lexeme after the last one. *)
Eof == "eof"

Tokens == Words \cup {"nl", Eof}

ASSUME WordsAssumption ==
  /\ \A w \in Blank \cup Faulty \cup {"nl", Eof} : w \notin Words
  /\ "none" \notin Words /\ "error" \notin Words

(* A block comment that is not closed runs to the end of its text. *)
ASSUME InputsAssumption ==
  \A text \in Inputs :
    /\ text \in Seq(Words \cup Blank \cup Faulty \cup {"nl"})
    /\ \A k \in 1..Len(text) : text[k] = "open" => k = Len(text)

(* The lexeme at position k; one past the last is the end of the text. *)
LexemeAt(text, k) == IF k <= Len(text) THEN text[k] ELSE Eof
=============================================================================
