---------------------------- MODULE TokenStream ----------------------------
(***************************************************************************)
(* What the lexer promises the parser (lexer.h): a stream of significant   *)
(* tokens over a text, with a cursor that lexer_mark reads and             *)
(* lexer_rewind_to moves back.  It is written as if the text could be read *)
(* again from any position; the program reads its file once and keeps a    *)
(* log instead (module TokenLog, which implements this one).               *)
(***************************************************************************)
EXTENDS Lexemes

VARIABLES
  input,    \* the text
  cursor,   \* lexemes of it the parser is past
  gone,     \* the bad lexemes that have been reported
  calling,  \* a lexer_next_significant is in progress
  reply,    \* what the last one returned
  marks     \* the positions the parser may come back to

vars == <<input, cursor, gone, calling, reply, marks>>

Lexeme(k) == LexemeAt(input, k)

Positions == 1 .. Len(input) + 1

(* The next position that is still to be read after the cursor. *)
Reaches(k) ==
  /\ k \in Positions
  /\ k > cursor
  /\ k \notin gone
  /\ \A j \in Positions : cursor < j /\ j < k => j \in gone

Init ==
  /\ input \in Inputs
  /\ cursor = 0
  /\ gone = {}
  /\ calling = FALSE
  /\ reply = "none"
  /\ marks = {}

Call ==
  /\ ~calling
  /\ calling' = TRUE
  /\ UNCHANGED <<input, cursor, gone, reply, marks>>

(* A space or a comment is passed over. *)
Skip ==
  /\ calling
  /\ \E k \in Positions :
       /\ Reaches(k)
       /\ Lexeme(k) \in Blank
       /\ cursor' = k
  /\ UNCHANGED <<input, gone, calling, reply, marks>>

(* A token, a newline or the end of the text is handed over. *)
Deliver ==
  /\ calling
  /\ \E k \in Positions :
       /\ Reaches(k)
       /\ Lexeme(k) \in Tokens
       /\ cursor' = k
       /\ reply' = Lexeme(k)
  /\ calling' = FALSE
  /\ UNCHANGED <<input, gone, marks>>

(* At the end, the end is all there is. *)
DeliverEofAgain ==
  /\ ~calling
  /\ cursor = Len(input) + 1
  /\ reply' = Eof
  /\ UNCHANGED <<input, cursor, gone, calling, marks>>

(* A bad lexeme makes one call fail, and no later call sees it. *)
FailOnce ==
  /\ calling
  /\ \E k \in Positions :
       /\ Reaches(k)
       /\ Lexeme(k) = "bad"
       /\ gone' = gone \cup {k}
  /\ reply' = "error"
  /\ calling' = FALSE
  /\ UNCHANGED <<input, cursor, marks>>

(* An open comment makes every call that reaches it fail. *)
FailAtOpenComment ==
  /\ calling
  /\ \E k \in Positions :
       /\ Reaches(k)
       /\ Lexeme(k) = "open"
       /\ cursor' = k
  /\ reply' = "error"
  /\ calling' = FALSE
  /\ UNCHANGED <<input, gone, marks>>

Mark ==
  /\ ~calling
  /\ marks' = marks \cup {cursor}
  /\ UNCHANGED <<input, cursor, gone, calling, reply>>

Rewind ==
  /\ ~calling
  /\ \E m \in marks : m <= cursor /\ cursor' = m
  /\ UNCHANGED <<input, gone, calling, reply, marks>>

Next ==
  \/ Call \/ Skip \/ Deliver \/ DeliverEofAgain
  \/ FailOnce \/ FailAtOpenComment
  \/ Mark \/ Rewind

Spec == Init /\ [][Next]_vars
=============================================================================
