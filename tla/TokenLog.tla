------------------------------ MODULE TokenLog ------------------------------
(***************************************************************************)
(* The token log of the lexer (lexer.c: lexer_log_*, lexer_mark,           *)
(* lexer_rewind_to and lexer_next_significant).                            *)
(*                                                                         *)
(* The file is read once.  Every token that was lexed is kept in a log,    *)
(* blanks and comments included, and a rewind only moves a position in it: *)
(* a call replays the log up to its end and lexes live from there on.      *)
(* A closed block comment is two steps of the log, its start and the       *)
(* newline the lexer invents for it; text that cannot be lexed leaves no   *)
(* step at all.  One iteration of the loop of lexer_next_significant is    *)
(* one action.                                                             *)
(*                                                                         *)
(* Lexer.line and Lexer.col are abstracted to what they account for: a     *)
(* lexeme has two parts, its opening (the "/*" of a comment) and the rest, *)
(* and `where` is the set of parts that were counted.  A failed allocation *)
(* and a failed read are not modelled.                                     *)
(***************************************************************************)
EXTENDS Lexemes

VARIABLES
  input,      \* the text
  reader_pos, \* lexemes the Reader has handed out
  steps,      \* Lexer.steps[0 .. steps_len - 1]
  steps_pos,  \* Lexer.steps_pos
  at_eof,     \* Lexer.at_eof
  where,      \* Lexer.line and Lexer.col
  calling,    \* inside the loop of lexer_next_significant
  reply,      \* what the last call returned
  marks       \* the marks the parser keeps

lexer == <<reader_pos, steps, steps_pos, at_eof, where>>
vars  == <<input, lexer, calling, reply, marks>>

(* The lexeme that n steps of the log end with. *)
After(n) == IF n = 0 THEN 0 ELSE steps[n].at

Reported == {k \in 1..reader_pos : input[k] = "bad"}

Held == {After(m) : m \in marks}

(* The stream this log implements. *)
Stream == INSTANCE TokenStream
            WITH cursor <- After(steps_pos), gone <- Reported, marks <- Held

Lexeme(k) == LexemeAt(input, k)

Parts(k)   == {k} \X {"opening", "rest"}
Opening(k) == <<k, "opening">>

(* A LexStep: w is its line and col.  The field `at` is history, the       *)
(* lexeme the step ends with: only the properties read it.                 *)
Step(t, f, p, w) == [tok |-> t, failed |-> f, at |-> p, where |-> w]

Init ==
  /\ input \in Inputs
  /\ reader_pos = 0
  /\ steps = <<>>
  /\ steps_pos = 0
  /\ at_eof = FALSE
  /\ where = {}
  /\ calling = FALSE
  /\ reply = "none"
  /\ marks = {}

-----------------------------------------------------------------------------
(* lexer_next_significant *)

(* A definition marked "Mistake" is the one that follows it with a bug the *)
(* code could well have; nothing uses it but the check of the properties.  *)

(* Mistake: the end is known, although a rewind left tokens to replay. *)
CallAtEofRewound ==
  /\ ~calling
  /\ at_eof
  /\ reply' = steps[Len(steps)].tok
  /\ UNCHANGED <<input, lexer, calling, marks>>

(* The end-of-file token is in the log and everything was replayed. *)
CallAtEof ==
  /\ ~calling
  /\ at_eof /\ steps_pos >= Len(steps)
  /\ reply' = steps[Len(steps)].tok
  /\ UNCHANGED <<input, lexer, calling, marks>>

Call ==
  /\ ~calling
  /\ ~(at_eof /\ steps_pos >= Len(steps))
  /\ calling' = TRUE
  /\ UNCHANGED <<input, lexer, reply, marks>>

(* Mistake: the last step is never replayed. *)
ReplayingButTheLast == calling /\ steps_pos + 1 < Len(steps)

Replaying == calling /\ steps_pos < Len(steps)
Recorded  == steps[steps_pos + 1]

Return(r) == calling' = FALSE /\ reply' = r
Continue  == UNCHANGED <<calling, reply>>

ReplayFailure ==
  /\ Replaying
  /\ Recorded.failed
  /\ steps_pos' = steps_pos + 1
  /\ where' = Recorded.where
  /\ Return("error")
  /\ UNCHANGED <<input, reader_pos, steps, at_eof, marks>>

ReplayEof ==
  /\ Replaying
  /\ ~Recorded.failed /\ Recorded.tok = Eof
  /\ steps_pos' = steps_pos + 1
  /\ where' = Recorded.where
  /\ at_eof' = TRUE
  /\ Return(Eof)
  /\ UNCHANGED <<input, reader_pos, steps, marks>>

(* Mistake: line and col are not replayed. *)
ReplayBlankInPlace ==
  /\ Replaying
  /\ ~Recorded.failed /\ Recorded.tok \in {"space", "slc"}
  /\ steps_pos' = steps_pos + 1
  /\ Continue
  /\ UNCHANGED <<input, reader_pos, steps, at_eof, where, marks>>

ReplayBlank ==
  /\ Replaying
  /\ ~Recorded.failed /\ Recorded.tok \in {"space", "slc"}
  /\ steps_pos' = steps_pos + 1
  /\ where' = Recorded.where
  /\ Continue
  /\ UNCHANGED <<input, reader_pos, steps, at_eof, marks>>

(* Mistake: the newline is left for the next iteration. *)
ReplayStartOnly ==
  /\ Replaying
  /\ ~Recorded.failed /\ Recorded.tok = "mlc"
  /\ steps_pos' = steps_pos + 1
  /\ where' = Recorded.where
  /\ Continue
  /\ UNCHANGED <<input, reader_pos, steps, at_eof, marks>>

(* The newline that stands for the comment is replayed with its start. *)
ReplayBlockComment ==
  /\ Replaying
  /\ ~Recorded.failed /\ Recorded.tok = "mlc"
  /\ steps_pos' = steps_pos + 2
  /\ where' = steps[steps_pos + 2].where
  /\ Continue
  /\ UNCHANGED <<input, reader_pos, steps, at_eof, marks>>

ReplayToken ==
  /\ Replaying
  /\ ~Recorded.failed /\ Recorded.tok \notin Blank \cup {Eof}
  /\ steps_pos' = steps_pos + 1
  /\ where' = Recorded.where
  /\ Return(Recorded.tok)
  /\ UNCHANGED <<input, reader_pos, steps, at_eof, marks>>

(* What the Reader has next; reading at the end moves nothing. *)
Lexing  == calling /\ steps_pos >= Len(steps)
Pending == Lexeme(reader_pos + 1)

(* Mistake: an off-by-one in the position. *)
LogBeyond(log) ==
  /\ steps' = log
  /\ steps_pos' = Len(log) + 1

(* lexer_log_token, and lexer_log_seal where the code seals the step. *)
Log(log) ==
  /\ steps' = log
  /\ steps_pos' = Len(log)

(* Mistake: the step is sealed where its lexeme begins. *)
PastUncounted == reader_pos

(* The lexeme that is pending. *)
Past == reader_pos + 1

(* Lexer.line and Lexer.col once the pending lexeme was read, and once     *)
(* its opening was.                                                        *)
Advanced == where \cup Parts(Past)
Opened   == where \cup {Opening(Past)}

(* No step is logged (lexer.c:139-144).  What was consumed before the      *)
(* error was counted and stays so (lexer.c:224-233, 303): nothing of a     *)
(* lone byte, a part of a name that a byte breaks off, all of a name or a  *)
(* string that is too long.                                                *)
LexBad ==
  /\ Lexing
  /\ Pending = "bad"
  /\ reader_pos' = reader_pos + 1
  /\ where' \in {where, Opened, Advanced}
  /\ Return("error")
  /\ UNCHANGED <<input, steps, steps_pos, at_eof, marks>>

(* Mistake: at_eof is not set. *)
LexEofForgotten ==
  /\ Lexing
  /\ Pending = Eof
  /\ where' = Advanced
  /\ Log(Append(steps, Step(Eof, FALSE, Past, Advanced)))
  /\ Return(Eof)
  /\ UNCHANGED <<input, reader_pos, at_eof, marks>>

LexEof ==
  /\ Lexing
  /\ Pending = Eof
  /\ at_eof' = TRUE
  /\ where' = Advanced
  /\ Log(Append(steps, Step(Eof, FALSE, Past, Advanced)))
  /\ Return(Eof)
  /\ UNCHANGED <<input, reader_pos, marks>>

LexBlank ==
  /\ Lexing
  /\ Pending \in {"space", "slc"}
  /\ reader_pos' = reader_pos + 1
  /\ where' = Advanced
  /\ Log(Append(steps, Step(Pending, FALSE, Past, Advanced)))
  /\ Continue
  /\ UNCHANGED <<input, at_eof, marks>>

(* Mistake: the newline is not logged. *)
LexStartOnly ==
  /\ Lexing
  /\ Pending = "mlc"
  /\ reader_pos' = reader_pos + 1
  /\ where' = Advanced
  /\ Log(Append(steps, Step("mlc", FALSE, After(Len(steps)), Opened)))
  /\ Continue
  /\ UNCHANGED <<input, at_eof, marks>>

(* The step of the start is pushed before the comment is skipped; the      *)
(* lexeme ends with the newline that stands for it.                        *)
LexBlockComment ==
  /\ Lexing
  /\ Pending = "mlc"
  /\ reader_pos' = reader_pos + 1
  /\ where' = Advanced
  /\ Log(steps \o << Step("mlc", FALSE, After(Len(steps)), Opened),
                    Step("nl", FALSE, Past, Advanced) >>)
  /\ Continue
  /\ UNCHANGED <<input, at_eof, marks>>

(* The comment was skipped up to the end, but its step is never sealed. *)
LexOpenComment ==
  /\ Lexing
  /\ Pending = "open"
  /\ reader_pos' = reader_pos + 1
  /\ where' = Advanced
  /\ Log(Append(steps, Step("mlc", TRUE, Past, Opened)))
  /\ Return("error")
  /\ UNCHANGED <<input, at_eof, marks>>

LexToken ==
  /\ Lexing
  /\ Pending \in Words \cup {"nl"}
  /\ reader_pos' = reader_pos + 1
  /\ where' = Advanced
  /\ Log(Append(steps, Step(Pending, FALSE, Past, Advanced)))
  /\ Return(Pending)
  /\ UNCHANGED <<input, at_eof, marks>>

Loop ==
  \/ ReplayFailure \/ ReplayEof \/ ReplayBlank \/ ReplayBlockComment
  \/ ReplayToken
  \/ LexBad \/ LexEof \/ LexBlank \/ LexBlockComment \/ LexOpenComment
  \/ LexToken
-----------------------------------------------------------------------------
(* lexer_mark: the parser keeps what it returned in a checkpoint. *)
Mark ==
  /\ ~calling
  /\ marks' = marks \cup {steps_pos}
  /\ UNCHANGED <<input, lexer, calling, reply>>

(* lexer_rewind_to: the parser only goes back, see parser_restore. *)
Rewind ==
  /\ ~calling
  /\ \E m \in marks : m <= steps_pos /\ steps_pos' = m
  /\ UNCHANGED <<input, reader_pos, steps, at_eof, where, calling, reply, marks>>

Next == CallAtEof \/ Call \/ Loop \/ Mark \/ Rewind

Spec == Init /\ [][Next]_vars

(* The loop runs on one thread, and nothing in it blocks. *)
FairSpec == Spec /\ WF_vars(Loop)
-----------------------------------------------------------------------------
(***************************************************************************)
(* Properties                                                              *)
(***************************************************************************)
Places == (1 .. Len(input) + 1) \X {"opening", "rest"}

StepType == [tok : Tokens \cup Blank,
             failed : BOOLEAN,
             at : 0 .. Len(input) + 1,
             where : SUBSET Places]

TypeOK ==
  /\ input \in Inputs
  /\ reader_pos \in 0..Len(input)
  /\ steps \in Seq(StepType)
  /\ steps_pos \in 0..Len(steps)
  /\ at_eof \in BOOLEAN
  /\ where \subseteq Places
  /\ calling \in BOOLEAN
  /\ reply \in Tokens \cup {"none", "error"}
  /\ marks \subseteq 0..Len(steps)

(* The step of the start of a closed block comment. *)
CommentHead(n) == n > 0 /\ steps[n].tok = "mlc" /\ ~steps[n].failed

(* The log is the text as far as it was read: the steps stand for its      *)
(* lexemes in their order, each lexeme is logged once, and what the log    *)
(* has no step for could not be lexed.                                     *)
Unlexed(from, to) ==
  \A k \in 1 .. Len(input) + 1 : from < k /\ k < to => Lexeme(k) = "bad"

StandsFor(n) ==
  IF steps[n].failed THEN "open"
  ELSE IF CommentHead(n - 1) THEN "mlc" ELSE steps[n].tok

StepMatches(n) ==
  IF CommentHead(n)
  THEN After(n) = After(n - 1)
  ELSE /\ After(n - 1) < After(n)
       /\ After(n) \in 1 .. reader_pos + 1
       /\ After(n) <= reader_pos \/ steps[n].tok = Eof
       /\ Lexeme(After(n)) = StandsFor(n)
       /\ Unlexed(After(n - 1), After(n))

LogMatchesText ==
  /\ \A n \in 1..Len(steps) : StepMatches(n)
  /\ \A m, n \in 0..Len(steps) : m <= n => After(m) <= After(n)
  /\ Unlexed(After(Len(steps)), reader_pos + 1)

(* The start of a closed block comment and its newline are two steps; no   *)
(* position the parser can hold lies between them, or a rewind there would *)
(* replay the invented newline as a token (lexer.c:165-183).               *)
MarksNeverSplitAComment ==
  \A m \in marks \cup {steps_pos} : m \in 0..Len(steps) => ~CommentHead(m)

(* What the asserts of the replay of a comment (lexer.c:175-177) rely on:  *)
(* the step after its start is there and is the newline.                   *)
NewlineFollowsComment ==
  \A n \in 1..Len(steps) :
    CommentHead(n) => /\ n < Len(steps)
                      /\ steps[n + 1].tok = "nl"
                      /\ ~steps[n + 1].failed

(* The text is never lexed again once its end was found: the only end-of-  *)
(* file step is the last one, and no call reads the Reader past it, not    *)
(* even one that starts on a replay (lexer.c:115-119, 134-137).            *)
EndIsFoundOnce ==
  /\ Lexing => ~at_eof
  /\ \A n \in 1..Len(steps) : steps[n].tok = Eof => n = Len(steps) /\ at_eof

(* Line and column account for the text up to the lexeme p: for all of a   *)
(* lexeme up to there, for nothing of one behind it, and for the opening   *)
(* at least of a comment that is not closed.  Of bad text anything may be  *)
(* counted or not.                                                         *)
Accounts(w, p) ==
  \A k \in 1 .. Len(input) + 1 :
    /\ k <= p /\ Lexeme(k) \notin Faulty => Parts(k) \subseteq w
    /\ k <= p /\ Lexeme(k) = "open" => Opening(k) \in w
    /\ k > p /\ Lexeme(k) # "bad" => Parts(k) \cap w = {}

(* Line and column, which every message quotes, account for the lexemes    *)
(* that were passed whenever the replay is over and lexing goes on,        *)
(* although a rewind leaves them where they were (lexer_log_seal,          *)
(* lexer.c:80-85).  Not so for bad text: lexer_next_token counts what it   *)
(* consumed before its error (lexer.c:224-233), and a rewind takes that    *)
(* back if no step was logged since; positions behind bad text are not     *)
(* those of the file.                                                      *)
PositionIsRestored ==
  steps_pos = Len(steps) => Accounts(where, After(Len(steps)))

(* A caller cannot tell the log from a stream that reads its text again    *)
(* from the mark (lexer.h: "Undo every token after `mark`, without         *)
(* touching the Reader").                                                  *)
ImplementsStream == Stream!Spec

(* Every call returns: the loop comes to a token, to an error or to the    *)
(* end, whatever blanks lie before it.                                     *)
EveryCallReturns == calling ~> ~calling
=============================================================================
