------------------------------- MODULE Parser -------------------------------
(***************************************************************************)
(* The backtracking parser (parser.c: parse_by_rule and what it calls),    *)
(* as the machine its recursion is: one frame for every parse_by_rule in   *)
(* progress, one action for every node of a production.                    *)
(*                                                                         *)
(* The lexer is what module TokenStream promises, without the blanks: a    *)
(* log of the tokens read so far and a cursor in it, which is what         *)
(* lexer_mark returns.  The text is chosen as it is read.  The messages,   *)
(* and deepest_tok, which only a message quotes, are left out.             *)
(***************************************************************************)
EXTENDS Grammar, FiniteSets, SequencesExt

CONSTANT Families \* of texts, see FamiliesAssumption

(* A family of texts, and the depth they are parsed with:                  *)
(*   kinds   the kinds of tokens in them                                   *)
(*   faults  what else is in them: "bad", "open" (see module Lexemes)      *)
(*   tokens  the longest text                                              *)
(*   nested  how many parentheses and ifs there are in a text: each one    *)
(*           that is tried in vain makes the parser take nine times longer *)
(*   bad     how many bad lexemes there are in a text                      *)
(*   depth   MAX_PARSE_DEPTH                                               *)
ASSUME FamiliesAssumption ==
  \A f \in Families :
    /\ f.faults \subseteq {"bad", "open"} \ f.kinds
    /\ {f.tokens, f.nested, f.bad, f.depth} \subseteq Nat

VARIABLES
  family,   \* the family of the text
  read,     \* the tokens of the text, as far as the lexer has read it
  lost,     \* where in it a bad lexeme was dropped
  cursor,   \* lexer_mark
  current,  \* Parser.current_token: its position, 0 before the first
  probe,    \* Parser.nl_probe_start and nl_probe_kind
  failed,   \* Parser.parsing_failed
  frames,   \* the calls of parse_by_rule in progress, the innermost last
  returned, \* the result one of them has just returned
  outcome   \* what parser_parse returned

lexer == <<family, read, lost, cursor, current>>
vars  == <<lexer, probe, failed, frames, returned, outcome>>

(* The token the lexer returns at the end of the file is a TOK_UNDEF. *)
Eof == "TOK_UNDEF"

NotReduced == [reduced |-> FALSE, result |-> Null]
Reduced(n) == [reduced |-> TRUE,  result |-> n]
Nothing    == [none |-> TRUE]

NoProbe == [start |-> 0, kind |-> Eof]

Productions(rule) == Rules[rule].productions

(* A frame that starts a production at the position chk. *)
Fresh(rule, i, chk, from) ==
  [ rule |-> rule, i |-> i, j |-> 1,
    chk     |-> chk,    \* the checkpoint of the production
    from    |-> from,   \* where the rule was entered (for the properties)
    params  |-> <<>>,   \* params[], with what is stale behind param_count
    count   |-> 0,      \* param_count
    folded  |-> FALSE,
    block   |-> Null,   \* the list of a PN_RULE_LIST, and the checkpoint
    item    |-> chk,    \*   of its next element
    looking |-> chk,    \* the checkpoint of expr_token_matches
    match   |-> "untried" ]

Here == [cursor |-> cursor, current |-> current]

Init ==
  /\ family \in Families
  /\ read = <<>> /\ lost = {} /\ cursor = 0 /\ current = 0
  /\ probe = NoProbe
  /\ failed = FALSE
  /\ frames = <<>>
  /\ returned = Nothing
  /\ outcome = [verdict |-> "none", ast |-> Null]

Top      == frames[Len(frames)]
Rule     == Rules[Top.rule]
Nodes(i) == Rule.productions[i].nodes
Current  == read[current]

(* A step of the innermost call. *)
Running(type) ==
  /\ frames # <<>> /\ returned = Nothing /\ ~failed
  /\ Nodes(Top.i)[Top.j].type = type

Expected == Nodes(Top.i)[Top.j].name

Update(f) == frames' = [frames EXCEPT ![Len(frames)] = f]
Return(r) == frames' = Front(frames) /\ returned' = r

(* params[param_count] = p, and on to the next node. *)
Push(f, p) ==
  [f EXCEPT !.params = SubSeq(@, 1, f.count) \o <<p>> \o SubSeq(@, f.count + 2, Len(@)),
            !.count  = @ + 1,
            !.j      = @ + 1,
            !.match  = "untried"]

(* A definition marked "Mistake" is the one that follows it with a bug the *)
(* code could well have; nothing uses it but the check of the properties.  *)

(* Mistake: only the current token is restored. *)
RestoreToken(chk) == current' = chk.current /\ UNCHANGED cursor

Restore(chk) == cursor' = chk.cursor /\ current' = chk.current

Params == SubSeq(Top.params, 1, Top.count)
-----------------------------------------------------------------------------
(* lexer_next_significant, as parser_move_forward calls it: what it may    *)
(* find, with the log, the cursor and whether it succeeded.                *)
Ended == read # <<>> /\ read[Len(read)] = Eof

Nested == {"(", "if"}

Ahead ==
  LET nested == Cardinality({k \in DOMAIN read : read[k] \in Nested})
      tokens == family.kinds \ (IF nested < family.nested THEN {} ELSE Nested)
  IN  IF "open" \in Range(read) \/ Len(read) >= family.tokens THEN {Eof}
      ELSE {Eof} \cup tokens \cup (family.faults \ {"bad"})

Fetch ==
  IF cursor < Len(read) THEN
    {[read |-> read, lost |-> lost, cursor |-> cursor + 1, ok |-> read[cursor + 1] # "open"]}
  ELSE IF Ended THEN
    {[read |-> read, lost |-> lost, cursor |-> cursor, ok |-> TRUE]}
  ELSE
    {[read |-> Append(read, t), lost |-> lost, cursor |-> cursor + 1, ok |-> t # "open"] : t \in Ahead}
    \cup
    {[read |-> read, lost |-> lost \cup {k}, cursor |-> cursor, ok |-> FALSE] :
       k \in {Len(read) + 1 : b \in {f \in family.faults : f = "bad" /\ Cardinality(lost) < family.bad}} \ lost}

(* parser_move_forward *)
Move(got) ==
  /\ got \in Fetch
  /\ read' = got.read /\ lost' = got.lost /\ cursor' = got.cursor
  /\ current' = IF got.ok THEN got.cursor ELSE current
  /\ UNCHANGED family
-----------------------------------------------------------------------------
(* parser_parse: prog is entered with the first token. *)
Start ==
  /\ frames = <<>> /\ returned = Nothing /\ outcome.verdict = "none"
  /\ \E got \in Fetch :
       /\ Move(got)
       /\ IF got.ok
          THEN LET here == [cursor |-> got.cursor, current |-> got.cursor]
               IN  /\ frames' = <<Fresh("prog", 1, here, here)>>
                   /\ UNCHANGED returned
          ELSE returned' = NotReduced /\ UNCHANGED frames
  /\ UNCHANGED <<probe, failed, outcome>>

Finish ==
  /\ frames = <<>> /\ returned # Nothing
  /\ outcome' = IF ~failed /\ returned.reduced /\ Current = Eof
                THEN [verdict |-> "accepted", ast |-> returned.result]
                ELSE [verdict |-> "rejected", ast |-> Null]
  /\ returned' = Nothing
  /\ UNCHANGED <<lexer, probe, failed, frames>>

(* PN_RULE and PN_RULE_LIST: a recursive call, or the end of the depth. *)
Call ==
  /\ Running("PN_RULE") \/ Running("PN_RULE_LIST")
  /\ IF Len(frames) < family.depth
     THEN /\ frames' = Append([frames EXCEPT ![Len(frames)].item = Here],
                              Fresh(Expected, 1, Here, Here))
          /\ UNCHANGED <<failed, returned>>
     ELSE failed' = TRUE /\ returned' = NotReduced /\ UNCHANGED frames
  /\ UNCHANGED <<lexer, probe, outcome>>

Returned(type) ==
  /\ frames # <<>> /\ returned # Nothing /\ ~failed
  /\ Nodes(Top.i)[Top.j].type = type

(* parsing_failed: every call frees what it has and returns. *)
Abandon ==
  /\ frames # <<>> /\ failed
  /\ Return(NotReduced)
  /\ UNCHANGED <<lexer, probe, failed, outcome>>

SubRuleReduced ==
  /\ Returned("PN_RULE") /\ returned.reduced
  /\ Update(Push(Top, returned.result))
  /\ returned' = Nothing
  /\ UNCHANGED <<lexer, probe, failed, outcome>>

ListItem ==
  /\ Returned("PN_RULE_LIST") /\ returned.reduced
  /\ Update([Top EXCEPT !.block = BlockAppend(@, returned.result)])
  /\ returned' = Nothing
  /\ UNCHANGED <<lexer, probe, failed, outcome>>

ListEnd ==
  /\ Returned("PN_RULE_LIST") /\ ~returned.reduced
  /\ Restore(Top.item)
  /\ Update([Push(Top, Top.block) EXCEPT !.block = Null])
  /\ returned' = Nothing
  /\ UNCHANGED <<family, read, lost, probe, failed, outcome>>
-----------------------------------------------------------------------------
(* PN_TERM: expr_token_matches *)
AtNewline == Rule.skip_new_line /\ Current = "nl"

ProbeKnows == probe.start = cursor /\ probe # NoProbe /\ probe.kind # Expected

Matches ==
  \/ Top.match = "looking" /\ Current = Expected
  \/ Top.match = "untried" /\ ~AtNewline /\ Current = Expected

Refused ==
  \/ Top.match = "refused"
  \/ Top.match = "untried" /\ IF AtNewline THEN ProbeKnows ELSE Current # Expected

(* A newline is looked through; a lexer error ends the look where it is. *)
LookPastNewline ==
  /\ Running("PN_TERM")
  /\ Current = "nl"
  /\ \/ Top.match = "looking"
     \/ Top.match = "untried" /\ AtNewline /\ ~ProbeKnows
  /\ \E got \in Fetch :
       /\ Move(got)
       /\ Update([Top EXCEPT !.looking = IF Top.match = "untried" THEN Here ELSE @,
                             !.match = IF got.ok THEN "looking" ELSE "refused"])
  /\ UNCHANGED <<probe, failed, returned, outcome>>

(* Mistake: the probe is keyed by where the look ended. *)
LookedInVainAfter ==
  /\ Running("PN_TERM")
  /\ Top.match = "looking" /\ Current \notin {"nl", Expected}
  /\ probe' = [start |-> cursor, kind |-> Current]
  /\ Restore(Top.looking)
  /\ Update([Top EXCEPT !.match = "refused"])
  /\ UNCHANGED <<family, read, lost, failed, returned, outcome>>

(* What the newlines hide is remembered, and they are given back. *)
LookedInVain ==
  /\ Running("PN_TERM")
  /\ Top.match = "looking" /\ Current \notin {"nl", Expected}
  /\ probe' = [start |-> Top.looking.cursor, kind |-> Current]
  /\ Restore(Top.looking)
  /\ Update([Top EXCEPT !.match = "refused"])
  /\ UNCHANGED <<family, read, lost, failed, returned, outcome>>

AcceptToken ==
  /\ Running("PN_TERM")
  /\ Matches
  /\ \E got \in Fetch :
       /\ Move(got)
       /\ IF got.ok
          THEN Update(Push(Top, Token(current))) /\ UNCHANGED returned
          ELSE Return(NotReduced)
  /\ UNCHANGED <<probe, failed, outcome>>

(* starts_with_same_nodes *)
NextSharesPrefix ==
  /\ Top.i < Len(Rule.productions)
  /\ Len(Nodes(Top.i + 1)) >= Top.j - 1
  /\ \A k \in 1 .. Top.j - 1 : Nodes(Top.i)[k] = Nodes(Top.i + 1)[k]

(* Mistake: i is not incremented. *)
SwitchNowhere ==
  /\ Running("PN_TERM")
  /\ Refused /\ NextSharesPrefix
  /\ Update([Top EXCEPT !.chk = Here, !.match = "untried"])
  /\ UNCHANGED <<lexer, probe, failed, returned, outcome>>

(* On to the next production with the parameters so far, no rollback. *)
SwitchProduction ==
  /\ Running("PN_TERM")
  /\ Refused /\ NextSharesPrefix
  /\ Update([Top EXCEPT !.i = @ + 1, !.chk = Here, !.match = "untried"])
  /\ UNCHANGED <<lexer, probe, failed, returned, outcome>>

Stuck ==
  \/ Running("PN_TERM") /\ Refused /\ ~NextSharesPrefix
  \/ Returned("PN_RULE") /\ ~returned.reduced

(* The chain ends here: what was folded is the result. *)
KeepFolded ==
  /\ Stuck /\ Top.folded
  /\ Return(Reduced(Top.params[1]))
  /\ UNCHANGED <<lexer, probe, failed, outcome>>

(* Mistake: param_count is not reset. *)
NextWithParams ==
  /\ Stuck /\ ~Top.folded
  /\ Top.i < Len(Rule.productions)
  /\ Restore(Top.chk)
  /\ Update([Fresh(Top.rule, Top.i + 1, Top.chk, Top.from)
               EXCEPT !.params = Params, !.count = Top.count])
  /\ returned' = Nothing
  /\ UNCHANGED <<family, read, lost, probe, failed, outcome>>

NextProduction ==
  /\ Stuck /\ ~Top.folded
  /\ Top.i < Len(Rule.productions)
  /\ Restore(Top.chk)
  /\ Update(Fresh(Top.rule, Top.i + 1, Top.chk, Top.from))
  /\ returned' = Nothing
  /\ UNCHANGED <<family, read, lost, probe, failed, outcome>>

NoProduction ==
  /\ Stuck /\ ~Top.folded
  /\ Top.i = Len(Rule.productions)
  /\ Restore(Top.chk)
  /\ Return(NotReduced)
  /\ UNCHANGED <<family, read, lost, probe, failed, outcome>>
-----------------------------------------------------------------------------
(* PN_REDUCE *)
(* fold_point: the first terminal after the first node. *)
FoldPoint(i) ==
  SelectInSubSeq(Nodes(i), 2, Len(Nodes(i)), LAMBDA node : node.type = "PN_TERM")

Folds == Rule.productions[Top.i].assoc = "ASC_LEFT" /\ FoldPoint(Top.i) > 0

(* Mistake: param_count is not reset. *)
FoldBehind ==
  /\ Running("PN_REDUCE") /\ Folds
  /\ Update([Top EXCEPT !.params = <<Reduce(Expected, Params)>> \o Tail(@),
                        !.folded = TRUE,
                        !.i      = 1,
                        !.j      = FoldPoint(Top.i),
                        !.chk    = Here])
  /\ UNCHANGED <<lexer, probe, failed, returned, outcome>>

Fold ==
  /\ Running("PN_REDUCE") /\ Folds
  /\ Update([Top EXCEPT !.params = <<Reduce(Expected, Params)>> \o Tail(@),
                        !.count  = 1,
                        !.folded = TRUE,
                        !.i      = 1,
                        !.j      = FoldPoint(Top.i),
                        !.chk    = Here])
  /\ UNCHANGED <<lexer, probe, failed, returned, outcome>>

ReduceRule ==
  /\ Running("PN_REDUCE") /\ ~Folds
  /\ Return(Reduced(Reduce(Expected, Params)))
  /\ UNCHANGED <<lexer, probe, failed, outcome>>

Next ==
  \/ Start \/ Finish
  \/ Call \/ Abandon \/ SubRuleReduced \/ ListItem \/ ListEnd
  \/ LookPastNewline \/ LookedInVain \/ AcceptToken
  \/ SwitchProduction \/ KeepFolded \/ NextProduction \/ NoProduction
  \/ Fold \/ ReduceRule

Spec == Init /\ [][Next]_vars

(* One thread, and nothing in it blocks. *)
FairSpec == Spec /\ WF_vars(Next)
-----------------------------------------------------------------------------
(***************************************************************************)
(* Properties                                                              *)
(***************************************************************************)
(* What is remembered of a run of newlines is true, however far the parser *)
(* went and came back since: from the remembered position on, newlines     *)
(* aside, the lexer has a token of the remembered kind (parser.c:431-434,  *)
(* 444-448).                                                               *)
ProbeIsTrue ==
  probe # NoProbe =>
    \E k \in probe.start + 1 .. Len(read) :
      /\ read[k] = probe.kind /\ probe.kind # "nl"
      /\ \A n \in probe.start + 1 .. k - 1 : read[n] = "nl"

(* The lexer has had nothing to report so far. *)
Clean == lost = {} /\ "open" \notin Range(read)

(* A rule that does not match is invisible: the token it began at is the   *)
(* current one again, and the next one is lexed after it (parser.c:541     *)
(* "failed attempt is invisible", :577 "rewind input + current token").    *)
(* Not so behind a lexer error.  Nor where the switch to a production that *)
(* shares its first nodes sets the checkpoint behind them (parser.c:501):  *)
(* the tail of an if, and a chain whose second operator has no operand,    *)
(* which leaves that operator, or the newline before it, to be read next.  *)
ChainRules == {"expr_term", "expr_prime"}

FailureIsInvisible ==
  [][NoProduction /\ Clean =>
       \/ Here' = Top.from
       \/ Top.rule = "if_tail"
       \/ Top.rule \in ChainRules /\ Current' \in {"nl", "-", "/"}]_vars

(* What the reducers assert of argc (parser.c:95-232). *)
Arity(f) ==
  CASE f \in {"empty", "empty_block"} -> 0
    [] f \in {"number_l", "bool_l", "id", "signle_ntrm", "sep"} -> 1
    [] f \in {"expr_op_expr", "expr_assign_expr", "id_define_expr",
              "tripple_ntrm", "if_expr_then_stmt"} -> 3
    [] f = "if_expr_braced_block_else_braced_block" -> 4
    [] f = "if_expr_then_stmt_else_stmt" -> 5
    [] OTHER -> 2

(* Every reducer is given the parameters it asserts it has (parser.c:181   *)
(* "assert(argc == 0)" and its like).                                      *)
AssertionsHold == Running("PN_REDUCE") => Top.count = Arity(Expected)

(* So it is in a text the lexer finds no error in, and in any other but    *)
(* for the second production of a block in braces, which hands the three   *)
(* parameters it has to the reducer of an empty block (parser.c:311).      *)
ReducersGetTheirArguments ==
  Running("PN_REDUCE") =>
    \/ Top.count = Arity(Expected)
    \/ ~Clean /\ Top.rule = "braced_block" /\ Top.i = 2

(* When the depth is exhausted every call in progress frees the nodes in   *)
(* params[0 .. param_count] (parser.c:514-518; only [0 .. param_count - 1] *)
(* in a list, :535-539).  None of them is a part of another one, or it     *)
(* would be freed with it and then again.                                  *)
Owned(f) ==
  LET node == Productions(f.rule)[f.i].nodes[f.j]
      last == IF node.type = "PN_RULE" THEN f.count + 1 ELSE f.count
  IN  {k \in 1..last \cap DOMAIN f.params : f.params[k].label # "token"}

NodesAreFreedOnce ==
  failed => \A d \in DOMAIN frames :
              \A k, n \in Owned(frames[d]) :
                k # n => frames[d].params[k].over \cap frames[d].params[n].over = {}

(* A text with a byte, a name or a string the lexer rejects is rejected    *)
(* (test/expect.txt:627 "Non-ASCII bytes (>= 0x80) are rejected by the     *)
(* lexer"; parser.c:491 "hard error: the lexer is unusable").              *)
BadLexemeRejectsTheText == outcome.verdict = "accepted" => lost = {}

(* Every parse ends: no rule loops on a text it makes no progress in.      *)
ParseEnds == <>(outcome.verdict # "none")
=============================================================================
