---------------------------- MODULE ParserProofs ----------------------------
(***************************************************************************)
(* What the parser keeps true of the calls in progress and of its lexer,   *)
(* whatever the text and the depth.                                        *)
(***************************************************************************)
EXTENDS Parser, Integers, TLAPS

RuleNames ==
  { "if_tail", "expr_factor", "expr_unary", "expr_term", "expr_prime", "stmt_sep",
    "stmt_seps", "stmt_optseps", "stmt", "stmt_next", "stmts", "block",
    "braced_block", "prog" }

NodesOf(rule, i) == Productions(rule)[i].nodes

(* A production is reduced at its end and only there, with a parameter for *)
(* each of its other nodes, as many as the reducer asserts it has.         *)
Proper(node) ==
  \/ node.type = "PN_TERM"
  \/ node.type \in {"PN_RULE", "PN_RULE_LIST"} /\ node.name \in RuleNames

Formed(nodes) ==
  /\ Len(nodes) \in 1 .. 6
  /\ nodes[Len(nodes)].type = "PN_REDUCE"
  /\ \A j \in 1 .. Len(nodes) - 1 : Proper(nodes[j])

Good(nodes) == Formed(nodes) /\ Arity(nodes[Len(nodes)].name) = Len(nodes) - 1

LEMMA Terms == \A t : Proper(TERM(t)) BY DEF Proper, TERM

LEMMA Nonterminals == \A r \in RuleNames : Proper(NTRM(r)) /\ Proper(LIST(r))
BY DEF Proper, NTRM, LIST

LEMMA GoodNodes ==
  ASSUME NEW f
  PROVE  /\ Arity(f) = 0 => Good(<<REDUCE(f)>>)
         /\ \A a, b, c : Proper(a) /\ Proper(b) /\ Proper(c) => Formed(<<a, b, c, REDUCE(f)>>)
         /\ \A a : Proper(a) /\ Arity(f) = 1 => Good(<<a, REDUCE(f)>>)
         /\ \A a, b : Proper(a) /\ Proper(b) /\ Arity(f) = 2 => Good(<<a, b, REDUCE(f)>>)
         /\ \A a, b, c : Proper(a) /\ Proper(b) /\ Proper(c) /\ Arity(f) = 3 =>
              Good(<<a, b, c, REDUCE(f)>>)
         /\ \A a, b, c, d : Proper(a) /\ Proper(b) /\ Proper(c) /\ Proper(d) /\ Arity(f) = 4 =>
              Good(<<a, b, c, d, REDUCE(f)>>)
         /\ \A a, b, c, d, e : /\ Proper(a) /\ Proper(b) /\ Proper(c) /\ Proper(d) /\ Proper(e)
                               /\ Arity(f) = 5
                               => Good(<<a, b, c, d, e, REDUCE(f)>>)
<1>1. REDUCE(f).type = "PN_REDUCE" /\ REDUCE(f).name = f BY DEF REDUCE
<1> QED BY <1>1 DEF Good, Formed

LEMMA Arities ==
  /\ \A f \in {"empty", "empty_block"} : Arity(f) = 0
  /\ \A f \in {"number_l", "bool_l", "id", "signle_ntrm", "sep"} : Arity(f) = 1
  /\ \A f \in {"minus_expr", "echo_expr", "ifexpr_if_tail", "ifstmt_if_tail", "sep_seps",
                "peek_second", "stmt_stmts", "if_expr_braced_block"} : Arity(f) = 2
  /\ \A f \in {"expr_op_expr", "expr_assign_expr", "id_define_expr", "tripple_ntrm",
                "if_expr_then_stmt"} : Arity(f) = 3
  /\ Arity("if_expr_braced_block_else_braced_block") = 4
  /\ Arity("if_expr_then_stmt_else_stmt") = 5
BY DEF Arity

LEMMA IfTailNodes ==
  /\ Len(Productions("if_tail")) = 4
  /\ NodesOf("if_tail", 1) = <<NTRM("expr_prime"), TERM("then"), NTRM("expr_prime"),
                               TERM("else"), NTRM("expr_prime"), REDUCE("if_expr_then_stmt_else_stmt")>>
  /\ NodesOf("if_tail", 2) = <<NTRM("expr_prime"), TERM("then"),
                               NTRM("stmt"), REDUCE("if_expr_then_stmt")>>
  /\ NodesOf("if_tail", 3) = <<NTRM("expr_prime"), NTRM("braced_block"), TERM("else"),
                               NTRM("braced_block"), REDUCE("if_expr_braced_block_else_braced_block")>>
  /\ NodesOf("if_tail", 4) = <<NTRM("expr_prime"), NTRM("braced_block"),
                               REDUCE("if_expr_braced_block")>>
  /\ \A i \in 1 .. 4 : Productions("if_tail")[i].assoc = "ASC_RIGHT"
<1>1. Rules["if_tail"] = if_tail BY DEF Rules
<1> QED BY <1>1 DEF NodesOf, Productions, if_tail, PROD_R, RULE_EXPR

LEMMA ExprFactorNodes ==
  /\ Len(Productions("expr_factor")) = 5
  /\ NodesOf("expr_factor", 1) = <<TERM("number"), REDUCE("number_l")>>
  /\ NodesOf("expr_factor", 2) = <<TERM("bool"), REDUCE("bool_l")>>
  /\ NodesOf("expr_factor", 3) = <<TERM("("), NTRM("expr_prime"),
                                   TERM(")"), REDUCE("tripple_ntrm")>>
  /\ NodesOf("expr_factor", 4) = <<TERM("if"), NTRM("if_tail"),
                                   REDUCE("ifexpr_if_tail")>>
  /\ NodesOf("expr_factor", 5) = <<TERM("id"), REDUCE("id")>>
  /\ \A i \in 1 .. 5 : Productions("expr_factor")[i].assoc = "ASC_RIGHT"
<1>1. Rules["expr_factor"] = expr_factor BY DEF Rules
<1> QED BY <1>1 DEF NodesOf, Productions, expr_factor, PROD_R, RULE_EXPR

LEMMA ExprUnaryNodes ==
  /\ Len(Productions("expr_unary")) = 2
  /\ NodesOf("expr_unary", 1) = <<NTRM("expr_factor"), REDUCE("signle_ntrm")>>
  /\ NodesOf("expr_unary", 2) = <<TERM("-"), NTRM("expr_factor"),
                                  REDUCE("minus_expr")>>
  /\ \A i \in 1 .. 2 : Productions("expr_unary")[i].assoc = "ASC_RIGHT"
<1>1. Rules["expr_unary"] = expr_unary BY DEF Rules
<1> QED BY <1>1 DEF NodesOf, Productions, expr_unary, PROD_R, RULE_EXPR

LEMMA ExprTermNodes ==
  /\ Len(Productions("expr_term")) = 3
  /\ NodesOf("expr_term", 1) = <<NTRM("expr_unary"), TERM("*"),
                                 NTRM("expr_unary"), REDUCE("expr_op_expr")>>
  /\ NodesOf("expr_term", 2) = <<NTRM("expr_unary"), TERM("/"),
                                 NTRM("expr_unary"), REDUCE("expr_op_expr")>>
  /\ NodesOf("expr_term", 3) = <<NTRM("expr_unary"), REDUCE("signle_ntrm")>>
<1>1. Rules["expr_term"] = expr_term BY DEF Rules
<1> QED BY <1>1 DEF NodesOf, Productions, expr_term, PROD_L, PROD_R, RULE_EXPR

LEMMA ExprPrimeNodes ==
  /\ Len(Productions("expr_prime")) = 3
  /\ NodesOf("expr_prime", 1) = <<NTRM("expr_term"), TERM("+"),
                                  NTRM("expr_term"), REDUCE("expr_op_expr")>>
  /\ NodesOf("expr_prime", 2) = <<NTRM("expr_term"), TERM("-"),
                                  NTRM("expr_term"), REDUCE("expr_op_expr")>>
  /\ NodesOf("expr_prime", 3) = <<NTRM("expr_term"), REDUCE("signle_ntrm")>>
<1>1. Rules["expr_prime"] = expr_prime BY DEF Rules
<1> QED BY <1>1 DEF NodesOf, Productions, expr_prime, PROD_L, PROD_R, RULE_EXPR

LEMMA StmtSepNodes ==
  /\ Len(Productions("stmt_sep")) = 2
  /\ NodesOf("stmt_sep", 1) = <<TERM("nl"), REDUCE("sep")>>
  /\ NodesOf("stmt_sep", 2) = <<TERM(";"), REDUCE("sep")>>
  /\ \A i \in 1 .. 2 : Productions("stmt_sep")[i].assoc = "ASC_RIGHT"
<1> DEFINE semicolon == TERM(";")
<1>1. stmt_sep = RULE(<<PROD_R(<<TERM("nl"), REDUCE("sep")>>),
                        PROD_R(<<semicolon, REDUCE("sep")>>)>>)
  BY Zenon DEF stmt_sep
<1> HIDE DEF semicolon
<1>2. Rules["stmt_sep"] = stmt_sep BY DEF Rules
<1>3. /\ Len(Productions("stmt_sep")) = 2
      /\ NodesOf("stmt_sep", 1) = <<TERM("nl"), REDUCE("sep")>>
      /\ NodesOf("stmt_sep", 2) = <<semicolon, REDUCE("sep")>>
      /\ \A i \in 1 .. 2 : Productions("stmt_sep")[i].assoc = "ASC_RIGHT"
  BY <1>1, <1>2 DEF NodesOf, Productions, PROD_R, RULE
<1> QED BY Zenon, <1>3 DEF semicolon

LEMMA StmtSepsNodes ==
  /\ Len(Productions("stmt_seps")) = 1
  /\ NodesOf("stmt_seps", 1) = <<NTRM("stmt_sep"), LIST("stmt_sep"),
                                 REDUCE("sep_seps")>>
  /\ Productions("stmt_seps")[1].assoc = "ASC_RIGHT"
<1>1. Rules["stmt_seps"] = stmt_seps BY DEF Rules
<1> QED BY <1>1 DEF NodesOf, Productions, stmt_seps, PROD_R, RULE

LEMMA StmtOptsepsNodes ==
  /\ Len(Productions("stmt_optseps")) = 2
  /\ NodesOf("stmt_optseps", 1) = <<NTRM("stmt_seps"), REDUCE("sep")>>
  /\ NodesOf("stmt_optseps", 2) = <<REDUCE("empty")>>
  /\ \A i \in 1 .. 2 : Productions("stmt_optseps")[i].assoc = "ASC_RIGHT"
<1>1. Rules["stmt_optseps"] = stmt_optseps BY DEF Rules
<1> QED BY <1>1 DEF NodesOf, Productions, stmt_optseps, PROD_R, RULE

LEMMA StmtNodes ==
  /\ Len(Productions("stmt")) = 4
  /\ NodesOf("stmt", 1) = <<TERM("echo"), NTRM("expr_prime"),
                            REDUCE("echo_expr")>>
  /\ NodesOf("stmt", 2) = <<TERM("if"), NTRM("if_tail"),
                            REDUCE("ifstmt_if_tail")>>
  /\ NodesOf("stmt", 3) = <<TERM("id"), TERM(":="),
                            NTRM("expr_prime"), REDUCE("id_define_expr")>>
  /\ NodesOf("stmt", 4) = <<NTRM("expr_prime"), TERM("="),
                            NTRM("expr_prime"), REDUCE("expr_assign_expr")>>
  /\ \A i \in 1 .. 4 : Productions("stmt")[i].assoc = "ASC_RIGHT"
<1>1. Rules["stmt"] = stmt BY DEF Rules
<1> QED BY <1>1 DEF NodesOf, Productions, stmt, PROD_R, RULE

LEMMA StmtNextNodes ==
  /\ Len(Productions("stmt_next")) = 1
  /\ NodesOf("stmt_next", 1) = <<NTRM("stmt_seps"), NTRM("stmt"),
                                 REDUCE("peek_second")>>
  /\ Productions("stmt_next")[1].assoc = "ASC_RIGHT"
<1>1. Rules["stmt_next"] = stmt_next BY DEF Rules
<1> QED BY <1>1 DEF NodesOf, Productions, stmt_next, PROD_R, RULE

LEMMA StmtsNodes ==
  /\ Len(Productions("stmts")) = 2
  /\ NodesOf("stmts", 1) = <<NTRM("stmt"), LIST("stmt_next"),
                             REDUCE("stmt_stmts")>>
  /\ NodesOf("stmts", 2) = <<REDUCE("empty_block")>>
  /\ \A i \in 1 .. 2 : Productions("stmts")[i].assoc = "ASC_RIGHT"
<1>1. Rules["stmts"] = stmts BY DEF Rules
<1> QED BY <1>1 DEF NodesOf, Productions, stmts, PROD_R, RULE

LEMMA BlockNodes ==
  /\ Len(Productions("block")) = 1
  /\ NodesOf("block", 1) = <<NTRM("stmt_optseps"), NTRM("stmts"),
                             NTRM("stmt_optseps"), REDUCE("tripple_ntrm")>>
  /\ Productions("block")[1].assoc = "ASC_RIGHT"
<1>1. Rules["block"] = block BY DEF Rules
<1> QED BY <1>1 DEF NodesOf, Productions, block, PROD_R, RULE

LEMMA BracedBlockNodes ==
  /\ Len(Productions("braced_block")) = 2
  /\ NodesOf("braced_block", 1) = <<TERM("{"), NTRM("block"),
                                    TERM("}"), REDUCE("tripple_ntrm")>>
  /\ NodesOf("braced_block", 2) = <<TERM("{"), NTRM("stmt_optseps"),
                                    TERM("}"), REDUCE("empty_block")>>
  /\ \A i \in 1 .. 2 : Productions("braced_block")[i].assoc = "ASC_RIGHT"
<1> DEFINE open == TERM("{") closed == TERM("}")
<1>1. braced_block =
        RULE_EXPR(<<PROD_R(<<open, NTRM("block"), closed, REDUCE("tripple_ntrm")>>),
                    PROD_R(<<open, NTRM("stmt_optseps"), closed, REDUCE("empty_block")>>)>>)
  BY Zenon DEF braced_block
<1> HIDE DEF open, closed
<1>2. Rules["braced_block"] = braced_block BY DEF Rules
<1>3. /\ Len(Productions("braced_block")) = 2
      /\ NodesOf("braced_block", 1) = <<open, NTRM("block"), closed, REDUCE("tripple_ntrm")>>
      /\ NodesOf("braced_block", 2) =
           <<open, NTRM("stmt_optseps"), closed, REDUCE("empty_block")>>
      /\ \A i \in 1 .. 2 : Productions("braced_block")[i].assoc = "ASC_RIGHT"
  BY <1>1, <1>2 DEF NodesOf, Productions, PROD_R, RULE_EXPR
<1> QED BY Zenon, <1>3 DEF open, closed

LEMMA ProgNodes ==
  /\ Len(Productions("prog")) = 1
  /\ NodesOf("prog", 1) = <<NTRM("block"), REDUCE("signle_ntrm")>>
  /\ Productions("prog")[1].assoc = "ASC_RIGHT"
<1>1. Rules["prog"] = prog BY DEF Rules
<1> QED BY <1>1 DEF NodesOf, Productions, prog, PROD_R, RULE

(* Every production is good but one: a block in braces hands three         *)
(* parameters to the reducer of an empty one.                              *)
GoodRule(rule) ==
  /\ Len(Productions(rule)) \in 1 .. 5
  /\ \A i \in 1 .. Len(Productions(rule)) :
       /\ Formed(NodesOf(rule, i))
       /\ ~(rule = "braced_block" /\ i = 2) => Good(NodesOf(rule, i))

LEMMA GoodIsFormed == \A nodes : Good(nodes) => Formed(nodes) BY DEF Good

LEMMA RulesAreGood == \A rule \in RuleNames : GoodRule(rule)
<1>1. GoodRule("if_tail")
  <2>1. /\ Good(NodesOf("if_tail", 1)) /\ Good(NodesOf("if_tail", 2))
        /\ Good(NodesOf("if_tail", 3)) /\ Good(NodesOf("if_tail", 4))
    BY IfTailNodes, GoodNodes, Terms, Nonterminals, Arities DEF RuleNames
  <2>2. Len(Productions("if_tail")) = 4 BY IfTailNodes
  <2>3. \A i \in 1 .. 4 : Good(NodesOf("if_tail", i))
    <3> TAKE i \in 1 .. 4
    <3> QED BY <2>1
  <2>4. Len(Productions("if_tail")) \in 1 .. 5 BY <2>2
  <2> QED BY Zenon, <2>2, <2>3, <2>4, GoodIsFormed DEF GoodRule
<1>2. GoodRule("expr_factor")
  <2>1. /\ Good(NodesOf("expr_factor", 1)) /\ Good(NodesOf("expr_factor", 2))
        /\ Good(NodesOf("expr_factor", 3)) /\ Good(NodesOf("expr_factor", 4))
        /\ Good(NodesOf("expr_factor", 5))
    BY ExprFactorNodes, GoodNodes, Terms, Nonterminals, Arities DEF RuleNames
  <2>2. Len(Productions("expr_factor")) = 5 BY ExprFactorNodes
  <2>3. \A i \in 1 .. 5 : Good(NodesOf("expr_factor", i))
    <3> TAKE i \in 1 .. 5
    <3> QED BY <2>1
  <2>4. Len(Productions("expr_factor")) \in 1 .. 5 BY <2>2
  <2> QED BY Zenon, <2>2, <2>3, <2>4, GoodIsFormed DEF GoodRule
<1>3. GoodRule("expr_unary")
  <2>1. /\ Good(NodesOf("expr_unary", 1)) /\ Good(NodesOf("expr_unary", 2))
    BY ExprUnaryNodes, GoodNodes, Terms, Nonterminals, Arities DEF RuleNames
  <2>2. Len(Productions("expr_unary")) = 2 BY ExprUnaryNodes
  <2>3. \A i \in 1 .. 2 : Good(NodesOf("expr_unary", i))
    <3> TAKE i \in 1 .. 2
    <3> QED BY <2>1
  <2>4. Len(Productions("expr_unary")) \in 1 .. 5 BY <2>2
  <2> QED BY Zenon, <2>2, <2>3, <2>4, GoodIsFormed DEF GoodRule
<1>4. GoodRule("expr_term")
  <2>1. /\ Good(NodesOf("expr_term", 1)) /\ Good(NodesOf("expr_term", 2))
        /\ Good(NodesOf("expr_term", 3))
    BY ExprTermNodes, GoodNodes, Terms, Nonterminals, Arities DEF RuleNames
  <2>2. Len(Productions("expr_term")) = 3 BY ExprTermNodes
  <2>3. \A i \in 1 .. 3 : Good(NodesOf("expr_term", i))
    <3> TAKE i \in 1 .. 3
    <3> QED BY <2>1
  <2>4. Len(Productions("expr_term")) \in 1 .. 5 BY <2>2
  <2> QED BY Zenon, <2>2, <2>3, <2>4, GoodIsFormed DEF GoodRule
<1>5. GoodRule("expr_prime")
  <2>1. /\ Good(NodesOf("expr_prime", 1)) /\ Good(NodesOf("expr_prime", 2))
        /\ Good(NodesOf("expr_prime", 3))
    BY ExprPrimeNodes, GoodNodes, Terms, Nonterminals, Arities DEF RuleNames
  <2>2. Len(Productions("expr_prime")) = 3 BY ExprPrimeNodes
  <2>3. \A i \in 1 .. 3 : Good(NodesOf("expr_prime", i))
    <3> TAKE i \in 1 .. 3
    <3> QED BY <2>1
  <2>4. Len(Productions("expr_prime")) \in 1 .. 5 BY <2>2
  <2> QED BY Zenon, <2>2, <2>3, <2>4, GoodIsFormed DEF GoodRule
<1>6. GoodRule("stmt_sep")
  <2>1. /\ Good(NodesOf("stmt_sep", 1)) /\ Good(NodesOf("stmt_sep", 2))
    BY StmtSepNodes, GoodNodes, Terms, Nonterminals, Arities DEF RuleNames
  <2>2. Len(Productions("stmt_sep")) = 2 BY StmtSepNodes
  <2>3. \A i \in 1 .. 2 : Good(NodesOf("stmt_sep", i))
    <3> TAKE i \in 1 .. 2
    <3> QED BY <2>1
  <2>4. Len(Productions("stmt_sep")) \in 1 .. 5 BY <2>2
  <2> QED BY Zenon, <2>2, <2>3, <2>4, GoodIsFormed DEF GoodRule
<1>7. GoodRule("stmt_seps")
  <2>1. Good(NodesOf("stmt_seps", 1))
    BY StmtSepsNodes, GoodNodes, Terms, Nonterminals, Arities DEF RuleNames
  <2>2. Len(Productions("stmt_seps")) = 1 BY StmtSepsNodes
  <2> QED BY <2>1, <2>2, GoodIsFormed DEF GoodRule
<1>8. GoodRule("stmt_optseps")
  <2>1. /\ Good(NodesOf("stmt_optseps", 1)) /\ Good(NodesOf("stmt_optseps", 2))
    BY StmtOptsepsNodes, GoodNodes, Terms, Nonterminals, Arities DEF RuleNames
  <2>2. Len(Productions("stmt_optseps")) = 2 BY StmtOptsepsNodes
  <2>3. \A i \in 1 .. 2 : Good(NodesOf("stmt_optseps", i))
    <3> TAKE i \in 1 .. 2
    <3> QED BY <2>1
  <2>4. Len(Productions("stmt_optseps")) \in 1 .. 5 BY <2>2
  <2> QED BY Zenon, <2>2, <2>3, <2>4, GoodIsFormed DEF GoodRule
<1>9. GoodRule("stmt")
  <2>1. /\ Good(NodesOf("stmt", 1)) /\ Good(NodesOf("stmt", 2))
        /\ Good(NodesOf("stmt", 3)) /\ Good(NodesOf("stmt", 4))
    BY StmtNodes, GoodNodes, Terms, Nonterminals, Arities DEF RuleNames
  <2>2. Len(Productions("stmt")) = 4 BY StmtNodes
  <2>3. \A i \in 1 .. 4 : Good(NodesOf("stmt", i))
    <3> TAKE i \in 1 .. 4
    <3> QED BY <2>1
  <2>4. Len(Productions("stmt")) \in 1 .. 5 BY <2>2
  <2> QED BY Zenon, <2>2, <2>3, <2>4, GoodIsFormed DEF GoodRule
<1>10. GoodRule("stmt_next")
  <2>1. Good(NodesOf("stmt_next", 1))
    BY StmtNextNodes, GoodNodes, Terms, Nonterminals, Arities DEF RuleNames
  <2>2. Len(Productions("stmt_next")) = 1 BY StmtNextNodes
  <2> QED BY <2>1, <2>2, GoodIsFormed DEF GoodRule
<1>11. GoodRule("stmts")
  <2>1. /\ Good(NodesOf("stmts", 1)) /\ Good(NodesOf("stmts", 2))
    BY StmtsNodes, GoodNodes, Terms, Nonterminals, Arities DEF RuleNames
  <2>2. Len(Productions("stmts")) = 2 BY StmtsNodes
  <2>3. \A i \in 1 .. 2 : Good(NodesOf("stmts", i))
    <3> TAKE i \in 1 .. 2
    <3> QED BY <2>1
  <2>4. Len(Productions("stmts")) \in 1 .. 5 BY <2>2
  <2> QED BY Zenon, <2>2, <2>3, <2>4, GoodIsFormed DEF GoodRule
<1>12. GoodRule("block")
  <2>1. Good(NodesOf("block", 1))
    BY BlockNodes, GoodNodes, Terms, Nonterminals, Arities DEF RuleNames
  <2>2. Len(Productions("block")) = 1 BY BlockNodes
  <2> QED BY <2>1, <2>2, GoodIsFormed DEF GoodRule
<1>13. GoodRule("braced_block")
  <2> DEFINE open == TERM("{") closed == TERM("}")
  <2>1. /\ NodesOf("braced_block", 1) = <<open, NTRM("block"), closed, REDUCE("tripple_ntrm")>>
        /\ NodesOf("braced_block", 2) =
             <<open, NTRM("stmt_optseps"), closed, REDUCE("empty_block")>>
    BY BracedBlockNodes, Zenon
  <2>2. Proper(open) /\ Proper(closed) BY Terms, Zenon
  <2> HIDE DEF open, closed
  <2>3. Proper(NTRM("block")) /\ Proper(NTRM("stmt_optseps")) BY Nonterminals DEF RuleNames
  <2>4. Arity("tripple_ntrm") = 3 BY Arities
  <2>5. Good(NodesOf("braced_block", 1)) BY <2>1, <2>2, <2>3, <2>4, GoodNodes
  <2>6. Formed(NodesOf("braced_block", 2)) BY <2>1, <2>2, <2>3, GoodNodes
  <2>7. Len(Productions("braced_block")) = 2 BY BracedBlockNodes
  <2>8. \A i \in 1 .. 2 : /\ Formed(NodesOf("braced_block", i))
                          /\ i # 2 => Good(NodesOf("braced_block", i))
    <3> TAKE i \in 1 .. 2
    <3> QED BY <2>5, <2>6, GoodIsFormed
  <2>9. Len(Productions("braced_block")) \in 1 .. 5 BY <2>7
  <2> QED BY Zenon, <2>7, <2>8, <2>9 DEF GoodRule
<1>14. GoodRule("prog")
  <2>1. Good(NodesOf("prog", 1))
    BY ProgNodes, GoodNodes, Terms, Nonterminals, Arities DEF RuleNames
  <2>2. Len(Productions("prog")) = 1 BY ProgNodes
  <2> QED BY <2>1, <2>2, GoodIsFormed DEF GoodRule
<1> QED
  BY <1>1, <1>2, <1>3, <1>4, <1>5, <1>6, <1>7, <1>8, <1>9, <1>10, <1>11, <1>12, <1>13, <1>14 DEF RuleNames

(* The chains: an operand, and for two of the productions an operator and  *)
(* another operand.                                                        *)
LEMMA ChainNodes ==
  ASSUME NEW rule \in ChainRules
  PROVE  /\ rule \in RuleNames
         /\ Len(Productions(rule)) = 3
         /\ Len(NodesOf(rule, 1)) = 4 /\ Len(NodesOf(rule, 2)) = 4 /\ Len(NodesOf(rule, 3)) = 2
         /\ NodesOf(rule, 1)[1].type = "PN_RULE"
         /\ NodesOf(rule, 2)[1] = NodesOf(rule, 1)[1]
         /\ NodesOf(rule, 3)[1] = NodesOf(rule, 1)[1]
         /\ NodesOf(rule, 1)[2].type = "PN_TERM" /\ NodesOf(rule, 2)[2].type = "PN_TERM"
         /\ NodesOf(rule, 1)[3].type = "PN_RULE" /\ NodesOf(rule, 2)[3].type = "PN_RULE"
         /\ NodesOf(rule, 1)[4].type = "PN_REDUCE" /\ NodesOf(rule, 2)[4].type = "PN_REDUCE"
         /\ NodesOf(rule, 3)[2].type = "PN_REDUCE"
         /\ NodesOf(rule, 2)[2].name \in {"-", "/"}
<1>1. CASE rule = "expr_term"
  BY <1>1, ExprTermNodes DEF RuleNames, TERM, NTRM, REDUCE
<1>2. CASE rule = "expr_prime"
  BY <1>2, ExprPrimeNodes DEF RuleNames, TERM, NTRM, REDUCE
<1> QED BY <1>1, <1>2 DEF ChainRules

(* What folds is a chain, and it folds at its operator.                    *)
LEMMA OnlyChainsFold ==
  ASSUME NEW rule \in RuleNames, NEW i \in 1 .. Len(Productions(rule)),
         Productions(rule)[i].assoc = "ASC_LEFT"
  PROVE  rule \in ChainRules
<1> SUFFICES ASSUME rule \notin ChainRules PROVE Productions(rule)[i].assoc = "ASC_RIGHT"
  OBVIOUS
<1>1. CASE rule = "if_tail" BY <1>1, IfTailNodes
<1>2. CASE rule = "expr_factor" BY <1>2, ExprFactorNodes
<1>3. CASE rule = "expr_unary" BY <1>3, ExprUnaryNodes
<1>4. CASE rule = "stmt_sep" BY <1>4, StmtSepNodes
<1>5. CASE rule = "stmt_seps" BY <1>5, StmtSepsNodes
<1>6. CASE rule = "stmt_optseps" BY <1>6, StmtOptsepsNodes
<1>7. CASE rule = "stmt" BY <1>7, StmtNodes
<1>8. CASE rule = "stmt_next" BY <1>8, StmtNextNodes
<1>9. CASE rule = "stmts" BY <1>9, StmtsNodes
<1>10. CASE rule = "block" BY <1>10, BlockNodes
<1>11. CASE rule = "braced_block" BY <1>11, BracedBlockNodes
<1>12. CASE rule = "prog" BY <1>12, ProgNodes
<1> QED BY <1>1, <1>2, <1>3, <1>4, <1>5, <1>6, <1>7, <1>8, <1>9, <1>10, <1>11, <1>12 DEF RuleNames, ChainRules

(* Productions that share their first nodes and then ask for different     *)
(* tokens are those of the chains and of the tail of an if.                *)
LEMMA LateSwitch ==
  ASSUME NEW rule \in RuleNames \ (ChainRules \cup {"if_tail"}),
         NEW i \in 1 .. Len(Productions(rule)) - 1,
         NEW j \in 2 .. Len(NodesOf(rule, i)), NodesOf(rule, i)[j].type = "PN_TERM"
  PROVE  \E k \in 1 .. j - 1 : NodesOf(rule, i)[k] # NodesOf(rule, i + 1)[k]
<1>1. CASE rule = "expr_factor"
  <2>1. Len(Productions(rule)) = 5 BY <1>1, ExprFactorNodes
  <2>2. i \in {1, 2, 3, 4} BY <2>1
  <2>3. CASE i = 1 BY <1>1, <2>3, ExprFactorNodes DEF TERM, REDUCE
  <2>4. CASE i = 2 BY <1>1, <2>4, ExprFactorNodes DEF TERM, REDUCE
  <2>5. CASE i = 3
    <3>1. NodesOf(rule, i)[1] # NodesOf(rule, i + 1)[1] BY <1>1, <2>5, ExprFactorNodes DEF TERM
    <3> QED BY <3>1
  <2>6. CASE i = 4 BY <1>1, <2>6, ExprFactorNodes DEF TERM, NTRM, REDUCE
  <2> QED BY <2>2, <2>3, <2>4, <2>5, <2>6
<1>2. CASE rule = "expr_unary"
  <2>1. Len(Productions(rule)) = 2 /\ Len(NodesOf(rule, 1)) = 2
    BY <1>2, ExprUnaryNodes
  <2>2. i = 1 BY <2>1
  <2>3. j = 2 BY <2>2, <2>1
  <2> QED BY <1>2, <2>2, <2>3, ExprUnaryNodes DEF REDUCE
<1>3. CASE rule = "stmt_sep"
  <2>1. Len(Productions(rule)) = 2 /\ Len(NodesOf(rule, 1)) = 2
    BY <1>3, StmtSepNodes
  <2>2. i = 1 BY <2>1
  <2>3. j = 2 BY <2>2, <2>1
  <2>4. NodesOf(rule, i) = <<TERM("nl"), REDUCE("sep")>> BY Zenon, <1>3, <2>2, StmtSepNodes
  <2> QED BY <2>3, <2>4 DEF REDUCE
<1>4. CASE rule = "stmt_optseps"
  <2>1. Len(Productions(rule)) = 2 /\ Len(NodesOf(rule, 1)) = 2
    BY <1>4, StmtOptsepsNodes
  <2>2. i = 1 BY <2>1
  <2>3. j = 2 BY <2>2, <2>1
  <2> QED BY <1>4, <2>2, <2>3, StmtOptsepsNodes DEF REDUCE
<1>5. CASE rule = "stmt"
  <2>1. Len(Productions(rule)) = 4 BY <1>5, StmtNodes
  <2>2. i \in {1, 2, 3} BY <2>1
  <2>3. CASE i = 1 BY <1>5, <2>3, StmtNodes DEF TERM, NTRM, REDUCE
  <2>4. CASE i = 2 BY <1>5, <2>4, StmtNodes DEF TERM, NTRM, REDUCE
  <2>5. CASE i = 3
    <3>1. NodesOf(rule, i)[1] # NodesOf(rule, i + 1)[1] BY <1>5, <2>5, StmtNodes DEF TERM, NTRM
    <3> QED BY <3>1
  <2> QED BY <2>2, <2>3, <2>4, <2>5
<1>6. CASE rule = "stmts"
  <2>1. Len(Productions(rule)) = 2 /\ Len(NodesOf(rule, 1)) = 3
    BY <1>6, StmtsNodes
  <2>2. i = 1 BY <2>1
  <2>3. j \in {2, 3} BY <2>2, <2>1
  <2> QED BY <1>6, <2>2, <2>3, StmtsNodes DEF LIST, REDUCE
<1>7. CASE rule = "braced_block"
  <2>1. Len(Productions(rule)) = 2 BY <1>7, BracedBlockNodes
  <2>2. i = 1 BY <2>1
  <2> DEFINE open == TERM("{") closed == TERM("}")
  <2>3. /\ NodesOf("braced_block", 1) = <<open, NTRM("block"), closed, REDUCE("tripple_ntrm")>>
        /\ NodesOf("braced_block", 2) =
             <<open, NTRM("stmt_optseps"), closed, REDUCE("empty_block")>>
    BY BracedBlockNodes, Zenon
  <2> HIDE DEF open, closed
  <2>4. j \in 2 .. 4 /\ j # 2 BY <1>7, <2>2, <2>3 DEF NTRM
  <2>5. NTRM("block") # NTRM("stmt_optseps") BY DEF NTRM
  <2>6. NodesOf(rule, i)[2] # NodesOf(rule, i + 1)[2] BY <1>7, <2>2, <2>3, <2>5
  <2>7. 2 \in 1 .. j - 1 BY <2>4
  <2> QED BY <2>6, <2>7
<1>8. CASE rule \in {"stmt_seps", "stmt_next", "block", "prog"}
  <2>1. Len(Productions(rule)) = 1
    BY <1>8, StmtSepsNodes, StmtNextNodes, BlockNodes, ProgNodes
  <2> QED BY <2>1
<1> QED
  BY <1>1, <1>2, <1>3, <1>4, <1>5, <1>6, <1>7, <1>8 DEF RuleNames, ChainRules
-----------------------------------------------------------------------------
(***************************************************************************)
(* The invariant                                                           *)
(***************************************************************************)
IsSeq(s) == s \in Seq(Range(s))

(* What the parser can be restored to: the end of the file is lexed with   *)
(* the end as the current token, whatever error came before.               *)
Placed(p, text) ==
  /\ p \in [cursor : Nat, current : Nat]
  /\ p.cursor \in 1 .. Len(text) /\ p.current \in 1 .. Len(text)
  /\ text[p.cursor] = Eof => p.current = p.cursor

NodeOf(f) == NodesOf(f.rule, f.i)[f.j]

Fields ==
  { "rule", "i", "j", "chk", "from", "params", "count", "folded", "block", "item",
    "looking", "match" }

(* A call has a parameter for every node of its production it is past.     *)
IsFrame(f, text) ==
  /\ DOMAIN f = Fields
  /\ f.rule \in RuleNames
  /\ f.i \in 1 .. Len(Productions(f.rule))
  /\ f.j \in 1 .. Len(NodesOf(f.rule, f.i))
  /\ f.count = f.j - 1
  /\ f.folded \in BOOLEAN
  /\ f.match \in {"untried", "looking", "refused"}
  /\ f.match # "untried" => NodeOf(f).type = "PN_TERM"
  /\ \A p \in {f.chk, f.from, f.item, f.looking} : Placed(p, text)

Calls(f) == NodeOf(f).type \in {"PN_RULE", "PN_RULE_LIST"}

LogOK ==
  /\ IsSeq(read)
  /\ cursor \in 0 .. Len(read) /\ current \in 0 .. Len(read)
  /\ probe.start \in Nat

FramesOK ==
  /\ IsSeq(frames)
  /\ \A d \in 1 .. Len(frames) :
       /\ IsFrame(frames[d], read)
       /\ d < Len(frames) \/ returned # Nothing => Calls(frames[d])
  /\ frames # <<>> => Placed(Here, read)

(* Behind the position a look began at there are newlines only. *)
Looks(f, here, text) ==
  f.match = "looking" =>
    /\ here.current = here.cursor /\ f.looking.cursor < here.cursor
    /\ text[f.looking.current] = "nl"
    /\ \A n \in f.looking.cursor + 1 .. here.cursor - 1 : text[n] = "nl"

LooksThroughNewlines == frames # <<>> => Looks(Top, Here, read)

(* A chain that was switched to its second production and did not fold.    *)
Behind(p, text) == text[p.current] \in {"nl", "-", "/"}

Switched(f, text) ==
  \/ f.i = 2 /\ f.j = 2
  \/ f.i = 2 /\ f.j \in {3, 4} /\ Behind(f.chk, text)
  \/ f.i = 3 /\ f.j = 1 /\ Behind(f.chk, text)
  \/ f.i = 3 /\ f.j = 2

(* The checkpoint of a call is where it was entered, but in the tail of an *)
(* if and in a chain.                                                      *)
Moved(f) == ~f.folded /\ f.chk # f.from

Checked(f, text) ==
  f.rule # "if_tail" /\ Moved(f) => f.rule \in ChainRules /\ Switched(f, text)

ChecksStay == Clean => \A d \in 1 .. Len(frames) : Checked(frames[d], read)

(* A call that has no parameter yet, nor an element of a list, or that was *)
(* just switched, is at its checkpoint, or was when it began to look.      *)
Starts(f) ==
  \/ f.j = 1 /\ NodeOf(f).type # "PN_RULE_LIST"
  \/ f.rule \in ChainRules /\ f.i = 2 /\ f.j = 2 /\ Moved(f)

IsAt(f, here) == Starts(f) => f.chk = IF f.match = "looking" THEN f.looking ELSE here

AtItsCheck == Clean /\ frames # <<>> /\ returned = Nothing => IsAt(Top, Here)

ParserInv ==
  /\ LogOK
  /\ FramesOK
  /\ ProbeIsTrue
  /\ LooksThroughNewlines
  /\ ChecksStay
  /\ AtItsCheck
-----------------------------------------------------------------------------
(***************************************************************************)
(* What a step of the lexer, and a change of the calls, leave alone        *)
(***************************************************************************)
LEMMA AnySeq ==
  ASSUME NEW S, NEW s \in Seq(S)
  PROVE  IsSeq(s)
BY DEF IsSeq, Range

LEMMA SeqFacts ==
  ASSUME NEW s, IsSeq(s)
  PROVE  /\ Len(s) \in Nat /\ DOMAIN s = 1 .. Len(s)
         /\ s = <<>> <=> Len(s) = 0
         /\ \A x : /\ IsSeq(Append(s, x)) /\ Len(Append(s, x)) = Len(s) + 1
                   /\ Append(s, x)[Len(s) + 1] = x
                   /\ \A n \in 1 .. Len(s) : Append(s, x)[n] = s[n]
<1> DEFINE S == Range(s)
<1>1. s \in Seq(S) BY DEF IsSeq
<1> HIDE DEF S
<1>2. Len(s) \in Nat /\ DOMAIN s = 1 .. Len(s) /\ (s = <<>> <=> Len(s) = 0) BY <1>1
<1> SUFFICES ASSUME NEW x
             PROVE  /\ IsSeq(Append(s, x)) /\ Len(Append(s, x)) = Len(s) + 1
                    /\ Append(s, x)[Len(s) + 1] = x
                    /\ \A n \in 1 .. Len(s) : Append(s, x)[n] = s[n]
  BY <1>2
<1> DEFINE t == Append(s, x)
<1>3. s \in Seq(S \cup {x}) BY <1>1
<1>4. /\ t \in Seq(S \cup {x}) /\ Len(t) = Len(s) + 1 /\ t[Len(s) + 1] = x
      /\ \A n \in 1 .. Len(s) : t[n] = s[n]
  BY <1>3
<1> HIDE DEF t
<1>5. t \in Seq(Range(t)) BY <1>4 DEF Range
<1> QED BY <1>4, <1>5 DEF t, IsSeq

(* The call at the top of the stack is changed, and the one below it is    *)
(* its caller.                                                             *)
SetTop(s, f) == [s EXCEPT ![Len(s)] = f]

LEMMA UpdatedTop ==
  ASSUME NEW s, IsSeq(s), s # <<>>, NEW f
  PROVE  LET t == SetTop(s, f)
         IN  /\ IsSeq(t) /\ Len(t) = Len(s) /\ t[Len(s)] = f
             /\ \A d \in 1 .. Len(s) - 1 : t[d] = s[d]
<1> DEFINE S == Range(s) t == SetTop(s, f)
<1>1. s \in Seq(S) BY DEF IsSeq
<1> HIDE DEF S
<1>2. Len(s) \in Nat \ {0} /\ DOMAIN s = 1 .. Len(s) BY <1>1
<1>3. s \in Seq(S \cup {f}) BY <1>1
<1>4. t \in Seq(S \cup {f}) /\ Len(t) = Len(s) BY <1>2, <1>3 DEF SetTop
<1>5. t[Len(s)] = f /\ \A d \in 1 .. Len(s) - 1 : t[d] = s[d] BY <1>2 DEF SetTop
<1> HIDE DEF t
<1>6. IsSeq(t) BY <1>4, AnySeq
<1>7. /\ IsSeq(t) /\ Len(t) = Len(s) /\ t[Len(s)] = f
      /\ \A d \in 1 .. Len(s) - 1 : t[d] = s[d]
  BY <1>4, <1>5, <1>6
<1> QED BY Zenon, <1>7 DEF t

LEMMA PoppedTop ==
  ASSUME NEW s, IsSeq(s), s # <<>>, NEW t, t = Front(s)
  PROVE  /\ IsSeq(t) /\ Len(t) = Len(s) - 1
         /\ \A d \in 1 .. Len(s) - 1 : t[d] = s[d]
<1> DEFINE S == Range(s)
<1>1. s \in Seq(S) BY DEF IsSeq
<1> HIDE DEF S
<1>2. Len(s) \in Nat \ {0} /\ DOMAIN s = 1 .. Len(s) BY <1>1
<1>3. t \in Seq(S) /\ Len(t) = Len(s) - 1 /\ \A d \in 1 .. Len(s) - 1 : t[d] = s[d]
  BY <1>1, <1>2 DEF Front
<1>4. t \in Seq(Range(t)) BY <1>3 DEF Range
<1> QED BY <1>3, <1>4 DEF IsSeq

(* What was read stays as it is, and so does every position in it. *)
Extends ==
  /\ IsSeq(read')
  /\ Len(read) <= Len(read')
  /\ \A n \in 1 .. Len(read) : read'[n] = read[n]
  /\ Clean' => Clean

LEMMA MoveFacts ==
  ASSUME LogOK, NEW got, Move(got)
  PROVE  /\ Extends
         /\ cursor' \in 0 .. Len(read') /\ current' \in 0 .. Len(read')
         /\ cursor' \in {cursor, cursor + 1}
         /\ got.ok => /\ current' = cursor' /\ cursor' \in 1 .. Len(read')
                      /\ cursor' = cursor => cursor \in 1 .. Len(read) /\ read[cursor] = Eof
         /\ ~got.ok => /\ current' = current /\ ~Clean'
                       /\ cursor' = cursor \/ read'[cursor'] = "open"
         /\ got.ok \in BOOLEAN
<1>1. /\ Len(read) \in Nat /\ DOMAIN read = 1 .. Len(read)
      /\ read = <<>> <=> Len(read) = 0
  BY SeqFacts DEF LogOK
<1>2. /\ got \in Fetch /\ read' = got.read /\ lost' = got.lost /\ cursor' = got.cursor
      /\ current' = IF got.ok THEN got.cursor ELSE current
  BY DEF Move
<1>3. cursor \in 0 .. Len(read) /\ current \in 0 .. Len(read) /\ IsSeq(read) BY DEF LogOK
<1>4. CASE /\ cursor < Len(read)
           /\ got = [read |-> read, lost |-> lost, cursor |-> cursor + 1,
                     ok |-> read[cursor + 1] # "open"]
  <2>1. /\ read' = read /\ lost' = lost /\ cursor' = cursor + 1
        /\ got.ok = (read[cursor + 1] # "open")
    BY <1>2, <1>4
  <2>2. Clean' = Clean BY <2>1 DEF Clean
  <2>3. ~got.ok => ~Clean'
    <3>1. cursor + 1 \in DOMAIN read BY <1>1, <1>3, <1>4
    <3> QED BY <2>1, <2>2, <3>1 DEF Clean, Range
  <2>4. Len(read) \in Nat /\ current \in 0 .. Len(read) BY <1>1, <1>3
  <2>5. Extends BY <1>3, <2>1, <2>2, <2>4 DEF Extends
  <2>6. cursor' \in 1 .. Len(read') /\ current' \in 0 .. Len(read')
    BY <1>2, <1>3, <1>4, <2>1, <2>4
  <2>7. cursor' # cursor BY <1>3, <2>1, <2>4
  <2>8. got.ok \in BOOLEAN /\ (~got.ok => read'[cursor'] = "open") BY <2>1
  <2>9. (got.ok => current' = cursor') /\ (~got.ok => current' = current)
    BY <1>2, <1>4
  <2>10. cursor' \in 0 .. Len(read') BY <2>6
  <2> QED BY <2>1, <2>3, <2>5, <2>6, <2>7, <2>8, <2>9, <2>10
<1>5. CASE /\ cursor = Len(read) /\ Ended
           /\ got = [read |-> read, lost |-> lost, cursor |-> cursor, ok |-> TRUE]
  <2>1. read' = read /\ lost' = lost /\ cursor' = cursor /\ got.ok BY <1>2, <1>5
  <2>2. Clean' = Clean BY <2>1 DEF Clean
  <2>3. cursor \in 1 .. Len(read) /\ read[cursor] = Eof BY <1>1, <1>3, <1>5 DEF Ended
  <2> QED BY <1>2, <1>3, <2>1, <2>2, <2>3 DEF Extends
<1>6. ASSUME cursor = Len(read),
             NEW t, got = [read |-> Append(read, t), lost |-> lost, cursor |-> cursor + 1,
                           ok |-> t # "open"]
      PROVE  /\ Extends
             /\ cursor' = Len(read') /\ cursor' = cursor + 1 /\ current' \in 0 .. Len(read')
             /\ got.ok => current' = cursor'
             /\ ~got.ok => current' = current /\ ~Clean' /\ read'[cursor'] = "open"
             /\ got.ok \in BOOLEAN
  <2>1. /\ read' = Append(read, t) /\ lost' = lost /\ cursor' = cursor + 1
        /\ got.ok = (t # "open")
    BY <1>2, <1>6
  <2>2. /\ IsSeq(read') /\ Len(read') = Len(read) + 1 /\ read'[Len(read) + 1] = t
        /\ \A n \in 1 .. Len(read) : read'[n] = read[n]
        /\ DOMAIN read' = 1 .. Len(read')
    BY <1>3, <2>1, SeqFacts
  <2>3. Clean' => Clean /\ t # "open"
    <3>1. Range(read) \subseteq Range(read') BY <1>1, <2>2 DEF Range
    <3>2. t \in Range(read') BY <1>1, <2>2 DEF Range
    <3> QED BY <2>1, <3>1, <3>2 DEF Clean
  <2>4. Len(read) \in Nat /\ current \in 0 .. Len(read) BY <1>1, <1>3
  <2>5. Extends BY <2>2, <2>3, <2>4 DEF Extends
  <2>6. cursor' = Len(read') /\ cursor' = cursor + 1 BY <1>6, <2>1, <2>2
  <2>7. current' \in 0 .. Len(read') BY <1>2, <1>6, <2>1, <2>2, <2>4
  <2>8. read'[cursor'] = t BY <1>6, <2>1, <2>2
  <2> QED BY <1>2, <1>6, <2>1, <2>3, <2>5, <2>6, <2>7, <2>8
<1>7. ASSUME NEW k, got = [read |-> read, lost |-> lost \cup {k}, cursor |-> cursor, ok |-> FALSE]
      PROVE  /\ Extends
             /\ cursor' = cursor /\ current' = current
             /\ ~got.ok /\ ~Clean'
  <2>1. read' = read /\ lost' = lost \cup {k} /\ cursor' = cursor /\ ~got.ok BY <1>2, <1>7
  <2>2. ~Clean' BY <2>1 DEF Clean
  <2> QED BY <1>2, <1>3, <2>1, <2>2 DEF Extends
<1>8. \/ cursor < Len(read)
      \/ cursor = Len(read)
  <2>1. Len(read) \in Nat BY <1>1
  <2>2. cursor \in 0 .. Len(read) BY <1>3
  <2> QED BY <2>1, <2>2
<1>9. CASE cursor < Len(read) BY <1>2, <1>4, <1>9 DEF Fetch
<1>10. CASE cursor = Len(read) /\ Ended BY <1>1, <1>2, <1>5, <1>10 DEF Fetch
<1>11. CASE cursor = Len(read) /\ ~Ended
  <2>1. ~(cursor < Len(read)) BY <1>1, <1>11
  <2>2. \/ \E t : got = [read |-> Append(read, t), lost |-> lost, cursor |-> cursor + 1,
                         ok |-> t # "open"]
        \/ \E k : got = [read |-> read, lost |-> lost \cup {k}, cursor |-> cursor, ok |-> FALSE]
    BY <1>2, <1>11, <2>1, Zenon DEF Fetch
  <2>3. CASE \E t : got = [read |-> Append(read, t), lost |-> lost, cursor |-> cursor + 1,
                           ok |-> t # "open"]
    <3>1. PICK t : got = [read |-> Append(read, t), lost |-> lost, cursor |-> cursor + 1,
                          ok |-> t # "open"]
      BY <2>3
    <3>2. /\ Extends
          /\ cursor' = Len(read') /\ cursor' = cursor + 1 /\ current' \in 0 .. Len(read')
          /\ got.ok => current' = cursor'
          /\ ~got.ok => current' = current /\ ~Clean' /\ read'[cursor'] = "open"
          /\ got.ok \in BOOLEAN
      BY <1>6, <1>11, <3>1
    <3> QED BY <1>1, <1>3, <3>2
  <2>4. CASE \E k : got = [read |-> read, lost |-> lost \cup {k}, cursor |-> cursor, ok |-> FALSE]
    <3>1. /\ Extends
          /\ cursor' = cursor /\ current' = current
          /\ ~got.ok /\ ~Clean'
      BY <1>7, <2>4
    <3>2. got.ok \in BOOLEAN BY <2>4
    <3> QED BY <1>1, <1>3, <3>1, <3>2 DEF Extends
  <2> QED BY <2>2, <2>3, <2>4
<1> QED BY <1>8, <1>9, <1>10, <1>11

LEMMA PlacesStay ==
  ASSUME LogOK, Extends
  PROVE  /\ \A p : Placed(p, read) => Placed(p, read')
         /\ \A f : IsFrame(f, read) => IsFrame(f, read')
         /\ \A p : Placed(p, read) /\ Behind(p, read) => Behind(p, read')
<1>1. Len(read) \in Nat /\ Len(read') \in Nat BY SeqFacts DEF LogOK, Extends
<1>2. \A p : Placed(p, read) => Placed(p, read') BY <1>1 DEF Placed, Extends
<1>3. \A f : IsFrame(f, read) => IsFrame(f, read') BY <1>2 DEF IsFrame
<1>4. \A p : Placed(p, read) /\ Behind(p, read) => Behind(p, read')
  BY <1>1 DEF Placed, Behind, Extends
<1> QED BY <1>2, <1>3, <1>4

(* What a call is at. *)
LEMMA NodeFacts ==
  ASSUME NEW text, NEW f, IsFrame(f, text)
  PROVE  /\ Len(NodesOf(f.rule, f.i)) \in Nat
         /\ NodeOf(f).type \in {"PN_TERM", "PN_RULE", "PN_RULE_LIST", "PN_REDUCE"}
         /\ NodeOf(f).type = "PN_REDUCE" <=> f.j = Len(NodesOf(f.rule, f.i))
         /\ Calls(f) => NodeOf(f).name \in RuleNames
<1> DEFINE nodes == NodesOf(f.rule, f.i)
<1>1. f.rule \in RuleNames /\ f.i \in 1 .. Len(Productions(f.rule)) /\ f.j \in 1 .. Len(nodes)
  BY DEF IsFrame
<1>2. Formed(nodes) BY <1>1, RulesAreGood DEF GoodRule
<1> HIDE DEF nodes
<1>3. CASE f.j = Len(nodes) BY <1>1, <1>2, <1>3 DEF Formed, NodeOf, Calls, nodes
<1>4. CASE f.j # Len(nodes)
  <2>1. Proper(nodes[f.j]) /\ Len(nodes) \in Nat BY <1>1, <1>2, <1>4 DEF Formed
  <2> QED BY <1>4, <2>1 DEF Proper, NodeOf, Calls, nodes
<1> QED BY <1>3, <1>4

LEMMA FreshIsFrame ==
  ASSUME NEW text, NEW rule \in RuleNames, NEW i \in 1 .. Len(Productions(rule)),
         NEW chk, Placed(chk, text), NEW from, Placed(from, text)
  PROVE  IsFrame(Fresh(rule, i, chk, from), text)
<1>1. Formed(NodesOf(rule, i)) BY RulesAreGood DEF GoodRule
<1> DEFINE nodes == NodesOf(rule, i)
<1>2. 1 \in 1 .. Len(nodes)
  <2>1. Formed(nodes) BY <1>1
  <2>2. Len(nodes) \in 1 .. 6 BY <2>1, Zenon DEF Formed
  <2> HIDE DEF nodes
  <2> QED BY <2>2
<1> DEFINE f == Fresh(rule, i, chk, from)
<1>3. /\ DOMAIN f = Fields /\ f.rule = rule /\ f.i = i /\ f.j = 1 /\ f.count = 0
      /\ f.folded = FALSE /\ f.match = "untried" /\ f.chk = chk /\ f.from = from
      /\ f.item = chk /\ f.looking = chk
  BY DEF Fresh, Fields
<1> HIDE DEF f
<1>4. \A p \in {f.chk, f.from, f.item, f.looking} : Placed(p, text) BY <1>3
<1>5. f.i \in 1 .. Len(Productions(f.rule)) /\ f.rule \in RuleNames BY Zenon, <1>3
<1>6. f.j \in 1 .. Len(NodesOf(f.rule, f.i)) BY Zenon, <1>2, <1>3
<1>7. f.count = f.j - 1 BY <1>3
<1>8. /\ f.folded \in BOOLEAN /\ f.match \in {"untried", "looking", "refused"}
      /\ f.match # "untried" => NodeOf(f).type = "PN_TERM"
  BY <1>3
<1>9. IsFrame(f, text) BY Zenon, <1>3, <1>4, <1>5, <1>6, <1>7, <1>8 DEF IsFrame
<1> QED BY <1>9 DEF f

(* The next node of a production. *)
LEMMA PushFields ==
  ASSUME NEW f, DOMAIN f = Fields, NEW p
  PROVE  LET g == Push(f, p)
         IN  /\ DOMAIN g = Fields /\ g.rule = f.rule /\ g.i = f.i /\ g.j = f.j + 1
             /\ g.count = f.count + 1 /\ g.folded = f.folded /\ g.match = "untried"
             /\ g.chk = f.chk /\ g.from = f.from /\ g.item = f.item /\ g.looking = f.looking
BY DEF Push, Fields

LEMMA PushIsFrame ==
  ASSUME NEW text, NEW f, IsFrame(f, text), NodeOf(f).type # "PN_REDUCE", NEW g,
         DOMAIN g = Fields, g.rule = f.rule, g.i = f.i, g.j = f.j + 1, g.count = f.count + 1,
         g.folded = f.folded, g.match = "untried", g.chk = f.chk, g.from = f.from,
         g.item = f.item, g.looking = f.looking
  PROVE  IsFrame(g, text)
<1>1. f.j \in 1 .. Len(NodesOf(f.rule, f.i)) /\ f.count = f.j - 1 BY DEF IsFrame
<1>2. Len(NodesOf(f.rule, f.i)) \in Nat /\ f.j # Len(NodesOf(f.rule, f.i)) BY NodeFacts
<1>3. f.j + 1 \in 1 .. Len(NodesOf(f.rule, f.i)) /\ f.count + 1 = f.j + 1 - 1
  BY <1>1, <1>2
<1>4. \A p \in {g.chk, g.from, g.item, g.looking} : Placed(p, text) BY DEF IsFrame
<1>5. g.match # "untried" => NodeOf(g).type = "PN_TERM" OBVIOUS
<1> QED BY <1>3, <1>4, <1>5 DEF IsFrame

(* Its other fields. *)
LEMMA ItemIsFrame ==
  ASSUME NEW text, NEW f, IsFrame(f, text), NEW g,
         DOMAIN g = Fields, g.rule = f.rule, g.i = f.i, g.j = f.j, g.count = f.count,
         g.folded = f.folded, g.chk = f.chk, g.from = f.from,
         Placed(g.item, text), Placed(g.looking, text),
         g.match \in {"untried", "looking", "refused"},
         g.match # "untried" => NodeOf(f).type = "PN_TERM"
  PROVE  IsFrame(g, text)
<1>1. NodeOf(g) = NodeOf(f) BY Zenon DEF NodeOf
<1>2. \A p \in {g.chk, g.from, g.item, g.looking} : Placed(p, text) BY DEF IsFrame
<1>3. /\ g.rule \in RuleNames /\ g.i \in 1 .. Len(Productions(g.rule))
      /\ g.j \in 1 .. Len(NodesOf(g.rule, g.i)) /\ g.count = g.j - 1 /\ g.folded \in BOOLEAN
  BY Zenon DEF IsFrame
<1> QED BY Zenon, <1>1, <1>2, <1>3 DEF IsFrame

(***************************************************************************)
(* The ways the stack of calls changes                                     *)
(***************************************************************************)
LEMMA ProbeStays ==
  ASSUME LogOK, ProbeIsTrue, Extends, probe' = probe
  PROVE  ProbeIsTrue' /\ probe'.start \in Nat
<1>1. Len(read) \in Nat /\ Len(read') \in Nat BY SeqFacts DEF LogOK, Extends
<1>2. probe.start \in Nat /\ probe'.start = probe.start BY DEF LogOK
<1>3. ASSUME probe # NoProbe PROVE ProbeIsTrue'
  <2>1. PICK k \in probe.start + 1 .. Len(read) :
          /\ read[k] = probe.kind /\ probe.kind # "nl"
          /\ \A n \in probe.start + 1 .. k - 1 : read[n] = "nl"
    BY <1>3 DEF ProbeIsTrue
  <2>2. k \in 1 .. Len(read) /\ k \in probe.start + 1 .. Len(read') BY <1>1, <1>2, <2>1 DEF Extends
  <2>3. read'[k] = probe.kind BY <2>1, <2>2 DEF Extends
  <2>4. \A n \in probe.start + 1 .. k - 1 : read'[n] = "nl"
    BY <1>1, <1>2, <2>1, <2>2 DEF Extends
  <2> QED BY <2>1, <2>2, <2>3, <2>4 DEF ProbeIsTrue
<1> QED BY <1>2, <1>3 DEF ProbeIsTrue, NoProbe

LEMMA CheckedStays ==
  ASSUME LogOK, Extends, NEW f, IsFrame(f, read), Checked(f, read)
  PROVE  Checked(f, read')
<1>1. Placed(f.chk, read) BY DEF IsFrame
<1>2. Behind(f.chk, read) => Behind(f.chk, read') BY <1>1, PlacesStay
<1> QED BY <1>2 DEF Checked, Switched

LEMMA HereIsPlaced ==
  ASSUME LogOK, Extends, Placed(Here', read'), probe'.start \in Nat
  PROVE  LogOK'
<1>1. cursor' \in 1 .. Len(read') /\ current' \in 1 .. Len(read') BY DEF Placed, Here
<1>2. Len(read') \in Nat /\ IsSeq(read') BY SeqFacts DEF Extends
<1> QED BY <1>1, <1>2 DEF LogOK

(* The innermost call goes on. *)
LEMMA CallGoesOn ==
  ASSUME ParserInv, Extends, frames # <<>>,
         NEW g, frames' = SetTop(frames, g), returned' = Nothing,
         IsFrame(g, read'), Placed(Here', read'),
         ProbeIsTrue', probe'.start \in Nat,
         Looks(g, Here', read'),
         Clean' => Checked(g, read') /\ IsAt(g, Here')
  PROVE  ParserInv'
<1>1. IsSeq(frames) /\ LogOK /\ FramesOK /\ ChecksStay BY DEF ParserInv, FramesOK
<1>2. /\ IsSeq(frames') /\ Len(frames') = Len(frames) /\ frames'[Len(frames)] = g
      /\ \A d \in 1 .. Len(frames) - 1 : frames'[d] = frames[d]
  BY <1>1, UpdatedTop
<1>3. Len(frames) \in Nat \ {0} /\ frames' # <<>> BY <1>1, <1>2, SeqFacts
<1>4. \A d \in 1 .. Len(frames) : IsFrame(frames'[d], read')
  BY <1>1, <1>2, <1>3, PlacesStay DEF FramesOK
<1>5. \A d \in 1 .. Len(frames) : d < Len(frames) => Calls(frames'[d])
  BY <1>1, <1>2, <1>3 DEF FramesOK
<1>6. FramesOK' BY <1>2, <1>4, <1>5 DEF FramesOK
<1>7. Top' = g BY <1>2 DEF Top
<1>8. ChecksStay'
  <2>1. SUFFICES ASSUME Clean', NEW d \in 1 .. Len(frames') PROVE Checked(frames'[d], read')
    BY DEF ChecksStay
  <2>2. CASE d = Len(frames)
    <3>1. frames'[d] = g BY Zenon, <1>2, <2>2
    <3> QED BY Zenon, <2>1, <3>1
  <2>3. CASE d # Len(frames)
    <3>1. d \in 1 .. Len(frames) - 1 /\ d \in 1 .. Len(frames) BY <1>2, <1>3, <2>3
    <3>2. IsFrame(frames[d], read) /\ Checked(frames[d], read)
      BY <1>1, <2>1, <3>1 DEF FramesOK, ChecksStay, Extends
    <3>3. Checked(frames[d], read') BY <1>1, <3>2, CheckedStays
    <3> QED BY Zenon, <1>2, <3>1, <3>3
  <2> QED BY <2>2, <2>3
<1>9. LogOK' BY <1>1, HereIsPlaced
<1> QED BY Zenon, <1>6, <1>7, <1>8, <1>9 DEF ParserInv, LooksThroughNewlines, AtItsCheck

(* The innermost call returns. *)
LEMMA CallReturns ==
  ASSUME ParserInv, Extends, frames # <<>>, frames' = Front(frames), returned' # Nothing,
         Placed(Here', read'), probe' = probe
  PROVE  ParserInv'
<1>1. IsSeq(frames) /\ LogOK /\ FramesOK /\ ChecksStay /\ ProbeIsTrue BY DEF ParserInv, FramesOK
<1>2. /\ IsSeq(frames') /\ Len(frames') = Len(frames) - 1
      /\ \A d \in 1 .. Len(frames) - 1 : frames'[d] = frames[d]
  BY <1>1, PoppedTop
<1>3. Len(frames) \in Nat \ {0} /\ (frames' # <<>> => Len(frames') \in Nat \ {0})
  BY <1>1, <1>2, SeqFacts
<1>4. \A d \in 1 .. Len(frames') : IsFrame(frames'[d], read') /\ Calls(frames'[d])
  BY <1>1, <1>2, <1>3, PlacesStay DEF FramesOK
<1>5. FramesOK' BY <1>2, <1>4 DEF FramesOK
<1>6. LooksThroughNewlines'
  <2>1. SUFFICES ASSUME frames' # <<>> PROVE Looks(Top', Here', read')
    BY DEF LooksThroughNewlines
  <2>2. IsFrame(Top', read') /\ Calls(Top') BY <1>3, <1>4, <2>1 DEF Top
  <2>3. Top'.match # "looking" BY <2>2 DEF IsFrame, Calls
  <2> QED BY <2>3 DEF Looks
<1>7. ChecksStay'
  <2>1. SUFFICES ASSUME Clean', NEW d \in 1 .. Len(frames') PROVE Checked(frames'[d], read')
    BY DEF ChecksStay
  <2>2. d \in 1 .. Len(frames) - 1 /\ d \in 1 .. Len(frames) BY <1>2, <1>3
  <2>3. IsFrame(frames[d], read) /\ Checked(frames[d], read)
    BY <1>1, <2>1, <2>2 DEF FramesOK, ChecksStay, Extends
  <2>4. Checked(frames[d], read') BY <1>1, <2>3, CheckedStays
  <2> QED BY Zenon, <1>2, <2>2, <2>4
<1>8. ProbeIsTrue' /\ probe'.start \in Nat BY <1>1, ProbeStays
<1>9. LogOK' BY <1>1, <1>8, HereIsPlaced
<1> QED BY Zenon, <1>5, <1>6, <1>7, <1>8, <1>9 DEF ParserInv, AtItsCheck

(***************************************************************************)
(* The actions                                                             *)
(***************************************************************************)
LEMMA LexerStays ==
  ASSUME LogOK, UNCHANGED lexer
  PROVE  Extends /\ Here' = Here /\ read' = read
BY SeqFacts DEF LogOK, Extends, lexer, Here, Clean

LEMMA LogStays ==
  ASSUME LogOK, UNCHANGED <<read, lost>>
  PROVE  Extends /\ read' = read
BY SeqFacts DEF LogOK, Extends, Clean

LEMMA RestoredIsHere ==
  ASSUME NEW p, Placed(p, read), Restore(p)
  PROVE  Here' = p
BY DEF Restore, Placed, Here

(* The innermost call, and what it is at. *)
LEMMA TopIsFrame ==
  ASSUME ParserInv, frames # <<>>
  PROVE  /\ IsFrame(Top, read) /\ Placed(Here, read)
         /\ NodeOf(Top) = Nodes(Top.i)[Top.j]
         /\ Clean => Checked(Top, read)
         /\ Len(frames) \in Nat \ {0}
<1>1. IsSeq(frames) BY DEF ParserInv, FramesOK
<1>2. Len(frames) \in Nat \ {0} BY <1>1, SeqFacts
<1>3. Len(frames) \in 1 .. Len(frames) BY <1>2
<1>4. IsFrame(Top, read) /\ Placed(Here, read) BY <1>3 DEF ParserInv, FramesOK, Top
<1>5. Clean => Checked(Top, read) BY <1>3 DEF ParserInv, ChecksStay, Top
<1>6. NodeOf(Top) = Nodes(Top.i)[Top.j] BY DEF NodeOf, NodesOf, Productions, Nodes, Rule
<1> QED BY <1>2, <1>4, <1>5, <1>6

(* A rule is entered where the lexer is. *)
LEMMA FreshCall ==
  ASSUME NEW text, NEW rule \in RuleNames, NEW i \in 1 .. Len(Productions(rule)),
         NEW chk, NEW from, NEW here
  PROVE  LET f == Fresh(rule, i, chk, from)
         IN  /\ Looks(f, here, text)
             /\ chk = from => Checked(f, text)
             /\ chk = here => IsAt(f, here)
<1> DEFINE f == Fresh(rule, i, chk, from)
<1>1. f.match = "untried" /\ f.chk = chk /\ f.from = from BY DEF Fresh
<1> HIDE DEF f
<1>2. /\ Looks(f, here, text)
      /\ chk = from => Checked(f, text)
      /\ chk = here => IsAt(f, here)
  BY <1>1 DEF Looks, Checked, Moved, IsAt
<1> QED BY <1>2 DEF f

LEMMA StartKeeps ==
  ASSUME ParserInv, Start
  PROVE  ParserInv'
<1>1. PICK got \in Fetch :
        /\ Move(got)
        /\ IF got.ok
           THEN LET here == [cursor |-> got.cursor, current |-> got.cursor]
                IN  /\ frames' = <<Fresh("prog", 1, here, here)>>
                    /\ UNCHANGED returned
           ELSE returned' = NotReduced /\ UNCHANGED frames
  BY DEF Start
<1>2. frames = <<>> /\ returned = Nothing /\ probe' = probe BY DEF Start
<1>3. LogOK /\ ProbeIsTrue BY DEF ParserInv
<1>4. /\ Extends
      /\ cursor' \in 0 .. Len(read') /\ current' \in 0 .. Len(read')
      /\ got.ok => current' = cursor' /\ cursor' \in 1 .. Len(read')
  BY <1>1, <1>3, MoveFacts
<1>5. ProbeIsTrue' /\ probe'.start \in Nat BY <1>2, <1>3, <1>4, ProbeStays
<1>6. LogOK' BY <1>3, <1>4, <1>5 DEF LogOK, Extends
<1>7. CASE ~got.ok
  <2>1. frames' = <<>> BY <1>1, <1>2, <1>7
  <2>2. IsSeq(frames') /\ Len(frames') = 0 BY <2>1 DEF IsSeq
  <2>3. FramesOK' BY <2>1, <2>2 DEF FramesOK
  <2>4. ChecksStay' BY <2>2 DEF ChecksStay
  <2> QED BY <1>5, <1>6, <2>1, <2>3, <2>4 DEF ParserInv, LooksThroughNewlines, AtItsCheck
<1>8. CASE got.ok
  <2> DEFINE here == [cursor |-> got.cursor, current |-> got.cursor]
             f    == Fresh("prog", 1, here, here)
  <2>1. frames' = <<f>> /\ returned' = Nothing BY <1>1, <1>2, <1>8
  <2>2. Here' = here BY <1>1, <1>4, <1>8 DEF Here, Move
  <2>3. Placed(here, read')
    <3>1. cursor' = got.cursor /\ cursor' \in 1 .. Len(read') BY <1>1, <1>4, <1>8 DEF Move
    <3>2. Len(read') \in Nat BY <1>4, SeqFacts DEF Extends
    <3> QED BY <3>1, <3>2 DEF Placed
  <2>4. "prog" \in RuleNames /\ 1 \in 1 .. Len(Productions("prog")) BY ProgNodes DEF RuleNames
  <2> HIDE DEF here
  <2>5. IsFrame(f, read') BY <2>3, <2>4, FreshIsFrame
  <2>6. Looks(f, here, read') /\ Checked(f, read') /\ IsAt(f, here) BY <2>4, FreshCall
  <2> HIDE DEF f
  <2>7. IsSeq(frames') /\ Len(frames') = 1 /\ frames'[1] = f BY <2>1 DEF IsSeq, Range
  <2>8. Top' = f /\ frames' # <<>> BY <2>1, <2>7 DEF Top
  <2>9. FramesOK' BY <2>1, <2>2, <2>3, <2>5, <2>7 DEF FramesOK
  <2>10. ChecksStay' BY <2>6, <2>7 DEF ChecksStay
  <2> QED
    BY Zenon, <1>5, <1>6, <2>2, <2>6, <2>8, <2>9, <2>10
       DEF ParserInv, LooksThroughNewlines, AtItsCheck
<1> QED BY <1>7, <1>8

LEMMA FinishKeeps ==
  ASSUME ParserInv, Finish
  PROVE  ParserInv'
<1>1. /\ frames = <<>> /\ frames' = frames /\ probe' = probe /\ UNCHANGED lexer
  BY DEF Finish
<1>2. LogOK /\ ProbeIsTrue /\ FramesOK /\ ChecksStay BY DEF ParserInv
<1>3. IsSeq(frames) /\ Len(frames) = 0 BY <1>1, <1>2, SeqFacts DEF FramesOK
<1>4. Extends /\ read' = read BY <1>1, <1>2, LexerStays
<1>5. ProbeIsTrue' BY <1>1, <1>2, <1>4, ProbeStays
<1>6. LogOK' BY <1>1, <1>2, <1>4 DEF LogOK, lexer
<1>7. FramesOK' /\ ChecksStay' BY <1>1, <1>3 DEF FramesOK, ChecksStay
<1> QED BY <1>1, <1>5, <1>6, <1>7 DEF ParserInv, LooksThroughNewlines, AtItsCheck

(* A call below: the depth is exhausted, or the rule is entered. *)
LEMMA CallKeeps ==
  ASSUME ParserInv, Call
  PROVE  ParserInv'
<1>1. frames # <<>> /\ returned = Nothing /\ NodeOf(Top).type \in {"PN_RULE", "PN_RULE_LIST"}
  BY TopIsFrame DEF Call, Running
<1>2. /\ IsFrame(Top, read) /\ Placed(Here, read) /\ Len(frames) \in Nat \ {0}
      /\ Clean => Checked(Top, read)
      /\ NodeOf(Top) = Nodes(Top.i)[Top.j]
  BY <1>1, TopIsFrame
<1>3. LogOK /\ ProbeIsTrue /\ FramesOK /\ ChecksStay /\ UNCHANGED lexer /\ probe' = probe
  BY DEF ParserInv, Call
<1>4. Extends /\ Here' = Here /\ read' = read BY <1>3, LexerStays
<1>5. ProbeIsTrue' /\ probe'.start \in Nat BY <1>3, <1>4, ProbeStays
<1>6. LogOK' BY <1>2, <1>3, <1>4, <1>5, HereIsPlaced
<1>7. Clean' => Clean BY <1>4 DEF Extends
<1>8. Top.match = "untried" BY <1>1, <1>2 DEF IsFrame
<1>9. CASE frames' = frames /\ returned' = NotReduced
  <2>1. Top' = Top BY <1>9 DEF Top
  <2>2. returned' # Nothing BY <1>9 DEF NotReduced, Nothing
  <2>3. \A d \in 1 .. Len(frames) : IsFrame(frames[d], read) /\ Calls(frames[d])
    <3>1. \A d \in 1 .. Len(frames) - 1 : Calls(frames[d]) BY <1>2, <1>3 DEF FramesOK
    <3>2. Calls(frames[Len(frames)]) BY <1>1 DEF Calls, Top
    <3>3. \A d \in 1 .. Len(frames) : IsFrame(frames[d], read) BY <1>3 DEF FramesOK
    <3> QED BY <1>2, <3>1, <3>2, <3>3
  <2>4. FramesOK' BY <1>2, <1>3, <1>4, <1>9, <2>3 DEF FramesOK
  <2>5. ChecksStay' BY <1>3, <1>4, <1>7, <1>9 DEF ChecksStay
  <2>6. LooksThroughNewlines' BY <1>8, <2>1 DEF LooksThroughNewlines, Looks
  <2> QED BY Zenon, <1>5, <1>6, <2>2, <2>4, <2>5, <2>6 DEF ParserInv, AtItsCheck
<1>10. CASE /\ frames' = Append([frames EXCEPT ![Len(frames)].item = Here],
                                Fresh(Expected, 1, Here, Here))
            /\ UNCHANGED returned
  <2> DEFINE g == [Top EXCEPT !.item = Here]
             h == Fresh(Expected, 1, Here, Here)
             s == SetTop(frames, g)
  <2>1. IsFrame(g, read) /\ Calls(g) /\ (Clean => Checked(g, read))
    <3>1. /\ DOMAIN g = Fields /\ g.rule = Top.rule /\ g.i = Top.i /\ g.j = Top.j
          /\ g.chk = Top.chk /\ g.from = Top.from /\ g.count = Top.count
          /\ g.folded = Top.folded /\ g.item = Here /\ g.looking = Top.looking
          /\ g.match = Top.match
      BY <1>2 DEF IsFrame, Fields
    <3> HIDE DEF g
    <3>2. IsFrame(g, read)
      <4>1. /\ Placed(g.item, read) /\ Placed(g.looking, read)
            /\ g.match \in {"untried", "looking", "refused"}
            /\ g.match # "untried" => NodeOf(Top).type = "PN_TERM"
        BY <1>2, <3>1 DEF IsFrame
      <4> QED BY <1>2, <3>1, <4>1, ItemIsFrame
    <3>3. Calls(g) BY <1>1, <3>1 DEF Calls, NodeOf
    <3>4. Clean => Checked(g, read) BY <1>2, <3>1 DEF Checked, Switched, Moved
    <3> QED BY <3>2, <3>3, <3>4
  <2>2. Expected \in RuleNames
    <3>1. Calls(Top) BY <1>1 DEF Calls
    <3>2. NodeOf(Top).name \in RuleNames BY <1>2, <3>1, NodeFacts
    <3> QED BY <1>2, <3>2 DEF Expected
  <2>3. 1 \in 1 .. Len(Productions(Expected)) BY <2>2, RulesAreGood DEF GoodRule
  <2>4. /\ IsFrame(h, read) /\ Looks(h, Here, read) /\ Checked(h, read) /\ IsAt(h, Here)
    BY <1>2, <2>2, <2>3, FreshIsFrame, FreshCall
  <2>5. frames' = Append(s, h) BY <1>10 DEF SetTop, Top
  <2> HIDE DEF g, h
  <2>6. IsSeq(frames) BY <1>3 DEF FramesOK
  <2>7. /\ IsSeq(s) /\ Len(s) = Len(frames) /\ s[Len(frames)] = g
        /\ \A d \in 1 .. Len(frames) - 1 : s[d] = frames[d]
    BY <1>1, <2>6, UpdatedTop
  <2> HIDE DEF s
  <2>8. /\ IsSeq(frames') /\ Len(frames') = Len(frames) + 1 /\ frames'[Len(frames) + 1] = h
        /\ \A d \in 1 .. Len(frames) : frames'[d] = s[d]
    BY <2>5, <2>7, SeqFacts
  <2>9. Top' = h /\ frames' # <<>> BY <1>2, <2>8, SeqFacts DEF Top
  <2>10. \A d \in 1 .. Len(frames) :
           /\ IsFrame(frames'[d], read) /\ Calls(frames'[d])
           /\ Clean => Checked(frames'[d], read)
    <3> TAKE d \in 1 .. Len(frames)
    <3>1. CASE d = Len(frames)
      <4>1. frames'[d] = g BY Zenon, <2>7, <2>8, <3>1
      <4> QED BY Zenon, <2>1, <4>1
    <3>2. CASE d # Len(frames)
      <4>1. d \in 1 .. Len(frames) - 1 BY <1>2, <3>2
      <4>2. frames'[d] = frames[d] BY Zenon, <2>7, <2>8, <4>1
      <4>3. d < Len(frames) BY <1>2, <3>2
      <4>4. IsFrame(frames[d], read) /\ Calls(frames[d]) /\ (Clean => Checked(frames[d], read))
        BY <1>3, <4>3 DEF FramesOK, ChecksStay
      <4> QED BY Zenon, <4>2, <4>4
    <3> QED BY <3>1, <3>2
  <2>11. \A d \in 1 .. Len(frames') : d \in 1 .. Len(frames) \/ d = Len(frames) + 1
    BY <1>2, <2>8
  <2>12. FramesOK'
    <3>1. \A d \in 1 .. Len(frames') : IsFrame(frames'[d], read')
      BY Zenon, <1>4, <2>4, <2>8, <2>10, <2>11
    <3>2. \A d \in 1 .. Len(frames') : d < Len(frames') \/ returned' # Nothing => Calls(frames'[d])
      <4> SUFFICES ASSUME NEW d \in 1 .. Len(frames'), d < Len(frames') \/ returned' # Nothing
                   PROVE  Calls(frames'[d])
        OBVIOUS
      <4>1. d < Len(frames') BY <1>1, <1>10
      <4>2. d \in 1 .. Len(frames) BY <1>2, <2>8, <2>11, <4>1
      <4> QED BY <2>10, <4>2
    <3>3. Placed(Here', read') BY <1>2, <1>4
    <3> QED BY <2>8, <3>1, <3>2, <3>3 DEF FramesOK
  <2>13. ChecksStay'
    <3>1. SUFFICES ASSUME Clean', NEW d \in 1 .. Len(frames') PROVE Checked(frames'[d], read')
      BY DEF ChecksStay
    <3> QED BY Zenon, <1>4, <1>7, <2>4, <2>8, <2>10, <2>11, <3>1
  <2> QED
    BY Zenon, <1>4, <1>5, <1>6, <2>4, <2>9, <2>12, <2>13
       DEF ParserInv, LooksThroughNewlines, AtItsCheck
<1> QED BY <1>9, <1>10 DEF Call

LEMMA AbandonKeeps ==
  ASSUME ParserInv, Abandon
  PROVE  ParserInv'
<1>1. /\ frames # <<>> /\ frames' = Front(frames) /\ returned' = NotReduced
      /\ UNCHANGED lexer /\ probe' = probe
  BY DEF Abandon, Return
<1>2. LogOK /\ Placed(Here, read) BY <1>1, TopIsFrame DEF ParserInv
<1>3. Extends /\ Placed(Here', read') BY <1>1, <1>2, LexerStays
<1>4. returned' # Nothing BY <1>1 DEF NotReduced, Nothing
<1> QED BY <1>1, <1>3, <1>4, CallReturns

LEMMA ReducedIsSomething == \A n : Reduced(n) # Nothing /\ NotReduced # Nothing
BY DEF Reduced, NotReduced, Nothing

LEMMA ReduceRuleKeeps ==
  ASSUME ParserInv, ReduceRule
  PROVE  ParserInv'
<1>1. /\ frames # <<>> /\ frames' = Front(frames)
      /\ returned' = Reduced(Reduce(Expected, Params))
      /\ UNCHANGED lexer /\ probe' = probe
  BY DEF ReduceRule, Running, Return
<1>2. LogOK /\ Placed(Here, read) BY <1>1, TopIsFrame DEF ParserInv
<1>3. Extends /\ Placed(Here', read') BY <1>1, <1>2, LexerStays
<1> QED BY <1>1, <1>3, CallReturns, ReducedIsSomething

LEMMA KeepFoldedKeeps ==
  ASSUME ParserInv, KeepFolded
  PROVE  ParserInv'
<1>1. /\ frames # <<>> /\ frames' = Front(frames)
      /\ returned' = Reduced(Top.params[1])
      /\ UNCHANGED lexer /\ probe' = probe
  BY DEF KeepFolded, Stuck, Running, Returned, Return
<1>2. LogOK /\ Placed(Here, read) BY <1>1, TopIsFrame DEF ParserInv
<1>3. Extends /\ Placed(Here', read') BY <1>1, <1>2, LexerStays
<1> QED BY <1>1, <1>3, CallReturns, ReducedIsSomething

LEMMA NoProductionKeeps ==
  ASSUME ParserInv, NoProduction
  PROVE  ParserInv'
<1>1. /\ frames # <<>> /\ frames' = Front(frames) /\ returned' = NotReduced
      /\ Restore(Top.chk) /\ UNCHANGED <<read, lost>> /\ probe' = probe
  BY DEF NoProduction, Stuck, Running, Returned, Return
<1>2. LogOK /\ Placed(Top.chk, read) BY <1>1, TopIsFrame DEF ParserInv, IsFrame
<1>3. Extends /\ read' = read /\ Here' = Top.chk BY <1>1, <1>2, LogStays, RestoredIsHere
<1>4. Placed(Here', read') BY <1>2, <1>3
<1> QED BY <1>1, <1>3, <1>4, CallReturns, ReducedIsSomething

(* Where a call of a chain is. *)
LEMMA ChainFrame ==
  ASSUME NEW text, NEW f, IsFrame(f, text), f.rule \in ChainRules
  PROVE  /\ f.i \in {1, 2, 3} /\ f.j \in {1, 2, 3, 4}
         /\ f.j = 1 => NodeOf(f).type = "PN_RULE"
         /\ f.j = 2 /\ f.i # 3 => NodeOf(f).type = "PN_TERM"
         /\ f.j = 2 /\ f.i = 3 => NodeOf(f).type = "PN_REDUCE"
         /\ f.j = 3 => f.i # 3 /\ NodeOf(f).type = "PN_RULE"
         /\ f.j = 4 => f.i # 3 /\ NodeOf(f).type = "PN_REDUCE"
<1>1. f.i \in 1 .. Len(Productions(f.rule)) /\ f.j \in 1 .. Len(NodesOf(f.rule, f.i))
  BY DEF IsFrame
<1>2. /\ Len(Productions(f.rule)) = 3
      /\ Len(NodesOf(f.rule, 1)) = 4 /\ Len(NodesOf(f.rule, 2)) = 4
      /\ Len(NodesOf(f.rule, 3)) = 2
  BY ChainNodes
<1>3. f.i \in 1 .. 3 BY Zenon, <1>1, <1>2
<1>4. f.i \in {1, 2, 3} BY <1>3
<1>5. Len(NodesOf(f.rule, f.i)) = IF f.i = 3 THEN 2 ELSE 4 BY Zenon, <1>2, <1>4
<1>6. f.j \in 1 .. IF f.i = 3 THEN 2 ELSE 4 BY Zenon, <1>1, <1>5
<1>7. CASE f.i = 1
  <2>1. f.j \in {1, 2, 3, 4} BY <1>6, <1>7
  <2> QED BY <1>7, <2>1, ChainNodes DEF NodeOf
<1>8. CASE f.i = 2
  <2>1. f.j \in {1, 2, 3, 4} BY <1>6, <1>8
  <2> QED BY <1>8, <2>1, ChainNodes DEF NodeOf
<1>9. CASE f.i = 3
  <2>1. f.j \in {1, 2} BY <1>6, <1>9
  <2> QED BY <1>9, <2>1, ChainNodes DEF NodeOf
<1> QED BY <1>4, <1>7, <1>8, <1>9

(* A parameter is added: what was checked of the call stays so, when the   *)
(* operator of a chain is read from its checkpoint on.                     *)
LEMMA PushedCall ==
  ASSUME NEW text, NEW f, IsFrame(f, text), Checked(f, text),
         NodeOf(f).type # "PN_REDUCE",
         f.rule \in ChainRules /\ f.i = 2 /\ f.j = 2 /\ Moved(f) => Behind(f.chk, text),
         NEW g, g.rule = f.rule, g.i = f.i, g.j = f.j + 1,
         g.folded = f.folded, g.chk = f.chk, g.from = f.from
  PROVE  Checked(g, text) /\ ~Starts(g)
<1>1. Moved(g) = Moved(f) BY Zenon DEF Moved
<1>2. f.j \in Nat \ {0}
  <2>1. f.j \in 1 .. Len(NodesOf(f.rule, f.i)) BY DEF IsFrame
  <2>2. Len(NodesOf(f.rule, f.i)) \in Nat BY NodeFacts
  <2> QED BY <2>1, <2>2
<1>3. ASSUME g.rule # "if_tail", Moved(g)
      PROVE  f.rule \in ChainRules /\ Switched(g, text) /\ ~Starts(g)
  <2>1. f.rule \in ChainRules /\ Switched(f, text) BY <1>1, <1>3 DEF Checked
  <2>2. /\ f.j \in {1, 2, 3, 4}
        /\ f.j = 2 /\ f.i = 3 => NodeOf(f).type = "PN_REDUCE"
        /\ f.j = 4 => NodeOf(f).type = "PN_REDUCE"
    BY <2>1, ChainFrame
  <2>3. CASE f.i = 2 /\ f.j = 2
    <3>1. Behind(g.chk, text) BY <1>1, <1>3, <2>1, <2>3
    <3> QED BY <2>1, <2>3, <3>1 DEF Switched, Starts
  <2>4. CASE f.i = 2 /\ f.j = 3 /\ Behind(f.chk, text)
    <3>1. g.i = 2 /\ g.j = 4 /\ Behind(g.chk, text) BY <2>4
    <3> QED BY <2>1, <3>1 DEF Switched, Starts
  <2>5. CASE f.i = 3 /\ f.j = 1
    <3>1. g.i = 3 /\ g.j = 2 BY <2>5
    <3> QED BY <2>1, <3>1 DEF Switched, Starts
  <2> QED BY <2>1, <2>2, <2>3, <2>4, <2>5 DEF Switched
<1>4. ASSUME Starts(g) PROVE FALSE
  <2>1. g.j # 1 BY <1>2
  <2>2. g.rule \in ChainRules /\ Moved(g) BY <1>4, <2>1 DEF Starts
  <2>3. g.rule # "if_tail" BY <2>2 DEF ChainRules
  <2> QED BY <1>3, <1>4, <2>2, <2>3
<1> QED BY <1>3, <1>4 DEF Checked

LEMMA SubRuleReducedKeeps ==
  ASSUME ParserInv, SubRuleReduced
  PROVE  ParserInv'
<1> DEFINE g == Push(Top, returned.result)
<1>1. /\ frames # <<>> /\ NodeOf(Top).type = "PN_RULE"
      /\ frames' = SetTop(frames, g) /\ returned' = Nothing
      /\ UNCHANGED lexer /\ probe' = probe
  BY TopIsFrame DEF SubRuleReduced, Returned, Update, SetTop
<1>2. /\ LogOK /\ ProbeIsTrue /\ IsFrame(Top, read) /\ Placed(Here, read)
      /\ Clean => Checked(Top, read)
  BY <1>1, TopIsFrame DEF ParserInv
<1>3. Extends /\ Here' = Here /\ read' = read BY <1>1, <1>2, LexerStays
<1>4. ProbeIsTrue' /\ probe'.start \in Nat BY <1>1, <1>2, <1>3, ProbeStays
<1>5. /\ DOMAIN g = Fields /\ g.rule = Top.rule /\ g.i = Top.i /\ g.j = Top.j + 1
      /\ g.count = Top.count + 1 /\ g.folded = Top.folded /\ g.match = "untried"
      /\ g.chk = Top.chk /\ g.from = Top.from /\ g.item = Top.item
      /\ g.looking = Top.looking
  BY <1>2, PushFields DEF IsFrame
<1> HIDE DEF g
<1>6. IsFrame(g, read) BY <1>1, <1>2, <1>5, PushIsFrame
<1>7. ASSUME Clean' PROVE Checked(g, read) /\ ~Starts(g)
  <2>1. Checked(Top, read) BY <1>2, <1>3, <1>7 DEF Extends
  <2>2. ~(Top.rule \in ChainRules /\ Top.i = 2 /\ Top.j = 2) BY <1>1, <1>2, ChainFrame
  <2> QED BY <1>1, <1>2, <1>5, <2>1, <2>2, PushedCall
<1>8. Looks(g, Here', read') BY <1>5 DEF Looks
<1>9. Clean' => Checked(g, read') /\ IsAt(g, Here') BY <1>3, <1>7 DEF IsAt
<1>10. IsFrame(g, read') /\ Placed(Here', read') BY <1>2, <1>3, <1>6
<1> QED BY <1>1, <1>3, <1>4, <1>8, <1>9, <1>10, CallGoesOn

LEMMA ListItemKeeps ==
  ASSUME ParserInv, ListItem
  PROVE  ParserInv'
<1> DEFINE g == [Top EXCEPT !.block = BlockAppend(@, returned.result)]
<1>1. /\ frames # <<>> /\ NodeOf(Top).type = "PN_RULE_LIST"
      /\ frames' = SetTop(frames, g) /\ returned' = Nothing
      /\ UNCHANGED lexer /\ probe' = probe
  BY TopIsFrame DEF ListItem, Returned, Update, SetTop
<1>2. /\ LogOK /\ ProbeIsTrue /\ IsFrame(Top, read) /\ Placed(Here, read)
      /\ Clean => Checked(Top, read)
  BY <1>1, TopIsFrame DEF ParserInv
<1>3. Extends /\ Here' = Here /\ read' = read BY <1>1, <1>2, LexerStays
<1>4. ProbeIsTrue' /\ probe'.start \in Nat BY <1>1, <1>2, <1>3, ProbeStays
<1>5. /\ DOMAIN g = Fields /\ g.rule = Top.rule /\ g.i = Top.i /\ g.j = Top.j
      /\ g.count = Top.count /\ g.folded = Top.folded /\ g.match = Top.match
      /\ g.chk = Top.chk /\ g.from = Top.from /\ g.item = Top.item
      /\ g.looking = Top.looking
  BY <1>2 DEF IsFrame, Fields
<1> HIDE DEF g
<1>6. IsFrame(g, read)
  <2>1. /\ Placed(g.item, read) /\ Placed(g.looking, read)
        /\ g.match \in {"untried", "looking", "refused"}
        /\ g.match # "untried" => NodeOf(Top).type = "PN_TERM"
    BY <1>2, <1>5 DEF IsFrame
  <2> QED BY <1>2, <1>5, <2>1, ItemIsFrame
<1>7. g.match = "untried" /\ NodeOf(g).type = "PN_RULE_LIST"
  <2>1. Top.match = "untried" BY <1>1, <1>2 DEF IsFrame
  <2>2. NodeOf(g) = NodeOf(Top) BY Zenon, <1>5 DEF NodeOf
  <2> QED BY <1>1, <1>5, <2>1, <2>2
<1>8. Looks(g, Here', read') BY <1>7 DEF Looks
<1>9. ~Starts(g)
  <2>1. g.rule \in ChainRules /\ g.i = 2 /\ g.j = 2 => NodeOf(g).type = "PN_TERM"
    BY <1>6, ChainFrame
  <2> QED BY <1>7, <2>1 DEF Starts
<1>10. Clean' => Checked(g, read')
  <2>1. Moved(g) = Moved(Top) BY Zenon, <1>5 DEF Moved
  <2>2. Switched(g, read) = Switched(Top, read) BY <1>5 DEF Switched
  <2> QED BY <1>2, <1>3, <1>5, <2>1, <2>2 DEF Checked, Extends
<1>11. Clean' => Checked(g, read') /\ IsAt(g, Here') BY <1>9, <1>10 DEF IsAt
<1>12. IsFrame(g, read') /\ Placed(Here', read') BY <1>2, <1>3, <1>6
<1> QED BY <1>1, <1>3, <1>4, <1>8, <1>11, <1>12, CallGoesOn

LEMMA ListEndKeeps ==
  ASSUME ParserInv, ListEnd
  PROVE  ParserInv'
<1> DEFINE p == Push(Top, Top.block)
           g == [p EXCEPT !.block = Null]
<1>1. /\ frames # <<>> /\ NodeOf(Top).type = "PN_RULE_LIST"
      /\ frames' = SetTop(frames, g) /\ returned' = Nothing
      /\ Restore(Top.item) /\ UNCHANGED <<read, lost>> /\ probe' = probe
  BY TopIsFrame DEF ListEnd, Returned, Update, SetTop
<1>2. /\ LogOK /\ ProbeIsTrue /\ IsFrame(Top, read)
      /\ Clean => Checked(Top, read)
  BY <1>1, TopIsFrame DEF ParserInv
<1>3. Placed(Top.item, read) BY <1>2 DEF IsFrame
<1>4. Extends /\ Here' = Top.item /\ read' = read BY <1>1, <1>2, <1>3, LogStays, RestoredIsHere
<1>5. ProbeIsTrue' /\ probe'.start \in Nat BY <1>1, <1>2, <1>4, ProbeStays
<1>6. /\ DOMAIN p = Fields /\ p.rule = Top.rule /\ p.i = Top.i /\ p.j = Top.j + 1
      /\ p.count = Top.count + 1 /\ p.folded = Top.folded /\ p.match = "untried"
      /\ p.chk = Top.chk /\ p.from = Top.from /\ p.item = Top.item
      /\ p.looking = Top.looking
  BY <1>2, PushFields DEF IsFrame
<1> HIDE DEF p
<1>7. /\ DOMAIN g = Fields /\ g.rule = Top.rule /\ g.i = Top.i /\ g.j = Top.j + 1
      /\ g.count = Top.count + 1 /\ g.folded = Top.folded /\ g.match = "untried"
      /\ g.chk = Top.chk /\ g.from = Top.from /\ g.item = Top.item
      /\ g.looking = Top.looking
  BY <1>6 DEF Fields
<1> HIDE DEF g
<1>8. IsFrame(g, read) BY <1>1, <1>2, <1>7, PushIsFrame
<1>9. ASSUME Clean' PROVE Checked(g, read) /\ ~Starts(g)
  <2>1. Checked(Top, read) BY <1>2, <1>4, <1>9 DEF Extends
  <2>2. ~(Top.rule \in ChainRules /\ Top.i = 2 /\ Top.j = 2) BY <1>1, <1>2, ChainFrame
  <2> QED BY <1>1, <1>2, <1>7, <2>1, <2>2, PushedCall
<1>10. Looks(g, Here', read') BY <1>7 DEF Looks
<1>11. Clean' => Checked(g, read') /\ IsAt(g, Here') BY <1>4, <1>9 DEF IsAt
<1>12. IsFrame(g, read') /\ Placed(Here', read') BY <1>3, <1>4, <1>8
<1> QED BY <1>1, <1>4, <1>5, <1>10, <1>11, <1>12, CallGoesOn

(* The lexer goes on, with an error or without. *)
LEMMA MovedHere ==
  ASSUME LogOK, Placed(Here, read), NEW got, Move(got)
  PROVE  Placed(Here', read')
<1>1. /\ cursor \in 1 .. Len(read) /\ current \in 1 .. Len(read)
      /\ read[cursor] = Eof => current = cursor
  BY DEF Placed, Here
<1>2. Len(read) \in Nat BY SeqFacts DEF LogOK
<1>3. /\ Extends
      /\ cursor' \in 0 .. Len(read') /\ current' \in 0 .. Len(read')
      /\ cursor' \in {cursor, cursor + 1}
      /\ got.ok => current' = cursor' /\ cursor' \in 1 .. Len(read')
      /\ ~got.ok => current' = current /\ (cursor' = cursor \/ read'[cursor'] = "open")
  BY MoveFacts
<1>4. Len(read') \in Nat BY <1>3, SeqFacts DEF Extends
<1>5. cursor' \in 1 .. Len(read') /\ current' \in 1 .. Len(read')
  BY <1>1, <1>2, <1>3, <1>4 DEF Extends
<1>6. read'[cursor'] = Eof => current' = cursor'
  <2>1. CASE got.ok BY <1>3, <2>1
  <2>2. CASE ~got.ok /\ cursor' = cursor
    <3>1. read'[cursor'] = read[cursor] BY <1>1, <1>3, <2>2 DEF Extends
    <3> QED BY <1>1, <1>3, <2>2, <3>1
  <2>3. CASE ~got.ok /\ read'[cursor'] = "open" BY <2>3 DEF Eof
  <2> QED BY <1>3, <2>1, <2>2, <2>3
<1>7. Here' = [cursor |-> cursor', current |-> current'] BY DEF Here
<1> QED BY <1>4, <1>5, <1>6, <1>7 DEF Placed

(* A look stays at the node the call is at. *)
LEMMA LookPastNewlineKeeps ==
  ASSUME ParserInv, LookPastNewline
  PROVE  ParserInv'
<1>1. PICK got \in Fetch :
        /\ Move(got)
        /\ Update([Top EXCEPT !.looking = IF Top.match = "untried" THEN Here ELSE @,
                              !.match = IF got.ok THEN "looking" ELSE "refused"])
  BY DEF LookPastNewline
<1> DEFINE g == [Top EXCEPT !.looking = IF Top.match = "untried" THEN Here ELSE @,
                            !.match = IF got.ok THEN "looking" ELSE "refused"]
<1>2. /\ frames # <<>> /\ NodeOf(Top).type = "PN_TERM" /\ returned' = Nothing /\ returned = Nothing
      /\ Current = "nl" /\ Top.match \in {"looking", "untried"} /\ probe' = probe
      /\ frames' = SetTop(frames, g)
  BY <1>1, TopIsFrame DEF LookPastNewline, Running, Update, SetTop
<1>3. /\ LogOK /\ ProbeIsTrue /\ IsFrame(Top, read) /\ Placed(Here, read)
      /\ Clean => Checked(Top, read) /\ IsAt(Top, Here)
      /\ Looks(Top, Here, read)
  BY <1>2, TopIsFrame DEF ParserInv, AtItsCheck, LooksThroughNewlines
<1>4. /\ Extends
      /\ cursor' \in {cursor, cursor + 1}
      /\ got.ok => /\ current' = cursor'
                   /\ cursor' = cursor => cursor \in 1 .. Len(read) /\ read[cursor] = Eof
      /\ ~got.ok => ~Clean'
  BY <1>1, <1>3, MoveFacts
<1>5. Placed(Here', read') BY <1>1, <1>3, MovedHere
<1>6. ProbeIsTrue' /\ probe'.start \in Nat BY <1>2, <1>3, <1>4, ProbeStays
<1>7. /\ DOMAIN g = Fields /\ g.rule = Top.rule /\ g.i = Top.i /\ g.j = Top.j
      /\ g.count = Top.count /\ g.folded = Top.folded
      /\ g.chk = Top.chk /\ g.from = Top.from /\ g.item = Top.item
      /\ g.looking = (IF Top.match = "untried" THEN Here ELSE Top.looking)
      /\ g.match = (IF got.ok THEN "looking" ELSE "refused")
  BY <1>3 DEF IsFrame, Fields
<1> HIDE DEF g
<1>8. IsFrame(g, read')
  <2>1. /\ Placed(g.item, read) /\ Placed(g.looking, read)
        /\ g.match \in {"untried", "looking", "refused"}
    BY <1>3, <1>7 DEF IsFrame
  <2>2. IsFrame(g, read) BY <1>2, <1>3, <1>7, <2>1, ItemIsFrame
  <2> QED BY <1>3, <1>4, <2>2, PlacesStay
<1>9. Looks(g, Here', read')
  <2>1. SUFFICES ASSUME g.match = "looking"
                 PROVE  /\ Here'.current = Here'.cursor /\ g.looking.cursor < Here'.cursor
                        /\ read'[g.looking.current] = "nl"
                        /\ \A n \in g.looking.cursor + 1 .. Here'.cursor - 1 : read'[n] = "nl"
    BY DEF Looks
  <2>2. got.ok BY <1>7, <2>1
  <2>3. Here'.current = current' /\ Here'.cursor = cursor' BY DEF Here
  <2>4. /\ cursor \in 1 .. Len(read) /\ current \in 1 .. Len(read) /\ Len(read) \in Nat
        /\ read[current] = "nl" /\ (read[cursor] = Eof => current = cursor)
    BY <1>2, <1>3, SeqFacts DEF Placed, Here, Current, LogOK
  <2>5. cursor' = cursor + 1 /\ current' = cursor' BY <1>4, <2>2, <2>4 DEF Eof
  <2>6. \A n \in 1 .. Len(read) : read'[n] = read[n] BY <1>4 DEF Extends
  <2>7. CASE Top.match = "untried"
    <3>1. g.looking.cursor = cursor /\ g.looking.current = current BY <1>7, <2>7 DEF Here
    <3>2. read'[g.looking.current] = "nl" BY <2>4, <2>6, <3>1
    <3>3. \A n \in g.looking.cursor + 1 .. cursor' - 1 : read'[n] = "nl" BY <2>4, <2>5, <3>1
    <3> QED BY <2>3, <2>4, <2>5, <3>1, <3>2, <3>3
  <2>8. CASE Top.match = "looking"
    <3>1. /\ current = cursor /\ Top.looking.cursor < cursor
          /\ read[Top.looking.current] = "nl"
          /\ \A n \in Top.looking.cursor + 1 .. cursor - 1 : read[n] = "nl"
      BY <1>3, <2>8 DEF Looks, Here
    <3>2. Top.looking.cursor \in 1 .. Len(read) /\ Top.looking.current \in 1 .. Len(read)
      BY <1>3 DEF IsFrame, Placed
    <3>3. g.looking = Top.looking BY <1>7, <2>8
    <3>4. read'[g.looking.current] = "nl" BY <2>6, <3>1, <3>2, <3>3
    <3>5. \A n \in g.looking.cursor + 1 .. cursor' - 1 : read'[n] = "nl"
      <4> TAKE n \in g.looking.cursor + 1 .. cursor' - 1
      <4>1. n \in 1 .. Len(read) /\ n \in Top.looking.cursor + 1 .. cursor
        BY <2>4, <2>5, <3>2, <3>3
      <4>2. read[n] = "nl"
        <5>1. CASE n = cursor BY <2>4, <3>1, <5>1
        <5>2. CASE n # cursor
          <6>1. n \in Top.looking.cursor + 1 .. cursor - 1 BY <2>4, <3>2, <4>1, <5>2
          <6> QED BY <3>1, <6>1
        <5> QED BY <5>1, <5>2
      <4> QED BY <2>6, <4>1, <4>2
    <3>6. g.looking.cursor < cursor' BY <2>4, <2>5, <3>1, <3>2, <3>3
    <3> QED BY <2>3, <2>5, <3>4, <3>5, <3>6
  <2> QED BY <1>2, <2>7, <2>8
<1>10. Clean' => Checked(g, read')
  <2>1. Moved(g) = Moved(Top) BY Zenon, <1>7 DEF Moved
  <2>2. Switched(g, read) = Switched(Top, read) BY <1>7 DEF Switched
  <2>3. Clean => Checked(g, read) BY <1>3, <1>7, <2>1, <2>2 DEF Checked
  <2>4. Placed(g.chk, read) BY <1>3, <1>7 DEF IsFrame
  <2>5. Behind(g.chk, read) => Behind(g.chk, read') BY <1>3, <1>4, <2>4, PlacesStay
  <2>6. Switched(g, read) => Switched(g, read') BY <2>5 DEF Switched
  <2> QED BY <1>4, <2>3, <2>6 DEF Checked, Extends
<1>11. Clean' => IsAt(g, Here')
  <2>1. SUFFICES ASSUME Clean', Starts(g) PROVE g.chk = g.looking /\ g.match = "looking"
    BY DEF IsAt
  <2>2. Clean /\ got.ok BY <1>4, <2>1 DEF Extends
  <2>3. Moved(g) = Moved(Top) /\ NodeOf(g) = NodeOf(Top) BY Zenon, <1>7 DEF Moved, NodeOf
  <2>4. Starts(Top) BY <1>7, <2>1, <2>3 DEF Starts
  <2>5. Top.chk = IF Top.match = "looking" THEN Top.looking ELSE Here
    BY <1>3, <2>2, <2>4 DEF IsAt
  <2> QED BY <1>2, <1>7, <2>2, <2>5
<1> QED BY <1>2, <1>4, <1>5, <1>6, <1>8, <1>9, <1>10, <1>11, CallGoesOn

LEMMA LookedInVainKeeps ==
  ASSUME ParserInv, LookedInVain
  PROVE  ParserInv'
<1> DEFINE g == [Top EXCEPT !.match = "refused"]
<1>1. /\ frames # <<>> /\ NodeOf(Top).type = "PN_TERM" /\ returned' = Nothing /\ returned = Nothing
      /\ Current # "nl" /\ Top.match = "looking"
      /\ probe' = [start |-> Top.looking.cursor, kind |-> Current]
      /\ Restore(Top.looking) /\ UNCHANGED <<read, lost>>
      /\ frames' = SetTop(frames, g)
  BY TopIsFrame DEF LookedInVain, Running, Update, SetTop
<1>2. /\ LogOK /\ IsFrame(Top, read) /\ Placed(Here, read)
      /\ Clean => Checked(Top, read) /\ IsAt(Top, Here)
      /\ Looks(Top, Here, read)
  BY <1>1, TopIsFrame DEF ParserInv, AtItsCheck, LooksThroughNewlines
<1>3. Placed(Top.looking, read) BY <1>2 DEF IsFrame
<1>4. Extends /\ read' = read /\ Here' = Top.looking
  BY <1>1, <1>2, <1>3, LogStays, RestoredIsHere
<1>5. ProbeIsTrue' /\ probe'.start \in Nat
  <2>1. probe'.start = Top.looking.cursor /\ probe'.kind = Current BY <1>1
  <2>2. Top.looking.cursor \in 1 .. Len(read) /\ Len(read) \in Nat
    BY <1>2, <1>3, SeqFacts DEF Placed, LogOK
  <2>3. cursor \in 1 .. Len(read) BY <1>2 DEF Placed, Here
  <2>4. /\ current = cursor /\ Top.looking.cursor < cursor
        /\ \A n \in Top.looking.cursor + 1 .. cursor - 1 : read[n] = "nl"
    BY <1>1, <1>2 DEF Looks, Here
  <2>5. cursor \in probe'.start + 1 .. Len(read') BY <1>4, <2>1, <2>2, <2>3, <2>4
  <2>6. read'[cursor] = probe'.kind /\ probe'.kind # "nl" BY <1>1, <1>4, <2>1, <2>4 DEF Current
  <2>7. \A n \in probe'.start + 1 .. cursor - 1 : read'[n] = "nl" BY <1>4, <2>1, <2>4
  <2>8. ProbeIsTrue' BY <2>5, <2>6, <2>7 DEF ProbeIsTrue
  <2> QED BY <2>1, <2>2, <2>8
<1>6. /\ DOMAIN g = Fields /\ g.rule = Top.rule /\ g.i = Top.i /\ g.j = Top.j
      /\ g.count = Top.count /\ g.folded = Top.folded /\ g.match = "refused"
      /\ g.chk = Top.chk /\ g.from = Top.from /\ g.item = Top.item
      /\ g.looking = Top.looking
  BY <1>2 DEF IsFrame, Fields
<1> HIDE DEF g
<1>7. IsFrame(g, read)
  <2>1. /\ Placed(g.item, read) /\ Placed(g.looking, read)
        /\ g.match \in {"untried", "looking", "refused"}
    BY <1>2, <1>6 DEF IsFrame
  <2> QED BY <1>1, <1>2, <1>6, <2>1, ItemIsFrame
<1>8. Looks(g, Here', read') BY <1>6 DEF Looks
<1>9. Clean' => Checked(g, read') /\ IsAt(g, Here')
  <2>1. Moved(g) = Moved(Top) /\ NodeOf(g) = NodeOf(Top) BY Zenon, <1>6 DEF Moved, NodeOf
  <2>2. Switched(g, read) = Switched(Top, read) BY <1>6 DEF Switched
  <2>3. Clean => Checked(g, read) BY <1>2, <1>6, <2>1, <2>2 DEF Checked
  <2>4. Starts(g) = Starts(Top) BY <1>6, <2>1 DEF Starts
  <2>5. Clean => IsAt(g, Here') BY <1>1, <1>2, <1>4, <1>6, <2>4 DEF IsAt
  <2> QED BY <1>4, <2>3, <2>5 DEF Extends
<1>10. IsFrame(g, read') /\ Placed(Here', read') BY <1>3, <1>4, <1>7
<1> QED BY <1>1, <1>4, <1>5, <1>8, <1>9, <1>10, CallGoesOn

LEMMA AcceptTokenKeeps ==
  ASSUME ParserInv, AcceptToken
  PROVE  ParserInv'
<1>1. PICK got \in Fetch :
        /\ Move(got)
        /\ IF got.ok
           THEN Update(Push(Top, Token(current))) /\ UNCHANGED returned
           ELSE Return(NotReduced)
  BY DEF AcceptToken
<1> DEFINE g == Push(Top, Token(current))
<1>2. /\ frames # <<>> /\ NodeOf(Top).type = "PN_TERM" /\ returned = Nothing
      /\ Matches /\ probe' = probe
  BY TopIsFrame DEF AcceptToken, Running
<1>3. /\ LogOK /\ ProbeIsTrue /\ IsFrame(Top, read) /\ Placed(Here, read)
      /\ Clean => Checked(Top, read) /\ IsAt(Top, Here)
      /\ Looks(Top, Here, read)
  BY <1>2, TopIsFrame DEF ParserInv, AtItsCheck, LooksThroughNewlines
<1>4. Extends BY <1>1, <1>3, MoveFacts
<1>5. Placed(Here', read') BY <1>1, <1>3, MovedHere
<1>6. ProbeIsTrue' /\ probe'.start \in Nat BY <1>2, <1>3, <1>4, ProbeStays
<1>7. CASE ~got.ok
  <2>1. frames' = Front(frames) /\ returned' # Nothing
    BY <1>1, <1>7, ReducedIsSomething DEF Return
  <2> QED BY <1>2, <1>4, <1>5, <2>1, CallReturns
<1>8. CASE got.ok
  <2>1. frames' = SetTop(frames, g) /\ returned' = Nothing
    BY <1>1, <1>2, <1>8 DEF Update, SetTop
  <2>2. /\ DOMAIN g = Fields /\ g.rule = Top.rule /\ g.i = Top.i /\ g.j = Top.j + 1
        /\ g.count = Top.count + 1 /\ g.folded = Top.folded /\ g.match = "untried"
        /\ g.chk = Top.chk /\ g.from = Top.from /\ g.item = Top.item
        /\ g.looking = Top.looking
    BY <1>3, PushFields DEF IsFrame
  <2> HIDE DEF g
  <2>3. IsFrame(g, read) BY <1>2, <1>3, <2>2, PushIsFrame
  <2>4. IsFrame(g, read') BY <1>3, <1>4, <2>3, PlacesStay
  <2>5. ASSUME Clean', Top.rule \in ChainRules /\ Top.i = 2 /\ Top.j = 2 /\ Moved(Top)
        PROVE  Behind(Top.chk, read)
    <3>1. Top.chk = IF Top.match = "looking" THEN Top.looking ELSE Here
      BY <1>3, <1>4, <2>5 DEF Extends, IsAt, Starts
    <3>2. CASE Top.match = "looking"
      BY <1>3, <3>1, <3>2 DEF Looks, Behind
    <3>3. CASE Top.match # "looking"
      <4>1. Current = Expected /\ Expected = NodeOf(Top).name
        BY <1>2, <3>3, TopIsFrame DEF Matches, Expected
      <4>2. NodeOf(Top).name \in {"-", "/"} BY <2>5, ChainNodes DEF NodeOf
      <4>3. Top.chk.current = current BY <3>1, <3>3 DEF Here
      <4> QED BY <4>1, <4>2, <4>3 DEF Behind, Current
    <3> QED BY <3>2, <3>3
  <2>6. ASSUME Clean' PROVE Checked(g, read) /\ ~Starts(g)
    <3>1. Checked(Top, read) BY <1>3, <1>4, <2>6 DEF Extends
    <3> QED BY <1>2, <1>3, <2>2, <2>5, <2>6, <3>1, PushedCall
  <2>7. Clean' => Checked(g, read') /\ IsAt(g, Here')
    <3>1. Clean' => Checked(g, read') BY <1>3, <1>4, <2>3, <2>6, CheckedStays
    <3> QED BY <2>6, <3>1 DEF IsAt
  <2>8. Looks(g, Here', read') BY <2>2 DEF Looks
  <2> QED BY <1>2, <1>4, <1>5, <1>6, <2>1, <2>4, <2>7, <2>8, CallGoesOn
<1> QED BY <1>7, <1>8

(* A switch past the first node: the tail of an if, or the operator of a   *)
(* chain.                                                                  *)
LEMMA Switches ==
  ASSUME NEW text, NEW f, IsFrame(f, text), NodeOf(f).type = "PN_TERM",
         f.i < Len(Productions(f.rule)),
         Len(NodesOf(f.rule, f.i + 1)) >= f.j - 1,
         \A k \in 1 .. f.j - 1 : NodesOf(f.rule, f.i)[k] = NodesOf(f.rule, f.i + 1)[k]
  PROVE  /\ f.i + 1 \in 1 .. Len(Productions(f.rule))
         /\ f.j \in 1 .. Len(NodesOf(f.rule, f.i + 1))
         /\ \/ f.j = 1 /\ f.rule \notin ChainRules
            \/ f.rule = "if_tail"
            \/ f.rule \in ChainRules /\ f.i \in {1, 2} /\ f.j = 2
<1> DEFINE here == NodesOf(f.rule, f.i)  next == NodesOf(f.rule, f.i + 1)
<1>1. f.rule \in RuleNames /\ f.i \in 1 .. Len(Productions(f.rule)) /\ f.j \in 1 .. Len(here)
  BY DEF IsFrame
<1>2. Len(Productions(f.rule)) \in 1 .. 5 BY <1>1, RulesAreGood DEF GoodRule
<1>3. f.i + 1 \in 1 .. Len(Productions(f.rule)) /\ f.i \in 1 .. Len(Productions(f.rule)) - 1
  BY <1>1, <1>2
<1>4. Formed(here) /\ Formed(next) BY <1>1, <1>3, RulesAreGood DEF GoodRule
<1>5. /\ Len(next) >= f.j - 1
      /\ \A k \in 1 .. f.j - 1 : here[k] = next[k]
      /\ here[f.j].type = "PN_TERM"
  BY DEF NodeOf
<1> HIDE DEF here, next
<1>6. f.j \in 1 .. Len(next)
  <2>1. Len(here) \in 1 .. 6 /\ Len(next) \in 1 .. 6 BY Zenon, <1>4 DEF Formed
  <2>2. CASE f.j = 1
    <3>1. \A n \in 1 .. 6 : 1 \in 1 .. n OBVIOUS
    <3> QED BY Zenon, <2>1, <2>2, <3>1
  <2>3. CASE f.j # 1
    <3>1. f.j - 1 \in 1 .. Len(here) - 1 /\ f.j - 1 \in 1 .. f.j - 1 BY <1>1, <2>1, <2>3
    <3>2. Proper(here[f.j - 1]) BY <1>4, <3>1 DEF Formed
    <3>3. next[f.j - 1].type # "PN_REDUCE" BY <1>5, <3>1, <3>2 DEF Proper
    <3>4. next[Len(next)].type = "PN_REDUCE" BY <1>4 DEF Formed
    <3>5. f.j - 1 # Len(next) BY Zenon, <3>3, <3>4
    <3> QED BY <1>1, <1>5, <2>1, <3>5
  <2> QED BY <2>2, <2>3
<1>7. ASSUME f.rule \notin ChainRules, f.rule # "if_tail" PROVE f.j = 1
  <2>1. SUFFICES ASSUME f.j # 1 PROVE FALSE OBVIOUS
  <2>2. f.rule \in RuleNames \ (ChainRules \cup {"if_tail"}) BY <1>1, <1>7
  <2>3. Len(here) \in 1 .. 6 BY Zenon, <1>4 DEF Formed
  <2>4. f.j \in 2 .. Len(here) BY <1>1, <2>1, <2>3
  <2>5. \E k \in 1 .. f.j - 1 : here[k] # next[k]
    BY <1>3, <1>5, <2>2, <2>4, LateSwitch DEF here, next
  <2> QED BY <1>5, <2>5
<1>8. ASSUME f.rule \in ChainRules PROVE f.i \in {1, 2} /\ f.j = 2
  <2>1. f.j = 2 BY <1>8, ChainFrame
  <2>2. f.i # 3 BY <1>8, <2>1, ChainFrame
  <2> QED BY <1>8, <2>1, <2>2, ChainFrame
<1> QED BY <1>3, <1>6, <1>7, <1>8 DEF next

LEMMA SwitchProductionKeeps ==
  ASSUME ParserInv, SwitchProduction
  PROVE  ParserInv'
<1> DEFINE g == [Top EXCEPT !.i = @ + 1, !.chk = Here, !.match = "untried"]
<1>1. /\ frames # <<>> /\ NodeOf(Top).type = "PN_TERM" /\ returned' = Nothing /\ returned = Nothing
      /\ Refused /\ NextSharesPrefix /\ UNCHANGED lexer /\ probe' = probe
      /\ frames' = SetTop(frames, g)
  BY TopIsFrame DEF SwitchProduction, Running, Update, SetTop
<1>2. /\ LogOK /\ ProbeIsTrue /\ IsFrame(Top, read) /\ Placed(Here, read)
      /\ Clean => Checked(Top, read) /\ IsAt(Top, Here)
  BY <1>1, TopIsFrame DEF ParserInv, AtItsCheck
<1>3. Extends /\ Here' = Here /\ read' = read BY <1>1, <1>2, LexerStays
<1>4. ProbeIsTrue' /\ probe'.start \in Nat BY <1>1, <1>2, <1>3, ProbeStays
<1>5. /\ DOMAIN g = Fields /\ g.rule = Top.rule /\ g.i = Top.i + 1 /\ g.j = Top.j
      /\ g.count = Top.count /\ g.folded = Top.folded /\ g.match = "untried"
      /\ g.chk = Here /\ g.from = Top.from /\ g.item = Top.item
      /\ g.looking = Top.looking
  BY <1>2 DEF IsFrame, Fields
<1> HIDE DEF g
<1>6. /\ Top.i + 1 \in 1 .. Len(Productions(Top.rule))
      /\ Top.j \in 1 .. Len(NodesOf(Top.rule, Top.i + 1))
      /\ \/ Top.j = 1 /\ Top.rule \notin ChainRules
         \/ Top.rule = "if_tail"
         \/ Top.rule \in ChainRules /\ Top.i \in {1, 2} /\ Top.j = 2
  <2>1. /\ Top.i < Len(Productions(Top.rule))
        /\ Len(NodesOf(Top.rule, Top.i + 1)) >= Top.j - 1
        /\ \A k \in 1 .. Top.j - 1 :
             NodesOf(Top.rule, Top.i)[k] = NodesOf(Top.rule, Top.i + 1)[k]
    BY <1>1 DEF NextSharesPrefix, Nodes, Rule, NodesOf, Productions
  <2> QED BY <1>1, <1>2, <2>1, Switches
<1>7. IsFrame(g, read)
  <2>1. \A p \in {g.chk, g.from, g.item, g.looking} : Placed(p, read) BY <1>2, <1>5 DEF IsFrame
  <2>2. g.i \in 1 .. Len(Productions(g.rule)) /\ g.j \in 1 .. Len(NodesOf(g.rule, g.i))
    BY Zenon, <1>5, <1>6
  <2>3. g.rule \in RuleNames /\ g.count = g.j - 1 /\ g.folded \in BOOLEAN
    BY Zenon, <1>2, <1>5 DEF IsFrame
  <2>4. /\ g.match \in {"untried", "looking", "refused"}
        /\ g.match # "untried" => NodeOf(g).type = "PN_TERM"
    BY <1>5
  <2> QED BY Zenon, <1>5, <2>1, <2>2, <2>3, <2>4 DEF IsFrame
<1>8. Clean => Checked(g, read)
  <2>1. SUFFICES ASSUME Clean, g.rule # "if_tail", Moved(g)
                 PROVE  g.rule \in ChainRules /\ Switched(g, read)
    BY DEF Checked
  <2>2. CASE Top.j = 1 /\ Top.rule \notin ChainRules
    <3>1. Starts(Top) BY <1>1, <2>2 DEF Starts
    <3>2. Top.match # "looking" BY <1>1 DEF Refused
    <3>3. Top.chk = Here BY <1>2, <2>1, <3>1, <3>2 DEF IsAt
    <3>4. Moved(Top) BY <1>5, <2>1, <3>3 DEF Moved
    <3> QED BY <1>2, <1>5, <2>1, <2>2, <3>4 DEF Checked
  <2>3. CASE Top.rule \in ChainRules /\ Top.i \in {1, 2} /\ Top.j = 2
    <3>1. g.i \in {2, 3} /\ g.j = 2 BY <1>5, <2>3
    <3> QED BY <1>5, <2>3, <3>1 DEF Switched
  <2> QED BY <1>5, <1>6, <2>1, <2>2, <2>3
<1>9. Clean' => Checked(g, read') /\ IsAt(g, Here') BY <1>3, <1>5, <1>8 DEF Extends, IsAt
<1>10. Looks(g, Here', read') BY <1>5 DEF Looks
<1>11. IsFrame(g, read') /\ Placed(Here', read') BY <1>2, <1>3, <1>7
<1> QED BY <1>1, <1>3, <1>4, <1>9, <1>10, <1>11, CallGoesOn

(* What is tried in vain was not switched at the operator of a chain: the  *)
(* next production begins with the same operand.                           *)
LEMMA StuckBehind ==
  ASSUME ParserInv, Stuck, ~Top.folded, Clean, Top.chk # Top.from, Top.rule # "if_tail"
  PROVE  /\ Top.rule \in ChainRules /\ Top.i \in {2, 3} /\ Behind(Top.chk, read)
<1>1. frames # <<>> /\ NodeOf(Top).type \in {"PN_TERM", "PN_RULE"}
  BY TopIsFrame DEF Stuck, Running, Returned
<1>2. IsFrame(Top, read) /\ Checked(Top, read) BY <1>1, TopIsFrame
<1>3. Top.rule \in ChainRules /\ Switched(Top, read) BY <1>2 DEF Checked, Moved
<1>4. CASE Top.i = 2 /\ Top.j = 2
  <2>1. NodeOf(Top).type = "PN_TERM" BY <1>2, <1>3, <1>4, ChainFrame
  <2>2. ~NextSharesPrefix BY <2>1, TopIsFrame, <1>1 DEF Stuck, Running, Returned
  <2>3. /\ Len(Productions(Top.rule)) = 3 /\ Len(NodesOf(Top.rule, 3)) = 2
        /\ NodesOf(Top.rule, 3)[1] = NodesOf(Top.rule, 2)[1]
    BY <1>3, ChainNodes
  <2>4. /\ Len(Rule.productions) = 3 /\ Len(Nodes(Top.i + 1)) = 2
        /\ \A k \in 1 .. Top.j - 1 : Nodes(Top.i)[k] = Nodes(Top.i + 1)[k]
    BY <1>4, <2>3 DEF Nodes, Rule, NodesOf, Productions
  <2>5. NextSharesPrefix BY <1>4, <2>4 DEF NextSharesPrefix
  <2> QED BY <2>2, <2>5
<1>5. CASE Top.i = 3 /\ Top.j = 2
  <2>1. NodeOf(Top).type = "PN_REDUCE" BY <1>2, <1>3, <1>5, ChainFrame
  <2> QED BY <1>1, <2>1
<1> QED BY <1>3, <1>4, <1>5 DEF Switched

LEMMA NextProductionKeeps ==
  ASSUME ParserInv, NextProduction
  PROVE  ParserInv'
<1> DEFINE g == Fresh(Top.rule, Top.i + 1, Top.chk, Top.from)
<1>1. /\ frames # <<>> /\ Stuck /\ ~Top.folded /\ Top.i < Len(Productions(Top.rule))
      /\ Restore(Top.chk) /\ returned' = Nothing /\ UNCHANGED <<read, lost>> /\ probe' = probe
      /\ frames' = SetTop(frames, g)
  BY DEF NextProduction, Stuck, Running, Returned, Update, SetTop, Rule, Productions
<1>2. /\ LogOK /\ ProbeIsTrue /\ IsFrame(Top, read)
      /\ Clean => Checked(Top, read)
  BY <1>1, TopIsFrame DEF ParserInv
<1>3. Placed(Top.chk, read) /\ Placed(Top.from, read) /\ Top.rule \in RuleNames
  BY <1>2 DEF IsFrame
<1>4. Extends /\ Here' = Top.chk /\ read' = read BY <1>1, <1>2, <1>3, LogStays, RestoredIsHere
<1>5. ProbeIsTrue' /\ probe'.start \in Nat BY <1>1, <1>2, <1>4, ProbeStays
<1>6. Top.i + 1 \in 1 .. Len(Productions(Top.rule))
  <2>1. Top.i \in 1 .. Len(Productions(Top.rule)) BY <1>2 DEF IsFrame
  <2>2. Len(Productions(Top.rule)) \in 1 .. 5 BY <1>3, RulesAreGood DEF GoodRule
  <2> QED BY <1>1, <2>1, <2>2
<1>7. IsFrame(g, read) BY <1>3, <1>6, FreshIsFrame
<1>8. Looks(g, Here', read') /\ IsAt(g, Here') /\ (Top.chk = Top.from => Checked(g, read'))
  BY <1>3, <1>4, <1>6, FreshCall
<1>9. ASSUME Clean PROVE Checked(g, read)
  <2>1. CASE Top.chk = Top.from BY <1>4, <1>8, <2>1
  <2>2. CASE Top.rule = "if_tail" BY <2>2 DEF Checked, Fresh
  <2>3. CASE Top.chk # Top.from /\ Top.rule # "if_tail"
    <3>1. Top.rule \in ChainRules /\ Top.i \in {2, 3} /\ Behind(Top.chk, read)
      BY <1>1, <1>9, <2>3, StuckBehind
    <3>2. Len(Productions(Top.rule)) = 3 BY <3>1, ChainNodes
    <3>3. Top.i = 2 BY <1>1, <3>1, <3>2
    <3>4. g.rule = Top.rule /\ g.i = 3 /\ g.j = 1 /\ g.chk = Top.chk BY <3>3 DEF Fresh
    <3> QED BY <3>1, <3>4 DEF Checked, Switched
  <2> QED BY <2>1, <2>2, <2>3
<1>10. Clean' => Checked(g, read') /\ IsAt(g, Here') BY <1>4, <1>8, <1>9 DEF Extends
<1>11. IsFrame(g, read') /\ Placed(Here', read') BY <1>3, <1>4, <1>7
<1> HIDE DEF g
<1> QED BY <1>1, <1>4, <1>5, <1>8, <1>10, <1>11, CallGoesOn

(* What folds is the operator of a chain. *)
LEMMA FoldsAtTheOperator ==
  ASSUME ParserInv, frames # <<>>, Folds
  PROVE  Top.rule \in ChainRules /\ FoldPoint(Top.i) = 2
<1>1. IsFrame(Top, read) BY TopIsFrame
<1>2. /\ Top.rule \in RuleNames /\ Top.i \in 1 .. Len(Productions(Top.rule))
      /\ Productions(Top.rule)[Top.i].assoc = "ASC_LEFT" /\ FoldPoint(Top.i) > 0
  BY <1>1 DEF IsFrame, Folds, Rule, Productions
<1>3. Top.rule \in ChainRules BY <1>2, OnlyChainsFold
<1> DEFINE nodes == NodesOf(Top.rule, Top.i)
           ops   == {n \in 2 .. Len(nodes) : nodes[n].type = "PN_TERM"}
<1>4. FoldPoint(Top.i) = IF ops # {} THEN Min(ops) ELSE 0
  BY DEF FoldPoint, SelectInSubSeq, Nodes, Rule, NodesOf, Productions
<1>5. Top.i \in {1, 2, 3} BY <1>1, <1>3, ChainFrame
<1>6. CASE Top.i = 3
  <2>1. Len(nodes) = 2 /\ nodes[2].type = "PN_REDUCE" BY <1>3, <1>6, ChainNodes
  <2> HIDE DEF nodes
  <2>2. ops = {} BY <2>1
  <2>3. FoldPoint(Top.i) = 0 BY <1>4, <2>2
  <2> QED BY <1>2, <2>3
<1>7. CASE Top.i \in {1, 2}
  <2>1. Len(nodes) = 4 /\ nodes[2].type = "PN_TERM" BY <1>3, <1>7, ChainNodes
  <2> HIDE DEF nodes
  <2>2. 2 \in ops /\ \A n \in ops : n \in Int /\ 2 <= n BY <2>1
  <2> HIDE DEF ops
  <2>3. Min(ops) \in ops /\ \A n \in ops : Min(ops) <= n BY <2>2 DEF Min
  <2>4. Min(ops) = 2 BY <2>2, <2>3
  <2> QED BY <1>3, <1>4, <2>2, <2>4
<1> QED BY <1>5, <1>6, <1>7

LEMMA FoldKeeps ==
  ASSUME ParserInv, Fold
  PROVE  ParserInv'
<1> DEFINE params == <<Reduce(Expected, Params)>> \o Tail(Top.params)
           g == [Top EXCEPT !.params = params, !.count = 1, !.folded = TRUE, !.i = 1,
                            !.j = FoldPoint(Top.i), !.chk = Here]
<1>1. /\ frames # <<>> /\ NodeOf(Top).type = "PN_REDUCE" /\ returned' = Nothing
      /\ Folds /\ UNCHANGED lexer /\ probe' = probe
      /\ frames' = SetTop(frames, g)
  BY TopIsFrame DEF Fold, Running, Update, SetTop
<1>2. /\ LogOK /\ ProbeIsTrue /\ IsFrame(Top, read) /\ Placed(Here, read)
  BY <1>1, TopIsFrame DEF ParserInv
<1>3. Extends /\ Here' = Here /\ read' = read BY <1>1, <1>2, LexerStays
<1>4. ProbeIsTrue' /\ probe'.start \in Nat BY <1>1, <1>2, <1>3, ProbeStays
<1>5. Top.rule \in ChainRules /\ FoldPoint(Top.i) = 2 BY <1>1, FoldsAtTheOperator
<1> HIDE DEF params
<1>6. /\ DOMAIN g = Fields /\ g.rule = Top.rule /\ g.i = 1 /\ g.j = 2
      /\ g.count = 1 /\ g.folded = TRUE /\ g.match = Top.match
      /\ g.chk = Here /\ g.from = Top.from /\ g.item = Top.item
      /\ g.looking = Top.looking
  BY <1>2, <1>5 DEF IsFrame, Fields
<1> HIDE DEF g
<1>7. g.match = "untried" BY <1>1, <1>2, <1>6 DEF IsFrame
<1>8. IsFrame(g, read)
  <2>1. \A p \in {g.chk, g.from, g.item, g.looking} : Placed(p, read) BY <1>2, <1>6 DEF IsFrame
  <2>2. 1 \in 1 .. Len(Productions(Top.rule)) /\ 2 \in 1 .. Len(NodesOf(Top.rule, 1))
    <3>1. Len(Productions(Top.rule)) = 3 /\ Len(NodesOf(Top.rule, 1)) = 4 BY <1>5, ChainNodes
    <3>2. 1 \in 1 .. 3 /\ 2 \in 1 .. 4 OBVIOUS
    <3> QED BY Zenon, <3>1, <3>2
  <2>3. g.i \in 1 .. Len(Productions(g.rule)) /\ g.j \in 1 .. Len(NodesOf(g.rule, g.i))
    BY Zenon, <1>6, <2>2
  <2>4. g.count = g.j - 1 BY <1>6
  <2>5. g.rule \in RuleNames /\ g.folded \in BOOLEAN BY <1>2, <1>6 DEF IsFrame
  <2>6. /\ g.match \in {"untried", "looking", "refused"}
        /\ g.match # "untried" => NodeOf(g).type = "PN_TERM"
    BY <1>7
  <2> QED BY Zenon, <1>6, <2>1, <2>3, <2>4, <2>5, <2>6 DEF IsFrame
<1>9. Looks(g, Here', read') BY <1>7 DEF Looks
<1>10. Checked(g, read') /\ IsAt(g, Here')
  BY <1>6 DEF Checked, IsAt, Starts, Moved
<1>11. IsFrame(g, read') /\ Placed(Here', read') BY <1>2, <1>3, <1>8
<1> QED BY <1>1, <1>3, <1>4, <1>9, <1>10, <1>11, CallGoesOn

-----------------------------------------------------------------------------
(***************************************************************************)
(* Blocks in braces: the second production of braced_block is entered only *)
(* where the first one found a statement, or no brace.                     *)
(***************************************************************************)
OpeningBrace == "{"
ClosingBrace == "}"
Separators   == {"nl", ";"}

(* In a text, from the position c0 on: the separators end at c; a block    *)
(* that is empty ends there; a brace is opened before c; there is none; a  *)
(* block in braces is not empty.                                           *)
Opens(c0, c, text) ==
  /\ c \in c0 .. Len(text)
  /\ \A n \in c0 .. c - 1 : text[n] \in Separators
  /\ text[c] \notin Separators

EmptyTo(c0, c, text) ==
  \E p \in c0 .. Len(text) : Opens(c0, p, text) /\ (text[p] = ClosingBrace => c = p)

FirstIs(c0, k, text) ==
  /\ k \in c0 .. Len(text)
  /\ \A n \in c0 .. k - 1 : text[n] = "nl"
  /\ text[k] # "nl"

Braced(c0, c, text) ==
  \E k \in c0 .. Len(text) : FirstIs(c0, k, text) /\ text[k] = OpeningBrace /\ c = k + 1

NoBrace(c0, text) ==
  \E k \in c0 .. Len(text) : FirstIs(c0, k, text) /\ text[k] # OpeningBrace

NotEmptyAt(c0, text) ==
  \E c \in 1 .. Len(text) : \E p \in 1 .. Len(text) :
    Braced(c0, c, text) /\ Opens(c, p, text) /\ text[p] # ClosingBrace

(* The rules that take no empty text, and the statements of a block.       *)
Optional == {"stmt_optseps", "block", "prog"}

(* What is known of a call that is at the position p of the text.          *)
AtEntry(f, p, text) ==
  /\ f.j = 1 /\ f.rule \notin ChainRules \cup {"if_tail"} =>
       f.chk = f.from /\ p = f.from.current
  /\ f.rule \notin Optional /\ text[f.from.current] = ClosingBrace =>
       f.j = 1 /\ ~f.folded /\ f.chk = f.from /\ p = f.from.current
  /\ f.match # "untried" => Rules[f.rule].skip_new_line
  /\ f.folded => f.rule \in ChainRules

InSeparators(f, p, text) ==
  LET c0 == f.from.current
  IN  /\ f.rule = "stmt_sep" =>
           /\ f.j = 2 => text[c0] \in Separators /\ p = c0 + 1
           /\ f.i = 2 /\ f.j = 1 => text[c0] # "nl"
      /\ f.rule = "stmt_seps" =>
           /\ f.j = 2 => p > c0 /\ \A n \in c0 .. p - 1 : text[n] \in Separators
           /\ f.j = 3 => p > c0 /\ Opens(c0, p, text)
      /\ f.rule = "stmt_optseps" =>
           /\ f.j = 2 => Opens(c0, p, text)
           /\ f.i = 2 => text[c0] \notin Separators

InBlock(f, p, text) ==
  LET c0 == f.from.current
  IN  f.rule = "block" =>
        /\ f.j = 2 => Opens(c0, p, text)
        /\ f.j \in {3, 4} => EmptyTo(c0, p, text)

InBraces(f, p, text) ==
  LET c0 == f.from.current
  IN  f.rule = "braced_block" =>
        /\ f.j = 2 => Braced(c0, p, text)
        /\ f.i = 1 /\ f.j = 3 =>
             \E c \in 1 .. Len(text) : Braced(c0, c, text) /\ EmptyTo(c, p, text)
        /\ f.i = 2 => NoBrace(c0, text) \/ NotEmptyAt(c0, text)
        /\ f.i = 2 /\ f.j = 3 =>
             \E c \in 1 .. Len(text) : Braced(c0, c, text) /\ Opens(c, p, text)
        /\ f.i = 2 => f.j # 4

Known(f, p, text) ==
  /\ AtEntry(f, p, text)
  /\ InSeparators(f, p, text)
  /\ InBlock(f, p, text)
  /\ InBraces(f, p, text)

(* What a rule that was entered at c0 has left at c.                       *)
Left(rule, c0, c, reduced, text) ==
  /\ rule = "stmt_sep" =>
       IF reduced THEN text[c0] \in Separators /\ c = c0 + 1 ELSE text[c0] \notin Separators
  /\ rule = "stmt_seps" =>
       IF reduced THEN c > c0 /\ Opens(c0, c, text) ELSE text[c0] \notin Separators
  /\ rule = "stmt_optseps" => reduced /\ Opens(c0, c, text)
  /\ rule = "stmts" => reduced /\ (text[c0] = ClosingBrace => c = c0)
  /\ rule = "block" => reduced /\ EmptyTo(c0, c, text)
  /\ rule \notin Optional \cup {"stmts"} /\ reduced => text[c0] # ClosingBrace

(* Where a call is: what it calls began there, or it looks from there on.  *)
Place(d) ==
  IF d < Len(frames) \/ returned # Nothing THEN frames[d].item
  ELSE IF frames[d].match = "looking" THEN frames[d].looking
  ELSE Here

InStep(p) == p.cursor = p.current

CallsAreLinked ==
  \A d \in 1 .. Len(frames) - 1 :
    /\ frames[d + 1].rule = NodeOf(frames[d]).name
    /\ frames[d + 1].from = frames[d].item

PlacesAreInStep ==
  /\ frames # <<>> => InStep(Here)
  /\ \A d \in 1 .. Len(frames) :
       \A p \in {frames[d].chk, frames[d].from, frames[d].item, frames[d].looking} : InStep(p)

(* A terminal that was refused behind newlines is not there. *)
RefusedIsTrue ==
  frames # <<>> /\ Top.match = "refused" =>
    \E k \in current .. Len(read) : FirstIs(current, k, read) /\ read[k] # Expected

BlocksInv ==
  Clean /\ ~failed =>
    /\ CallsAreLinked
    /\ PlacesAreInStep
    /\ RefusedIsTrue
    /\ \A d \in 1 .. Len(frames) : Known(frames[d], Place(d).current, read)
    /\ frames # <<>> /\ returned # Nothing =>
         Left(NodeOf(Top).name, Top.item.current, current, returned.reduced, read)

-----------------------------------------------------------------------------
(***************************************************************************)
(* What these say of a text                                                *)
(***************************************************************************)
LEMMA TokenFacts ==
  /\ ClosingBrace \notin Separators /\ ClosingBrace # "nl" /\ OpeningBrace # "nl"
  /\ OpeningBrace # ClosingBrace /\ "nl" \in Separators
  /\ Eof \notin Separators /\ Eof # OpeningBrace /\ Eof # ClosingBrace
BY Zenon DEF ClosingBrace, OpeningBrace, Separators, Eof

LEMMA OpensFacts ==
  ASSUME NEW text, Len(text) \in Nat, NEW c0 \in Nat
  PROVE  /\ \A c, p \in Nat : Opens(c0, c, text) /\ Opens(c0, p, text) => c = p
         /\ \A p \in Nat : \A c :
              Opens(c0, p, text) /\ (text[p] = ClosingBrace => c = p) => EmptyTo(c0, c, text)
         /\ \A p, c \in Nat : EmptyTo(c0, p, text) /\ Opens(p, c, text) => EmptyTo(c0, c, text)
<1>1. ASSUME NEW c \in Nat, NEW p \in Nat, Opens(c0, c, text), Opens(c0, p, text)
      PROVE  c = p
  <2>1. ~(c < p) BY <1>1 DEF Opens
  <2>2. ~(p < c) BY <1>1 DEF Opens
  <2> QED BY <1>1, <2>1, <2>2
<1>2. ASSUME NEW p \in Nat, NEW c, Opens(c0, p, text), text[p] = ClosingBrace => c = p
      PROVE  EmptyTo(c0, c, text)
  BY <1>2 DEF EmptyTo, Opens
<1>3. ASSUME NEW i \in Nat, NEW c \in Nat, EmptyTo(c0, i, text), Opens(i, c, text)
      PROVE  EmptyTo(c0, c, text)
  <2>1. PICK p \in c0 .. Len(text) : Opens(c0, p, text) /\ (text[p] = ClosingBrace => i = p)
    BY <1>3 DEF EmptyTo
  <2>2. ASSUME text[p] = ClosingBrace PROVE c = p
    <3>1. i = p /\ text[i] \notin Separators BY <2>1, <2>2, TokenFacts
    <3>2. ~(i < c) BY <1>3, <3>1 DEF Opens
    <3> QED BY <1>3, <3>1, <3>2 DEF Opens
  <2> QED BY <2>1, <2>2 DEF EmptyTo
<1> QED BY <1>1, <1>2, <1>3

LEMMA BracedFacts ==
  ASSUME NEW text, Len(text) \in Nat, NEW c0 \in Nat
  PROVE  /\ \A k, m \in Nat : FirstIs(c0, k, text) /\ FirstIs(c0, m, text) => k = m
         /\ \A c, d \in Nat : Braced(c0, c, text) /\ Braced(c0, d, text) => c = d
         /\ \A c \in Nat : Braced(c0, c, text) => ~NoBrace(c0, text)
<1>1. ASSUME NEW k \in Nat, NEW m \in Nat, FirstIs(c0, k, text), FirstIs(c0, m, text)
      PROVE  k = m
  <2>1. ~(k < m) BY <1>1 DEF FirstIs
  <2>2. ~(m < k) BY <1>1 DEF FirstIs
  <2> QED BY <1>1, <2>1, <2>2
<1>2. ASSUME NEW c \in Nat, NEW d \in Nat, Braced(c0, c, text), Braced(c0, d, text)
      PROVE  c = d
  <2>1. PICK k \in c0 .. Len(text) : FirstIs(c0, k, text) /\ c = k + 1 BY <1>2 DEF Braced
  <2>2. PICK m \in c0 .. Len(text) : FirstIs(c0, m, text) /\ d = m + 1 BY <1>2 DEF Braced
  <2>3. k \in Nat /\ m \in Nat BY <2>1, <2>2
  <2> QED BY <1>1, <2>1, <2>2, <2>3
<1>3. ASSUME NEW c \in Nat, Braced(c0, c, text), NoBrace(c0, text) PROVE FALSE
  <2>1. PICK k \in c0 .. Len(text) : FirstIs(c0, k, text) /\ text[k] = OpeningBrace
    BY <1>3 DEF Braced
  <2>2. PICK m \in c0 .. Len(text) : FirstIs(c0, m, text) /\ text[m] # OpeningBrace
    BY <1>3 DEF NoBrace
  <2>3. k \in Nat /\ m \in Nat BY <2>1, <2>2
  <2> QED BY <1>1, <2>1, <2>2, <2>3
<1> QED BY <1>1, <1>2, <1>3

(* It stays so when more is read. *)
LEMMA TextGrows ==
  ASSUME LogOK, Extends, NEW c0 \in 1 .. Len(read)
  PROVE  /\ \A c \in Nat : Opens(c0, c, read) => Opens(c0, c, read')
         /\ \A c : EmptyTo(c0, c, read) => EmptyTo(c0, c, read')
         /\ \A k \in Nat : FirstIs(c0, k, read) => FirstIs(c0, k, read')
         /\ \A c \in Nat : Braced(c0, c, read) => Braced(c0, c, read')
         /\ NoBrace(c0, read) => NoBrace(c0, read')
         /\ NotEmptyAt(c0, read) => NotEmptyAt(c0, read')
<1>1. /\ Len(read) \in Nat /\ Len(read') \in Nat /\ Len(read) <= Len(read')
      /\ \A n \in 1 .. Len(read) : read'[n] = read[n]
  BY SeqFacts DEF LogOK, Extends
<1>2. \A c1 \in 1 .. Len(read) : \A c \in Nat : Opens(c1, c, read) => Opens(c1, c, read')
  BY <1>1 DEF Opens
<1>3. ASSUME NEW c1 \in 1 .. Len(read), NEW c, EmptyTo(c1, c, read)
      PROVE  EmptyTo(c1, c, read')
  <2>1. PICK p \in c1 .. Len(read) : Opens(c1, p, read) /\ (read[p] = ClosingBrace => c = p)
    BY <1>3 DEF EmptyTo
  <2>2. p \in 1 .. Len(read) /\ p \in c1 .. Len(read') /\ p \in Nat BY <1>1, <2>1
  <2>3. Opens(c1, p, read') /\ read'[p] = read[p] BY <1>1, <1>2, <2>1, <2>2
  <2> QED BY <2>1, <2>2, <2>3 DEF EmptyTo
<1>4. \A k \in Nat : FirstIs(c0, k, read) => FirstIs(c0, k, read') BY <1>1 DEF FirstIs
<1>5. ASSUME NEW k \in c0 .. Len(read)
      PROVE  /\ k \in c0 .. Len(read') /\ k \in Nat /\ read'[k] = read[k]
             /\ FirstIs(c0, k, read) => FirstIs(c0, k, read')
  BY <1>1, <1>4
<1>6. \A c \in Nat : Braced(c0, c, read) => Braced(c0, c, read')
  <2> SUFFICES ASSUME NEW c \in Nat, Braced(c0, c, read) PROVE Braced(c0, c, read')
    OBVIOUS
  <2>1. PICK k \in c0 .. Len(read) :
          FirstIs(c0, k, read) /\ read[k] = OpeningBrace /\ c = k + 1
    BY DEF Braced
  <2> QED BY <1>5, <2>1 DEF Braced
<1>7. NoBrace(c0, read) => NoBrace(c0, read')
  <2> SUFFICES ASSUME NoBrace(c0, read) PROVE NoBrace(c0, read')
    OBVIOUS
  <2>1. PICK k \in c0 .. Len(read) : FirstIs(c0, k, read) /\ read[k] # OpeningBrace
    BY DEF NoBrace
  <2> QED BY <1>5, <2>1 DEF NoBrace
<1>8. NotEmptyAt(c0, read) => NotEmptyAt(c0, read')
  <2> SUFFICES ASSUME NotEmptyAt(c0, read) PROVE NotEmptyAt(c0, read')
    OBVIOUS
  <2>1. PICK c \in 1 .. Len(read) : \E p \in 1 .. Len(read) :
          Braced(c0, c, read) /\ Opens(c, p, read) /\ read[p] # ClosingBrace
    BY DEF NotEmptyAt
  <2>2. PICK p \in 1 .. Len(read) :
          Braced(c0, c, read) /\ Opens(c, p, read) /\ read[p] # ClosingBrace
    BY <2>1
  <2>3. c \in 1 .. Len(read') /\ p \in 1 .. Len(read') /\ c \in Nat /\ p \in Nat BY <1>1
  <2>4. Braced(c0, c, read') /\ Opens(c, p, read') /\ read'[p] # ClosingBrace
    BY <1>1, <1>2, <1>6, <2>2, <2>3
  <2> QED BY <2>3, <2>4 DEF NotEmptyAt
<1> QED BY <1>2, <1>3, <1>4, <1>6, <1>7, <1>8

-----------------------------------------------------------------------------
(***************************************************************************)
(* Where a call is in the productions of its rule                          *)
(***************************************************************************)
LEMMA SepFrame ==
  ASSUME NEW text, NEW f, IsFrame(f, text), f.rule = "stmt_sep"
  PROVE  /\ f.i \in {1, 2} /\ f.j \in {1, 2}
         /\ f.j = 1 => NodeOf(f).type = "PN_TERM" /\ NodeOf(f).name \in Separators
         /\ f.j = 1 /\ f.i = 1 => NodeOf(f).name = "nl"
         /\ f.j = 1 /\ f.i = 2 => \A t \in Separators : t # "nl" => t = NodeOf(f).name
         /\ f.j = 2 => NodeOf(f).type = "PN_REDUCE"
         /\ ~Rules[f.rule].skip_new_line
<1> DEFINE semi == TERM(";")
<1>1. /\ Len(Productions("stmt_sep")) = 2
      /\ NodesOf("stmt_sep", 1) = <<TERM("nl"), REDUCE("sep")>>
      /\ NodesOf("stmt_sep", 2) = <<semi, REDUCE("sep")>>
  BY Zenon, StmtSepNodes
<1>2. semi.type = "PN_TERM" /\ semi.name \in Separators BY Zenon DEF TERM, Separators
<1>3. \A t \in Separators : t # "nl" => t = semi.name BY Zenon DEF TERM, Separators
<1> HIDE DEF semi
<1>4. f.i \in 1 .. 2 BY Zenon, <1>1 DEF IsFrame
<1>5. Len(NodesOf("stmt_sep", 1)) = 2 /\ Len(NodesOf("stmt_sep", 2)) = 2 BY <1>1
<1>6. f.i \in {1, 2} BY <1>4
<1>7. f.j \in 1 .. 2 BY Zenon, <1>5, <1>6 DEF IsFrame
<1>8. f.j \in {1, 2} BY <1>7
<1>9. /\ f.j = 1 => NodeOf(f).type = "PN_TERM" /\ NodeOf(f).name \in Separators
      /\ f.j = 1 /\ f.i = 1 => NodeOf(f).name = "nl"
      /\ f.j = 1 /\ f.i = 2 => NodeOf(f) = semi
      /\ f.j = 2 => NodeOf(f).type = "PN_REDUCE"
  BY <1>1, <1>2, <1>6, <1>8, TokenFacts DEF NodeOf, TERM, REDUCE
<1>10. ~Rules[f.rule].skip_new_line
  <2>1. Rules["stmt_sep"] = stmt_sep BY DEF Rules
  <2>2. stmt_sep.skip_new_line = FALSE BY Zenon DEF stmt_sep, RULE
  <2> QED BY Zenon, <2>1, <2>2
<1> QED BY Zenon, <1>3, <1>6, <1>8, <1>9, <1>10

LEMMA SepsFrame ==
  ASSUME NEW text, NEW f, IsFrame(f, text), f.rule = "stmt_seps"
  PROVE  /\ f.i = 1 /\ f.j \in {1, 2, 3}
         /\ f.j = 1 => NodeOf(f).type = "PN_RULE" /\ NodeOf(f).name = "stmt_sep"
         /\ f.j = 2 => NodeOf(f).type = "PN_RULE_LIST" /\ NodeOf(f).name = "stmt_sep"
         /\ f.j = 3 => NodeOf(f).type = "PN_REDUCE"
<1>1. /\ Len(Productions("stmt_seps")) = 1
      /\ NodesOf("stmt_seps", 1) = <<NTRM("stmt_sep"), LIST("stmt_sep"), REDUCE("sep_seps")>>
  BY StmtSepsNodes
<1>2. f.i \in 1 .. 1 BY Zenon, <1>1 DEF IsFrame
<1>3. f.i = 1 BY <1>2
<1>4. Len(NodesOf("stmt_seps", 1)) = 3 BY <1>1
<1>5. f.j \in 1 .. 3 BY Zenon, <1>3, <1>4 DEF IsFrame
<1>6. f.j \in {1, 2, 3} BY <1>5
<1> QED BY <1>1, <1>3, <1>6 DEF NodeOf, NTRM, LIST, REDUCE

LEMMA OptSepsFrame ==
  ASSUME NEW text, NEW f, IsFrame(f, text), f.rule = "stmt_optseps"
  PROVE  /\ f.i \in {1, 2} /\ f.j \in {1, 2} /\ (f.i = 2 => f.j = 1)
         /\ f.i = 1 /\ f.j = 1 => NodeOf(f).type = "PN_RULE" /\ NodeOf(f).name = "stmt_seps"
         /\ f.i = 2 \/ f.j = 2 => NodeOf(f).type = "PN_REDUCE"
         /\ Len(Productions(f.rule)) = 2
<1>1. /\ Len(Productions("stmt_optseps")) = 2
      /\ NodesOf("stmt_optseps", 1) = <<NTRM("stmt_seps"), REDUCE("sep")>>
      /\ NodesOf("stmt_optseps", 2) = <<REDUCE("empty")>>
  BY StmtOptsepsNodes
<1>2. f.i \in 1 .. 2 BY Zenon, <1>1 DEF IsFrame
<1>3. f.i \in {1, 2} BY <1>2
<1>4. Len(NodesOf("stmt_optseps", 1)) = 2 /\ Len(NodesOf("stmt_optseps", 2)) = 1 BY <1>1
<1>5. f.i = 1 => f.j \in 1 .. 2 BY Zenon, <1>4 DEF IsFrame
<1>6. f.i = 2 => f.j \in 1 .. 1 BY Zenon, <1>4 DEF IsFrame
<1>7. f.j \in {1, 2} /\ (f.i = 2 => f.j = 1) BY <1>3, <1>5, <1>6
<1> QED BY <1>1, <1>3, <1>7 DEF NodeOf, NTRM, REDUCE

LEMMA StmtsFrame ==
  ASSUME NEW text, NEW f, IsFrame(f, text), f.rule = "stmts"
  PROVE  /\ f.i \in {1, 2} /\ f.j \in {1, 2, 3} /\ (f.i = 2 => f.j = 1)
         /\ f.i = 2 \/ f.j = 3 => NodeOf(f).type = "PN_REDUCE"
         /\ f.i = 1 /\ f.j = 1 => NodeOf(f).type = "PN_RULE"
         /\ f.i = 1 /\ f.j = 2 => NodeOf(f).type = "PN_RULE_LIST"
         /\ Len(Productions(f.rule)) = 2
<1>1. /\ Len(Productions("stmts")) = 2
      /\ NodesOf("stmts", 1) = <<NTRM("stmt"), LIST("stmt_next"), REDUCE("stmt_stmts")>>
      /\ NodesOf("stmts", 2) = <<REDUCE("empty_block")>>
  BY StmtsNodes
<1>2. f.i \in 1 .. 2 BY Zenon, <1>1 DEF IsFrame
<1>3. f.i \in {1, 2} BY <1>2
<1>4. Len(NodesOf("stmts", 1)) = 3 /\ Len(NodesOf("stmts", 2)) = 1 BY <1>1
<1>5. f.i = 1 => f.j \in 1 .. 3 BY Zenon, <1>4 DEF IsFrame
<1>6. f.i = 2 => f.j \in 1 .. 1 BY Zenon, <1>4 DEF IsFrame
<1>7. f.j \in {1, 2, 3} /\ (f.i = 2 => f.j = 1) BY <1>3, <1>5, <1>6
<1> QED BY <1>1, <1>3, <1>7 DEF NodeOf, NTRM, LIST, REDUCE

LEMMA BlockFrame ==
  ASSUME NEW text, NEW f, IsFrame(f, text), f.rule = "block"
  PROVE  /\ f.i = 1 /\ f.j \in {1, 2, 3, 4}
         /\ f.j \in {1, 3} => NodeOf(f).type = "PN_RULE" /\ NodeOf(f).name = "stmt_optseps"
         /\ f.j = 2 => NodeOf(f).type = "PN_RULE" /\ NodeOf(f).name = "stmts"
         /\ f.j = 4 => NodeOf(f).type = "PN_REDUCE"
         /\ Len(Productions(f.rule)) = 1
<1>1. /\ Len(Productions("block")) = 1
      /\ NodesOf("block", 1) = <<NTRM("stmt_optseps"), NTRM("stmts"),
                                 NTRM("stmt_optseps"), REDUCE("tripple_ntrm")>>
  BY BlockNodes
<1>2. f.i \in 1 .. 1 BY Zenon, <1>1 DEF IsFrame
<1>3. f.i = 1 BY <1>2
<1>4. Len(NodesOf("block", 1)) = 4 BY <1>1
<1>5. f.j \in 1 .. 4 BY Zenon, <1>3, <1>4 DEF IsFrame
<1>6. f.j \in {1, 2, 3, 4} BY <1>5
<1> QED BY <1>1, <1>3, <1>6 DEF NodeOf, NTRM, REDUCE

LEMMA BracedFrame ==
  ASSUME NEW text, NEW f, IsFrame(f, text), f.rule = "braced_block"
  PROVE  /\ f.i \in {1, 2} /\ f.j \in {1, 2, 3, 4}
         /\ f.j = 1 => NodeOf(f).type = "PN_TERM" /\ NodeOf(f).name = OpeningBrace
         /\ f.j = 2 => NodeOf(f).type = "PN_RULE"
         /\ f.j = 2 /\ f.i = 1 => NodeOf(f).name = "block"
         /\ f.j = 2 /\ f.i = 2 => NodeOf(f).name = "stmt_optseps"
         /\ f.j = 3 => NodeOf(f).type = "PN_TERM" /\ NodeOf(f).name = ClosingBrace
         /\ f.j = 4 => NodeOf(f).type = "PN_REDUCE"
         /\ Rules[f.rule].skip_new_line
<1> DEFINE open == TERM("{")  closed == TERM("}")
<1>1. /\ Len(Productions("braced_block")) = 2
      /\ NodesOf("braced_block", 1) = <<open, NTRM("block"), closed, REDUCE("tripple_ntrm")>>
      /\ NodesOf("braced_block", 2) =
           <<open, NTRM("stmt_optseps"), closed, REDUCE("empty_block")>>
  BY Zenon, BracedBlockNodes
<1>2. /\ open.type = "PN_TERM" /\ open.name = OpeningBrace
      /\ closed.type = "PN_TERM" /\ closed.name = ClosingBrace
  BY Zenon DEF TERM, OpeningBrace, ClosingBrace
<1> HIDE DEF open, closed
<1>3. f.i \in 1 .. 2 BY Zenon, <1>1 DEF IsFrame
<1>4. f.i \in {1, 2} BY <1>3
<1>5. Len(NodesOf("braced_block", 1)) = 4 /\ Len(NodesOf("braced_block", 2)) = 4 BY <1>1
<1>6. f.j \in 1 .. 4 BY Zenon, <1>4, <1>5 DEF IsFrame
<1>7. f.j \in {1, 2, 3, 4} BY <1>6
<1>8. Rules[f.rule].skip_new_line
  <2>1. Rules["braced_block"] = braced_block BY DEF Rules
  <2>2. braced_block.skip_new_line = TRUE BY Zenon DEF braced_block, RULE_EXPR
  <2> QED BY Zenon, <2>1, <2>2
<1> QED BY <1>1, <1>2, <1>4, <1>7, <1>8 DEF NodeOf, NTRM, REDUCE

-----------------------------------------------------------------------------
(***************************************************************************)
(* What a rule begins with: a production of a rule that takes no empty     *)
(* text neither begins with a closing brace nor with a rule that takes it. *)
(***************************************************************************)
CanBeEmpty == Optional \cup {"stmts"}

BeginsWith(rule, node) ==
  /\ node.type # "PN_RULE_LIST"
  /\ node.type = "PN_TERM" => node.name # ClosingBrace
  /\ node.type = "PN_RULE" => node.name \notin CanBeEmpty
  /\ node.type = "PN_REDUCE" => rule = "stmts"

LEMMA Beginnings ==
  ASSUME NEW rule
  PROVE  /\ \A t : t # ClosingBrace => BeginsWith(rule, TERM(t))
         /\ \A r : r \notin CanBeEmpty => BeginsWith(rule, NTRM(r))
         /\ \A f : BeginsWith("stmts", REDUCE(f))
BY DEF BeginsWith, TERM, NTRM, REDUCE

LEMMA OtherTokens ==
  \A t \in {"number", "bool", "(", "if", "id", "-", "nl", "echo", OpeningBrace} : t # ClosingBrace
BY Zenon DEF OpeningBrace, ClosingBrace

LEMMA FirstOfRule ==
  ASSUME NEW rule \in RuleNames \ Optional, NEW i \in 1 .. Len(Productions(rule))
  PROVE  BeginsWith(rule, NodesOf(rule, i)[1])
<1>1. /\ "expr_prime" \notin CanBeEmpty /\ "expr_factor" \notin CanBeEmpty
      /\ "expr_unary" \notin CanBeEmpty /\ "expr_term" \notin CanBeEmpty
      /\ "stmt_sep" \notin CanBeEmpty /\ "stmt_seps" \notin CanBeEmpty
      /\ "stmt" \notin CanBeEmpty
  BY DEF CanBeEmpty, Optional
<1>2. CASE rule = "if_tail"
  <2>1. i \in 1 .. 4 BY Zenon, <1>2, IfTailNodes
  <2>2. NodesOf(rule, i)[1] = NTRM("expr_prime") BY <1>2, <2>1, IfTailNodes
  <2> QED BY Zenon, <1>1, <2>2, Beginnings
<1>3. CASE rule = "expr_factor"
  <2>1. i \in 1 .. 5 BY Zenon, <1>3, ExprFactorNodes
  <2>2. NodesOf(rule, i)[1] \in {TERM("number"), TERM("bool"), TERM("("), TERM("if"), TERM("id")}
    BY <1>3, <2>1, ExprFactorNodes
  <2> QED BY Zenon, <2>2, Beginnings, OtherTokens
<1>4. CASE rule = "expr_unary"
  <2>1. i \in 1 .. 2 BY Zenon, <1>4, ExprUnaryNodes
  <2>2. NodesOf(rule, i)[1] \in {NTRM("expr_factor"), TERM("-")}
    BY <1>4, <2>1, ExprUnaryNodes
  <2> QED BY Zenon, <1>1, <2>2, Beginnings, OtherTokens
<1>5. CASE rule = "expr_term"
  <2>1. i \in 1 .. 3 BY Zenon, <1>5, ExprTermNodes
  <2>2. NodesOf(rule, i)[1] = NTRM("expr_unary") BY <1>5, <2>1, ExprTermNodes
  <2> QED BY Zenon, <1>1, <2>2, Beginnings
<1>6. CASE rule = "expr_prime"
  <2>1. i \in 1 .. 3 BY Zenon, <1>6, ExprPrimeNodes
  <2>2. NodesOf(rule, i)[1] = NTRM("expr_term") BY <1>6, <2>1, ExprPrimeNodes
  <2> QED BY Zenon, <1>1, <2>2, Beginnings
<1>7. CASE rule = "stmt_sep"
  <2> DEFINE semi == TERM(";")
  <2>1. i \in 1 .. 2 BY Zenon, <1>7, StmtSepNodes
  <2>2. /\ NodesOf("stmt_sep", 1) = <<TERM("nl"), REDUCE("sep")>>
        /\ NodesOf("stmt_sep", 2) = <<semi, REDUCE("sep")>>
    BY Zenon, StmtSepNodes
  <2>3. BeginsWith(rule, semi)
    <3> DEFINE t == ";"
    <3>1. t # ClosingBrace BY Zenon DEF ClosingBrace
    <3> HIDE DEF t
    <3>2. BeginsWith(rule, TERM(t)) BY Zenon, <3>1, Beginnings
    <3> QED BY Zenon, <3>2 DEF t
  <2> HIDE DEF semi
  <2>4. NodesOf(rule, i)[1] \in {TERM("nl"), semi} BY <1>7, <2>1, <2>2
  <2> QED BY Zenon, <2>3, <2>4, Beginnings, OtherTokens
<1>8. CASE rule = "stmt_seps"
  <2>1. i \in 1 .. 1 BY Zenon, <1>8, StmtSepsNodes
  <2>2. NodesOf(rule, i)[1] = NTRM("stmt_sep") BY <1>8, <2>1, StmtSepsNodes
  <2> QED BY Zenon, <1>1, <2>2, Beginnings
<1>9. CASE rule = "stmt"
  <2>1. i \in 1 .. 4 BY Zenon, <1>9, StmtNodes
  <2>2. NodesOf(rule, i)[1] \in {TERM("echo"), TERM("if"), TERM("id"), NTRM("expr_prime")}
    BY <1>9, <2>1, StmtNodes
  <2> QED BY Zenon, <1>1, <2>2, Beginnings, OtherTokens
<1>10. CASE rule = "stmt_next"
  <2>1. i \in 1 .. 1 BY Zenon, <1>10, StmtNextNodes
  <2>2. NodesOf(rule, i)[1] = NTRM("stmt_seps") BY <1>10, <2>1, StmtNextNodes
  <2> QED BY Zenon, <1>1, <2>2, Beginnings
<1>11. CASE rule = "stmts"
  <2>1. i \in 1 .. 2 BY Zenon, <1>11, StmtsNodes
  <2>2. NodesOf(rule, i)[1] \in {NTRM("stmt"), REDUCE("empty_block")}
    BY <1>11, <2>1, StmtsNodes
  <2> QED BY Zenon, <1>1, <1>11, <2>2, Beginnings
<1>12. CASE rule = "braced_block"
  <2> DEFINE open == TERM("{")  closed == TERM("}")
  <2>1. i \in 1 .. 2 BY Zenon, <1>12, BracedBlockNodes
  <2>2. /\ NodesOf("braced_block", 1) = <<open, NTRM("block"), closed, REDUCE("tripple_ntrm")>>
        /\ NodesOf("braced_block", 2) =
             <<open, NTRM("stmt_optseps"), closed, REDUCE("empty_block")>>
    BY Zenon, BracedBlockNodes
  <2>3. open = TERM(OpeningBrace) BY Zenon DEF OpeningBrace
  <2> HIDE DEF open, closed
  <2>4. NodesOf(rule, i)[1] = open BY <1>12, <2>1, <2>2
  <2> QED BY Zenon, <2>3, <2>4, Beginnings, OtherTokens
<1> QED
  BY <1>2, <1>3, <1>4, <1>5, <1>6, <1>7, <1>8, <1>9, <1>10, <1>11, <1>12
     DEF RuleNames, Optional

LEMMA FirstNode ==
  ASSUME NEW text, NEW f, IsFrame(f, text), f.j = 1, f.rule \notin Optional
  PROVE  BeginsWith(f.rule, NodeOf(f))
<1>1. f.rule \in RuleNames \ Optional /\ f.i \in 1 .. Len(Productions(f.rule))
  BY DEF IsFrame
<1> QED BY Zenon, <1>1, FirstOfRule DEF NodeOf

(***************************************************************************)
(* What is known of a call stays known                                     *)
(***************************************************************************)
LEMMA SameKnown ==
  ASSUME NEW text, NEW p, NEW f, Known(f, p, text), NEW g,
         g.rule = f.rule, g.i = f.i, g.j = f.j, g.chk = f.chk, g.from = f.from,
         g.folded = f.folded,
         g.match # "untried" => f.match # "untried" \/ Rules[f.rule].skip_new_line
  PROVE  Known(g, p, text)
BY DEF Known, AtEntry, InSeparators, InBlock, InBraces

LEMMA KnownStays ==
  ASSUME LogOK, Extends, NEW f, IsFrame(f, read), NEW p \in 1 .. Len(read), Known(f, p, read)
  PROVE  Known(f, p, read')
<1> DEFINE c0 == f.from.current
<1>1. c0 \in 1 .. Len(read) /\ p \in Nat /\ Len(read) \in Nat /\ Len(read') \in Nat
      /\ Len(read) <= Len(read')
  BY SeqFacts DEF IsFrame, Placed, LogOK, Extends
<1>2. \A n \in 1 .. Len(read) : read'[n] = read[n] BY DEF Extends
<1>3. read'[c0] = read[c0] BY <1>1, <1>2
<1>4. AtEntry(f, p, read') BY <1>3 DEF Known, AtEntry
<1>5. InSeparators(f, p, read')
  <2>1. Opens(c0, p, read) => Opens(c0, p, read') BY <1>1, TextGrows
  <2>2. \A n \in c0 .. p - 1 : read'[n] = read[n] BY <1>1, <1>2
  <2> HIDE DEF c0
  <2> QED BY <1>3, <2>1, <2>2 DEF Known, InSeparators, c0
<1>6. InBlock(f, p, read')
  <2>1. /\ Opens(c0, p, read) => Opens(c0, p, read')
        /\ EmptyTo(c0, p, read) => EmptyTo(c0, p, read')
    BY <1>1, TextGrows
  <2> QED BY Zenon, <2>1 DEF Known, InBlock
<1>7. InBraces(f, p, read')
  <2>1. /\ \A c \in Nat : Braced(c0, c, read) => Braced(c0, c, read')
        /\ NoBrace(c0, read) => NoBrace(c0, read')
        /\ NotEmptyAt(c0, read) => NotEmptyAt(c0, read')
    BY <1>1, TextGrows
  <2>2. ASSUME NEW c \in 1 .. Len(read)
        PROVE  /\ Opens(c, p, read) => Opens(c, p, read')
               /\ EmptyTo(c, p, read) => EmptyTo(c, p, read')
               /\ c \in 1 .. Len(read') /\ c \in Nat
    <3>1. c \in 1 .. Len(read') /\ c \in Nat BY <1>1
    <3> QED BY <1>1, <3>1, TextGrows
  <2>3. /\ (\E c \in 1 .. Len(read) : Braced(c0, c, read) /\ EmptyTo(c, p, read)) =>
             \E c \in 1 .. Len(read') : Braced(c0, c, read') /\ EmptyTo(c, p, read')
        /\ (\E c \in 1 .. Len(read) : Braced(c0, c, read) /\ Opens(c, p, read)) =>
             \E c \in 1 .. Len(read') : Braced(c0, c, read') /\ Opens(c, p, read')
    BY Zenon, <2>1, <2>2
  <2>4. Braced(c0, p, read) => Braced(c0, p, read') BY <1>1, <2>1
  <2> HIDE DEF c0
  <2> QED BY Zenon, <2>1, <2>3, <2>4 DEF Known, InBraces, c0
<1> QED BY <1>4, <1>5, <1>6, <1>7 DEF Known
(* What the refusal of a terminal says of the text: newlines aside, it is  *)
(* not the next token.                                                     *)
LEMMA RefusedAhead ==
  ASSUME ParserInv, BlocksInv, Clean, ~failed, frames # <<>>, Refused,
         Rules[Top.rule].skip_new_line
  PROVE  \E k \in current .. Len(read) : FirstIs(current, k, read) /\ read[k] # Expected
<1>1. RefusedIsTrue /\ InStep(Here) BY DEF BlocksInv, PlacesAreInStep
<1>2. cursor = current BY <1>1 DEF InStep, Here
<1>3. Placed(Here, read) /\ LogOK /\ ProbeIsTrue BY TopIsFrame DEF ParserInv
<1>4. current \in 1 .. Len(read) /\ Len(read) \in Nat BY <1>3, SeqFacts DEF Placed, Here, LogOK
<1>5. Rule.skip_new_line BY DEF Rule
<1>6. CASE Top.match = "refused" BY <1>1, <1>6 DEF RefusedIsTrue
<1>7. CASE AtNewline /\ ProbeKnows
  <2>1. probe # NoProbe /\ probe.start = current /\ probe.kind # Expected
    BY <1>2, <1>7 DEF ProbeKnows
  <2>2. PICK k \in probe.start + 1 .. Len(read) :
          /\ read[k] = probe.kind /\ probe.kind # "nl"
          /\ \A n \in probe.start + 1 .. k - 1 : read[n] = "nl"
    BY <1>3, <2>1 DEF ProbeIsTrue
  <2>3. read[current] = "nl" BY <1>7 DEF AtNewline, Current
  <2>4. k \in current .. Len(read) /\ \A n \in current .. k - 1 : read[n] = "nl"
    BY <1>4, <2>1, <2>2, <2>3
  <2>5. FirstIs(current, k, read) BY <2>2, <2>4 DEF FirstIs
  <2> QED BY <2>1, <2>2, <2>4, <2>5
<1>8. CASE ~AtNewline /\ Current # Expected
  <2>1. read[current] # "nl" /\ read[current] # Expected BY <1>5, <1>8 DEF AtNewline, Current
  <2>2. FirstIs(current, current, read) BY <1>4, <2>1 DEF FirstIs
  <2> QED BY <1>4, <2>1, <2>2
<1> QED BY <1>6, <1>7, <1>8 DEF Refused

(***************************************************************************)
(* The ways the stack of calls changes                                     *)
(***************************************************************************)
(* What is known of the callers, which wait. *)
LEMMA CallersKnown ==
  ASSUME ParserInv, BlocksInv, Extends, Clean, ~failed, frames # <<>>
  PROVE  \A d \in 1 .. Len(frames) - 1 :
           /\ Calls(frames[d])
           /\ Known(frames[d], frames[d].item.current, read')
           /\ \A p \in {frames[d].chk, frames[d].from, frames[d].item, frames[d].looking} :
                InStep(p)
<1>1. LogOK /\ FramesOK /\ Len(frames) \in Nat \ {0} BY TopIsFrame DEF ParserInv
<1> SUFFICES ASSUME NEW d \in 1 .. Len(frames) - 1
             PROVE  /\ Calls(frames[d])
                    /\ Known(frames[d], frames[d].item.current, read')
                    /\ \A p \in {frames[d].chk, frames[d].from, frames[d].item,
                                 frames[d].looking} : InStep(p)
  OBVIOUS
<1>2. d \in 1 .. Len(frames) /\ d < Len(frames) BY <1>1
<1>3. IsFrame(frames[d], read) /\ Calls(frames[d]) BY <1>1, <1>2 DEF FramesOK
<1>4. Place(d) = frames[d].item BY <1>2 DEF Place
<1>5. Known(frames[d], frames[d].item.current, read) BY <1>2, <1>4 DEF BlocksInv
<1>6. frames[d].item.current \in 1 .. Len(read) BY <1>3 DEF IsFrame, Placed
<1>7. Known(frames[d], frames[d].item.current, read') BY <1>1, <1>3, <1>5, <1>6, KnownStays
<1>8. \A p \in {frames[d].chk, frames[d].from, frames[d].item, frames[d].looking} : InStep(p)
  BY <1>2 DEF BlocksInv, PlacesAreInStep
<1> QED BY <1>3, <1>7, <1>8

LEMMA TopKnown ==
  ASSUME ParserInv, BlocksInv, Clean, ~failed, frames # <<>>
  PROVE  /\ returned # Nothing =>
              /\ Known(Top, Top.item.current, read)
              /\ Left(NodeOf(Top).name, Top.item.current, current, returned.reduced, read)
         /\ returned = Nothing =>
              Known(Top, IF Top.match = "looking" THEN Top.looking.current ELSE current, read)
         /\ InStep(Here)
         /\ \A p \in {Top.chk, Top.from, Top.item, Top.looking} : InStep(p)
         /\ Top.from.current \in 1 .. Len(read) /\ Top.item.current \in 1 .. Len(read)
         /\ Top.looking.current \in 1 .. Len(read) /\ current \in 1 .. Len(read)
         /\ Len(read) \in Nat
<1>1. Len(frames) \in Nat \ {0} /\ IsFrame(Top, read) /\ LogOK /\ Placed(Here, read)
  BY TopIsFrame DEF ParserInv
<1>2. Len(frames) \in 1 .. Len(frames) /\ ~(Len(frames) < Len(frames)) BY <1>1
<1>3. Known(Top, Place(Len(frames)).current, read) BY Zenon, <1>2 DEF BlocksInv, Top
<1>4. /\ returned # Nothing => Place(Len(frames)) = Top.item
      /\ returned = Nothing =>
           Place(Len(frames)) = IF Top.match = "looking" THEN Top.looking ELSE Here
  BY <1>2 DEF Place, Top
<1>5. Here.current = current BY DEF Here
<1>6. InStep(Here) /\ \A p \in {Top.chk, Top.from, Top.item, Top.looking} : InStep(p)
  BY <1>2 DEF BlocksInv, PlacesAreInStep, Top
<1>7. returned # Nothing =>
        Left(NodeOf(Top).name, Top.item.current, current, returned.reduced, read)
  BY DEF BlocksInv
<1>8. /\ Top.from.current \in 1 .. Len(read) /\ Top.item.current \in 1 .. Len(read)
      /\ Top.looking.current \in 1 .. Len(read) /\ current \in 1 .. Len(read)
      /\ Len(read) \in Nat
  BY <1>1, <1>5, SeqFacts DEF IsFrame, Placed, LogOK
<1>9. returned = Nothing =>
        Known(Top, IF Top.match = "looking" THEN Top.looking.current ELSE current, read)
  BY <1>3, <1>4, <1>5
<1> QED BY <1>3, <1>4, <1>6, <1>7, <1>8, <1>9

(* The innermost call goes on. *)
LEMMA BlockGoesOn ==
  ASSUME ParserInv, BlocksInv, Extends, ~failed, frames # <<>>,
         NEW g, frames' = SetTop(frames, g), returned' = Nothing,
         Clean' =>
           /\ g.rule = Top.rule /\ g.from = Top.from
           /\ InStep(Here') /\ InStep(g.chk) /\ InStep(g.item) /\ InStep(g.looking)
           /\ g.match = "refused" =>
                \E k \in current' .. Len(read') :
                  FirstIs(current', k, read') /\ read'[k] # NodeOf(g).name
           /\ Known(g, IF g.match = "looking" THEN g.looking.current ELSE current', read')
  PROVE  BlocksInv'
<1> SUFFICES ASSUME Clean'
             PROVE  /\ CallsAreLinked' /\ PlacesAreInStep' /\ RefusedIsTrue'
                    /\ \A d \in 1 .. Len(frames') : Known(frames'[d], Place(d)'.current, read')
  BY Zenon DEF BlocksInv
<1>1. Clean BY DEF Extends
<1>2. IsSeq(frames) /\ Len(frames) \in Nat \ {0} BY TopIsFrame DEF ParserInv, FramesOK
<1>3. /\ IsSeq(frames') /\ Len(frames') = Len(frames) /\ frames'[Len(frames)] = g
      /\ \A d \in 1 .. Len(frames) - 1 : frames'[d] = frames[d]
  BY <1>2, UpdatedTop
<1>4. \A d \in 1 .. Len(frames) - 1 :
        /\ Known(frames[d], frames[d].item.current, read')
        /\ \A p \in {frames[d].chk, frames[d].from, frames[d].item, frames[d].looking} :
             InStep(p)
  BY <1>1, CallersKnown
<1>5. \A d \in 1 .. Len(frames') : d = Len(frames) \/ d \in 1 .. Len(frames) - 1
  BY <1>2, <1>3
<1>6. Top' = g BY Zenon, <1>3 DEF Top
<1>7. InStep(Top.from) BY <1>1, TopKnown
<1>8. CallsAreLinked'
  <2> SUFFICES ASSUME NEW d \in 1 .. Len(frames') - 1
               PROVE  /\ frames'[d + 1].rule = NodeOf(frames'[d]).name
                      /\ frames'[d + 1].from = frames'[d].item
    BY DEF CallsAreLinked, NodeOf
  <2>1. d \in 1 .. Len(frames) - 1 /\ frames'[d] = frames[d] BY <1>3
  <2>2. frames[d + 1].rule = NodeOf(frames[d]).name /\ frames[d + 1].from = frames[d].item
    BY <1>1, <2>1 DEF BlocksInv, CallsAreLinked
  <2>3. CASE d + 1 = Len(frames)
    <3>1. frames'[d + 1] = g /\ frames[d + 1] = Top BY Zenon, <1>3, <2>3 DEF Top
    <3>2. frames'[d + 1].rule = frames[d + 1].rule /\ frames'[d + 1].from = frames[d + 1].from
      BY Zenon, <3>1
    <3> QED BY Zenon, <2>1, <2>2, <3>2
  <2>4. CASE d + 1 # Len(frames)
    <3>1. d + 1 \in 1 .. Len(frames) - 1 BY <1>2, <2>1, <2>4
    <3>2. frames'[d + 1] = frames[d + 1] BY Zenon, <1>3, <3>1
    <3> QED BY Zenon, <2>1, <2>2, <3>2
  <2> QED BY <2>3, <2>4
<1>9. PlacesAreInStep'
  <2>1. \A d \in 1 .. Len(frames') :
          \A p \in {frames'[d].chk, frames'[d].from, frames'[d].item, frames'[d].looking} :
            InStep(p)
    <3> TAKE d \in 1 .. Len(frames')
    <3>1. CASE d = Len(frames)
      <4>1. frames'[d] = g BY Zenon, <1>3, <3>1
      <4> QED BY <1>7, <4>1
    <3>2. CASE d \in 1 .. Len(frames) - 1
      <4>1. frames'[d] = frames[d] BY Zenon, <1>3, <3>2
      <4> QED BY Zenon, <1>4, <3>2, <4>1
    <3> QED BY Zenon, <1>5, <3>1, <3>2
  <2> QED BY <2>1 DEF PlacesAreInStep, InStep
<1>10. RefusedIsTrue'
  <2>1. Expected' = NodeOf(g).name
    BY Zenon, <1>6 DEF Expected, NodeOf, NodesOf, Productions, Nodes, Rule
  <2> QED BY Zenon, <1>6, <2>1 DEF RefusedIsTrue
<1>11. \A d \in 1 .. Len(frames') : Known(frames'[d], Place(d)'.current, read')
  <2> TAKE d \in 1 .. Len(frames')
  <2>1. CASE d = Len(frames)
    <3>1. frames'[d] = g /\ ~(d < Len(frames')) BY <1>2, <1>3, <2>1
    <3>2. Place(d)' = IF g.match = "looking" THEN g.looking ELSE Here'
      BY <3>1 DEF Place
    <3>3. Here'.current = current' BY DEF Here
    <3>4. Place(d)'.current = IF g.match = "looking" THEN g.looking.current ELSE current'
      BY Zenon, <3>2, <3>3
    <3> QED BY Zenon, <3>1, <3>4
  <2>2. CASE d \in 1 .. Len(frames) - 1
    <3>1. frames'[d] = frames[d] /\ d < Len(frames') BY <1>2, <1>3, <2>2
    <3>2. Place(d)' = frames[d].item BY <3>1 DEF Place
    <3> QED BY Zenon, <1>4, <2>2, <3>1, <3>2
  <2> QED BY Zenon, <1>5, <2>1, <2>2
<1> QED BY <1>8, <1>9, <1>10, <1>11

(* The innermost call returns. *)
LEMMA BlockReturns ==
  ASSUME ParserInv, BlocksInv, Extends, ~failed, frames # <<>>,
         frames' = Front(frames), returned' # Nothing,
         Clean' =>
           /\ InStep(Here')
           /\ Left(Top.rule, Top.from.current, current', returned'.reduced, read')
  PROVE  BlocksInv'
<1> SUFFICES ASSUME Clean'
             PROVE  /\ CallsAreLinked' /\ PlacesAreInStep' /\ RefusedIsTrue'
                    /\ \A d \in 1 .. Len(frames') : Known(frames'[d], Place(d)'.current, read')
                    /\ frames' # <<>> =>
                         Left(NodeOf(Top').name, Top'.item.current, current',
                              returned'.reduced, read')
  BY Zenon DEF BlocksInv, NodeOf
<1>1. Clean BY DEF Extends
<1>2. IsSeq(frames) /\ Len(frames) \in Nat \ {0} BY TopIsFrame DEF ParserInv, FramesOK
<1>3. /\ IsSeq(frames') /\ Len(frames') = Len(frames) - 1
      /\ \A d \in 1 .. Len(frames) - 1 : frames'[d] = frames[d]
  BY <1>2, PoppedTop
<1>4. \A d \in 1 .. Len(frames) - 1 :
        /\ Calls(frames[d])
        /\ Known(frames[d], frames[d].item.current, read')
        /\ \A p \in {frames[d].chk, frames[d].from, frames[d].item, frames[d].looking} :
             InStep(p)
  BY <1>1, CallersKnown
<1>5. CallsAreLinked'
  <2> SUFFICES ASSUME NEW d \in 1 .. Len(frames') - 1
               PROVE  /\ frames'[d + 1].rule = NodeOf(frames'[d]).name
                      /\ frames'[d + 1].from = frames'[d].item
    BY DEF CallsAreLinked, NodeOf
  <2>1. d \in 1 .. Len(frames) - 1 /\ d + 1 \in 1 .. Len(frames) - 1 BY <1>2, <1>3
  <2>2. frames[d + 1].rule = NodeOf(frames[d]).name /\ frames[d + 1].from = frames[d].item
    BY <1>1, <2>1 DEF BlocksInv, CallsAreLinked
  <2> QED BY Zenon, <1>3, <2>1, <2>2
<1>6. PlacesAreInStep' BY <1>3, <1>4 DEF PlacesAreInStep, InStep
<1>7. ASSUME frames' # <<>>
      PROVE  /\ Top'.match # "refused"
             /\ NodeOf(Top').name = Top.rule /\ Top'.item = Top.from
  <2>1. Len(frames') \in Nat \ {0} BY <1>3, <1>7, SeqFacts
  <2>2. Len(frames') \in 1 .. Len(frames) - 1 /\ Len(frames') \in 1 .. Len(frames) BY <1>2, <1>3, <2>1
  <2>3. Top' = frames[Len(frames')] BY Zenon, <1>3, <2>2 DEF Top
  <2>4. IsFrame(Top', read) /\ Calls(Top') BY <1>4, <2>2, <2>3 DEF ParserInv, FramesOK
  <2>5. Top'.match # "refused" BY <2>4 DEF IsFrame, Calls
  <2>6. frames[Len(frames') + 1] = Top BY <1>2, <1>3 DEF Top
  <2>7. /\ frames[Len(frames') + 1].rule = NodeOf(frames[Len(frames')]).name
        /\ frames[Len(frames') + 1].from = frames[Len(frames')].item
    BY <1>1, <2>2 DEF BlocksInv, CallsAreLinked
  <2> QED BY Zenon, <2>3, <2>5, <2>6, <2>7
<1>8. RefusedIsTrue' BY <1>7 DEF RefusedIsTrue
<1>9. \A d \in 1 .. Len(frames') : Known(frames'[d], Place(d)'.current, read')
  <2> TAKE d \in 1 .. Len(frames')
  <2>1. d \in 1 .. Len(frames) - 1 /\ frames'[d] = frames[d] BY <1>2, <1>3
  <2>2. Place(d)' = frames[d].item BY <2>1 DEF Place
  <2> QED BY Zenon, <1>4, <2>1, <2>2
<1>10. frames' # <<>> =>
         Left(NodeOf(Top').name, Top'.item.current, current', returned'.reduced, read')
  BY Zenon, <1>7
<1> QED BY <1>5, <1>6, <1>8, <1>9, <1>10
(***************************************************************************)
(* What is known when a call goes on                                       *)
(***************************************************************************)
(* A closing brace ends a rule that takes no empty text where it began.    *)
LEMMA NoClosingBrace ==
  ASSUME NEW text, NEW f, IsFrame(f, text), NEW p, Known(f, p, text),
         f.rule \notin Optional, text[f.from.current] = ClosingBrace
  PROVE  /\ f.j = 1 /\ ~f.folded /\ f.chk = f.from /\ p = f.from.current
         /\ BeginsWith(f.rule, NodeOf(f))
BY FirstNode DEF Known, AtEntry

LEMMA EnteredAt ==
  ASSUME NEW text, Len(text) \in Nat, NEW f, IsFrame(f, text)
  PROVE  f.from.current \in 1 .. Len(text) /\ f.from.current \in Nat
<1> DEFINE c0 == f.from.current
<1>1. Placed(f.from, text) BY DEF IsFrame
<1>2. c0 \in 1 .. Len(text) BY <1>1 DEF Placed
<1> HIDE DEF c0
<1>3. c0 \in 1 .. Len(text) /\ c0 \in Nat BY <1>2
<1> QED BY Zenon, <1>3 DEF c0

LEMMA SepCallsNothing ==
  ASSUME NEW text, NEW f, IsFrame(f, text), NodeOf(f).type \in {"PN_RULE", "PN_RULE_LIST"}
  PROVE  f.rule # "stmt_sep"
BY SepFrame

(* Behind a rule that was reduced. *)
LEMMA KnownBehindRule ==
  ASSUME NEW text, Len(text) \in Nat, NEW f, IsFrame(f, text), NodeOf(f).type = "PN_RULE",
         NEW p \in 1 .. Len(text), NEW c \in 1 .. Len(text), Known(f, p, text),
         Left(NodeOf(f).name, p, c, TRUE, text),
         NEW g, g.rule = f.rule, g.i = f.i, g.j = f.j + 1, g.chk = f.chk, g.from = f.from,
         g.folded = f.folded, g.match = "untried"
  PROVE  Known(g, c, text)
<1> DEFINE c0 == f.from.current
<1>1. c0 \in 1 .. Len(text) /\ c0 \in Nat /\ p \in Nat /\ c \in Nat
  <2>1. p \in Nat /\ c \in Nat OBVIOUS
  <2> QED BY Zenon, <2>1, EnteredAt
<1>2. f.j \in Nat \ {0} /\ f.i \in Nat
  <2>1. f.j \in 1 .. Len(NodesOf(f.rule, f.i)) /\ f.i \in 1 .. Len(Productions(f.rule))
    BY DEF IsFrame
  <2>2. Len(NodesOf(f.rule, f.i)) \in Nat /\ f.rule \in RuleNames BY NodeFacts DEF IsFrame
  <2>3. Len(Productions(f.rule)) \in 1 .. 5 BY <2>2, RulesAreGood DEF GoodRule
  <2> QED BY <2>1, <2>2, <2>3
<1>3. g.j # 1 BY <1>2
<1>4. f.j = 1 /\ f.rule \notin ChainRules \cup {"if_tail"} => p = c0
  BY DEF Known, AtEntry
<1>5. f.rule \in {"stmt_seps", "stmt_optseps", "block", "braced_block"} =>
        f.rule \notin ChainRules \cup {"if_tail"}
  BY DEF ChainRules
<1>6. f.rule # "stmt_sep" BY SepCallsNothing
<1>7. AtEntry(g, c, text)
  <2>1. ASSUME f.rule \notin Optional, text[c0] = ClosingBrace PROVE FALSE
    <3>1. p = c0 /\ BeginsWith(f.rule, NodeOf(f)) BY <2>1, NoClosingBrace
    <3>2. NodeOf(f).name \notin CanBeEmpty BY <3>1 DEF BeginsWith
    <3> QED BY <2>1, <3>1, <3>2 DEF Left, CanBeEmpty
  <2> QED BY <1>3, <2>1 DEF Known, AtEntry
<1>8. InSeparators(g, c, text)
  <2>1. ASSUME f.rule = "stmt_seps"
        PROVE  /\ g.j = 2 => c > c0 /\ \A n \in c0 .. c - 1 : text[n] \in Separators
               /\ g.j # 3
    <3>1. f.j = 1 /\ NodeOf(f).name = "stmt_sep" BY <2>1, SepsFrame
    <3>2. p = c0 BY <1>4, <1>5, <2>1, <3>1
    <3>3. text[p] \in Separators /\ c = p + 1 BY <3>1 DEF Left
    <3>4. g.j = 2 /\ g.j # 3 BY <3>1
    <3> HIDE DEF c0
    <3>5. c = c0 + 1 /\ text[c0] \in Separators BY Zenon, <3>2, <3>3
    <3>6. \A n \in c0 .. c - 1 : n = c0 BY <1>1, <3>5
    <3>7. c > c0 BY <1>1, <3>5
    <3> QED BY Zenon, <3>4, <3>5, <3>6, <3>7
  <2>2. ASSUME f.rule = "stmt_optseps"
        PROVE  Opens(c0, c, text) /\ g.i # 2
    <3>1. f.j = 1 /\ f.i = 1 /\ NodeOf(f).name = "stmt_seps" BY <2>2, OptSepsFrame
    <3>2. p = c0 BY <1>4, <1>5, <2>2, <3>1
    <3>3. Opens(p, c, text) BY <3>1 DEF Left
    <3> QED BY <3>1, <3>2, <3>3
  <2> HIDE DEF c0
  <2>3. g.from.current = c0 BY DEF c0
  <2> QED BY Zenon, <1>6, <2>1, <2>2, <2>3 DEF InSeparators
<1>9. InBlock(g, c, text)
  <2>1. ASSUME f.rule = "block"
        PROVE  /\ g.j = 2 => Opens(c0, c, text)
               /\ g.j \in {3, 4} => EmptyTo(c0, c, text)
    <3>1. /\ f.j \in {1, 2, 3, 4}
          /\ f.j \in {1, 3} => NodeOf(f).name = "stmt_optseps"
          /\ f.j = 2 => NodeOf(f).name = "stmts"
          /\ f.j # 4
      BY <2>1, BlockFrame
    <3>2. /\ f.j = 2 => Opens(c0, p, text)
          /\ f.j \in {3, 4} => EmptyTo(c0, p, text)
      BY <2>1 DEF Known, InBlock
    <3>3. CASE f.j = 1
      <4>1. p = c0 /\ Opens(p, c, text) BY <1>4, <1>5, <2>1, <3>1, <3>3 DEF Left
      <4> QED BY <3>3, <4>1
    <3>4. CASE f.j = 2
      <4>1. text[p] = ClosingBrace => c = p BY <3>1, <3>4 DEF Left
      <4>2. Opens(c0, p, text) BY <3>2, <3>4
      <4>3. EmptyTo(c0, c, text) BY <1>1, <4>1, <4>2, OpensFacts
      <4> QED BY <3>4, <4>3
    <3>5. CASE f.j = 3
      <4>1. Opens(p, c, text) BY <3>1, <3>5 DEF Left
      <4>2. EmptyTo(c0, p, text) BY <3>2, <3>5
      <4>3. EmptyTo(c0, c, text) BY <1>1, <4>1, <4>2, OpensFacts
      <4> QED BY <3>5, <4>3
    <3> QED BY <3>1, <3>3, <3>4, <3>5
  <2> HIDE DEF c0
  <2>2. g.from.current = c0 BY DEF c0
  <2> QED BY Zenon, <2>1, <2>2 DEF InBlock
<1>10. InBraces(g, c, text)
  <2>1. ASSUME f.rule = "braced_block"
        PROVE  /\ g.j = 3
               /\ g.i = 1 => \E b \in 1 .. Len(text) : Braced(c0, b, text) /\ EmptyTo(b, c, text)
               /\ g.i = 2 => NoBrace(c0, text) \/ NotEmptyAt(c0, text)
               /\ g.i = 2 => \E b \in 1 .. Len(text) : Braced(c0, b, text) /\ Opens(b, c, text)
    <3>1. /\ f.j = 2
          /\ f.i = 1 => NodeOf(f).name = "block"
          /\ f.i = 2 => NodeOf(f).name = "stmt_optseps"
      BY <2>1, BracedFrame
    <3>2. Braced(c0, p, text) /\ (f.i = 2 => NoBrace(c0, text) \/ NotEmptyAt(c0, text))
      BY <2>1, <3>1 DEF Known, InBraces
    <3>3. (f.i = 1 => EmptyTo(p, c, text)) /\ (f.i = 2 => Opens(p, c, text))
      BY <3>1 DEF Left
    <3>4. g.j = 3 BY <3>1
    <3> QED BY Zenon, <3>2, <3>3, <3>4
  <2>2. g.j = 3 => g.j # 2 /\ g.j # 4 OBVIOUS
  <2> HIDE DEF c0
  <2>3. g.from.current = c0 BY DEF c0
  <2> QED BY Zenon, <2>1, <2>2, <2>3 DEF InBraces
<1> QED BY <1>7, <1>8, <1>9, <1>10 DEF Known

(* In a list and behind it. *)
LEMMA KnownInList ==
  ASSUME NEW text, Len(text) \in Nat, NEW f, IsFrame(f, text), NodeOf(f).type = "PN_RULE_LIST",
         NEW p \in 1 .. Len(text), NEW c \in 1 .. Len(text), Known(f, p, text),
         NEW reduced \in BOOLEAN, Left(NodeOf(f).name, p, c, reduced, text),
         NEW g, g.rule = f.rule, g.i = f.i, g.chk = f.chk, g.from = f.from,
         g.folded = f.folded, g.match = "untried",
         g.j = IF reduced THEN f.j ELSE f.j + 1
  PROVE  Known(g, IF reduced THEN c ELSE p, text)
<1> DEFINE c0 == f.from.current
           d  == IF reduced THEN c ELSE p
<1>1. c0 \in 1 .. Len(text) /\ c0 \in Nat /\ p \in Nat /\ c \in Nat
  <2>1. p \in Nat /\ c \in Nat OBVIOUS
  <2> QED BY Zenon, <2>1, EnteredAt
<1>2. f.j \in Nat \ {0}
  <2>1. f.j \in 1 .. Len(NodesOf(f.rule, f.i)) BY DEF IsFrame
  <2>2. Len(NodesOf(f.rule, f.i)) \in Nat BY NodeFacts
  <2> QED BY <2>1, <2>2
<1>3. f.rule \notin {"stmt_sep", "stmt_optseps", "block", "braced_block"}
  BY SepFrame, OptSepsFrame, BlockFrame, BracedFrame
<1>4. AtEntry(g, d, text)
  <2>1. f.rule \notin Optional => text[c0] # ClosingBrace
    BY NoClosingBrace DEF BeginsWith
  <2>2. f.rule \in Optional => f.rule = "prog" BY <1>3 DEF Optional
  <2>3. f.rule # "prog"
    <3>1. ASSUME f.rule = "prog" PROVE FALSE
      <4>1. Len(NodesOf(f.rule, 1)) = 2 /\ NodesOf(f.rule, 1)[1].type = "PN_RULE"
            /\ NodesOf(f.rule, 1)[2].type = "PN_REDUCE"
        BY <3>1, ProgNodes DEF NTRM, REDUCE
      <4>2. f.i \in 1 .. 1 BY Zenon, <3>1, ProgNodes DEF IsFrame
      <4>3. f.i = 1 BY <4>2
      <4>4. f.j \in 1 .. 2 BY Zenon, <4>1, <4>3 DEF IsFrame
      <4>5. f.j \in {1, 2} BY <4>4
      <4> QED BY <4>1, <4>3, <4>5 DEF NodeOf
    <3> QED BY <3>1
  <2>4. f.j # 1
    <3>1. f.j = 1 => BeginsWith(f.rule, NodeOf(f)) BY <2>2, <2>3, FirstNode
    <3> QED BY <3>1 DEF BeginsWith
  <2>5. g.j # 1 BY <1>2, <2>4
  <2> QED BY <2>1, <2>2, <2>3, <2>5 DEF Known, AtEntry
<1>5. InSeparators(g, d, text)
  <2>1. ASSUME f.rule = "stmt_seps"
        PROVE  /\ reduced => /\ g.j = 2 /\ d > c0
                             /\ \A n \in c0 .. d - 1 : text[n] \in Separators
               /\ ~reduced => g.j = 3 /\ d > c0 /\ Opens(c0, d, text)
    <3>1. f.j = 2 /\ NodeOf(f).name = "stmt_sep" BY <2>1, SepsFrame
    <3>2. p > c0 /\ \A n \in c0 .. p - 1 : text[n] \in Separators
      BY <2>1, <3>1 DEF Known, InSeparators
    <3>3. IF reduced THEN text[p] \in Separators /\ c = p + 1 ELSE text[p] \notin Separators
      BY <3>1 DEF Left
    <3>4. CASE reduced BY <1>1, <3>1, <3>2, <3>3, <3>4
    <3>5. CASE ~reduced
      <4>1. Opens(c0, p, text) BY <1>1, <3>2, <3>3, <3>5 DEF Opens
      <4> QED BY <3>1, <3>2, <3>5, <4>1
    <3> QED BY <3>4, <3>5
  <2>2. g.from.current = c0 OBVIOUS
  <2>3. (g.j = 2 => g.j # 3) OBVIOUS
  <2> HIDE DEF c0, d
  <2> QED BY Zenon, <1>3, <2>1, <2>2, <2>3 DEF InSeparators
<1>6. InBlock(g, d, text) /\ InBraces(g, d, text) BY Zenon, <1>3 DEF InBlock, InBraces
<1> QED BY Zenon, <1>4, <1>5, <1>6 DEF Known
(* Behind a terminal, and the newlines before it. *)
LEMMA KnownBehindTerm ==
  ASSUME NEW text, Len(text) \in Nat, NEW f, IsFrame(f, text), NodeOf(f).type = "PN_TERM",
         NEW p \in 1 .. Len(text), NEW c \in p .. Len(text), NEW d \in 1 .. Len(text),
         Known(f, p, text),
         text[c] = NodeOf(f).name, \A n \in p .. c - 1 : text[n] = "nl",
         p = c \/ Rules[f.rule].skip_new_line,
         d = c + 1 \/ NodeOf(f).name = Eof,
         NEW g, g.rule = f.rule, g.i = f.i, g.j = f.j + 1, g.chk = f.chk, g.from = f.from,
         g.folded = f.folded, g.match = "untried"
  PROVE  Known(g, d, text)
<1> DEFINE c0 == f.from.current
<1>1. c0 \in 1 .. Len(text) /\ c0 \in Nat /\ p \in Nat /\ c \in Nat /\ d \in Nat
  <2>1. p \in Nat /\ c \in Nat /\ d \in Nat OBVIOUS
  <2> QED BY Zenon, <2>1, EnteredAt
<1>2. f.rule \notin {"stmt_seps", "stmt_optseps", "block"}
  BY SepsFrame, OptSepsFrame, BlockFrame
<1>3. f.j \in Nat \ {0}
  <2>1. f.j \in 1 .. Len(NodesOf(f.rule, f.i)) BY DEF IsFrame
  <2>2. Len(NodesOf(f.rule, f.i)) \in Nat BY NodeFacts
  <2> QED BY <2>1, <2>2
<1>4. g.j # 1 BY <1>3
<1>5. p # c => text[p] = "nl"
  <2>1. p # c => p \in p .. c - 1 OBVIOUS
  <2> QED BY <2>1
<1>6. FirstIs(p, c, text) \/ text[c] = "nl" BY DEF FirstIs
<1>7. f.j = 1 /\ f.rule \in {"stmt_sep", "braced_block"} => p = c0
  BY DEF Known, AtEntry, ChainRules
<1>8. AtEntry(g, d, text)
  <2>1. ASSUME f.rule \notin Optional, text[c0] = ClosingBrace PROVE FALSE
    <3>1. p = c0 /\ BeginsWith(f.rule, NodeOf(f)) BY <2>1, NoClosingBrace
    <3>2. NodeOf(f).name # ClosingBrace BY <3>1 DEF BeginsWith
    <3> QED BY <1>5, <2>1, <3>1, <3>2, TokenFacts
  <2> QED BY <1>4, <2>1 DEF Known, AtEntry
<1>9. InSeparators(g, d, text)
  <2>1. ASSUME f.rule = "stmt_sep"
        PROVE  text[c0] \in Separators /\ d = c0 + 1
    <3>1. f.j = 1 /\ NodeOf(f).name \in Separators /\ ~Rules[f.rule].skip_new_line
      BY <2>1, SepFrame
    <3>2. p = c0 /\ p = c BY <1>7, <2>1, <3>1
    <3>3. NodeOf(f).name # Eof BY <3>1, TokenFacts
    <3> QED BY <3>1, <3>2, <3>3
  <2> HIDE DEF c0
  <2>2. g.from.current = c0 BY DEF c0
  <2> QED BY Zenon, <1>2, <1>4, <2>1, <2>2 DEF InSeparators
<1>10. InBraces(g, d, text)
  <2>1. ASSUME f.rule = "braced_block"
        PROVE  /\ g.j = 2 => Braced(c0, d, text)
               /\ g.j # 3
               /\ f.i = 2 => NoBrace(c0, text) \/ NotEmptyAt(c0, text)
               /\ f.i = 2 => g.j # 4
    <3>1. /\ f.j \in {1, 3}
          /\ f.j = 1 => NodeOf(f).name = OpeningBrace
          /\ f.j = 3 => NodeOf(f).name = ClosingBrace
      BY <2>1, BracedFrame
    <3>2. g.j = (IF f.j = 1 THEN 2 ELSE 4) BY <3>1
    <3>3. f.i = 2 => NoBrace(c0, text) \/ NotEmptyAt(c0, text)
      BY <2>1 DEF Known, InBraces
    <3>4. ASSUME f.j = 1 PROVE Braced(c0, d, text)
      <4>1. p = c0 /\ text[c] = OpeningBrace BY <1>7, <2>1, <3>1, <3>4
      <4>2. FirstIs(c0, c, text) BY <1>6, <4>1, TokenFacts
      <4>3. d = c + 1 BY <3>1, <3>4, TokenFacts
      <4>4. c \in c0 .. Len(text) BY Zenon, <4>1
      <4> QED BY Zenon, <4>1, <4>2, <4>3, <4>4 DEF Braced
    <3>5. ASSUME f.j = 3, f.i = 2 PROVE FALSE
      <4>1. PICK b \in 1 .. Len(text) : Braced(c0, b, text) /\ Opens(b, p, text)
        BY <2>1, <3>5 DEF Known, InBraces
      <4>2. b \in Nat OBVIOUS
      <4>3. ~NoBrace(c0, text) BY <1>1, <4>1, <4>2, BracedFacts
      <4>4. PICK e \in 1 .. Len(text) : \E q \in 1 .. Len(text) :
              Braced(c0, e, text) /\ Opens(e, q, text) /\ text[q] # ClosingBrace
        BY <3>3, <3>5, <4>3 DEF NotEmptyAt
      <4>5. PICK q \in 1 .. Len(text) :
              Braced(c0, e, text) /\ Opens(e, q, text) /\ text[q] # ClosingBrace
        BY <4>4
      <4>6. e \in Nat /\ q \in Nat OBVIOUS
      <4>7. b = e BY <1>1, <4>1, <4>2, <4>5, <4>6, BracedFacts
      <4>8. p = q BY <1>1, <4>1, <4>2, <4>5, <4>6, <4>7, OpensFacts
      <4>9. text[p] \notin Separators BY <4>1 DEF Opens
      <4>10. p = c BY <1>5, <4>9, TokenFacts
      <4> QED BY <3>1, <3>5, <4>5, <4>8, <4>10
    <3>6. g.j # 3 /\ (g.j = 2 <=> f.j = 1) /\ (g.j = 4 => f.j = 3) BY <3>1, <3>2
    <3> QED BY Zenon, <3>3, <3>4, <3>5, <3>6
  <2> HIDE DEF c0
  <2>2. g.from.current = c0 BY DEF c0
  <2> QED BY Zenon, <2>1, <2>2 DEF InBraces
<1>11. InBlock(g, d, text) BY <1>2 DEF InBlock
<1> QED BY Zenon, <1>8, <1>9, <1>10, <1>11 DEF Known

(***************************************************************************)
(* What is known when a call is stuck                                      *)
(***************************************************************************)
(* The terminal that the call is at is not there. *)
NotThere(f, p, text) ==
  IF Rules[f.rule].skip_new_line
  THEN \E k \in p .. Len(text) : FirstIs(p, k, text) /\ text[k] # NodeOf(f).name
  ELSE text[p] # NodeOf(f).name

LEMMA RefusedIsNotThere ==
  ASSUME ParserInv, BlocksInv, Clean, ~failed, frames # <<>>, returned = Nothing, Refused
  PROVE  NotThere(Top, current, read)
<1>1. Expected = NodeOf(Top).name BY TopIsFrame DEF Expected
<1>2. CASE Rules[Top.rule].skip_new_line BY <1>1, <1>2, RefusedAhead DEF NotThere
<1>3. CASE ~Rules[Top.rule].skip_new_line
  <2>1. Top.match = "untried" BY <1>3, TopKnown DEF Known, AtEntry
  <2>2. ~AtNewline BY <1>3 DEF AtNewline, Rule
  <2>3. read[current] # Expected BY <2>1, <2>2 DEF Refused, Current
  <2> QED BY <1>1, <1>3, <2>3 DEF NotThere
<1> QED BY <1>2, <1>3

(* A block in braces that has no opening brace. *)
LEMMA OpeningRefused ==
  ASSUME NEW text, NEW f, IsFrame(f, text), f.rule = "braced_block", f.j = 1,
         NotThere(f, f.from.current, text)
  PROVE  NoBrace(f.from.current, text)
<1> DEFINE c0 == f.from.current
<1>1. Rules[f.rule].skip_new_line /\ NodeOf(f).name = OpeningBrace BY BracedFrame
<1>2. \E k \in c0 .. Len(text) : FirstIs(c0, k, text) /\ text[k] # OpeningBrace
  BY <1>1 DEF NotThere
<1> QED BY <1>2 DEF NoBrace

(* The next production begins with the nodes the call is past. *)
LEMMA KnownSwitched ==
  ASSUME NEW text, NEW f, IsFrame(f, text), NodeOf(f).type = "PN_TERM",
         NEW here, NEW p, p = here.current, Known(f, p, text), NotThere(f, p, text),
         f.j = 1 => f.chk = here,
         \/ f.j = 1 /\ f.rule \notin ChainRules
         \/ f.rule = "if_tail"
         \/ f.rule \in ChainRules,
         NEW g, g.rule = f.rule, g.i = f.i + 1, g.j = f.j, g.chk = here, g.from = f.from,
         g.folded = f.folded, g.match = "untried"
  PROVE  Known(g, p, text)
<1> DEFINE c0 == f.from.current
<1>1. f.rule \notin {"stmt_seps", "stmt_optseps", "block"}
  BY SepsFrame, OptSepsFrame, BlockFrame
<1>2. f.rule \in {"stmt_sep", "braced_block"} => f.j = 1 /\ p = c0
  BY DEF Known, AtEntry, ChainRules
<1>3. AtEntry(g, p, text) BY Zenon DEF Known, AtEntry
<1>4. InSeparators(g, p, text)
  <2>1. ASSUME f.rule = "stmt_sep" PROVE text[c0] # "nl"
    <3>1. f.i \in {1, 2} /\ (f.i = 1 => NodeOf(f).name = "nl") /\ ~Rules[f.rule].skip_new_line
      BY <1>2, <2>1, SepFrame
    <3>2. text[c0] # NodeOf(f).name BY <1>2, <2>1, <3>1 DEF NotThere
    <3>3. CASE f.i = 1 BY <3>1, <3>2, <3>3
    <3>4. CASE f.i = 2 BY <1>2, <2>1, <3>4 DEF Known, InSeparators
    <3> QED BY <3>1, <3>3, <3>4
  <2>2. f.rule = "stmt_sep" => g.j # 2 BY <1>2
  <2> HIDE DEF c0
  <2>3. g.from.current = c0 BY DEF c0
  <2> QED BY Zenon, <1>1, <2>1, <2>2, <2>3 DEF InSeparators
<1>5. InBraces(g, p, text)
  <2>1. ASSUME f.rule = "braced_block" PROVE NoBrace(c0, text)
    BY <1>2, <2>1, OpeningRefused
  <2>2. f.rule = "braced_block" => g.j # 2 /\ g.j # 3 /\ g.j # 4 BY <1>2
  <2> HIDE DEF c0
  <2>3. g.from.current = c0 BY DEF c0
  <2> QED BY Zenon, <2>1, <2>2, <2>3 DEF InBraces
<1>6. InBlock(g, p, text) BY <1>1 DEF InBlock
<1> QED BY Zenon, <1>3, <1>4, <1>5, <1>6 DEF Known
(* The next production begins where the rule was entered. *)
LEMMA KnownNext ==
  ASSUME NEW text, Len(text) \in Nat, NEW f, IsFrame(f, text),
         NodeOf(f).type \in {"PN_TERM", "PN_RULE"},
         NEW p \in 1 .. Len(text), NEW c, Known(f, p, text),
         NodeOf(f).type = "PN_TERM" => NotThere(f, p, text),
         NodeOf(f).type = "PN_RULE" => Left(NodeOf(f).name, p, c, FALSE, text),
         f.chk = f.from \/ f.rule \in ChainRules \cup {"if_tail"},
         NEW g, g.rule = f.rule, g.i = f.i + 1, g.j = 1, g.chk = f.chk, g.from = f.from,
         g.folded = FALSE, g.match = "untried"
  PROVE  Known(g, f.chk.current, text)
<1> DEFINE c0 == f.from.current
           d  == f.chk.current
<1>1. g.j # 2 /\ g.j # 3 /\ g.j # 4 OBVIOUS
<1>2. AtEntry(g, d, text)
  <2>1. f.rule \notin Optional /\ text[c0] = ClosingBrace => f.chk = f.from
    BY NoClosingBrace
  <2> QED BY <2>1 DEF AtEntry
<1>3. InSeparators(g, d, text)
  <2>1. ASSUME f.rule = "stmt_sep" PROVE text[c0] # "nl"
    <3>1. /\ f.i \in {1, 2} /\ (f.i = 1 => NodeOf(f).name = "nl") /\ f.j = 1
          /\ ~Rules[f.rule].skip_new_line /\ NodeOf(f).type = "PN_TERM"
      BY <2>1, SepFrame
    <3>2. p = c0 BY <2>1, <3>1 DEF Known, AtEntry, ChainRules
    <3>3. text[c0] # NodeOf(f).name BY <3>1, <3>2 DEF NotThere
    <3>4. CASE f.i = 1 BY <3>1, <3>3, <3>4
    <3>5. CASE f.i = 2 BY <2>1, <3>1, <3>5 DEF Known, InSeparators
    <3> QED BY <3>1, <3>4, <3>5
  <2>2. ASSUME f.rule = "stmt_optseps" PROVE text[c0] \notin Separators
    <3>1. f.i = 1 /\ f.j = 1 /\ NodeOf(f).type = "PN_RULE" /\ NodeOf(f).name = "stmt_seps"
      BY <2>2, OptSepsFrame
    <3>2. p = c0 BY <2>2, <3>1 DEF Known, AtEntry, ChainRules
    <3>3. text[p] \notin Separators BY <3>1 DEF Left
    <3> QED BY <3>2, <3>3
  <2> HIDE DEF c0, d
  <2>3. g.from.current = c0 BY DEF c0
  <2> QED BY Zenon, <1>1, <2>1, <2>2, <2>3 DEF InSeparators
<1>4. InBlock(g, d, text) BY <1>1 DEF InBlock
<1>5. InBraces(g, d, text)
  <2>1. ASSUME f.rule = "braced_block"
        PROVE  NoBrace(c0, text) \/ NotEmptyAt(c0, text)
    <3>1. f.i \in {1, 2} /\ f.j \in {1, 2, 3} BY <2>1, BracedFrame
    <3>2. CASE f.i = 2 BY <2>1, <3>2 DEF Known, InBraces
    <3>3. CASE f.j = 1
      <4>1. NodeOf(f).type = "PN_TERM" BY <2>1, <3>3, BracedFrame
      <4>2. p = c0 BY <2>1, <3>3 DEF Known, AtEntry, ChainRules
      <4> QED BY <2>1, <3>3, <4>1, <4>2, OpeningRefused
    <3>4. CASE f.i = 1 /\ f.j = 2
      <4>1. NodeOf(f).type = "PN_RULE" /\ NodeOf(f).name = "block" BY <2>1, <3>4, BracedFrame
      <4> QED BY <4>1 DEF Left
    <3>5. CASE f.i = 1 /\ f.j = 3
      <4>1. /\ NodeOf(f).type = "PN_TERM" /\ NodeOf(f).name = ClosingBrace
            /\ Rules[f.rule].skip_new_line
        BY <2>1, <3>5, BracedFrame
      <4>2. PICK k \in p .. Len(text) : FirstIs(p, k, text) /\ text[k] # ClosingBrace
        BY <4>1 DEF NotThere
      <4>3. PICK b \in 1 .. Len(text) : Braced(c0, b, text) /\ EmptyTo(b, p, text)
        BY <2>1, <3>5 DEF Known, InBraces
      <4>4. PICK q \in b .. Len(text) : Opens(b, q, text) /\ (text[q] = ClosingBrace => p = q)
        BY <4>3 DEF EmptyTo
      <4>5. text[q] # ClosingBrace
        <5>1. ASSUME text[q] = ClosingBrace PROVE FALSE
          <6>1. p = q /\ text[p] # "nl" BY <4>4, <5>1, TokenFacts
          <6>2. k = p
            <7>1. k # p => p \in p .. k - 1 BY <4>2
            <7> QED BY <4>2, <6>1, <7>1 DEF FirstIs
          <6> QED BY <4>2, <5>1, <6>1, <6>2
        <5> QED BY <5>1
      <4>6. q \in 1 .. Len(text) BY <4>4
      <4>7. NotEmptyAt(c0, text) BY Zenon, <4>3, <4>4, <4>5, <4>6 DEF NotEmptyAt
      <4> QED BY <4>7
    <3> QED BY <3>1, <3>2, <3>3, <3>4, <3>5
  <2> HIDE DEF c0, d
  <2>2. g.from.current = c0 BY DEF c0
  <2> QED BY Zenon, <1>1, <2>1, <2>2 DEF InBraces
<1> QED BY Zenon, <1>2, <1>3, <1>4, <1>5 DEF Known

(***************************************************************************)
(* What a rule has left                                                    *)
(***************************************************************************)
LEMMA LeftInVain ==
  ASSUME NEW text, NEW f, IsFrame(f, text), NodeOf(f).type \in {"PN_TERM", "PN_RULE"},
         NEW p, NEW c, Known(f, p, text),
         NodeOf(f).type = "PN_TERM" => NotThere(f, p, text),
         NodeOf(f).type = "PN_RULE" => Left(NodeOf(f).name, p, c, FALSE, text),
         f.i = Len(Productions(f.rule)),
         NEW d
  PROVE  Left(f.rule, f.from.current, d, FALSE, text)
<1> DEFINE c0 == f.from.current
<1>1. ASSUME f.rule = "stmt_sep" PROVE text[c0] \notin Separators
  <2>1. Len(Productions(f.rule)) = 2 BY Zenon, <1>1, StmtSepNodes
  <2>2. f.i = 2 BY Zenon, <2>1
  <2>3. /\ f.j = 1 /\ NodeOf(f).type = "PN_TERM" /\ ~Rules[f.rule].skip_new_line
        /\ \A t \in Separators : t # "nl" => t = NodeOf(f).name
    BY <1>1, <2>2, SepFrame
  <2>4. p = c0 /\ text[c0] # "nl"
    BY <1>1, <2>2, <2>3 DEF Known, AtEntry, InSeparators, ChainRules
  <2>5. text[c0] # NodeOf(f).name BY <2>3, <2>4 DEF NotThere
  <2> QED BY <2>3, <2>4, <2>5
<1>2. ASSUME f.rule = "stmt_seps" PROVE text[c0] \notin Separators
  <2>1. f.j = 1 /\ NodeOf(f).type = "PN_RULE" /\ NodeOf(f).name = "stmt_sep"
    BY <1>2, SepsFrame
  <2>2. p = c0 BY <1>2, <2>1 DEF Known, AtEntry, ChainRules
  <2> QED BY <2>1, <2>2 DEF Left
<1>3. f.rule # "stmt_optseps"
  <2>1. ASSUME f.rule = "stmt_optseps" PROVE FALSE
    <3>1. f.i = 2 /\ NodeOf(f).type = "PN_REDUCE" BY <2>1, OptSepsFrame
    <3> QED BY <3>1
  <2> QED BY <2>1
<1>4. f.rule # "stmts"
  <2>1. ASSUME f.rule = "stmts" PROVE FALSE
    <3>1. f.i = 2 /\ NodeOf(f).type = "PN_REDUCE" BY <2>1, StmtsFrame
    <3> QED BY <3>1
  <2> QED BY <2>1
<1>5. f.rule # "block"
  <2>1. ASSUME f.rule = "block" PROVE FALSE
    <3>1. NodeOf(f).type = "PN_RULE" /\ NodeOf(f).name \in {"stmt_optseps", "stmts"}
      BY <2>1, BlockFrame
    <3> QED BY <3>1 DEF Left
  <2> QED BY <2>1
<1> QED BY Zenon, <1>1, <1>2, <1>3, <1>4, <1>5 DEF Left

LEMMA LeftReduced ==
  ASSUME NEW text, Len(text) \in Nat, NEW f, IsFrame(f, text), NodeOf(f).type = "PN_REDUCE",
         NEW p \in 1 .. Len(text), Known(f, p, text)
  PROVE  Left(f.rule, f.from.current, p, TRUE, text)
<1> DEFINE c0 == f.from.current
<1>1. c0 \in 1 .. Len(text) /\ c0 \in Nat BY EnteredAt
<1>2. ASSUME f.rule = "stmt_sep" PROVE text[c0] \in Separators /\ p = c0 + 1
  <2>1. f.j = 2 BY <1>2, SepFrame
  <2> QED BY <1>2, <2>1 DEF Known, InSeparators
<1>3. ASSUME f.rule = "stmt_seps" PROVE p > c0 /\ Opens(c0, p, text)
  <2>1. f.j = 3 BY <1>3, SepsFrame
  <2> QED BY <1>3, <2>1 DEF Known, InSeparators
<1>4. ASSUME f.rule = "stmt_optseps" PROVE Opens(c0, p, text)
  <2>1. (f.i = 2 /\ f.j = 1) \/ f.j = 2 BY <1>4, OptSepsFrame
  <2>2. CASE f.j = 2 BY <1>4, <2>2 DEF Known, InSeparators
  <2>3. CASE f.i = 2 /\ f.j = 1
    <3>1. p = c0 /\ text[c0] \notin Separators
      BY <1>4, <2>3 DEF Known, AtEntry, InSeparators, ChainRules
    <3> HIDE DEF c0
    <3>2. Opens(c0, c0, text) BY <1>1, <3>1 DEF Opens
    <3> QED BY Zenon, <3>1, <3>2
  <2> QED BY <2>1, <2>2, <2>3
<1>5. ASSUME f.rule = "stmts" PROVE text[c0] = ClosingBrace => p = c0
  <2>1. f.rule \notin Optional BY <1>5 DEF Optional
  <2> QED BY <2>1, NoClosingBrace
<1>6. ASSUME f.rule = "block" PROVE EmptyTo(c0, p, text)
  <2>1. f.j = 4 BY <1>6, BlockFrame
  <2> QED BY <1>6, <2>1 DEF Known, InBlock
<1>7. ASSUME f.rule \notin Optional \cup {"stmts"} PROVE text[c0] # ClosingBrace
  <2>1. f.rule \notin Optional /\ f.rule # "stmts" BY <1>7
  <2> QED BY <2>1, NoClosingBrace DEF BeginsWith
<1> QED BY Zenon, <1>2, <1>3, <1>4, <1>5, <1>6, <1>7 DEF Left

LEMMA LeftFolded ==
  ASSUME NEW text, NEW f, IsFrame(f, text), f.folded, NEW p, Known(f, p, text), NEW d
  PROVE  Left(f.rule, f.from.current, d, TRUE, text)
<1>1. f.rule \in ChainRules BY DEF Known, AtEntry
<1>2. f.rule \notin Optional /\ f.rule \notin {"stmt_sep", "stmt_seps", "stmts"}
  BY <1>1 DEF Optional, ChainRules
<1>3. text[f.from.current] # ClosingBrace BY <1>2, NoClosingBrace
<1> QED BY <1>2, <1>3 DEF Left, Optional
-----------------------------------------------------------------------------
(***************************************************************************)
(* The actions                                                             *)
(***************************************************************************)
LEMMA StartFillsBlocks ==
  ASSUME ParserInv, Start
  PROVE  BlocksInv'
<1>1. PICK got \in Fetch :
        /\ Move(got)
        /\ IF got.ok
           THEN LET here == [cursor |-> got.cursor, current |-> got.cursor]
                IN  /\ frames' = <<Fresh("prog", 1, here, here)>>
                    /\ UNCHANGED returned
           ELSE returned' = NotReduced /\ UNCHANGED frames
  BY DEF Start
<1>2. frames = <<>> /\ returned = Nothing BY DEF Start
<1>3. CASE ~got.ok
  <2>1. frames' = <<>> /\ Len(frames') = 0 BY <1>1, <1>2, <1>3
  <2> QED
    BY <2>1 DEF BlocksInv, CallsAreLinked, PlacesAreInStep, RefusedIsTrue
<1>4. CASE got.ok
  <2> DEFINE here == [cursor |-> got.cursor, current |-> got.cursor]
             f    == Fresh("prog", 1, here, here)
  <2>1. frames' = <<f>> /\ returned' = Nothing BY <1>1, <1>2, <1>4
  <2>2. Here' = here /\ InStep(here) BY <1>1, <1>4 DEF Here, Move, InStep
  <2>3. /\ f.rule = "prog" /\ f.i = 1 /\ f.j = 1 /\ f.chk = here /\ f.from = here
        /\ f.item = here /\ f.looking = here /\ f.folded = FALSE /\ f.match = "untried"
    BY DEF Fresh
  <2> HIDE DEF f, here
  <2>4. Len(frames') = 1 /\ frames'[1] = f /\ Top' = f BY <2>1 DEF Top
  <2>5. Known(f, here.current, read')
    BY <2>3 DEF Known, AtEntry, InSeparators, InBlock, InBraces, Optional
  <2>6. CallsAreLinked' /\ PlacesAreInStep' /\ RefusedIsTrue'
    BY <2>2, <2>3, <2>4 DEF CallsAreLinked, PlacesAreInStep, RefusedIsTrue, InStep
  <2>7. \A d \in 1 .. Len(frames') : Known(frames'[d], Place(d)'.current, read')
    <3> TAKE d \in 1 .. Len(frames')
    <3>1. d = 1 /\ ~(d < Len(frames')) BY <2>4
    <3>2. frames'[d] = f BY Zenon, <2>4, <3>1
    <3>3. Place(d)' = here BY <2>1, <2>2, <2>3, <3>1, <3>2 DEF Place
    <3> QED BY Zenon, <2>5, <3>2, <3>3
  <2> QED BY <2>1, <2>6, <2>7 DEF BlocksInv
<1> QED BY <1>3, <1>4

LEMMA FinishFillsBlocks ==
  ASSUME ParserInv, Finish
  PROVE  BlocksInv'
<1>1. frames = <<>> /\ frames' = frames /\ IsSeq(frames) BY DEF ParserInv, FramesOK, Finish
<1>2. frames' = <<>> /\ Len(frames') = 0 BY <1>1
<1> QED BY <1>2 DEF BlocksInv, CallsAreLinked, PlacesAreInStep, RefusedIsTrue

LEMMA AbandonFillsBlocks ==
  ASSUME Abandon
  PROVE  BlocksInv'
BY DEF Abandon, BlocksInv

LEMMA CallFillsBlocks ==
  ASSUME ParserInv, BlocksInv, Call
  PROVE  BlocksInv'
<1>1. /\ frames # <<>> /\ returned = Nothing /\ ~failed
      /\ NodeOf(Top).type \in {"PN_RULE", "PN_RULE_LIST"} /\ NodeOf(Top).name = Expected
  BY TopIsFrame DEF Call, Running, Expected
<1>2. /\ IsFrame(Top, read) /\ Len(frames) \in Nat \ {0} /\ IsSeq(frames) /\ LogOK
  BY <1>1, TopIsFrame DEF ParserInv, FramesOK
<1>3. UNCHANGED lexer BY DEF Call
<1>4. Extends /\ Here' = Here /\ read' = read BY <1>2, <1>3, LexerStays
<1>5. Top.match = "untried" BY <1>1, <1>2 DEF IsFrame
<1>6. CASE failed' BY <1>6 DEF BlocksInv
<1>7. CASE ~failed'
  <2> DEFINE g == [Top EXCEPT !.item = Here]
             h == Fresh(Expected, 1, Here, Here)
             s == SetTop(frames, g)
  <2>1. frames' = Append(s, h) /\ returned' = Nothing
    BY <1>1, <1>7 DEF Call, SetTop, Top
  <2>2. /\ g.rule = Top.rule /\ g.i = Top.i /\ g.j = Top.j /\ g.chk = Top.chk
        /\ g.from = Top.from /\ g.folded = Top.folded /\ g.match = Top.match
        /\ g.item = Here /\ g.looking = Top.looking
    BY <1>2 DEF IsFrame, Fields
  <2>3. /\ h.rule = Expected /\ h.i = 1 /\ h.j = 1 /\ h.chk = Here /\ h.from = Here
        /\ h.item = Here /\ h.looking = Here /\ h.folded = FALSE /\ h.match = "untried"
    BY DEF Fresh
  <2> HIDE DEF g, h
  <2>4. /\ IsSeq(s) /\ Len(s) = Len(frames) /\ s[Len(frames)] = g
        /\ \A d \in 1 .. Len(frames) - 1 : s[d] = frames[d]
    BY <1>1, <1>2, UpdatedTop
  <2> HIDE DEF s
  <2>5. /\ Len(frames') = Len(frames) + 1 /\ frames'[Len(frames) + 1] = h
        /\ \A d \in 1 .. Len(frames) : frames'[d] = s[d]
    BY <2>1, <2>4, SeqFacts
  <2>6. /\ frames'[Len(frames)] = g
        /\ \A d \in 1 .. Len(frames) - 1 : frames'[d] = frames[d]
    <3>1. Len(frames) \in 1 .. Len(frames) BY <1>2
    <3>2. \A d \in 1 .. Len(frames) - 1 : d \in 1 .. Len(frames) BY <1>2
    <3> QED BY Zenon, <2>4, <2>5, <3>1, <3>2
  <2>7. \A d \in 1 .. Len(frames') :
          \/ d = Len(frames) + 1
          \/ d = Len(frames)
          \/ d \in 1 .. Len(frames) - 1
    BY <1>2, <2>5
  <2>8. Top' = h BY <2>5 DEF Top
  <2> SUFFICES ASSUME Clean'
               PROVE  /\ CallsAreLinked' /\ PlacesAreInStep' /\ RefusedIsTrue'
                      /\ \A d \in 1 .. Len(frames') : Known(frames'[d], Place(d)'.current, read')
    BY Zenon, <2>1 DEF BlocksInv
  <2>9. Clean BY <1>4 DEF Extends
  <2>10. \A d \in 1 .. Len(frames) - 1 :
           /\ Known(frames[d], frames[d].item.current, read')
           /\ \A p \in {frames[d].chk, frames[d].from, frames[d].item, frames[d].looking} :
                InStep(p)
    BY <1>1, <1>4, <2>9, CallersKnown
  <2>11. /\ Known(Top, current, read) /\ InStep(Here)
         /\ \A p \in {Top.chk, Top.from, Top.item, Top.looking} : InStep(p)
    BY <1>1, <1>5, <2>9, TopKnown
  <2>12. Here.current = current BY DEF Here
  <2>13. Known(g, Here.current, read)
    <3>1. g.match # "untried" => Top.match # "untried" \/ Rules[Top.rule].skip_new_line
      BY <2>2
    <3>2. Known(g, current, read) BY <2>2, <2>11, <3>1, SameKnown
    <3> QED BY Zenon, <2>12, <3>2
  <2>14. Known(h, Here.current, read)
    BY <2>3 DEF Known, AtEntry, InSeparators, InBlock, InBraces
  <2>15. CallsAreLinked'
    <3> SUFFICES ASSUME NEW d \in 1 .. Len(frames') - 1
                 PROVE  /\ frames'[d + 1].rule = NodeOf(frames'[d]).name
                        /\ frames'[d + 1].from = frames'[d].item
      BY DEF CallsAreLinked, NodeOf
    <3>1. d \in 1 .. Len(frames) BY <1>2, <2>5
    <3>2. CASE d = Len(frames)
      <4>1. frames'[d] = g /\ frames'[d + 1] = h BY Zenon, <2>5, <2>6, <3>2
      <4>2. NodeOf(g) = NodeOf(Top) BY Zenon, <2>2 DEF NodeOf
      <4> QED BY Zenon, <1>1, <2>2, <2>3, <4>1, <4>2
    <3>3. CASE d # Len(frames)
      <4>1. d \in 1 .. Len(frames) - 1 BY <1>2, <3>1, <3>3
      <4>2. frames'[d] = frames[d] BY Zenon, <2>6, <4>1
      <4>3. frames[d + 1].rule = NodeOf(frames[d]).name /\ frames[d + 1].from = frames[d].item
        BY <1>1, <2>9, <4>1 DEF BlocksInv, CallsAreLinked
      <4>4. CASE d + 1 = Len(frames)
        <5>1. frames'[d + 1] = g /\ frames[d + 1] = Top BY Zenon, <2>6, <4>4 DEF Top
        <5>2. frames'[d + 1].rule = frames[d + 1].rule /\ frames'[d + 1].from = frames[d + 1].from
          BY Zenon, <2>2, <5>1
        <5> QED BY Zenon, <4>2, <4>3, <5>2
      <4>5. CASE d + 1 # Len(frames)
        <5>1. d + 1 \in 1 .. Len(frames) - 1 BY <1>2, <4>1, <4>5
        <5>2. frames'[d + 1] = frames[d + 1] BY Zenon, <2>6, <5>1
        <5> QED BY Zenon, <4>2, <4>3, <5>2
      <4> QED BY <4>4, <4>5
    <3> QED BY <3>2, <3>3
  <2>16. PlacesAreInStep'
    <3>1. \A d \in 1 .. Len(frames') :
            \A p \in {frames'[d].chk, frames'[d].from, frames'[d].item, frames'[d].looking} :
              InStep(p)
      <4> TAKE d \in 1 .. Len(frames')
      <4>1. CASE d = Len(frames) + 1
        <5>1. frames'[d] = h BY Zenon, <2>5, <4>1
        <5> QED BY <2>3, <2>11, <5>1
      <4>2. CASE d = Len(frames)
        <5>1. frames'[d] = g BY Zenon, <2>6, <4>2
        <5> QED BY <2>2, <2>11, <5>1
      <4>3. CASE d \in 1 .. Len(frames) - 1
        <5>1. frames'[d] = frames[d] BY Zenon, <2>6, <4>3
        <5> QED BY Zenon, <2>10, <4>3, <5>1
      <4> QED BY Zenon, <2>7, <4>1, <4>2, <4>3
    <3>2. InStep(Here') BY Zenon, <1>4, <2>11
    <3> QED BY <3>1, <3>2 DEF PlacesAreInStep, InStep
  <2>17. RefusedIsTrue' BY <2>3, <2>8 DEF RefusedIsTrue
  <2>18. \A d \in 1 .. Len(frames') : Known(frames'[d], Place(d)'.current, read')
    <3> TAKE d \in 1 .. Len(frames')
    <3>1. CASE d = Len(frames) + 1
      <4>1. frames'[d] = h /\ ~(d < Len(frames')) BY <1>2, <2>5, <3>1
      <4>2. Place(d)' = Here' BY <2>1, <2>3, <4>1 DEF Place
      <4>3. Place(d)' = Here BY Zenon, <1>4, <4>2
      <4> QED BY Zenon, <1>4, <2>14, <4>1, <4>3
    <3>2. CASE d = Len(frames)
      <4>1. frames'[d] = g /\ d < Len(frames') BY <1>2, <2>5, <2>6, <3>2
      <4>2. Place(d)' = Here BY <2>2, <4>1 DEF Place
      <4> QED BY Zenon, <1>4, <2>13, <4>1, <4>2
    <3>3. CASE d \in 1 .. Len(frames) - 1
      <4>1. frames'[d] = frames[d] /\ d < Len(frames') BY <1>2, <2>5, <2>6, <3>3
      <4>2. Place(d)' = frames[d].item BY <4>1 DEF Place
      <4> QED BY Zenon, <2>10, <3>3, <4>1, <4>2
    <3> QED BY Zenon, <2>7, <3>1, <3>2, <3>3
  <2> QED BY <2>15, <2>16, <2>17, <2>18
<1> QED BY <1>6, <1>7
LEMMA ReturnedIsReduced ==
  /\ \A n : Reduced(n).reduced = TRUE
  /\ NotReduced.reduced = FALSE
BY DEF Reduced, NotReduced

LEMMA SubRuleReducedFillsBlocks ==
  ASSUME ParserInv, BlocksInv, SubRuleReduced
  PROVE  BlocksInv'
<1> DEFINE g == Push(Top, returned.result)
<1>1. /\ frames # <<>> /\ NodeOf(Top).type = "PN_RULE" /\ ~failed
      /\ returned # Nothing /\ returned.reduced
      /\ frames' = SetTop(frames, g) /\ returned' = Nothing
      /\ UNCHANGED lexer
  BY TopIsFrame DEF SubRuleReduced, Returned, Update, SetTop
<1>2. LogOK /\ IsFrame(Top, read) BY <1>1, TopIsFrame DEF ParserInv
<1>3. Extends /\ Here' = Here /\ read' = read /\ current' = current
  BY <1>1, <1>2, LexerStays DEF lexer
<1>4. /\ g.rule = Top.rule /\ g.i = Top.i /\ g.j = Top.j + 1
      /\ g.folded = Top.folded /\ g.match = "untried"
      /\ g.chk = Top.chk /\ g.from = Top.from /\ g.item = Top.item
      /\ g.looking = Top.looking
  BY <1>2, PushFields DEF IsFrame
<1> HIDE DEF g
<1>5. ASSUME Clean'
      PROVE  /\ InStep(Here') /\ InStep(g.chk) /\ InStep(g.item) /\ InStep(g.looking)
             /\ Known(g, current', read')
  <2>1. Clean BY <1>3, <1>5 DEF Extends
  <2>2. returned.reduced = TRUE \/ returned.reduced # TRUE OBVIOUS
  <2>3. /\ Known(Top, Top.item.current, read)
        /\ Left(NodeOf(Top).name, Top.item.current, current, TRUE, read)
    <3>1. Left(NodeOf(Top).name, Top.item.current, current, returned.reduced, read)
      BY <1>1, <2>1, TopKnown
    <3>2. Left(NodeOf(Top).name, Top.item.current, current, TRUE, read)
      BY <1>1, <3>1 DEF Left
    <3> QED BY <1>1, <2>1, <3>2, TopKnown
  <2>4. /\ Top.item.current \in 1 .. Len(read) /\ current \in 1 .. Len(read)
        /\ Len(read) \in Nat /\ InStep(Here)
        /\ InStep(Top.chk) /\ InStep(Top.item) /\ InStep(Top.looking)
    BY <1>1, <2>1, TopKnown
  <2>5. Known(g, current, read) BY <1>1, <1>2, <1>4, <2>3, <2>4, KnownBehindRule
  <2> QED BY Zenon, <1>3, <1>4, <2>4, <2>5
<1>6. g.match # "looking" /\ g.match # "refused" BY <1>4
<1> QED BY <1>1, <1>3, <1>4, <1>5, <1>6, BlockGoesOn

LEMMA ListItemFillsBlocks ==
  ASSUME ParserInv, BlocksInv, ListItem
  PROVE  BlocksInv'
<1> DEFINE g == [Top EXCEPT !.block = BlockAppend(@, returned.result)]
<1>1. /\ frames # <<>> /\ NodeOf(Top).type = "PN_RULE_LIST" /\ ~failed
      /\ returned # Nothing /\ returned.reduced
      /\ frames' = SetTop(frames, g) /\ returned' = Nothing
      /\ UNCHANGED lexer
  BY TopIsFrame DEF ListItem, Returned, Update, SetTop
<1>2. LogOK /\ IsFrame(Top, read) BY <1>1, TopIsFrame DEF ParserInv
<1>3. Extends /\ Here' = Here /\ read' = read /\ current' = current
  BY <1>1, <1>2, LexerStays DEF lexer
<1>4. /\ g.rule = Top.rule /\ g.i = Top.i /\ g.j = Top.j
      /\ g.folded = Top.folded /\ g.match = Top.match
      /\ g.chk = Top.chk /\ g.from = Top.from /\ g.item = Top.item
      /\ g.looking = Top.looking
  BY <1>2 DEF IsFrame, Fields
<1> HIDE DEF g
<1>5. g.match = "untried" BY <1>1, <1>2, <1>4 DEF IsFrame
<1>6. ASSUME Clean'
      PROVE  /\ InStep(Here') /\ InStep(g.chk) /\ InStep(g.item) /\ InStep(g.looking)
             /\ Known(g, current', read')
  <2>1. Clean BY <1>3, <1>6 DEF Extends
  <2>2. /\ Known(Top, Top.item.current, read)
        /\ Left(NodeOf(Top).name, Top.item.current, current, returned.reduced, read)
        /\ Top.item.current \in 1 .. Len(read) /\ current \in 1 .. Len(read)
        /\ Len(read) \in Nat /\ InStep(Here)
        /\ InStep(Top.chk) /\ InStep(Top.item) /\ InStep(Top.looking)
    BY <1>1, <2>1, TopKnown
  <2>3. Left(NodeOf(Top).name, Top.item.current, current, TRUE, read) BY <1>1, <2>2 DEF Left
  <2>4. g.j = IF TRUE THEN Top.j ELSE Top.j + 1 BY <1>4
  <2>5. Known(g, IF TRUE THEN current ELSE Top.item.current, read)
    BY <1>1, <1>2, <1>4, <1>5, <2>2, <2>3, <2>4, KnownInList
  <2> QED BY <1>3, <1>4, <2>2, <2>5
<1>7. g.match # "looking" /\ g.match # "refused" BY <1>5
<1> QED BY <1>1, <1>3, <1>4, <1>6, <1>7, BlockGoesOn

LEMMA ListEndFillsBlocks ==
  ASSUME ParserInv, BlocksInv, ListEnd
  PROVE  BlocksInv'
<1> DEFINE p == Push(Top, Top.block)
           g == [p EXCEPT !.block = Null]
<1>1. /\ frames # <<>> /\ NodeOf(Top).type = "PN_RULE_LIST" /\ ~failed
      /\ returned # Nothing /\ ~returned.reduced
      /\ frames' = SetTop(frames, g) /\ returned' = Nothing
      /\ Restore(Top.item) /\ UNCHANGED <<read, lost>>
  BY TopIsFrame DEF ListEnd, Returned, Update, SetTop
<1>2. LogOK /\ IsFrame(Top, read) BY <1>1, TopIsFrame DEF ParserInv
<1>3. Placed(Top.item, read) BY <1>2 DEF IsFrame
<1>4. Extends /\ Here' = Top.item /\ read' = read /\ current' = Top.item.current
  BY <1>1, <1>2, <1>3, LogStays, RestoredIsHere DEF Restore
<1>5. /\ DOMAIN p = Fields /\ p.rule = Top.rule /\ p.i = Top.i /\ p.j = Top.j + 1
      /\ p.folded = Top.folded /\ p.match = "untried"
      /\ p.chk = Top.chk /\ p.from = Top.from /\ p.item = Top.item
      /\ p.looking = Top.looking
  BY <1>2, PushFields DEF IsFrame
<1> HIDE DEF p
<1>6. /\ g.rule = Top.rule /\ g.i = Top.i /\ g.j = Top.j + 1
      /\ g.folded = Top.folded /\ g.match = "untried"
      /\ g.chk = Top.chk /\ g.from = Top.from /\ g.item = Top.item
      /\ g.looking = Top.looking
  BY <1>5 DEF Fields
<1> HIDE DEF g
<1>7. ASSUME Clean'
      PROVE  /\ InStep(Here') /\ InStep(g.chk) /\ InStep(g.item) /\ InStep(g.looking)
             /\ Known(g, current', read')
  <2>1. Clean BY <1>4, <1>7 DEF Extends
  <2>2. /\ Known(Top, Top.item.current, read)
        /\ Left(NodeOf(Top).name, Top.item.current, current, returned.reduced, read)
        /\ Top.item.current \in 1 .. Len(read) /\ current \in 1 .. Len(read)
        /\ Len(read) \in Nat
        /\ InStep(Top.chk) /\ InStep(Top.item) /\ InStep(Top.looking)
    BY <1>1, <2>1, TopKnown
  <2>3. Left(NodeOf(Top).name, Top.item.current, current, FALSE, read) BY <1>1, <2>2 DEF Left
  <2>4. g.j = IF FALSE THEN Top.j ELSE Top.j + 1 BY <1>6
  <2>5. Known(g, IF FALSE THEN current ELSE Top.item.current, read)
    BY <1>1, <1>2, <1>6, <2>2, <2>3, <2>4, KnownInList
  <2> QED BY <1>4, <1>6, <2>2, <2>5
<1>8. g.match # "looking" /\ g.match # "refused" BY <1>6
<1> QED BY <1>1, <1>4, <1>6, <1>7, <1>8, BlockGoesOn

(* What a look began at, and what is between it and the lexer. *)
LEMMA LookBegan ==
  ASSUME ParserInv, BlocksInv, Clean, ~failed, frames # <<>>, returned = Nothing,
         NEW p, p = IF Top.match = "looking" THEN Top.looking.current ELSE current
  PROVE  /\ p \in 1 .. Len(read) /\ current \in p .. Len(read) /\ Len(read) \in Nat
         /\ cursor = current
         /\ \A n \in p .. current - 1 : read[n] = "nl"
         /\ p = current \/ Rules[Top.rule].skip_new_line
         /\ Known(Top, p, read)
<1>1. /\ Known(Top, p, read) /\ InStep(Here) /\ InStep(Top.looking)
      /\ Top.looking.current \in 1 .. Len(read) /\ current \in 1 .. Len(read)
      /\ Len(read) \in Nat
  BY TopKnown
<1>2. cursor = current BY <1>1 DEF InStep, Here
<1>3. CASE Top.match # "looking" BY <1>1, <1>2, <1>3
<1>4. CASE Top.match = "looking"
  <2>1. Looks(Top, Here, read) BY DEF ParserInv, LooksThroughNewlines
  <2>2. /\ Top.looking.cursor < Here.cursor /\ read[Top.looking.current] = "nl"
        /\ \A n \in Top.looking.cursor + 1 .. Here.cursor - 1 : read[n] = "nl"
    BY <1>4, <2>1 DEF Looks
  <2>3. Top.looking.cursor = p /\ p = Top.looking.current BY <1>1, <1>4 DEF InStep
  <2>4. Here.cursor = current BY <1>2 DEF Here
  <2>5. p < current /\ read[p] = "nl" /\ \A n \in p + 1 .. current - 1 : read[n] = "nl"
    BY <2>2, <2>3, <2>4
  <2>6. p \in 1 .. Len(read) BY <1>1, <2>3
  <2>7. \A n \in p .. current - 1 : read[n] = "nl" BY <1>1, <2>5, <2>6
  <2>8. Rules[Top.rule].skip_new_line BY <1>1, <1>4 DEF Known, AtEntry
  <2> QED BY <1>1, <1>2, <2>5, <2>6, <2>7, <2>8
<1> QED BY <1>3, <1>4

LEMMA LookPastNewlineFillsBlocks ==
  ASSUME ParserInv, BlocksInv, LookPastNewline
  PROVE  BlocksInv'
<1>1. PICK got \in Fetch :
        /\ Move(got)
        /\ Update([Top EXCEPT !.looking = IF Top.match = "untried" THEN Here ELSE @,
                              !.match = IF got.ok THEN "looking" ELSE "refused"])
  BY DEF LookPastNewline
<1> DEFINE g == [Top EXCEPT !.looking = IF Top.match = "untried" THEN Here ELSE @,
                            !.match = IF got.ok THEN "looking" ELSE "refused"]
<1>2. /\ frames # <<>> /\ returned' = Nothing /\ returned = Nothing /\ ~failed
      /\ Top.match = "looking" \/ (Top.match = "untried" /\ AtNewline)
      /\ frames' = SetTop(frames, g)
  BY <1>1 DEF LookPastNewline, Running, Update, SetTop
<1>3. LogOK /\ IsFrame(Top, read) BY <1>2, TopIsFrame DEF ParserInv
<1>4. /\ Extends /\ (got.ok => current' = cursor') /\ (~got.ok => ~Clean')
  BY <1>1, <1>3, MoveFacts
<1>5. /\ g.rule = Top.rule /\ g.i = Top.i /\ g.j = Top.j
      /\ g.folded = Top.folded
      /\ g.chk = Top.chk /\ g.from = Top.from /\ g.item = Top.item
      /\ g.looking = (IF Top.match = "untried" THEN Here ELSE Top.looking)
      /\ g.match = (IF got.ok THEN "looking" ELSE "refused")
  BY <1>3 DEF IsFrame, Fields
<1> HIDE DEF g
<1>6. ASSUME Clean'
      PROVE  /\ InStep(Here') /\ InStep(g.chk) /\ InStep(g.item) /\ InStep(g.looking)
             /\ g.match = "looking"
             /\ Known(g, g.looking.current, read')
  <2>1. Clean BY <1>4, <1>6 DEF Extends
  <2>2. got.ok /\ g.match = "looking" BY <1>4, <1>5, <1>6
  <2>3. InStep(Here') BY <1>4, <2>2 DEF InStep, Here
  <2>4. InStep(Here) /\ InStep(Top.chk) /\ InStep(Top.item) /\ InStep(Top.looking)
    BY <1>2, <2>1, TopKnown
  <2> DEFINE p == IF Top.match = "looking" THEN Top.looking.current ELSE current
  <2>5. g.looking.current = p /\ InStep(g.looking) BY <1>2, <1>5, <2>4 DEF Here
  <2>6. Known(Top, p, read) /\ p \in 1 .. Len(read) BY <1>2, <2>1, LookBegan
  <2> HIDE DEF p
  <2>7. Known(Top, p, read') BY <1>3, <1>4, <2>6, KnownStays
  <2>8. g.match # "untried" => Top.match # "untried" \/ Rules[Top.rule].skip_new_line
    BY <1>2 DEF AtNewline, Rule
  <2>9. Known(g, p, read') BY <1>5, <2>7, <2>8, SameKnown
  <2> QED BY Zenon, <1>5, <2>2, <2>3, <2>4, <2>5, <2>9
<1>7. "looking" # "refused" OBVIOUS
<1> QED BY <1>2, <1>4, <1>5, <1>6, <1>7, BlockGoesOn

LEMMA LookedInVainFillsBlocks ==
  ASSUME ParserInv, BlocksInv, LookedInVain
  PROVE  BlocksInv'
<1> DEFINE g == [Top EXCEPT !.match = "refused"]
<1>1. /\ frames # <<>> /\ NodeOf(Top).type = "PN_TERM" /\ NodeOf(Top).name = Expected
      /\ returned' = Nothing /\ returned = Nothing /\ ~failed
      /\ Top.match = "looking" /\ Current # "nl" /\ Current # Expected
      /\ Restore(Top.looking) /\ UNCHANGED <<read, lost>>
      /\ frames' = SetTop(frames, g)
  BY TopIsFrame DEF LookedInVain, Running, Expected, Update, SetTop
<1>2. LogOK /\ IsFrame(Top, read) BY <1>1, TopIsFrame DEF ParserInv
<1>3. Placed(Top.looking, read) BY <1>2 DEF IsFrame
<1>4. Extends /\ Here' = Top.looking /\ read' = read /\ current' = Top.looking.current
  BY <1>1, <1>2, <1>3, LogStays, RestoredIsHere DEF Restore
<1>5. /\ g.rule = Top.rule /\ g.i = Top.i /\ g.j = Top.j
      /\ g.folded = Top.folded /\ g.match = "refused"
      /\ g.chk = Top.chk /\ g.from = Top.from /\ g.item = Top.item
      /\ g.looking = Top.looking
  BY <1>2 DEF IsFrame, Fields
<1> HIDE DEF g
<1>6. ASSUME Clean'
      PROVE  /\ InStep(Here') /\ InStep(g.chk) /\ InStep(g.item) /\ InStep(g.looking)
             /\ \E k \in current' .. Len(read') :
                  FirstIs(current', k, read') /\ read'[k] # NodeOf(g).name
             /\ Known(g, current', read')
  <2>1. Clean BY <1>4, <1>6 DEF Extends
  <2>2. InStep(Top.chk) /\ InStep(Top.item) /\ InStep(Top.looking) BY <1>1, <2>1, TopKnown
  <2> DEFINE p == Top.looking.current
  <2>3. p = IF Top.match = "looking" THEN Top.looking.current ELSE current BY <1>1
  <2> HIDE DEF p
  <2>4. /\ p \in 1 .. Len(read) /\ current \in p .. Len(read)
        /\ \A n \in p .. current - 1 : read[n] = "nl"
        /\ Known(Top, p, read)
    BY <1>1, <2>1, <2>3, LookBegan
  <2>5. FirstIs(p, current, read) /\ read[current] # NodeOf(g).name
    <3>1. NodeOf(g) = NodeOf(Top) BY Zenon, <1>5 DEF NodeOf
    <3> QED BY <1>1, <2>4, <3>1 DEF FirstIs, Current
  <2>6. g.match # "untried" => Top.match # "untried" \/ Rules[Top.rule].skip_new_line
    BY <1>1
  <2>7. Known(g, p, read) BY <1>5, <2>4, <2>6, SameKnown
  <2>8. current' = p BY <1>4 DEF p
  <2>9. \E k \in p .. Len(read) : FirstIs(p, k, read) /\ read[k] # NodeOf(g).name
    BY Zenon, <2>4, <2>5
  <2>10. \E k \in current' .. Len(read') :
           FirstIs(current', k, read') /\ read'[k] # NodeOf(g).name
    BY <1>4, <2>8, <2>9
  <2>11. InStep(Here') /\ InStep(g.chk) /\ InStep(g.item) /\ InStep(g.looking)
    BY Zenon, <1>4, <1>5, <2>2
  <2> QED BY <1>4, <2>7, <2>8, <2>10, <2>11
<1>7. g.match # "looking" BY <1>5
<1> QED BY <1>1, <1>4, <1>5, <1>6, <1>7, BlockGoesOn
LEMMA AcceptTokenFillsBlocks ==
  ASSUME ParserInv, BlocksInv, AcceptToken
  PROVE  BlocksInv'
<1>1. PICK got \in Fetch :
        /\ Move(got)
        /\ IF got.ok
           THEN Update(Push(Top, Token(current))) /\ UNCHANGED returned
           ELSE Return(NotReduced)
  BY DEF AcceptToken
<1> DEFINE g == Push(Top, Token(current))
<1>2. /\ frames # <<>> /\ NodeOf(Top).type = "PN_TERM" /\ NodeOf(Top).name = Expected
      /\ returned = Nothing /\ ~failed /\ Current = Expected
  BY TopIsFrame DEF AcceptToken, Running, Expected, Matches
<1>3. LogOK /\ IsFrame(Top, read) BY <1>2, TopIsFrame DEF ParserInv
<1>4. /\ Extends /\ (~got.ok => ~Clean')
      /\ current' \in 0 .. Len(read')
      /\ cursor' \in {cursor, cursor + 1}
      /\ got.ok => /\ current' = cursor' /\ cursor' \in 1 .. Len(read')
                   /\ cursor' = cursor => read[cursor] = Eof
  BY <1>1, <1>3, MoveFacts
<1>5. CASE ~got.ok
  <2>1. frames' = Front(frames) /\ returned' # Nothing
    BY <1>1, <1>5, ReducedIsSomething DEF Return
  <2> QED BY <1>2, <1>4, <1>5, <2>1, BlockReturns
<1>6. CASE got.ok
  <2>1. frames' = SetTop(frames, g) /\ returned' = Nothing
    BY <1>1, <1>2, <1>6 DEF Update, SetTop
  <2>2. /\ g.rule = Top.rule /\ g.i = Top.i /\ g.j = Top.j + 1
        /\ g.folded = Top.folded /\ g.match = "untried"
        /\ g.chk = Top.chk /\ g.from = Top.from /\ g.item = Top.item
        /\ g.looking = Top.looking
    BY <1>3, PushFields DEF IsFrame
  <2> HIDE DEF g
  <2>3. ASSUME Clean'
        PROVE  /\ InStep(Here') /\ InStep(g.chk) /\ InStep(g.item) /\ InStep(g.looking)
               /\ Known(g, current', read')
    <3>1. Clean BY <1>4, <2>3 DEF Extends
    <3>2. InStep(Top.chk) /\ InStep(Top.item) /\ InStep(Top.looking) BY <1>2, <3>1, TopKnown
    <3>3. InStep(Here') BY <1>4, <1>6 DEF InStep, Here
    <3> DEFINE p == IF Top.match = "looking" THEN Top.looking.current ELSE current
    <3>4. p = IF Top.match = "looking" THEN Top.looking.current ELSE current OBVIOUS
    <3> HIDE DEF p
    <3>5. /\ p \in 1 .. Len(read) /\ current \in p .. Len(read) /\ Len(read) \in Nat
          /\ cursor = current
          /\ \A n \in p .. current - 1 : read[n] = "nl"
          /\ p = current \/ Rules[Top.rule].skip_new_line
          /\ Known(Top, p, read)
      BY <1>2, <3>1, <3>4, LookBegan
    <3>6. Known(Top, p, read') /\ IsFrame(Top, read')
      BY <1>3, <1>4, <3>5, KnownStays, PlacesStay
    <3>7. Len(read') \in Nat /\ Len(read) <= Len(read') BY <1>4, SeqFacts DEF Extends
    <3>8. /\ p \in 1 .. Len(read') /\ current \in p .. Len(read')
          /\ \A n \in p .. current - 1 : n \in 1 .. Len(read)
          /\ current \in 1 .. Len(read)
      BY <3>5, <3>7
    <3>9. /\ read'[current] = NodeOf(Top).name
          /\ \A n \in p .. current - 1 : read'[n] = "nl"
      <4>1. read'[current] = read[current] BY <1>4, <3>8 DEF Extends
      <4>2. \A n \in p .. current - 1 : read'[n] = read[n] BY <1>4, <3>8 DEF Extends
      <4> QED BY <1>2, <3>5, <4>1, <4>2 DEF Current
    <3>10. current' = current + 1 \/ NodeOf(Top).name = Eof
      BY <1>2, <1>4, <1>6, <3>5 DEF Current
    <3>11. current' \in 1 .. Len(read') BY <1>4, <1>6
    <3>12. Known(g, current', read')
      BY <1>2, <2>2, <3>5, <3>6, <3>7, <3>8, <3>9, <3>10, <3>11, KnownBehindTerm
    <3> QED BY Zenon, <2>2, <3>2, <3>3, <3>12
  <2>4. g.match # "looking" /\ g.match # "refused" BY <2>2
  <2> QED BY <1>2, <1>4, <2>1, <2>2, <2>3, <2>4, BlockGoesOn
<1> QED BY <1>5, <1>6

LEMMA SwitchProductionFillsBlocks ==
  ASSUME ParserInv, BlocksInv, SwitchProduction
  PROVE  BlocksInv'
<1> DEFINE g == [Top EXCEPT !.i = @ + 1, !.chk = Here, !.match = "untried"]
<1>1. /\ frames # <<>> /\ NodeOf(Top).type = "PN_TERM" /\ ~failed
      /\ returned' = Nothing /\ returned = Nothing
      /\ Refused /\ NextSharesPrefix /\ UNCHANGED lexer
      /\ frames' = SetTop(frames, g)
  BY TopIsFrame DEF SwitchProduction, Running, Update, SetTop
<1>2. LogOK /\ IsFrame(Top, read) /\ (Clean => IsAt(Top, Here))
  BY <1>1, TopIsFrame DEF ParserInv, AtItsCheck
<1>3. Extends /\ Here' = Here /\ read' = read /\ current' = current
  BY <1>1, <1>2, LexerStays DEF lexer
<1>4. /\ g.rule = Top.rule /\ g.i = Top.i + 1 /\ g.j = Top.j
      /\ g.folded = Top.folded /\ g.match = "untried"
      /\ g.chk = Here /\ g.from = Top.from /\ g.item = Top.item
      /\ g.looking = Top.looking
  BY <1>2 DEF IsFrame, Fields
<1> HIDE DEF g
<1>5. \/ Top.j = 1 /\ Top.rule \notin ChainRules
      \/ Top.rule = "if_tail"
      \/ Top.rule \in ChainRules
  <2>1. /\ Top.i < Len(Productions(Top.rule))
        /\ Len(NodesOf(Top.rule, Top.i + 1)) >= Top.j - 1
        /\ \A k \in 1 .. Top.j - 1 :
             NodesOf(Top.rule, Top.i)[k] = NodesOf(Top.rule, Top.i + 1)[k]
    BY <1>1 DEF NextSharesPrefix, Nodes, Rule, NodesOf, Productions
  <2> QED BY <1>1, <1>2, <2>1, Switches
<1>6. Top.match # "looking" BY <1>1 DEF Refused
<1>7. ASSUME Clean'
      PROVE  /\ InStep(Here') /\ InStep(g.chk) /\ InStep(g.item) /\ InStep(g.looking)
             /\ Known(g, current', read')
  <2>1. Clean BY <1>3, <1>7 DEF Extends
  <2>2. InStep(Here) /\ InStep(Top.item) /\ InStep(Top.looking) BY <1>1, <2>1, TopKnown
  <2>3. Known(Top, current, read) BY <1>1, <1>6, <2>1, TopKnown
  <2>4. NotThere(Top, current, read) BY <1>1, <2>1, RefusedIsNotThere
  <2>5. Top.j = 1 => Top.chk = Here BY <1>1, <1>2, <1>6, <2>1 DEF IsAt, Starts
  <2>6. current = Here.current BY DEF Here
  <2>7. Known(g, current, read)
    BY <1>1, <1>2, <1>4, <1>5, <2>3, <2>4, <2>5, <2>6, KnownSwitched
  <2> QED BY Zenon, <1>3, <1>4, <2>2, <2>7
<1>8. g.match # "looking" /\ g.match # "refused" BY <1>4
<1> QED BY <1>1, <1>3, <1>4, <1>7, <1>8, BlockGoesOn

(* A call that can not go on. *)
LEMMA StuckKnown ==
  ASSUME ParserInv, BlocksInv, Clean, Stuck, ~Top.folded
  PROVE  \E p \in 1 .. Len(read) :
           /\ Known(Top, p, read)
           /\ NodeOf(Top).type \in {"PN_TERM", "PN_RULE"}
           /\ NodeOf(Top).type = "PN_TERM" => NotThere(Top, p, read)
           /\ NodeOf(Top).type = "PN_RULE" =>
                Left(NodeOf(Top).name, p, current, FALSE, read)
           /\ Top.chk = Top.from \/ Top.rule \in ChainRules \cup {"if_tail"}
<1>1. /\ frames # <<>> /\ ~failed
      /\ \/ NodeOf(Top).type = "PN_TERM" /\ returned = Nothing /\ Refused
         \/ NodeOf(Top).type = "PN_RULE" /\ returned # Nothing /\ ~returned.reduced
  BY TopIsFrame DEF Stuck, Running, Returned
<1>2. IsFrame(Top, read) /\ Checked(Top, read) BY <1>1, TopIsFrame
<1>3. Top.chk = Top.from \/ Top.rule \in ChainRules \cup {"if_tail"}
  BY <1>2 DEF Checked, Moved
<1>4. CASE NodeOf(Top).type = "PN_TERM" /\ returned = Nothing /\ Refused
  <2>1. Top.match # "looking" BY <1>4 DEF Refused
  <2>2. Known(Top, current, read) /\ current \in 1 .. Len(read)
    BY <1>1, <1>4, <2>1, TopKnown
  <2>3. NotThere(Top, current, read) BY <1>1, <1>4, RefusedIsNotThere
  <2> QED BY <1>3, <1>4, <2>2, <2>3
<1>5. CASE NodeOf(Top).type = "PN_RULE" /\ returned # Nothing /\ ~returned.reduced
  <2>1. /\ Known(Top, Top.item.current, read)
        /\ Left(NodeOf(Top).name, Top.item.current, current, returned.reduced, read)
        /\ Top.item.current \in 1 .. Len(read)
    BY <1>1, <1>5, TopKnown
  <2>2. Left(NodeOf(Top).name, Top.item.current, current, FALSE, read)
    BY <1>5, <2>1 DEF Left
  <2> QED BY <1>3, <1>5, <2>1, <2>2
<1> QED BY <1>1, <1>4, <1>5

LEMMA NextProductionFillsBlocks ==
  ASSUME ParserInv, BlocksInv, NextProduction
  PROVE  BlocksInv'
<1> DEFINE g == Fresh(Top.rule, Top.i + 1, Top.chk, Top.from)
<1>1. /\ frames # <<>> /\ Stuck /\ ~Top.folded /\ ~failed
      /\ Restore(Top.chk) /\ returned' = Nothing /\ UNCHANGED <<read, lost>>
      /\ frames' = SetTop(frames, g)
  BY DEF NextProduction, Stuck, Running, Returned, Update, SetTop
<1>2. LogOK /\ IsFrame(Top, read) BY <1>1, TopIsFrame DEF ParserInv
<1>3. Placed(Top.chk, read) BY <1>2 DEF IsFrame
<1>4. Extends /\ Here' = Top.chk /\ read' = read /\ current' = Top.chk.current
  BY <1>1, <1>2, <1>3, LogStays, RestoredIsHere DEF Restore
<1>5. /\ g.rule = Top.rule /\ g.i = Top.i + 1 /\ g.j = 1
      /\ g.folded = FALSE /\ g.match = "untried"
      /\ g.chk = Top.chk /\ g.from = Top.from /\ g.item = Top.chk
      /\ g.looking = Top.chk
  BY DEF Fresh
<1> HIDE DEF g
<1>6. ASSUME Clean'
      PROVE  /\ InStep(Here') /\ InStep(g.chk) /\ InStep(g.item) /\ InStep(g.looking)
             /\ Known(g, current', read')
  <2>1. Clean BY <1>4, <1>6 DEF Extends
  <2>2. InStep(Top.chk) /\ Len(read) \in Nat BY <1>1, <2>1, TopKnown
  <2>3. PICK p \in 1 .. Len(read) :
           /\ Known(Top, p, read)
           /\ NodeOf(Top).type \in {"PN_TERM", "PN_RULE"}
           /\ NodeOf(Top).type = "PN_TERM" => NotThere(Top, p, read)
           /\ NodeOf(Top).type = "PN_RULE" =>
                Left(NodeOf(Top).name, p, current, FALSE, read)
           /\ Top.chk = Top.from \/ Top.rule \in ChainRules \cup {"if_tail"}
    BY <1>1, <2>1, StuckKnown
  <2>4. Known(g, Top.chk.current, read) BY <1>2, <1>5, <2>2, <2>3, KnownNext
  <2> QED BY Zenon, <1>4, <1>5, <2>2, <2>4
<1>7. g.match # "looking" /\ g.match # "refused" BY <1>5
<1> QED BY <1>1, <1>4, <1>5, <1>6, <1>7, BlockGoesOn

LEMMA NoProductionFillsBlocks ==
  ASSUME ParserInv, BlocksInv, NoProduction
  PROVE  BlocksInv'
<1>1. /\ frames # <<>> /\ Stuck /\ ~Top.folded /\ ~failed
      /\ Top.i = Len(Productions(Top.rule))
      /\ frames' = Front(frames) /\ returned' = NotReduced
      /\ Restore(Top.chk) /\ UNCHANGED <<read, lost>>
  BY DEF NoProduction, Stuck, Running, Returned, Return, Rule, Productions
<1>2. LogOK /\ IsFrame(Top, read) BY <1>1, TopIsFrame DEF ParserInv
<1>3. Placed(Top.chk, read) BY <1>2 DEF IsFrame
<1>4. Extends /\ Here' = Top.chk /\ read' = read
  BY <1>1, <1>2, <1>3, LogStays, RestoredIsHere
<1>5. ASSUME Clean'
      PROVE  /\ InStep(Here')
             /\ Left(Top.rule, Top.from.current, current', returned'.reduced, read')
  <2>1. Clean BY <1>4, <1>5 DEF Extends
  <2>2. InStep(Top.chk) BY <1>1, <2>1, TopKnown
  <2>3. PICK p \in 1 .. Len(read) :
           /\ Known(Top, p, read)
           /\ NodeOf(Top).type \in {"PN_TERM", "PN_RULE"}
           /\ NodeOf(Top).type = "PN_TERM" => NotThere(Top, p, read)
           /\ NodeOf(Top).type = "PN_RULE" =>
                Left(NodeOf(Top).name, p, current, FALSE, read)
    BY <1>1, <2>1, StuckKnown
  <2>4. Left(Top.rule, Top.from.current, current', FALSE, read)
    BY <1>1, <1>2, <2>3, LeftInVain
  <2> QED BY Zenon, <1>1, <1>4, <2>2, <2>4, ReturnedIsReduced
<1> QED BY <1>1, <1>4, <1>5, ReducedIsSomething, BlockReturns

LEMMA KeepFoldedFillsBlocks ==
  ASSUME ParserInv, BlocksInv, KeepFolded
  PROVE  BlocksInv'
<1>1. /\ frames # <<>> /\ Top.folded /\ ~failed
      /\ frames' = Front(frames) /\ returned' = Reduced(Top.params[1])
      /\ UNCHANGED lexer
  BY DEF KeepFolded, Stuck, Running, Returned, Return
<1>2. LogOK /\ IsFrame(Top, read) BY <1>1, TopIsFrame DEF ParserInv
<1>3. Extends /\ Here' = Here /\ read' = read BY <1>1, <1>2, LexerStays
<1>4. ASSUME Clean'
      PROVE  /\ InStep(Here')
             /\ Left(Top.rule, Top.from.current, current', returned'.reduced, read')
  <2>1. Clean BY <1>3, <1>4 DEF Extends
  <2>2. InStep(Here) BY <1>1, <2>1, TopKnown
  <2>3. \E p : Known(Top, p, read) BY <1>1, <2>1, TopKnown
  <2>4. Left(Top.rule, Top.from.current, current', TRUE, read)
    BY <1>1, <1>2, <2>3, LeftFolded
  <2> QED BY Zenon, <1>1, <1>3, <2>2, <2>4, ReturnedIsReduced
<1> QED BY <1>1, <1>3, <1>4, ReducedIsSomething, BlockReturns

LEMMA ReduceRuleFillsBlocks ==
  ASSUME ParserInv, BlocksInv, ReduceRule
  PROVE  BlocksInv'
<1>1. /\ frames # <<>> /\ NodeOf(Top).type = "PN_REDUCE" /\ ~failed /\ returned = Nothing
      /\ frames' = Front(frames) /\ returned' = Reduced(Reduce(Expected, Params))
      /\ UNCHANGED lexer
  BY TopIsFrame DEF ReduceRule, Running, Return
<1>2. LogOK /\ IsFrame(Top, read) BY <1>1, TopIsFrame DEF ParserInv
<1>3. Extends /\ Here' = Here /\ read' = read /\ current' = current
  BY <1>1, <1>2, LexerStays DEF lexer
<1>4. Top.match # "looking" BY <1>1, <1>2 DEF IsFrame
<1>5. ASSUME Clean'
      PROVE  /\ InStep(Here')
             /\ Left(Top.rule, Top.from.current, current', returned'.reduced, read')
  <2>1. Clean BY <1>3, <1>5 DEF Extends
  <2>2. /\ InStep(Here) /\ Known(Top, current, read) /\ current \in 1 .. Len(read)
        /\ Len(read) \in Nat
    BY <1>1, <1>4, <2>1, TopKnown
  <2>3. Left(Top.rule, Top.from.current, current, TRUE, read)
    BY <1>1, <1>2, <2>2, LeftReduced
  <2> QED BY Zenon, <1>1, <1>3, <2>2, <2>3, ReturnedIsReduced
<1> QED BY <1>1, <1>3, <1>5, ReducedIsSomething, BlockReturns

LEMMA FoldFillsBlocks ==
  ASSUME ParserInv, BlocksInv, Fold
  PROVE  BlocksInv'
<1> DEFINE params == <<Reduce(Expected, Params)>> \o Tail(Top.params)
           g == [Top EXCEPT !.params = params, !.count = 1, !.folded = TRUE, !.i = 1,
                            !.j = FoldPoint(Top.i), !.chk = Here]
<1>1. /\ frames # <<>> /\ NodeOf(Top).type = "PN_REDUCE" /\ ~failed
      /\ returned' = Nothing /\ returned = Nothing
      /\ Folds /\ UNCHANGED lexer
      /\ frames' = SetTop(frames, g)
  BY TopIsFrame DEF Fold, Running, Update, SetTop
<1>2. LogOK /\ IsFrame(Top, read) BY <1>1, TopIsFrame DEF ParserInv
<1>3. Extends /\ Here' = Here /\ read' = read /\ current' = current
  BY <1>1, <1>2, LexerStays DEF lexer
<1>4. Top.rule \in ChainRules /\ FoldPoint(Top.i) = 2 BY <1>1, FoldsAtTheOperator
<1> HIDE DEF params
<1>5. /\ g.rule = Top.rule /\ g.i = 1 /\ g.j = 2
      /\ g.folded = TRUE /\ g.match = Top.match
      /\ g.chk = Here /\ g.from = Top.from /\ g.item = Top.item
      /\ g.looking = Top.looking
  BY <1>2, <1>4 DEF IsFrame, Fields
<1> HIDE DEF g
<1>6. g.match = "untried" /\ Top.match # "looking" BY <1>1, <1>2, <1>5 DEF IsFrame
<1>7. ASSUME Clean'
      PROVE  /\ InStep(Here') /\ InStep(g.chk) /\ InStep(g.item) /\ InStep(g.looking)
             /\ Known(g, current', read')
  <2>1. Clean BY <1>3, <1>7 DEF Extends
  <2>2. /\ InStep(Here) /\ InStep(Top.item) /\ InStep(Top.looking)
        /\ Known(Top, current, read)
    BY <1>1, <1>6, <2>1, TopKnown
  <2>3. /\ g.rule \notin Optional
        /\ g.rule \notin {"stmt_sep", "stmt_seps", "stmt_optseps", "stmts", "block",
                          "braced_block"}
    BY <1>4, <1>5 DEF Optional, ChainRules
  <2>4. read[g.from.current] # ClosingBrace
    BY <1>1, <1>2, <1>5, <2>2, <2>3, NoClosingBrace DEF BeginsWith
  <2>5. Known(g, current, read)
    BY <1>4, <1>5, <1>6, <2>3, <2>4 DEF Known, AtEntry, InSeparators, InBlock, InBraces
  <2> QED BY Zenon, <1>3, <1>5, <2>2, <2>5
<1>8. g.match # "looking" /\ g.match # "refused" BY <1>6
<1> QED BY <1>1, <1>3, <1>5, <1>7, <1>8, BlockGoesOn
(***************************************************************************)
(* The invariant holds of every text and of every depth                    *)
(***************************************************************************)
LEMMA InitKeeps == Init => ParserInv
<1> SUFFICES ASSUME Init PROVE ParserInv
  OBVIOUS
<1>1. /\ read = <<>> /\ cursor = 0 /\ current = 0 /\ probe = NoProbe /\ frames = <<>>
  BY DEF Init
<1>2. IsSeq(<<>>) /\ Len(<<>>) = 0 BY DEF IsSeq
<1>3. LogOK BY <1>1, <1>2 DEF LogOK, NoProbe
<1>4. FramesOK /\ ChecksStay BY <1>1, <1>2 DEF FramesOK, ChecksStay
<1> QED
  BY <1>1, <1>3, <1>4 DEF ParserInv, ProbeIsTrue, LooksThroughNewlines, AtItsCheck

LEMMA StutterKeeps ==
  ASSUME ParserInv, UNCHANGED vars
  PROVE  ParserInv'
<1>1. /\ read' = read /\ lost' = lost /\ cursor' = cursor /\ current' = current
      /\ probe' = probe /\ frames' = frames /\ returned' = returned
  BY DEF vars, lexer
<1>2. Here' = Here /\ (frames' # <<>> => Top' = Top) /\ Clean' = Clean
  BY <1>1 DEF Here, Top, Clean
<1>3. LogOK' /\ FramesOK' /\ ProbeIsTrue' /\ ChecksStay'
  BY <1>1, <1>2 DEF ParserInv, LogOK, FramesOK, ProbeIsTrue, ChecksStay
<1>4. LooksThroughNewlines' /\ AtItsCheck'
  BY <1>1, <1>2 DEF ParserInv, LooksThroughNewlines, AtItsCheck
<1> QED BY <1>3, <1>4 DEF ParserInv

(* The calls in progress are where the grammar, the log of the lexer and   *)
(* the checkpoints they hold say (parser.c:397-597), in every text, at     *)
(* every depth.                                                            *)
THEOREM ParserIsInvariant == Spec => []ParserInv
<1>1. Init => ParserInv BY InitKeeps
<1>2. ParserInv /\ [Next]_vars => ParserInv'
  <2> SUFFICES ASSUME ParserInv, [Next]_vars PROVE ParserInv'
    OBVIOUS
  <2>1. CASE Start BY <2>1, StartKeeps
  <2>2. CASE Finish BY <2>2, FinishKeeps
  <2>3. CASE Call BY <2>3, CallKeeps
  <2>4. CASE Abandon BY <2>4, AbandonKeeps
  <2>5. CASE SubRuleReduced BY <2>5, SubRuleReducedKeeps
  <2>6. CASE ListItem BY <2>6, ListItemKeeps
  <2>7. CASE ListEnd BY <2>7, ListEndKeeps
  <2>8. CASE LookPastNewline BY <2>8, LookPastNewlineKeeps
  <2>9. CASE LookedInVain BY <2>9, LookedInVainKeeps
  <2>10. CASE AcceptToken BY <2>10, AcceptTokenKeeps
  <2>11. CASE SwitchProduction BY <2>11, SwitchProductionKeeps
  <2>12. CASE KeepFolded BY <2>12, KeepFoldedKeeps
  <2>13. CASE NextProduction BY <2>13, NextProductionKeeps
  <2>14. CASE NoProduction BY <2>14, NoProductionKeeps
  <2>15. CASE Fold BY <2>15, FoldKeeps
  <2>16. CASE ReduceRule BY <2>16, ReduceRuleKeeps
  <2>17. CASE UNCHANGED vars BY <2>17, StutterKeeps
  <2> QED
    BY <2>1, <2>2, <2>3, <2>4, <2>5, <2>6, <2>7, <2>8, <2>9, <2>10, <2>11, <2>12, <2>13,
       <2>14, <2>15, <2>16, <2>17 DEF Next
<1> QED BY <1>1, <1>2, PTL DEF Spec

(* What is remembered of a run of newlines is true in every text, however  *)
(* far the parser went and came back (parser.c:431-434, 444-448).          *)
THEOREM ProbeStaysTrue == Spec => []ProbeIsTrue
<1>1. ParserInv => ProbeIsTrue BY DEF ParserInv
<1> QED BY <1>1, ParserIsInvariant, PTL

(* In a text the lexer has found no error in, a rule that does not match   *)
(* leaves the lexer where the rule was entered, but for the tail of an if  *)
(* and for a chain that stops at its operator (parser.c:541, :577).        *)
THEOREM FailuresAreInvisible == Spec => FailureIsInvisible
<1>1. ParserInv /\ [Next]_vars =>
        [NoProduction /\ Clean =>
           \/ Here' = Top.from
           \/ Top.rule = "if_tail"
           \/ Top.rule \in ChainRules /\ Current' \in {"nl", "-", "/"}]_vars
  <2> SUFFICES ASSUME ParserInv, NoProduction, Clean, Top.rule # "if_tail"
               PROVE  \/ Here' = Top.from
                      \/ Top.rule \in ChainRules /\ Current' \in {"nl", "-", "/"}
    OBVIOUS
  <2>1. /\ frames # <<>> /\ Stuck /\ ~Top.folded /\ Restore(Top.chk) /\ read' = read
    BY DEF NoProduction, Stuck, Running, Returned
  <2>2. Placed(Top.chk, read) BY <2>1, TopIsFrame DEF IsFrame
  <2>3. Here' = Top.chk BY <2>1, <2>2, RestoredIsHere
  <2>4. CASE Top.chk = Top.from BY <2>3, <2>4
  <2>5. CASE Top.chk # Top.from
    <3>1. Top.rule \in ChainRules /\ Behind(Top.chk, read) BY <2>1, <2>5, StuckBehind
    <3>2. Current' = read[Top.chk.current] BY <2>1 DEF Current, Restore
    <3> QED BY <3>1, <3>2 DEF Behind
  <2> QED BY <2>4, <2>5
<1> QED BY <1>1, ParserIsInvariant, PTL DEF Spec, FailureIsInvisible

LEMMA StutterFillsBlocks ==
  ASSUME BlocksInv, UNCHANGED vars
  PROVE  BlocksInv'
<1>1. /\ read' = read /\ lost' = lost /\ cursor' = cursor /\ current' = current
      /\ failed' = failed /\ frames' = frames /\ returned' = returned
  BY DEF vars, lexer
<1>2. Here' = Here /\ Top' = Top /\ Clean' = Clean /\ Expected' = Expected
  BY <1>1 DEF Here, Top, Clean, Expected, Nodes, Rule
<1>3. /\ CallsAreLinked' = CallsAreLinked /\ PlacesAreInStep' = PlacesAreInStep
      /\ RefusedIsTrue' = RefusedIsTrue
      /\ \A d : Place(d)' = Place(d)
  BY <1>1, <1>2, Zenon
     DEF CallsAreLinked, PlacesAreInStep, RefusedIsTrue, Place, NodeOf, InStep
<1> QED BY Zenon, <1>1, <1>2, <1>3 DEF BlocksInv, NodeOf

LEMMA BlocksAreInvariant == Spec => []BlocksInv
<1>1. Init => BlocksInv
  <2> SUFFICES ASSUME Init PROVE BlocksInv
    OBVIOUS
  <2>1. frames = <<>> /\ Len(frames) = 0 BY DEF Init
  <2> QED BY <2>1 DEF BlocksInv, CallsAreLinked, PlacesAreInStep, RefusedIsTrue
<1>2. ParserInv /\ BlocksInv /\ [Next]_vars => BlocksInv'
  <2> SUFFICES ASSUME ParserInv, BlocksInv, [Next]_vars PROVE BlocksInv'
    OBVIOUS
  <2>1. CASE Start BY <2>1, StartFillsBlocks
  <2>2. CASE Finish BY <2>2, FinishFillsBlocks
  <2>3. CASE Call BY <2>3, CallFillsBlocks
  <2>4. CASE Abandon BY <2>4, AbandonFillsBlocks
  <2>5. CASE SubRuleReduced BY <2>5, SubRuleReducedFillsBlocks
  <2>6. CASE ListItem BY <2>6, ListItemFillsBlocks
  <2>7. CASE ListEnd BY <2>7, ListEndFillsBlocks
  <2>8. CASE LookPastNewline BY <2>8, LookPastNewlineFillsBlocks
  <2>9. CASE LookedInVain BY <2>9, LookedInVainFillsBlocks
  <2>10. CASE AcceptToken BY <2>10, AcceptTokenFillsBlocks
  <2>11. CASE SwitchProduction BY <2>11, SwitchProductionFillsBlocks
  <2>12. CASE KeepFolded BY <2>12, KeepFoldedFillsBlocks
  <2>13. CASE NextProduction BY <2>13, NextProductionFillsBlocks
  <2>14. CASE NoProduction BY <2>14, NoProductionFillsBlocks
  <2>15. CASE Fold BY <2>15, FoldFillsBlocks
  <2>16. CASE ReduceRule BY <2>16, ReduceRuleFillsBlocks
  <2>17. CASE UNCHANGED vars BY <2>17, StutterFillsBlocks
  <2> QED
    BY <2>1, <2>2, <2>3, <2>4, <2>5, <2>6, <2>7, <2>8, <2>9, <2>10, <2>11, <2>12, <2>13,
       <2>14, <2>15, <2>16, <2>17 DEF Next
<1> QED BY <1>1, <1>2, ParserIsInvariant, PTL DEF Spec

(* Every reducer gets the parameters it asserts it has (parser.c:95-232),  *)
(* in every text and at every depth: the empty second production of a      *)
(* block in braces, which hands over three where none is expected (:311),  *)
(* is never reduced before the lexer has found an error.                   *)
THEOREM ReducersAreGivenTheirArguments == Spec => []ReducersGetTheirArguments
<1>1. ParserInv /\ BlocksInv => ReducersGetTheirArguments
  <2> SUFFICES ASSUME ParserInv, BlocksInv, Running("PN_REDUCE"),
                      ~(~Clean /\ Top.rule = "braced_block" /\ Top.i = 2)
               PROVE  Top.count = Arity(Expected)
    BY DEF ReducersGetTheirArguments
  <2>1. /\ frames # <<>> /\ returned = Nothing /\ ~failed
        /\ NodeOf(Top).type = "PN_REDUCE" /\ NodeOf(Top).name = Expected
    BY TopIsFrame DEF Running, Expected
  <2>2. IsFrame(Top, read) BY <2>1, TopIsFrame
  <2>3. /\ Top.j = Len(NodesOf(Top.rule, Top.i)) /\ Top.count = Top.j - 1
        /\ Top.rule \in RuleNames /\ Top.i \in 1 .. Len(Productions(Top.rule))
    BY <2>1, <2>2, NodeFacts DEF IsFrame
  <2>4. ~(Top.rule = "braced_block" /\ Top.i = 2)
    <3>1. SUFFICES ASSUME Clean, Top.rule = "braced_block", Top.i = 2 PROVE FALSE
      OBVIOUS
    <3>2. Top.j = 4 BY <2>1, <2>2, <3>1, BracedFrame
    <3>3. \E p : Known(Top, p, read) BY <2>1, <3>1, TopKnown
    <3> QED BY <3>1, <3>2, <3>3 DEF Known, InBraces
  <2>5. Good(NodesOf(Top.rule, Top.i)) BY <2>3, <2>4, RulesAreGood DEF GoodRule
  <2>6. Arity(NodesOf(Top.rule, Top.i)[Top.j].name) = Top.j - 1 BY <2>3, <2>5 DEF Good
  <2> QED BY Zenon, <2>1, <2>3, <2>6 DEF NodeOf
<1> QED BY <1>1, ParserIsInvariant, BlocksAreInvariant, PTL
=============================================================================
