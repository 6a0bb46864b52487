------------------------------ MODULE Grammar ------------------------------
(***************************************************************************)
(* The grammar of xlang, the data the parser is driven by (parser.c, "Rule *)
(* section"): a rule is a list of productions, a production a list of      *)
(* nodes that ends in a reducer.  Nodes count from 1.                      *)
(***************************************************************************)
EXTENDS Naturals, Sequences

TERM(t)   == [type |-> "PN_TERM", name |-> t]
NTRM(r)   == [type |-> "PN_RULE", name |-> r]
LIST(r)   == [type |-> "PN_RULE_LIST", name |-> r]
REDUCE(f) == [type |-> "PN_REDUCE", name |-> f]

PROD_L(nodes) == [assoc |-> "ASC_LEFT",  nodes |-> nodes]
PROD_R(nodes) == [assoc |-> "ASC_RIGHT", nodes |-> nodes]

(* In an expression rule a newline before a terminal is skipped. *)
RULE(prods)      == [skip_new_line |-> FALSE, productions |-> prods]
RULE_EXPR(prods) == [skip_new_line |-> TRUE,  productions |-> prods]

if_tail == RULE_EXPR(<<
  PROD_R(<<NTRM("expr_prime"), TERM("then"), NTRM("expr_prime"), TERM("else"),
           NTRM("expr_prime"), REDUCE("if_expr_then_stmt_else_stmt")>>),
  PROD_R(<<NTRM("expr_prime"), TERM("then"), NTRM("stmt"),
           REDUCE("if_expr_then_stmt")>>),
  PROD_R(<<NTRM("expr_prime"), NTRM("braced_block"), TERM("else"),
           NTRM("braced_block"), REDUCE("if_expr_braced_block_else_braced_block")>>),
  PROD_R(<<NTRM("expr_prime"), NTRM("braced_block"),
           REDUCE("if_expr_braced_block")>>) >>)

expr_factor == RULE_EXPR(<<
  PROD_R(<<TERM("number"), REDUCE("number_l")>>),
  PROD_R(<<TERM("bool"), REDUCE("bool_l")>>),
  PROD_R(<<TERM("("), NTRM("expr_prime"), TERM(")"), REDUCE("tripple_ntrm")>>),
  PROD_R(<<TERM("if"), NTRM("if_tail"), REDUCE("ifexpr_if_tail")>>),
  PROD_R(<<TERM("id"), REDUCE("id")>>) >>)

expr_unary == RULE_EXPR(<<
  PROD_R(<<NTRM("expr_factor"), REDUCE("signle_ntrm")>>),
  PROD_R(<<TERM("-"), NTRM("expr_factor"), REDUCE("minus_expr")>>) >>)

expr_term == RULE_EXPR(<<
  PROD_L(<<NTRM("expr_unary"), TERM("*"), NTRM("expr_unary"), REDUCE("expr_op_expr")>>),
  PROD_L(<<NTRM("expr_unary"), TERM("/"), NTRM("expr_unary"), REDUCE("expr_op_expr")>>),
  PROD_R(<<NTRM("expr_unary"), REDUCE("signle_ntrm")>>) >>)

expr_prime == RULE_EXPR(<<
  PROD_L(<<NTRM("expr_term"), TERM("+"), NTRM("expr_term"), REDUCE("expr_op_expr")>>),
  PROD_L(<<NTRM("expr_term"), TERM("-"), NTRM("expr_term"), REDUCE("expr_op_expr")>>),
  PROD_R(<<NTRM("expr_term"), REDUCE("signle_ntrm")>>) >>)

stmt_sep == RULE(<<
  PROD_R(<<TERM("nl"), REDUCE("sep")>>),
  PROD_R(<<TERM(";"), REDUCE("sep")>>) >>)

stmt_seps == RULE(<<
  PROD_R(<<NTRM("stmt_sep"), LIST("stmt_sep"), REDUCE("sep_seps")>>) >>)

stmt_optseps == RULE(<<
  PROD_R(<<NTRM("stmt_seps"), REDUCE("sep")>>),
  PROD_R(<<REDUCE("empty")>>) >>)

stmt == RULE(<<
  PROD_R(<<TERM("echo"), NTRM("expr_prime"), REDUCE("echo_expr")>>),
  PROD_R(<<TERM("if"), NTRM("if_tail"), REDUCE("ifstmt_if_tail")>>),
  PROD_R(<<TERM("id"), TERM(":="), NTRM("expr_prime"), REDUCE("id_define_expr")>>),
  PROD_R(<<NTRM("expr_prime"), TERM("="), NTRM("expr_prime"),
           REDUCE("expr_assign_expr")>>) >>)

stmt_next == RULE(<<
  PROD_R(<<NTRM("stmt_seps"), NTRM("stmt"), REDUCE("peek_second")>>) >>)

stmts == RULE(<<
  PROD_R(<<NTRM("stmt"), LIST("stmt_next"), REDUCE("stmt_stmts")>>),
  PROD_R(<<REDUCE("empty_block")>>) >>)

block == RULE(<<
  PROD_R(<<NTRM("stmt_optseps"), NTRM("stmts"), NTRM("stmt_optseps"),
           REDUCE("tripple_ntrm")>>) >>)

braced_block == RULE_EXPR(<<
  PROD_R(<<TERM("{"), NTRM("block"), TERM("}"), REDUCE("tripple_ntrm")>>),
  PROD_R(<<TERM("{"), NTRM("stmt_optseps"), TERM("}"), REDUCE("empty_block")>>) >>)

prog == RULE(<< PROD_R(<<NTRM("block"), REDUCE("signle_ntrm")>>) >>)

Rules ==
  [ if_tail |-> if_tail, expr_factor |-> expr_factor, expr_unary |-> expr_unary,
    expr_term |-> expr_term, expr_prime |-> expr_prime, stmt_sep |-> stmt_sep,
    stmt_seps |-> stmt_seps, stmt_optseps |-> stmt_optseps, stmt |-> stmt,
    stmt_next |-> stmt_next, stmts |-> stmts, block |-> block,
    braced_block |-> braced_block, prog |-> prog ]
-----------------------------------------------------------------------------
(* The parameters of a reducer: what a node was made from is the set of    *)
(* the positions, in the text, of its tokens and of its children's.        *)
Node(label, toks, kids) ==
  [label |-> label, kids |-> kids,
   over  |-> toks \cup UNION {kids[k].over : k \in DOMAIN kids}]

Token(pos) == Node("token", {pos}, <<>>)
Null       == Node("NULL", {}, <<>>)
Block(ss)  == Node("block", {}, ss)

(* node_block_append, on a block that is made for its first statement. *)
BlockAppend(b, s) ==
  IF s = Null THEN b ELSE Block(Append(b.kids, s))

(* What the reducers build, argv being the parameters of the production. *)
Reduce(f, argv) ==
  CASE f \in {"number_l", "bool_l", "id"} -> Node(f, argv[1].over, <<>>)
    [] f \in {"minus_expr", "echo_expr"}  -> Node(f, argv[1].over, <<argv[2]>>)
    [] f \in {"expr_op_expr", "expr_assign_expr"} ->
         Node(f, argv[2].over, <<argv[1], argv[3]>>)
    [] f = "id_define_expr" ->
         Node(f, argv[2].over, <<Node("id", argv[1].over, <<>>), argv[3]>>)
    [] f = "if_expr_then_stmt_else_stmt" ->
         Node("abstract_if", {}, <<argv[1], argv[3], argv[5]>>)
    [] f = "if_expr_then_stmt" ->
         Node("abstract_if", {}, <<argv[1], argv[3], Null>>)
    [] f = "if_expr_braced_block_else_braced_block" ->
         Node("abstract_if", {}, <<argv[1], argv[2], argv[4]>>)
    [] f = "if_expr_braced_block" ->
         Node("abstract_if", {}, <<argv[1], argv[2], Null>>)
    [] f \in {"ifstmt_if_tail", "ifexpr_if_tail"} ->
         Node(f, argv[1].over, argv[2].kids)
    [] f = "stmt_stmts" -> Block(<<argv[1]>> \o argv[2].kids)
    [] f = "empty_block" -> Block(<<>>)
    [] f \in {"sep", "sep_seps", "empty"} -> Null
    [] f = "signle_ntrm" -> argv[1]
    [] f \in {"tripple_ntrm", "peek_second"} -> argv[2]
=============================================================================
