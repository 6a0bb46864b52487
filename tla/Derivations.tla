---------------------------- MODULE Derivations ----------------------------
(***************************************************************************)
(* What the grammar means, without a parser: the results of a rule on the  *)
(* tokens lo + 1 .. hi of a text are all those a production derives by     *)
(* splitting them among its nodes.  A production with ASC_LEFT takes       *)
(* another result of its rule as its left operand.                         *)
(***************************************************************************)
EXTENDS Grammar, SequencesExt

RECURSIVE Results(_, _, _, _), Arguments(_, _, _, _, _), Lists(_, _, _, _)

(* The lists of results of the rule that the tokens divide into. *)
Lists(text, rule, lo, hi) ==
  IF lo = hi THEN {Null}
  ELSE UNION { { IF r = Null THEN rest ELSE Block(<<r>> \o rest.kids) :
                   r \in Results(text, rule, lo, m),
                   rest \in Lists(text, rule, m, hi) } : m \in lo + 1 .. hi }

OneNode(text, rule, node, lo, hi) ==
  CASE node.type = "PN_TERM" ->
         IF /\ hi > lo /\ text[hi] = node.name
            /\ \A k \in lo + 1 .. hi - 1 : text[k] = "nl" /\ Rules[rule].skip_new_line
         THEN {Token(hi)} ELSE {}
    [] node.type = "PN_RULE"      -> Results(text, node.name, lo, hi)
    [] node.type = "PN_RULE_LIST" -> Lists(text, node.name, lo, hi)

(* The parameters that the nodes before the reducer may get. *)
Arguments(text, rule, nodes, lo, hi) ==
  IF Len(nodes) = 1 THEN IF lo = hi THEN {<<>>} ELSE {}
  ELSE UNION { LET firsts == OneNode(text, rule, nodes[1], lo, m)
               IN  IF firsts = {} THEN {}
                   ELSE { <<a>> \o rest : a \in firsts,
                            rest \in Arguments(text, rule, Tail(nodes), m, hi) }
               : m \in IF Len(nodes) = 2 THEN {hi} ELSE lo..hi }

(* result op operand *)
Chains(text, rule, nodes, lo, hi) ==
  UNION { LET rest == Arguments(text, rule, Tail(nodes), m, hi)
          IN  IF rest = {} THEN {}
              ELSE { <<a>> \o r : a \in Results(text, rule, lo, m), r \in rest }
          : m \in lo .. hi - 1 }

Results(text, rule, lo, hi) ==
  UNION { LET nodes == p.nodes
              argvs == IF p.assoc = "ASC_LEFT"
                       THEN Chains(text, rule, nodes, lo, hi)
                       ELSE Arguments(text, rule, nodes, lo, hi)
          IN  { Reduce(nodes[Len(nodes)].name, argv) : argv \in argvs }
          : p \in Range(Rules[rule].productions) }

Programs(text) == Results(text, "prog", 0, Len(text))
-----------------------------------------------------------------------------
(* The texts of at most n tokens, of the given kinds, that the rules       *)
(* derive: the least texts[rule] that hold what the productions make of    *)
(* them, found by starting with none.  Only the texts with at most max of  *)
(* the tokens few are looked for.                                          *)
Joined(n, A, B) ==
  UNION { {a \o b : a \in {x \in A : Len(x) = m}, b \in {x \in B : Len(x) <= n - m}} : m \in 0..n }

RECURSIVE Repeated(_, _, _)
Repeated(n, A, done) ==
  LET more == done \cup Joined(n, done, A) IN IF more = done THEN done ELSE Repeated(n, A, more)

OfNode(texts, kinds, rule, node, n) ==
  CASE node.type = "PN_TERM" ->
         IF node.name \notin kinds THEN {}
         ELSE { [k \in 1 .. m |-> IF k = m THEN node.name ELSE "nl"] :
                  m \in IF Rules[rule].skip_new_line /\ "nl" \in kinds
                        THEN 1..n ELSE 1..n \cap {1} }
    [] node.type = "PN_RULE"      -> texts[node.name]
    [] node.type = "PN_RULE_LIST" -> Repeated(n, texts[node.name], {<<>>})

OfProduction(texts, kinds, rule, p, n) ==
  LET chain == p.assoc = "ASC_LEFT"
  IN  FoldLeft(LAMBDA found, node : Joined(n, found, OfNode(texts, kinds, rule, node, n)),
               IF chain THEN texts[rule] ELSE {<<>>},
               IF chain THEN Tail(Front(p.nodes)) ELSE Front(p.nodes))

Sparse(text, few, max) == Len(SelectSeq(text, LAMBDA t : t \in few)) <= max

RECURSIVE Derived(_, _, _, _, _)
Derived(texts, kinds, n, few, max) ==
  LET more ==
        [ rule \in DOMAIN Rules |->
            {t \in UNION {OfProduction(texts, kinds, rule, p, n) :
                            p \in Range(Rules[rule].productions)} : Sparse(t, few, max)} ]
  IN  IF more = texts THEN texts ELSE Derived(more, kinds, n, few, max)

Sentences(kinds, rule, n, few, max) ==
  Derived([r \in DOMAIN Rules |-> {}], kinds, n, few, max)[rule]
=============================================================================
