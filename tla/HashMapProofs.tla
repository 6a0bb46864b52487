---------------------------- MODULE HashMapProofs ----------------------------
(***************************************************************************)
(* What module HashMap promises, for every set of keys and values, every   *)
(* hash function and every initial capacity.                               *)
(*                                                                         *)
(* The pointers of a list cannot be followed to its end by a formula       *)
(* without recursion.  A list is described from outside instead: it is a   *)
(* set of nodes with a rank for each, the head has the least, and next is  *)
(* the node of the next higher rank.  The ranks are integers, so that a    *)
(* node that is put behind the head finds a place, and are not part of the *)
(* state: the invariant says that there are some.  What a caller sees, the *)
(* dictionary, is the last part.                                           *)
(***************************************************************************)
EXTENDS HashMap, Integers, FiniteSetTheorems, TLAPS

(* The nodes of S with these ranks are the list that starts at head.  Every *)
(* node but the head is some node's next.                                   *)
Ranked(h, S, head, rank) ==
  /\ rank \in [S -> Int]
  /\ \A a, b \in S : rank[a] = rank[b] => a = b
  /\ head = NULL => S = {}
  /\ head # NULL => head \in S /\ \A a \in S : rank[head] <= rank[a]
  /\ \A a \in S :
       /\ h[a].next = NULL => \A b \in S : rank[b] <= rank[a]
       /\ h[a].next # NULL => /\ h[a].next \in S
                              /\ rank[a] < rank[h[a].next]
                              /\ \A b \in S : rank[a] < rank[b] => rank[h[a].next] <= rank[b]
  /\ \A b \in S : b = head \/ \E a \in S : h[a].next = b

IsList(h, S, head) == \E rank \in [S -> Int] : Ranked(h, S, head, rank)

(* The nodes of S that belong to a row of a table with cap rows.            *)
InRow(h, S, cap, row) == {a \in S : Hash[h[a].key] % cap = row}

(* The rows of a table from row first on hold the nodes of S, each in the   *)
(* row of its key.                                                          *)
Holds(h, S, table_, first) ==
  \A row \in DOMAIN table_ :
    row >= first => IsList(h, InRow(h, S, Cardinality(DOMAIN table_), row), table_[row])
-----------------------------------------------------------------------------
(* The inductive invariant. *)

Ops == {"put", "get", "compute", "insert", "remove"}

TableOK(table_) == /\ Cardinality(DOMAIN table_) \in Nat \ {0}
                   /\ DOMAIN table_ = 0 .. Cardinality(DOMAIN table_) - 1
                   /\ table_ \in [DOMAIN table_ -> Nat \cup {NULL}]

Sane ==
  /\ IsFiniteSet(DOMAIN heap) /\ DOMAIN heap \subseteq Nat
  /\ heap \in [DOMAIN heap -> [key : Keys, value : Values, next : Nat \cup {NULL}]]
  /\ \A a, b \in DOMAIN heap : heap[a].key = heap[b].key => a = b
  /\ size \in Nat /\ i \in Nat /\ result \in Values
  /\ pc \in {"closed", "ready", "find", "grow", "tail", "free"}
  /\ TableOK(nodes)

NoLocals == i = 0 /\ n = NULL /\ other = NULL /\ tail = NULL

WhenClosed == pc = "closed" => heap = <<>> /\ old = <<>> /\ call = Idle /\ NoLocals

(* No node is outside the table.                                            *)
Settled == /\ Holds(heap, DOMAIN heap, nodes, 0)
           /\ size = Cardinality(DOMAIN heap)
           /\ size <= (3 * Cap) \div 4
           /\ old = <<>>

WhenReady == pc = "ready" => Settled /\ call = Idle /\ NoLocals

(* The walk has left behind the nodes of passed, which have other keys.     *)
Passed(passed) ==
  /\ \A a \in passed : heap[a].key # call.key
  /\ IsList(heap, InRow(heap, DOMAIN heap, Cap, i) \ passed, n)

WhenFinding ==
  pc = "find" =>
    /\ Settled
    /\ call \in [op : Ops, key : Keys, value : Values]
    /\ i = Index(call.key)
    /\ call.op \in {"put", "insert"} => size + 1 <= (3 * Cap) \div 4
    /\ \E passed \in SUBSET DOMAIN heap : Passed(passed)
    /\ other = NULL => n = nodes[i]
    /\ other # NULL => other \in InRow(heap, DOMAIN heap, Cap, i) /\ heap[other].next = n
    /\ tail = NULL

(* The nodes of moved are in the new table, and those of rest still in the  *)
(* old one; first is where row i of the old one goes on.                    *)
Moving(moved, rest, first) ==
  /\ Holds(heap, moved, nodes, 0)
  /\ Holds(heap, rest, old, i + 1)
  /\ IsList(heap, InRow(heap, rest, Cardinality(DOMAIN old), i), first)
  /\ \A a \in rest : Hash[heap[a].key] % Cardinality(DOMAIN old) >= i
  /\ size = Cardinality(moved)

Growing ==
  /\ TableOK(old) /\ i \in DOMAIN old
  /\ call \in [op : {"put", "insert"}, key : Keys, value : Values]
  /\ Cardinality(DOMAIN heap) + 1 <= (3 * Cap) \div 4

WhenGrowing ==
  pc = "grow" =>
    /\ Growing
    /\ \E moved \in SUBSET DOMAIN heap : Moving(moved, DOMAIN heap \ moved, n)
    /\ other = NULL /\ tail = NULL

(* n is in neither table.                                                   *)
InHand(moved) ==
  /\ n \notin moved
  /\ Moving(moved, (DOMAIN heap \ moved) \ {n}, other)
  /\ tail \in InRow(heap, moved, Cap, Index(heap[n].key))

WhenAtTail ==
  pc = "tail" =>
    /\ Growing
    /\ n \in DOMAIN heap /\ heap[n].next = NULL
    /\ \E moved \in SUBSET DOMAIN heap : InHand(moved)

(* The lists of the rows below i are gone, and the head of row i may be.    *)
WhenFreeing ==
  pc = "free" =>
    /\ Holds(heap, DOMAIN heap, nodes, i + 1)
    /\ i \in DOMAIN nodes
    /\ IsList(heap, InRow(heap, DOMAIN heap, Cap, i), n)
    /\ \A a \in DOMAIN heap : Hash[heap[a].key] % Cap >= i
    /\ old = <<>> /\ call = Idle /\ other = NULL /\ tail = NULL

IInv == /\ Sane /\ WhenClosed /\ WhenReady /\ WhenFinding
        /\ WhenGrowing /\ WhenAtTail /\ WhenFreeing
-----------------------------------------------------------------------------
(* Lists. *)

LEMMA EmptyList ==
  ASSUME NEW h, NEW head, head = NULL
  PROVE  IsList(h, {}, head)
<1> DEFINE rank == [a \in {} |-> 0]
<1>1. rank \in [{} -> Int]
  OBVIOUS
<1>2. Ranked(h, {}, head, rank)
  BY <1>1 DEF Ranked
<1> QED
  BY <1>1, <1>2 DEF IsList

(* Two heaps whose nodes of S point to the same have the same list.         *)
LEMMA ListFrame ==
  ASSUME NEW h, NEW g, NEW S, NEW head, IsList(h, S, head),
         \A a \in S : g[a].next = h[a].next
  PROVE  IsList(g, S, head)
<1> PICK rank \in [S -> Int] : Ranked(h, S, head, rank)
  BY DEF IsList
<1>1. Ranked(g, S, head, rank)
  BY DEF Ranked
<1> QED
  BY <1>1 DEF IsList

LEMMA ListFacts ==
  ASSUME NEW h, NEW S, NEW head, IsList(h, S, head), NULL \notin S
  PROVE  /\ head = NULL <=> S = {}
         /\ head # NULL => head \in S
         /\ \A a \in S : h[a].next \in S \cup {NULL} /\ h[a].next # a
         /\ \A a, b \in S : h[a].next = h[b].next /\ h[a].next # NULL => a = b
         /\ \A a \in S : h[a].next = head => head = NULL
         /\ \A b \in S : b = head \/ \E a \in S : h[a].next = b
<1> PICK rank \in [S -> Int] : Ranked(h, S, head, rank)
  BY DEF IsList
<1>1. /\ head = NULL <=> S = {}
      /\ head # NULL => head \in S
      /\ \A b \in S : b = head \/ \E a \in S : h[a].next = b
  BY DEF Ranked
<1>2. \A a \in S : h[a].next \in S \cup {NULL} /\ h[a].next # a
  BY DEF Ranked
<1>3. ASSUME NEW a \in S, NEW b \in S, h[a].next = h[b].next, h[a].next # NULL
      PROVE  a = b
  BY <1>3 DEF Ranked
<1>4. ASSUME NEW a \in S, h[a].next = head
      PROVE  head = NULL
  BY <1>4 DEF Ranked
<1> QED
  BY <1>1, <1>2, <1>3, <1>4

LEMMA ListOfOne ==
  ASSUME NEW h, NEW a, a # NULL, h[a].next = NULL
  PROVE  IsList(h, {a}, a)
<1> DEFINE rank == [x \in {a} |-> 0]
<1>1. rank \in [{a} -> Int]
  OBVIOUS
<1>2. Ranked(h, {a}, a, rank)
  BY <1>1 DEF Ranked
<1> QED
  BY <1>1, <1>2 DEF IsList

(* Without its head a list goes on at the next.                             *)
LEMMA ListWithoutHead ==
  ASSUME NEW h, NEW S, NEW head, IsList(h, S, head), NULL \notin S, head # NULL
  PROVE  IsList(h, S \ {head}, h[head].next)
<1> PICK rank \in [S -> Int] : Ranked(h, S, head, rank)
  BY DEF IsList
<1> DEFINE T == S \ {head}
           less == [a \in T |-> rank[a]]
<1>1. less \in [T -> Int]
  OBVIOUS
<1>2. Ranked(h, T, h[head].next, less)
  <2>1. \A a \in T : rank[head] < rank[a]
    BY DEF Ranked
  <2>2. \A a, b \in T : less[a] = less[b] => a = b
    BY DEF Ranked
  <2>3. h[head].next = NULL => T = {}
    BY <2>1 DEF Ranked
  <2>4. h[head].next # NULL =>
          h[head].next \in T /\ \A a \in T : less[h[head].next] <= less[a]
    BY <2>1 DEF Ranked
  <2>5. \A a \in T :
          /\ h[a].next = NULL => \A b \in T : less[b] <= less[a]
          /\ h[a].next # NULL => /\ h[a].next \in T
                                 /\ less[a] < less[h[a].next]
                                 /\ \A b \in T : less[a] < less[b] => less[h[a].next] <= less[b]
    BY <2>1 DEF Ranked
  <2>6. \A b \in T : b = h[head].next \/ \E a \in T : h[a].next = b
    BY DEF Ranked
  <2> QED
    BY <1>1, <2>2, <2>3, <2>4, <2>5, <2>6 DEF Ranked
<1> QED
  BY <1>1, <1>2 DEF IsList

(* A node behind the head is unlinked by the node before it.                *)
LEMMA ListWithout ==
  ASSUME NEW h, NEW g, NEW S, NEW head, IsList(h, S, head), NULL \notin S,
         NEW x \in S, NEW p \in S, h[p].next = x,
         g[p].next = h[x].next,
         \A a \in S \ {x, p} : g[a].next = h[a].next
  PROVE  IsList(g, S \ {x}, head)
<1> PICK rank \in [S -> Int] : Ranked(h, S, head, rank)
  BY DEF IsList
<1> DEFINE T == S \ {x}
           less == [a \in T |-> rank[a]]
<1>1. less \in [T -> Int]
  OBVIOUS
<1>2. p # x /\ rank[p] < rank[x] /\ p \in T /\ head # x /\ x # NULL
  BY DEF Ranked
<1>3. \A b \in S : rank[p] < rank[b] /\ b # x => rank[x] < rank[b]
  BY <1>2 DEF Ranked
<1>4. \A a \in S : h[a].next = x => a = p
  BY ListFacts, <1>2
<1>5. ASSUME NEW a \in T, a # p
      PROVE  /\ g[a].next = NULL => \A b \in T : less[b] <= less[a]
             /\ g[a].next # NULL => /\ g[a].next \in T
                                    /\ less[a] < less[g[a].next]
                                    /\ \A b \in T : less[a] < less[b] => less[g[a].next] <= less[b]
  <2>1. g[a].next = h[a].next /\ h[a].next # x
    BY <1>4, <1>5
  <2> QED
    BY <2>1 DEF Ranked
<1>6. /\ g[p].next = NULL => \A b \in T : less[b] <= less[p]
      /\ g[p].next # NULL => /\ g[p].next \in T
                             /\ less[p] < less[g[p].next]
                             /\ \A b \in T : less[p] < less[b] => less[g[p].next] <= less[b]
  BY <1>2, <1>3 DEF Ranked
<1>7. \A b \in T : b = head \/ \E a \in T : g[a].next = b
  <2> SUFFICES ASSUME NEW b \in T, b # head
               PROVE  \E a \in T : g[a].next = b
    OBVIOUS
  <2>1. PICK a \in S : h[a].next = b
    BY DEF Ranked
  <2>2. CASE a = x
    BY <1>2, <2>1, <2>2
  <2>3. CASE a # x
    <3>1. a # p
      BY <2>1
    <3> QED
      BY <2>1, <2>3, <3>1
  <2> QED
    BY <2>2, <2>3
<1>8. Ranked(g, T, head, less)
  <2>1. \A a, b \in T : less[a] = less[b] => a = b
    BY DEF Ranked
  <2>2. head # NULL /\ head \in T /\ \A a \in T : less[head] <= less[a]
    BY <1>2 DEF Ranked
  <2> QED
    BY <1>1, <1>5, <1>6, <1>7, <2>1, <2>2 DEF Ranked
<1> QED
  BY <1>1, <1>8 DEF IsList

(* A new node behind the head: it takes the rank of the head, which goes    *)
(* down by one.                                                             *)
LEMMA ListWithSecond ==
  ASSUME NEW h, NEW g, NEW S, NEW head, IsList(h, S, head), NULL \notin S, head # NULL,
         NEW x, x \notin S, x # NULL,
         g[head].next = x, g[x].next = h[head].next,
         \A a \in S \ {head} : g[a].next = h[a].next
  PROVE  IsList(g, S \cup {x}, head)
<1> PICK rank \in [S -> Int] : Ranked(h, S, head, rank)
  BY DEF IsList
<1> DEFINE T == S \cup {x}
           more == [a \in T |-> IF a = head THEN rank[head] - 1
                                ELSE IF a = x THEN rank[head] ELSE rank[a]]
<1>1. head \in S /\ \A a \in S \ {head} : rank[head] < rank[a]
  BY DEF Ranked
<1>2. more \in [T -> Int]
  BY <1>1
<1>3. /\ head \in T /\ x \in T /\ head # x
      /\ more[head] = rank[head] - 1 /\ more[x] = rank[head]
      /\ \A a \in S \ {head} : more[a] = rank[a] /\ a # x
      /\ \A a \in T : a = head \/ a = x \/ a \in S \ {head}
  BY <1>1
<1> HIDE DEF more
<1>4. \A a, b \in T : more[a] = more[b] => a = b
  BY <1>1, <1>3 DEF Ranked
<1>5. \A a \in T : more[head] <= more[a]
  BY <1>1, <1>3
<1>6. ASSUME NEW a \in T
      PROVE  /\ g[a].next = NULL => \A b \in T : more[b] <= more[a]
             /\ g[a].next # NULL => /\ g[a].next \in T
                                    /\ more[a] < more[g[a].next]
                                    /\ \A b \in T : more[a] < more[b] => more[g[a].next] <= more[b]
  <2>1. CASE a = head
    BY <1>1, <1>3, <2>1
  <2>2. CASE a = x
    <3>1. CASE h[head].next = NULL
      <4>1. S = {head}
        BY <1>1, <3>1 DEF Ranked
      <4> QED
        BY <1>3, <2>2, <3>1, <4>1
    <3>2. CASE h[head].next # NULL
      <4>1. h[head].next \in S \ {head} /\ \A b \in S \ {head} : rank[h[head].next] <= rank[b]
        BY <1>1, <3>2 DEF Ranked
      <4> QED
        BY <1>1, <1>3, <2>2, <3>2, <4>1
    <3> QED
      BY <3>1, <3>2
  <2>3. CASE a \in S \ {head}
    <3>1. CASE h[a].next = NULL
      <4>1. \A b \in S : rank[b] <= rank[a]
        BY <2>3, <3>1 DEF Ranked
      <4> QED
        BY <1>1, <1>3, <2>3, <3>1, <4>1
    <3>2. CASE h[a].next # NULL
      <4>1. /\ h[a].next \in S \ {head} /\ rank[a] < rank[h[a].next]
            /\ \A b \in S : rank[a] < rank[b] => rank[h[a].next] <= rank[b]
        BY <1>1, <2>3, <3>2 DEF Ranked
      <4> QED
        BY <1>1, <1>3, <2>3, <3>2, <4>1
    <3> QED
      BY <3>1, <3>2
  <2> QED
    BY <1>3, <2>1, <2>2, <2>3
<1>7. ASSUME NEW b \in T, b # head
      PROVE  \E a \in T : g[a].next = b
  <2>1. CASE b = x
    BY <1>3, <2>1
  <2>2. CASE b # x
    <3>1. PICK a \in S : h[a].next = b
      BY <1>7, <2>2 DEF Ranked
    <3>2. CASE a = head
      BY <1>3, <3>1, <3>2
    <3>3. CASE a # head
      BY <3>1, <3>3
    <3> QED
      BY <3>2, <3>3
  <2> QED
    BY <2>1, <2>2
<1>8. Ranked(g, T, head, more)
  BY <1>2, <1>3, <1>4, <1>5, <1>6, <1>7 DEF Ranked
<1> QED
  BY <1>2, <1>8 DEF IsList

(* A node behind the last one. *)
LEMMA ListWithLast ==
  ASSUME NEW h, NEW g, NEW S, NEW head, IsList(h, S, head), NULL \notin S,
         NEW x, x \notin S, x # NULL, NEW t \in S, h[t].next = NULL,
         g[t].next = x, g[x].next = NULL,
         \A a \in S \ {t} : g[a].next = h[a].next
  PROVE  IsList(g, S \cup {x}, head)
<1> PICK rank \in [S -> Int] : Ranked(h, S, head, rank)
  BY DEF IsList
<1> DEFINE T == S \cup {x}
           more == [a \in T |-> IF a = x THEN rank[t] + 1 ELSE rank[a]]
<1>1. head # NULL /\ head \in S /\ \A a \in S : rank[a] <= rank[t]
  BY DEF Ranked
<1>2. more \in [T -> Int]
  OBVIOUS
<1>3. /\ x \in T /\ t \in T /\ t # x /\ head # x
      /\ more[x] = rank[t] + 1
      /\ \A a \in S : more[a] = rank[a] /\ a # x /\ a \in T
      /\ \A a \in T : a = x \/ a \in S
  BY <1>1
<1> HIDE DEF more
<1>4. \A a, b \in T : more[a] = more[b] => a = b
  BY <1>1, <1>3 DEF Ranked
<1>5. \A a \in T : more[head] <= more[a]
  BY <1>1, <1>3 DEF Ranked
<1>6. ASSUME NEW a \in T
      PROVE  /\ g[a].next = NULL => \A b \in T : more[b] <= more[a]
             /\ g[a].next # NULL => /\ g[a].next \in T
                                    /\ more[a] < more[g[a].next]
                                    /\ \A b \in T : more[a] < more[b] => more[g[a].next] <= more[b]
  <2>1. CASE a = x
    BY <1>1, <1>3, <2>1
  <2>2. CASE a = t
    BY <1>1, <1>3, <2>2
  <2>3. CASE a \in S \ {t}
    <3>1. h[a].next # NULL
      BY <1>1, <2>3 DEF Ranked
    <3>2. /\ h[a].next \in S /\ rank[a] < rank[h[a].next]
          /\ \A b \in S : rank[a] < rank[b] => rank[h[a].next] <= rank[b]
      BY <2>3, <3>1 DEF Ranked
    <3> QED
      BY <1>1, <1>3, <2>3, <3>1, <3>2
  <2> QED
    BY <1>3, <2>1, <2>2, <2>3
<1>7. ASSUME NEW b \in T, b # head
      PROVE  \E a \in T : g[a].next = b
  <2>1. CASE b = x
    BY <1>3, <2>1
  <2>2. CASE b # x
    <3>1. PICK a \in S : h[a].next = b
      BY <1>7, <2>2 DEF Ranked
    <3>2. a # t
      BY <3>1, <1>7, <2>2
    <3> QED
      BY <3>1, <3>2
  <2> QED
    BY <2>1, <2>2
<1>8. Ranked(g, T, head, more)
  BY <1>1, <1>2, <1>3, <1>4, <1>5, <1>6, <1>7 DEF Ranked
<1> QED
  BY <1>2, <1>8 DEF IsList
-----------------------------------------------------------------------------
(* Tables. *)

LEMMA RowExists ==
  ASSUME NEW t, TableOK(t), NEW key \in Keys
  PROVE  /\ Hash[key] % Cardinality(DOMAIN t) \in DOMAIN t
         /\ Hash[key] % Cardinality(DOMAIN t) \in Nat
<1> DEFINE c == Cardinality(DOMAIN t)
<1>1. c \in Nat \ {0} /\ DOMAIN t = 0 .. c - 1
  BY DEF TableOK
<1>2. Hash[key] \in Nat
  BY HashAssumption
<1> HIDE DEF c
<1>3. Hash[key] % c \in 0 .. c - 1
  BY <1>1, <1>2
<1> QED
  BY <1>1, <1>3 DEF c

LEMMA NewTableFacts ==
  ASSUME NEW cap \in Nat \ {0}
  PROVE  /\ TableOK(NewTable(cap))
         /\ Cardinality(DOMAIN NewTable(cap)) = cap
         /\ DOMAIN NewTable(cap) = 0 .. cap - 1
         /\ \A row \in 0 .. cap - 1 : NewTable(cap)[row] = NULL
<1>1. DOMAIN NewTable(cap) = 0 .. cap - 1 /\ \A row \in 0 .. cap - 1 : NewTable(cap)[row] = NULL
  BY DEF NewTable
<1>2. Cardinality(0 .. cap - 1) = cap
  <2>1. 0 \in Int /\ cap - 1 \in Int /\ ~(0 > cap - 1) /\ (cap - 1) - 0 + 1 = cap
    OBVIOUS
  <2> HIDE DEF NewTable
  <2> QED
    BY <2>1, FS_Interval
<1>3. NewTable(cap) \in [0 .. cap - 1 -> Nat \cup {NULL}]
  BY DEF NewTable
<1> HIDE DEF NewTable
<1> QED
  BY <1>1, <1>2, <1>3 DEF TableOK

LEMMA NewTableIsEmpty ==
  ASSUME NEW h, NEW cap \in Nat \ {0}
  PROVE  Holds(h, {}, NewTable(cap), 0)
<1>1. ASSUME NEW row \in DOMAIN NewTable(cap), NEW c
      PROVE  IsList(h, InRow(h, {}, c, row), NewTable(cap)[row])
  <2>1. NewTable(cap)[row] = NULL /\ InRow(h, {}, c, row) = {}
    BY NewTableFacts DEF InRow
  <2> QED
    BY <2>1, EmptyList
<1> QED
  BY <1>1 DEF Holds

(* Outside row r of a table with cap rows, g has for T what h has for S.    *)
SameElsewhere(h, S, g, T, cap, r) ==
  /\ \A a \in S \cap T : g[a].key = h[a].key
  /\ \A a \in S \cap T : Hash[h[a].key] % cap # r => g[a].next = h[a].next
  /\ \A a \in S \ T : Hash[h[a].key] % cap = r
  /\ \A a \in T \ S : Hash[g[a].key] % cap = r

(* What happens in row r is no other row's concern.                         *)
LEMMA OneRowChanges ==
  ASSUME NEW h, NEW g, NEW S, NEW T, NEW t, NEW u, NEW first, NEW r,
         Holds(h, S, t, first),
         DOMAIN u = DOMAIN t,
         \A row \in DOMAIN t : row # r => u[row] = t[row],
         SameElsewhere(h, S, g, T, Cardinality(DOMAIN t), r),
         r \in DOMAIN t /\ r >= first => IsList(g, InRow(g, T, Cardinality(DOMAIN t), r), u[r])
  PROVE  Holds(g, T, u, first)
<1> DEFINE c == Cardinality(DOMAIN t)
<1> SUFFICES ASSUME NEW row \in DOMAIN t, row >= first, row # r
             PROVE  IsList(g, InRow(g, T, c, row), u[row])
  BY DEF Holds
<1> HIDE DEF c
<1>0. SameElsewhere(h, S, g, T, c, r)
  BY DEF c
<1>1. InRow(g, T, c, row) = InRow(h, S, c, row)
  <2>1. ASSUME NEW a \in S, Hash[h[a].key] % c = row
        PROVE  a \in T /\ Hash[g[a].key] % c = row
    BY <1>0, <2>1 DEF SameElsewhere
  <2>2. ASSUME NEW a \in T, Hash[g[a].key] % c = row
        PROVE  a \in S /\ Hash[h[a].key] % c = row
    BY <1>0, <2>2 DEF SameElsewhere
  <2> QED
    BY <2>1, <2>2 DEF InRow
<1>2. \A a \in InRow(h, S, c, row) : g[a].next = h[a].next
  <2> SUFFICES ASSUME NEW a \in InRow(h, S, c, row) PROVE g[a].next = h[a].next
    OBVIOUS
  <2>1. a \in S /\ Hash[h[a].key] % c = row /\ a \in T
    BY <1>1 DEF InRow
  <2> QED
    BY <1>0, <2>1 DEF SameElsewhere
<1>3. IsList(h, InRow(h, S, c, row), t[row])
  BY DEF Holds, c
<1> QED
  BY <1>1, <1>2, <1>3, ListFrame

LEMMA HoldsFrame ==
  ASSUME NEW h, NEW g, NEW S, NEW t, NEW first,
         Holds(h, S, t, first),
         \A a \in S : g[a].key = h[a].key /\ g[a].next = h[a].next
  PROVE  Holds(g, S, t, first)
<1> DEFINE c == Cardinality(DOMAIN t)
<1> SUFFICES ASSUME NEW row \in DOMAIN t, row >= first
             PROVE  IsList(g, InRow(g, S, c, row), t[row])
  BY DEF Holds
<1>1. InRow(g, S, c, row) = InRow(h, S, c, row)
  BY DEF InRow
<1>2. \A a \in InRow(h, S, c, row) : g[a].next = h[a].next
  BY DEF InRow
<1>3. IsList(h, InRow(h, S, c, row), t[row])
  BY DEF Holds
<1> QED
  BY <1>1, <1>2, <1>3, ListFrame

LEMMA NodeFacts ==
  ASSUME Sane, NEW a \in DOMAIN heap
  PROVE  /\ heap[a].key \in Keys /\ heap[a].value \in Values
         /\ heap[a].next \in Nat \cup {NULL}
         /\ a \in Nat /\ a # NULL
         /\ Index(heap[a].key) \in DOMAIN nodes
         /\ Cap \in Nat \ {0}
<1>1. /\ heap[a] \in [key : Keys, value : Values, next : Nat \cup {NULL}]
      /\ a \in Nat /\ a # NULL
  BY NullAssumption DEF Sane
<1>2. TableOK(nodes)
  BY DEF Sane
<1>3. Cap \in Nat \ {0}
  BY <1>2 DEF TableOK, Cap
<1> QED
  BY <1>1, <1>2, <1>3, RowExists DEF Index, Cap
-----------------------------------------------------------------------------
(* The calls. *)

LEMMA InitSane == Init => IInv
<1> SUFFICES ASSUME Init PROVE IInv
  OBVIOUS
<1>1. heap = <<>> /\ DOMAIN heap = {} /\ size = 0 /\ pc = "closed" /\ call = Idle /\ result \in Values
  BY ValuesAssumption DEF Init
<1>2. IsFiniteSet({})
  BY FS_EmptySet
<1>3. heap \in [DOMAIN heap -> [key : Keys, value : Values, next : Nat \cup {NULL}]]
  BY <1>1
<1>4. TableOK(nodes)
  <2>1. InitialCap \in Nat \ {0}
    BY CapAssumption
  <2> QED
    BY <2>1, NewTableFacts DEF Init
<1>5. Sane
  BY <1>1, <1>2, <1>3, <1>4 DEF Init, Sane
<1>6. WhenClosed
  BY <1>1 DEF Init, WhenClosed, NoLocals
<1> QED
  BY <1>1, <1>5, <1>6 DEF IInv, WhenReady, WhenFinding, WhenGrowing, WhenAtTail, WhenFreeing

LEMMA NewKeeps ==
  ASSUME IInv, New
  PROVE  IInv'
<1>1. /\ heap = <<>> /\ DOMAIN heap = {} /\ old = <<>> /\ call = Idle /\ NoLocals
  BY DEF IInv, WhenClosed, New
<1>2. InitialCap \in Nat \ {0}
  BY CapAssumption
<1>3. Sane'
  BY <1>2, NewTableFacts DEF IInv, Sane, New
<1>4. Cap' = InitialCap
  BY <1>2, NewTableFacts DEF New, Cap
<1>5. Settled'
  <2>1. Holds(heap, {}, NewTable(InitialCap), 0)
    BY <1>2, NewTableIsEmpty
  <2>2. Holds(heap, DOMAIN heap, nodes, 0)'
    BY <1>1, <2>1 DEF New
  <2>3. 0 <= (3 * InitialCap) \div 4
    BY <1>2
  <2> QED
    BY <1>1, <1>4, <2>2, <2>3, FS_EmptySet DEF New, Settled
<1>6. pc' = "ready" /\ call' = Idle /\ NoLocals'
  BY <1>1 DEF New, NoLocals
<1> QED
  BY <1>3, <1>5, <1>6 DEF IInv, WhenClosed, WhenReady, WhenFinding, WhenGrowing, WhenAtTail, WhenFreeing

(* A walk begins at the head of the key's list.                             *)
LEMMA WalkBegins ==
  ASSUME Sane', Settled', pc' = "find",
         call' \in [op : Ops, key : Keys, value : Values],
         call'.op \in {"put", "insert"} => size' + 1 <= (3 * Cap') \div 4,
         i' = Hash[call'.key] % Cap', n' = nodes'[i'], other' = NULL, tail' = NULL
  PROVE  IInv'
<1>1. call'.key \in Keys
  OBVIOUS
<1>2. i' \in DOMAIN nodes' /\ i' \in Nat
  BY <1>1, RowExists DEF Sane, Cap
<1>3. IsList(heap', InRow(heap', DOMAIN heap', Cap', i'), nodes'[i'])
  BY <1>2 DEF Settled, Holds, Cap
<1>4. InRow(heap', DOMAIN heap', Cap', i') \ {} = InRow(heap', DOMAIN heap', Cap', i')
  OBVIOUS
<1>5. Passed({})'
  BY <1>3, <1>4 DEF Passed
<1>6. (\E passed \in SUBSET DOMAIN heap : Passed(passed))'
  <2>1. {} \in SUBSET DOMAIN heap'
    OBVIOUS
  <2> QED
    BY <1>5, <2>1
<1>7. WhenFinding'
  BY <1>6 DEF WhenFinding, Index
<1> QED
  BY <1>7 DEF IInv, WhenClosed, WhenReady, WhenGrowing, WhenAtTail, WhenFreeing

LEMMA SettledFacts ==
  ASSUME Sane, Settled
  PROVE  /\ Cap \in Nat \ {0} /\ 0 \in DOMAIN nodes /\ DOMAIN nodes = 0 .. Cap - 1
         /\ size = Cardinality(DOMAIN heap) /\ size \in Nat /\ (3 * Cap) \div 4 \in Nat
         /\ \A row \in DOMAIN nodes :
              IsList(heap, InRow(heap, DOMAIN heap, Cap, row), nodes[row])
<1>1. Cap \in Nat \ {0} /\ DOMAIN nodes = 0 .. Cap - 1
  BY DEF Sane, TableOK, Cap
<1>2. \A row \in DOMAIN nodes : IsList(heap, InRow(heap, DOMAIN heap, Cap, row), nodes[row])
  <2>1. \A row \in DOMAIN nodes : row >= 0
    BY <1>1
  <2> QED
    BY <2>1 DEF Settled, Holds, Cap
<1> QED
  BY <1>1, <1>2 DEF Sane, Settled

LEMMA GrowthBegins ==
  ASSUME Sane, Settled, StartGrowing, result' = result,
         call' \in [op : {"put", "insert"}, key : Keys, value : Values]
  PROVE  IInv'
<1>1. /\ Cap \in Nat \ {0} /\ 0 \in DOMAIN nodes /\ DOMAIN nodes = 0 .. Cap - 1
      /\ size = Cardinality(DOMAIN heap) /\ size \in Nat
      /\ \A row \in DOMAIN nodes : IsList(heap, InRow(heap, DOMAIN heap, Cap, row), nodes[row])
  BY SettledFacts
<1>2. /\ old' = nodes /\ nodes' = NewTable(2 * Cap) /\ size' = 0 /\ heap' = heap
      /\ pc' = "grow" /\ i' = 0 /\ n' = nodes[0] /\ other' = NULL /\ tail' = NULL
  BY DEF StartGrowing, Locals
<1>3. /\ 2 * Cap \in Nat \ {0} /\ TableOK(nodes') /\ Cap' = 2 * Cap
  BY <1>1, <1>2, NewTableFacts DEF Cap
<1>4. Sane'
  BY <1>2, <1>3 DEF Sane
<1>5. size <= (3 * Cap) \div 4 => size + 1 <= (3 * (2 * Cap)) \div 4
  BY <1>1
<1>6. Growing'
  <2>1. TableOK(old')
    BY <1>2 DEF Sane
  <2>2. Cardinality(DOMAIN heap') + 1 <= (3 * Cap') \div 4
    BY <1>1, <1>2, <1>3, <1>5 DEF Settled
  <2> QED
    BY <1>1, <1>2, <2>1, <2>2 DEF Growing
<1>7. Moving({}, DOMAIN heap, n)'
  <2>1. Holds(heap, {}, nodes, 0)'
    BY <1>2, <1>3, NewTableIsEmpty
  <2>2. Holds(heap, DOMAIN heap, old, i + 1)'
    BY <1>1, <1>2 DEF Holds, Cap
  <2>3. IsList(heap, InRow(heap, DOMAIN heap, Cardinality(DOMAIN old), i), n)'
    BY <1>1, <1>2 DEF Cap
  <2>4. \A a \in DOMAIN heap : Hash[heap[a].key] % Cap >= 0
    <3> SUFFICES ASSUME NEW a \in DOMAIN heap PROVE Hash[heap[a].key] % Cap >= 0
      OBVIOUS
    <3>1. Index(heap[a].key) \in DOMAIN nodes
      BY NodeFacts
    <3> QED
      BY <1>1, <3>1 DEF Index
  <2> QED
    BY <1>2, <2>1, <2>2, <2>3, <2>4, FS_EmptySet DEF Moving, Cap
<1>8. (\E moved \in SUBSET DOMAIN heap : Moving(moved, DOMAIN heap \ moved, n))'
  <2>1. {} \in SUBSET DOMAIN heap' /\ DOMAIN heap' \ {} = DOMAIN heap'
    OBVIOUS
  <2> QED
    BY <1>7, <2>1
<1>9. WhenGrowing'
  BY <1>2, <1>6, <1>8 DEF WhenGrowing
<1> QED
  BY <1>2, <1>4, <1>9 DEF IInv, WhenClosed, WhenReady, WhenFinding, WhenAtTail, WhenFreeing

(* A walk that begins in a table that does not change.                      *)
LEMMA FindBegins ==
  ASSUME Sane, Settled, NEW key \in Keys, Find(key), result' = result,
         call' \in [op : Ops, key : {key}, value : Values],
         call'.op \in {"put", "insert"} => ~Full
  PROVE  IInv'
<1>1. /\ heap' = heap /\ nodes' = nodes /\ size' = size /\ old' = old /\ pc' = "find"
      /\ i' = Index(key) /\ n' = nodes[Index(key)] /\ other' = NULL /\ tail' = NULL
  BY DEF Find, Locals, table
<1>2. Index(key) \in Nat /\ Cap' = Cap
  BY <1>1, RowExists DEF Sane, Cap, Index
<1>3. Sane'
  BY <1>1, <1>2 DEF Sane
<1>4. Settled'
  BY <1>1, <1>2 DEF Settled
<1>5. call'.op \in {"put", "insert"} => size' + 1 <= (3 * Cap') \div 4
  <2>1. size \in Nat /\ (3 * Cap) \div 4 \in Nat
    BY SettledFacts
  <2> QED
    BY <1>1, <1>2, <2>1 DEF Full
<1> QED
  BY <1>1, <1>2, <1>3, <1>4, <1>5, WalkBegins DEF Index

LEMMA InvokeKeeps ==
  ASSUME IInv, Invoke
  PROVE  IInv'
<1> PICK op \in {"put", "get", "compute", "remove"}, k \in Keys, v \in Values :
      /\ call' = [op |-> op, key |-> k, value |-> v]
      /\ IF op = "put" /\ Full THEN StartGrowing ELSE Find(k)
  BY DEF Invoke
<1>1. Sane /\ Settled /\ result' = result
  BY DEF IInv, WhenReady, Invoke
<1>2. CASE op = "put" /\ Full
  <2>1. call' \in [op : {"put", "insert"}, key : Keys, value : Values]
    BY <1>2
  <2> QED
    BY <1>1, <1>2, <2>1, GrowthBegins
<1>3. CASE ~(op = "put" /\ Full)
  <2>1. call' \in [op : Ops, key : {k}, value : Values] /\ call'.op = op
    BY DEF Ops
  <2> QED
    BY <1>1, <1>3, <2>1, FindBegins
<1> QED
  BY <1>2, <1>3

LEMMA ComputeAbsentKeeps ==
  ASSUME IInv, ComputeAbsent
  PROVE  IInv'
<1>1. /\ Sane /\ Settled /\ result' = result
      /\ call \in [op : Ops, key : Keys, value : Values]
      /\ call' = [call EXCEPT !.op = "insert"]
  BY DEF IInv, WhenFinding, ComputeAbsent, Absent
<1>2. CASE Full
  <2>1. call' \in [op : {"put", "insert"}, key : Keys, value : Values]
    BY <1>1
  <2> QED
    BY <1>1, <1>2, <2>1, GrowthBegins DEF ComputeAbsent
<1>3. CASE ~Full
  <2>1. call.key \in Keys /\ call' \in [op : Ops, key : {call.key}, value : Values]
    BY <1>1 DEF Ops
  <2> QED
    BY <1>1, <1>3, <2>1, FindBegins DEF ComputeAbsent
<1> QED
  BY <1>2, <1>3
-----------------------------------------------------------------------------
(* Growth. *)

(* While it lasts every node has its rows in both tables.                   *)
LEMMA GrowingFacts ==
  ASSUME Sane, Growing
  PROVE  /\ Cap \in Nat \ {0} /\ DOMAIN nodes = 0 .. Cap - 1
         /\ Cardinality(DOMAIN old) \in Nat \ {0}
         /\ DOMAIN old = 0 .. Cardinality(DOMAIN old) - 1
         /\ i \in DOMAIN old /\ i \in Nat
         /\ \A a \in DOMAIN heap :
              /\ Hash[heap[a].key] % Cap \in DOMAIN nodes
              /\ Hash[heap[a].key] % Cardinality(DOMAIN old) \in DOMAIN old
         /\ NULL \notin DOMAIN heap
<1>1. /\ Cap \in Nat \ {0} /\ DOMAIN nodes = 0 .. Cap - 1
      /\ Cardinality(DOMAIN old) \in Nat \ {0}
      /\ DOMAIN old = 0 .. Cardinality(DOMAIN old) - 1
      /\ i \in DOMAIN old /\ i \in Nat
  BY DEF Sane, Growing, TableOK, Cap
<1>2. ASSUME NEW a \in DOMAIN heap
      PROVE  /\ Hash[heap[a].key] % Cap \in DOMAIN nodes
             /\ Hash[heap[a].key] % Cardinality(DOMAIN old) \in DOMAIN old
  BY NodeFacts, RowExists DEF Growing, Index
<1>3. NULL \notin DOMAIN heap
  BY NullAssumption DEF Sane
<1> QED
  BY <1>1, <1>2, <1>3

(* What is left of row i, and of the rows behind it, when its first node is *)
(* taken out.                                                               *)
LEMMA TakenOut ==
  ASSUME Sane, Growing, pc = "grow", n # NULL,
         NEW moved \in SUBSET DOMAIN heap, Moving(moved, DOMAIN heap \ moved, n),
         NEW h, h = [heap EXCEPT ![n].next = NULL]
  PROVE  /\ n \in DOMAIN heap /\ n \notin moved
         /\ DOMAIN h = DOMAIN heap
         /\ h[n] = [heap[n] EXCEPT !.next = NULL]
         /\ \A a \in DOMAIN heap : a # n => h[a] = heap[a]
         /\ \A a \in DOMAIN heap : h[a].key = heap[a].key /\ h[a].value = heap[a].value
         /\ h \in [DOMAIN heap -> [key : Keys, value : Values, next : Nat \cup {NULL}]]
         /\ Holds(h, moved, nodes, 0)
         /\ Holds(h, (DOMAIN heap \ moved) \ {n}, old, i + 1)
         /\ IsList(h, InRow(h, (DOMAIN heap \ moved) \ {n}, Cardinality(DOMAIN old), i), heap[n].next)
         /\ \A a \in (DOMAIN heap \ moved) \ {n} : Hash[h[a].key] % Cardinality(DOMAIN old) >= i
<1> DEFINE rest == DOMAIN heap \ moved
           left == rest \ {n}
           c    == Cardinality(DOMAIN old)
           row  == InRow(heap, rest, c, i)
<1>1. /\ IsList(heap, row, n) /\ NULL \notin row
      /\ Holds(heap, moved, nodes, 0) /\ Holds(heap, rest, old, i + 1)
      /\ \A a \in rest : Hash[heap[a].key] % c >= i
      /\ i \in Nat
  BY GrowingFacts DEF Moving, InRow
<1>2. n \in row
  BY <1>1, ListFacts
<1>3. n \in DOMAIN heap /\ n \notin moved /\ Hash[heap[n].key] % c = i
  BY <1>2 DEF InRow
<1>4. \A a \in DOMAIN heap : heap[a] \in [key : Keys, value : Values, next : Nat \cup {NULL}]
  BY DEF Sane
<1>5. /\ DOMAIN h = DOMAIN heap
      /\ h[n] = [heap[n] EXCEPT !.next = NULL]
      /\ \A a \in DOMAIN heap : a # n => h[a] = heap[a]
  BY <1>3 DEF Sane
<1>6. \A a \in DOMAIN heap : /\ h[a] \in [key : Keys, value : Values, next : Nat \cup {NULL}]
                             /\ h[a].key = heap[a].key /\ h[a].value = heap[a].value
  BY <1>3, <1>4, <1>5
<1>7. h \in [DOMAIN heap -> [key : Keys, value : Values, next : Nat \cup {NULL}]]
  BY <1>6 DEF Sane
<1>8. Holds(h, moved, nodes, 0)
  BY <1>1, <1>3, <1>5, <1>6, HoldsFrame
<1>9. Holds(h, left, old, i + 1)
  <2>1. ~(i >= i + 1)
    BY <1>1
  <2>2. SameElsewhere(heap, rest, h, left, c, i)
    BY <1>3, <1>5 DEF SameElsewhere
  <2> HIDE DEF left, rest
  <2> QED
    BY <1>1, <2>1, <2>2, OneRowChanges
<1>10. IsList(h, InRow(h, left, c, i), heap[n].next)
  <2>1. IsList(heap, row \ {n}, heap[n].next)
    BY <1>1, ListWithoutHead
  <2>2. InRow(h, left, c, i) = row \ {n}
    BY <1>6 DEF InRow
  <2>3. \A a \in row \ {n} : h[a].next = heap[a].next
    BY <1>5 DEF InRow
  <2> QED
    BY <2>1, <2>2, <2>3, ListFrame
<1>11. \A a \in left : Hash[h[a].key] % c >= i
  BY <1>1, <1>6
<1> QED
  BY <1>3, <1>5, <1>6, <1>7, <1>8, <1>9, <1>10, <1>11

LEMMA RelinkKeeps ==
  ASSUME IInv, Relink
  PROVE  IInv'
<1>1. Sane /\ Growing /\ pc = "grow" /\ n # NULL /\ other = NULL /\ tail = NULL
  BY DEF IInv, WhenGrowing, Relink
<1> PICK moved \in SUBSET DOMAIN heap : Moving(moved, DOMAIN heap \ moved, n)
  BY <1>1 DEF IInv, WhenGrowing
<1> DEFINE left == (DOMAIN heap \ moved) \ {n}
           c    == Cardinality(DOMAIN old)
           r    == Index(heap[n].key)
<1>2. /\ heap' = [heap EXCEPT ![n].next = NULL]
      /\ old' = old /\ call' = call /\ i' = i /\ result' = result
  BY DEF Relink
<1>3. /\ n \in DOMAIN heap /\ n \notin moved
      /\ DOMAIN heap' = DOMAIN heap
      /\ heap'[n] = [heap[n] EXCEPT !.next = NULL]
      /\ \A a \in DOMAIN heap : a # n => heap'[a] = heap[a]
      /\ \A a \in DOMAIN heap : heap'[a].key = heap[a].key
      /\ heap' \in [DOMAIN heap -> [key : Keys, value : Values, next : Nat \cup {NULL}]]
      /\ Holds(heap', moved, nodes, 0)
      /\ Holds(heap', left, old, i + 1)
      /\ IsList(heap', InRow(heap', left, c, i), heap[n].next)
      /\ \A a \in left : Hash[heap'[a].key] % c >= i
  BY <1>1, <1>2, TakenOut
<1>4. /\ r \in DOMAIN nodes /\ r \in 0 .. Cap - 1 /\ Cap \in Nat
      /\ i \in Nat /\ n \in Nat /\ NULL \notin Nat
      /\ TableOK(old) /\ TableOK(nodes) /\ IsFiniteSet(DOMAIN heap)
      /\ size \in Nat /\ size = Cardinality(moved)
  BY <1>1, <1>3, GrowingFacts, NodeFacts, NullAssumption DEF Growing, Moving, Sane
<1>5. \A a, b \in DOMAIN heap' : heap'[a].key = heap'[b].key => a = b
  BY <1>1, <1>3 DEF Sane
<1>6. heap'[n].next = NULL /\ heap'[n].key = heap[n].key
  BY <1>1, <1>3 DEF Sane
<1>7. CASE nodes[r] = NULL
  <2> PICK more : more = moved \cup {n}
    OBVIOUS
  <2>1. /\ nodes' = [nodes EXCEPT ![r] = n] /\ size' = size + 1 /\ n' = heap[n].next
        /\ pc' = "grow" /\ other' = NULL /\ tail' = NULL
    BY <1>1, <1>7 DEF Relink
  <2>2. DOMAIN nodes' = DOMAIN nodes /\ nodes'[r] = n /\ Cap' = Cap
    BY <1>4, <2>1 DEF Cap
  <2>3. Sane'
    BY <1>1, <1>2, <1>3, <1>4, <1>5, <2>1, <2>2 DEF Sane, TableOK
  <2>4. InRow(heap', moved, Cap, r) = {}
    <3>1. IsList(heap', InRow(heap', moved, Cap, r), nodes[r])
      BY <1>3, <1>4 DEF Holds, Cap
    <3>2. NULL \notin InRow(heap', moved, Cap, r)
      BY <1>1, GrowingFacts DEF InRow
    <3> QED
      BY <1>7, <3>1, <3>2, ListFacts
  <2>5. InRow(heap', more, Cap, r) = {n}
    BY <1>6, <2>4 DEF InRow, Index
  <2>6. IsList(heap', InRow(heap', more, Cap, r), nodes'[r])
    BY <1>4, <1>6, <2>2, <2>5, ListOfOne
  <2>7. Holds(heap', more, nodes', 0)
    <3>1. SameElsewhere(heap', moved, heap', more, Cardinality(DOMAIN nodes), r)
      BY <1>6 DEF SameElsewhere, Index, Cap
    <3>2. \A row \in DOMAIN nodes : row # r => nodes'[row] = nodes[row]
      BY <2>1
    <3> HIDE DEF r
    <3> QED
      BY <1>3, <2>2, <2>6, <3>1, <3>2, OneRowChanges DEF Cap
  <2>8. more \in SUBSET DOMAIN heap' /\ DOMAIN heap' \ more = left
    BY <1>3
  <2>9. size' = Cardinality(more)
    <3>1. IsFiniteSet(moved)
      BY <1>4, FS_Subset
    <3> QED
      BY <1>3, <1>4, <2>1, <3>1, FS_AddElement
  <2>10. Moving(more, DOMAIN heap \ more, n)'
    BY <1>2, <1>3, <2>1, <2>7, <2>8, <2>9 DEF Moving
  <2>11. (\E x \in SUBSET DOMAIN heap : Moving(x, DOMAIN heap \ x, n))'
    BY <2>8, <2>10
  <2>12. Growing'
    BY <1>1, <1>2, <1>3, <2>2 DEF Growing
  <2>13. WhenGrowing'
    BY <2>1, <2>11, <2>12 DEF WhenGrowing
  <2> QED
    BY <2>1, <2>3, <2>13 DEF IInv, WhenClosed, WhenReady, WhenFinding, WhenAtTail, WhenFreeing
<1>8. CASE nodes[r] # NULL
  <2>1. /\ nodes' = nodes /\ size' = size /\ n' = n
        /\ pc' = "tail" /\ other' = heap[n].next /\ tail' = nodes[r] /\ Cap' = Cap
    BY <1>8 DEF Relink, Cap
  <2>2. Sane'
    BY <1>1, <1>2, <1>3, <1>4, <1>5, <2>1 DEF Sane
  <2>3. Moving(moved, (DOMAIN heap \ moved) \ {n}, other)'
    BY <1>2, <1>3, <1>4, <2>1 DEF Moving
  <2>4. tail' \in InRow(heap', moved, Cap, r)
    <3>1. IsList(heap', InRow(heap', moved, Cap, r), nodes[r])
      BY <1>3, <1>4 DEF Holds, Cap
    <3>2. NULL \notin InRow(heap', moved, Cap, r)
      BY <1>1, GrowingFacts DEF InRow
    <3> QED
      BY <1>8, <2>1, <3>1, <3>2, ListFacts
  <2>5. InHand(moved)'
    BY <1>3, <1>6, <2>1, <2>3, <2>4 DEF InHand, Index
  <2>6. (\E x \in SUBSET DOMAIN heap : InHand(x))'
    BY <1>3, <2>5
  <2>7. Growing'
    BY <1>1, <1>2, <1>3, <2>1 DEF Growing
  <2>8. WhenAtTail'
    BY <1>3, <1>6, <2>1, <2>6, <2>7 DEF WhenAtTail
  <2> QED
    BY <2>1, <2>2, <2>8 DEF IInv, WhenClosed, WhenReady, WhenFinding, WhenGrowing, WhenFreeing
<1> QED
  BY <1>7, <1>8

LEMMA FollowTailKeeps ==
  ASSUME IInv, FollowTail
  PROVE  IInv'
<1>1. Sane /\ Growing /\ n \in DOMAIN heap /\ heap[n].next = NULL /\ pc = "tail" /\ pc' = "tail"
  BY DEF IInv, WhenAtTail, FollowTail
<1>2. /\ heap' = heap /\ nodes' = nodes /\ size' = size /\ old' = old /\ call' = call
      /\ i' = i /\ n' = n /\ other' = other /\ result' = result
      /\ tail' = heap[tail].next /\ heap[tail].next # NULL
  BY DEF FollowTail, table
<1> PICK moved \in SUBSET DOMAIN heap : InHand(moved)
  BY <1>1 DEF IInv, WhenAtTail
<1> DEFINE r == Index(heap[n].key)
<1>3. r \in DOMAIN nodes /\ r >= 0
  BY <1>1, NodeFacts, GrowingFacts
<1>4. IsList(heap, InRow(heap, moved, Cap, r), nodes[r])
  BY <1>3 DEF InHand, Moving, Holds, Cap
<1>5. NULL \notin InRow(heap, moved, Cap, r)
  BY <1>1, GrowingFacts DEF InRow
<1>6. tail' \in InRow(heap, moved, Cap, r)
  BY <1>2, <1>4, <1>5, ListFacts DEF InHand
<1>7. InHand(moved)'
  BY <1>1, <1>2, <1>6 DEF InHand, Moving, Cap, Index
<1>8. WhenAtTail'
  BY <1>1, <1>2, <1>7 DEF WhenAtTail, Growing, Cap
<1>9. Sane'
  BY <1>1, <1>2 DEF Sane
<1> QED
  BY <1>1, <1>8, <1>9 DEF IInv, WhenClosed, WhenReady, WhenFinding, WhenGrowing, WhenFreeing

LEMMA AppendToTailKeeps ==
  ASSUME IInv, AppendToTail
  PROVE  IInv'
<1>1. /\ Sane /\ Growing /\ n \in DOMAIN heap /\ heap[n].next = NULL
      /\ pc = "tail" /\ pc' = "grow" /\ heap[tail].next = NULL
  BY DEF IInv, WhenAtTail, AppendToTail
<1>2. /\ heap' = [heap EXCEPT ![tail].next = n] /\ size' = size + 1
      /\ n' = other /\ other' = NULL /\ tail' = NULL
      /\ nodes' = nodes /\ old' = old /\ call' = call /\ i' = i /\ result' = result
      /\ Cap' = Cap
  BY DEF AppendToTail, Cap
<1> PICK moved \in SUBSET DOMAIN heap : InHand(moved)
  BY <1>1 DEF IInv, WhenAtTail
<1> DEFINE r    == Index(heap[n].key)
           left == (DOMAIN heap \ moved) \ {n}
           c    == Cardinality(DOMAIN old)
<1> PICK more : more = moved \cup {n}
  OBVIOUS
<1>3. /\ n \notin moved /\ tail \in InRow(heap, moved, Cap, r)
      /\ Holds(heap, moved, nodes, 0) /\ Holds(heap, left, old, i + 1)
      /\ IsList(heap, InRow(heap, left, c, i), other)
      /\ \A a \in left : Hash[heap[a].key] % c >= i
      /\ size = Cardinality(moved)
  BY DEF InHand, Moving
<1>4. /\ r \in DOMAIN nodes /\ r >= 0 /\ NULL \notin DOMAIN heap
      /\ tail \in moved /\ tail # n /\ Hash[heap[tail].key] % Cap = r
      /\ n \in Nat /\ IsFiniteSet(moved)
  BY <1>1, <1>3, NodeFacts, GrowingFacts, FS_Subset DEF InRow, Sane
<1>5. /\ DOMAIN heap' = DOMAIN heap
      /\ heap'[tail] = [heap[tail] EXCEPT !.next = n]
      /\ \A a \in DOMAIN heap : a # tail => heap'[a] = heap[a]
  BY <1>1, <1>2, <1>4 DEF Sane
<1>6. \A a \in DOMAIN heap : /\ heap'[a] \in [key : Keys, value : Values, next : Nat \cup {NULL}]
                             /\ heap'[a].key = heap[a].key
  <2>1. \A a \in DOMAIN heap : heap[a] \in [key : Keys, value : Values, next : Nat \cup {NULL}]
    BY <1>1 DEF Sane
  <2> QED
    BY <1>4, <1>5, <2>1
<1>7. Sane'
  <2>1. heap' \in [DOMAIN heap' -> [key : Keys, value : Values, next : Nat \cup {NULL}]]
    BY <1>1, <1>2, <1>5, <1>6 DEF Sane
  <2> QED
    BY <1>1, <1>2, <1>5, <1>6, <2>1 DEF Sane
<1>8. IsList(heap', InRow(heap', more, Cap, r), nodes[r])
  <2>1. IsList(heap, InRow(heap, moved, Cap, r), nodes[r])
    BY <1>3, <1>4 DEF Holds, Cap
  <2>2. InRow(heap', more, Cap, r) = InRow(heap, moved, Cap, r) \cup {n}
    BY <1>1, <1>6 DEF InRow, Index
  <2>3. /\ NULL \notin InRow(heap, moved, Cap, r) /\ n \notin InRow(heap, moved, Cap, r)
        /\ n # NULL
    BY <1>1, <1>3, <1>4 DEF InRow
  <2>4. heap'[tail].next = n /\ heap'[n].next = NULL
    <3>1. heap[tail] \in [key : Keys, value : Values, next : Nat \cup {NULL}]
      BY <1>1, <1>4 DEF Sane
    <3> QED
      BY <1>1, <1>4, <1>5, <3>1
  <2>5. \A a \in InRow(heap, moved, Cap, r) \ {tail} : heap'[a].next = heap[a].next
    BY <1>5 DEF InRow
  <2> HIDE DEF r
  <2>6. IsList(heap', InRow(heap, moved, Cap, r) \cup {n}, nodes[r])
    BY <1>1, <1>3, <2>1, <2>3, <2>4, <2>5, ListWithLast
  <2> QED
    BY <2>2, <2>6
<1>9. Holds(heap', more, nodes', 0)
  <2>1. SameElsewhere(heap, moved, heap', more, Cardinality(DOMAIN nodes), r)
    BY <1>1, <1>4, <1>5, <1>6 DEF SameElsewhere, Index, Cap
  <2> HIDE DEF r
  <2> QED
    BY <1>2, <1>3, <1>8, <2>1, OneRowChanges DEF Cap
<1>10. /\ Holds(heap', left, old, i + 1)
       /\ IsList(heap', InRow(heap', left, c, i), other)
       /\ \A a \in left : Hash[heap'[a].key] % c >= i
  <2>1. \A a \in left : heap'[a] = heap[a]
    BY <1>4, <1>5
  <2>2. InRow(heap', left, c, i) = InRow(heap, left, c, i)
    BY <2>1 DEF InRow
  <2>3. \A a \in InRow(heap, left, c, i) : heap'[a].next = heap[a].next
    BY <2>1 DEF InRow
  <2> HIDE DEF left, c
  <2> QED
    BY <1>3, <2>1, <2>2, <2>3, HoldsFrame, ListFrame
<1>11. size' = Cardinality(more)
  BY <1>2, <1>3, <1>4, FS_AddElement
<1>12. more \in SUBSET DOMAIN heap' /\ DOMAIN heap' \ more = left
  BY <1>1, <1>5
<1>13. Moving(more, DOMAIN heap \ more, n)'
  BY <1>2, <1>9, <1>10, <1>11, <1>12 DEF Moving
<1>14. (\E x \in SUBSET DOMAIN heap : Moving(x, DOMAIN heap \ x, n))'
  BY <1>12, <1>13
<1>15. WhenGrowing'
  BY <1>1, <1>2, <1>5, <1>14 DEF WhenGrowing, Growing
<1> QED
  BY <1>1, <1>7, <1>15 DEF IInv, WhenClosed, WhenReady, WhenFinding, WhenAtTail, WhenFreeing

(* The row that is done has no nodes left.                                  *)
LEMMA RowIsDone ==
  ASSUME Sane, Growing, n = NULL,
         NEW rest \in SUBSET DOMAIN heap,
         IsList(heap, InRow(heap, rest, Cardinality(DOMAIN old), i), n),
         \A a \in rest : Hash[heap[a].key] % Cardinality(DOMAIN old) >= i
  PROVE  \A a \in rest : Hash[heap[a].key] % Cardinality(DOMAIN old) >= i + 1
<1> DEFINE c == Cardinality(DOMAIN old)
<1>1. InRow(heap, rest, c, i) = {}
  <2>1. NULL \notin InRow(heap, rest, c, i)
    BY GrowingFacts DEF InRow
  <2> QED
    BY <2>1, ListFacts
<1> SUFFICES ASSUME NEW a \in rest PROVE Hash[heap[a].key] % c >= i + 1
  OBVIOUS
<1>2. Hash[heap[a].key] % c # i
  BY <1>1 DEF InRow
<1>3. Hash[heap[a].key] % c \in Nat /\ i \in Nat
  BY GrowingFacts
<1> QED
  BY <1>2, <1>3

LEMMA NextRowKeeps ==
  ASSUME IInv, NextRow
  PROVE  IInv'
<1>1. Sane /\ Growing /\ pc = "grow" /\ pc' = "grow" /\ n = NULL /\ i + 1 \in DOMAIN old
  BY DEF IInv, WhenGrowing, NextRow
<1>2. /\ heap' = heap /\ nodes' = nodes /\ size' = size /\ old' = old /\ call' = call
      /\ result' = result /\ i' = i + 1 /\ n' = old[i + 1] /\ other' = NULL /\ tail' = NULL
  BY <1>1 DEF NextRow, Locals, table
<1> PICK moved \in SUBSET DOMAIN heap : Moving(moved, DOMAIN heap \ moved, n)
  BY <1>1 DEF IInv, WhenGrowing
<1> DEFINE rest == DOMAIN heap \ moved
           c    == Cardinality(DOMAIN old)
<1>3. \A a \in rest : Hash[heap[a].key] % c >= i + 1
  BY <1>1, RowIsDone DEF Moving
<1>4. i \in Nat
  BY <1>1 DEF Sane
<1>5. IsList(heap, InRow(heap, rest, c, i + 1), old[i + 1])
  <2>1. Holds(heap, rest, old, i + 1) /\ i + 1 >= i + 1
    BY <1>4 DEF Moving
  <2> HIDE DEF rest
  <2> QED
    BY <1>1, <2>1 DEF Holds
<1>6. Holds(heap, rest, old, (i + 1) + 1)
  <2>1. \A row \in DOMAIN old : row >= (i + 1) + 1 => row >= i + 1
    BY <1>1, <1>4, GrowingFacts
  <2> QED
    BY <2>1 DEF Moving, Holds
<1>7. Moving(moved, DOMAIN heap \ moved, n)'
  BY <1>2, <1>3, <1>5, <1>6 DEF Moving
<1>8. Growing'
  BY <1>1, <1>2 DEF Growing, Cap
<1>9. WhenGrowing'
  <2>1. (\E x \in SUBSET DOMAIN heap : Moving(x, DOMAIN heap \ x, n))'
    BY <1>2, <1>7
  <2> QED
    BY <1>2, <1>8, <2>1 DEF WhenGrowing
<1>10. Sane'
  BY <1>1, <1>2, <1>4 DEF Sane
<1> QED
  BY <1>1, <1>9, <1>10 DEF IInv, WhenClosed, WhenReady, WhenFinding, WhenAtTail, WhenFreeing

LEMMA StopGrowingKeeps ==
  ASSUME IInv, StopGrowing
  PROVE  IInv'
<1>1. Sane /\ Growing /\ pc = "grow" /\ pc' = "find" /\ n = NULL /\ i + 1 \notin DOMAIN old
  BY DEF IInv, WhenGrowing, StopGrowing
<1>2. /\ heap' = heap /\ nodes' = nodes /\ size' = size /\ old' = <<>> /\ call' = call
      /\ result' = result /\ i' = Index(call.key) /\ n' = nodes[Index(call.key)]
      /\ other' = NULL /\ tail' = NULL /\ Cap' = Cap
  BY DEF StopGrowing, Locals, table, Cap
<1> PICK moved \in SUBSET DOMAIN heap : Moving(moved, DOMAIN heap \ moved, n)
  BY <1>1 DEF IInv, WhenGrowing
<1> DEFINE rest == DOMAIN heap \ moved
           c    == Cardinality(DOMAIN old)
<1>3. \A a \in rest : Hash[heap[a].key] % c >= i + 1
  BY <1>1, RowIsDone DEF Moving
<1>4. moved = DOMAIN heap
  <2> SUFFICES ASSUME NEW a \in rest PROVE FALSE
    OBVIOUS
  <2>1. /\ c \in Nat \ {0} /\ DOMAIN old = 0 .. c - 1 /\ i \in 0 .. c - 1
        /\ Hash[heap[a].key] % c \in 0 .. c - 1
    BY <1>1, GrowingFacts
  <2>2. i + 1 \notin 0 .. c - 1
    BY <1>1, <2>1
  <2>3. Hash[heap[a].key] % c >= i + 1
    BY <1>3
  <2> HIDE DEF c, rest
  <2> QED
    BY <2>1, <2>2, <2>3
<1>5. /\ call \in [op : {"put", "insert"}, key : Keys, value : Values]
      /\ Cap \in Nat \ {0} /\ (3 * Cap) \div 4 \in Nat
      /\ size = Cardinality(DOMAIN heap) /\ size \in Nat
      /\ size + 1 <= (3 * Cap) \div 4
  BY <1>1, <1>4, GrowingFacts DEF Growing, Moving, Sane
<1>6. Settled'
  BY <1>2, <1>4, <1>5 DEF Settled, Moving
<1>7. Index(call.key) \in Nat
  BY <1>1, <1>5, RowExists DEF Sane, Index, Cap
<1>8. Sane'
  BY <1>1, <1>2, <1>7 DEF Sane
<1>9. call' \in [op : Ops, key : Keys, value : Values]
  BY <1>2, <1>5 DEF Ops
<1> QED
  BY <1>1, <1>2, <1>5, <1>6, <1>8, <1>9, WalkBegins DEF Index
-----------------------------------------------------------------------------
(* The walk, and what a call does at its end. *)

LEMMA FindingFacts ==
  ASSUME IInv, pc = "find"
  PROVE  /\ Sane /\ Settled
         /\ call \in [op : Ops, key : Keys, value : Values]
         /\ call.key \in Keys /\ call.value \in Values /\ i = Index(call.key)
         /\ i \in DOMAIN nodes /\ NULL \notin DOMAIN heap
         /\ IsList(heap, InRow(heap, DOMAIN heap, Cap, i), nodes[i])
         /\ n # NULL => n \in InRow(heap, DOMAIN heap, Cap, i)
         /\ n = NULL => \A a \in DOMAIN heap : heap[a].key # call.key
<1> DEFINE row == InRow(heap, DOMAIN heap, Cap, i)
<1>1. /\ Sane /\ Settled
      /\ call \in [op : Ops, key : Keys, value : Values]
      /\ i = Index(call.key)
  BY DEF IInv, WhenFinding
<1>2. call.key \in Keys /\ call.value \in Values
  BY <1>1
<1>3. i \in DOMAIN nodes /\ NULL \notin DOMAIN heap
  BY <1>1, <1>2, RowExists, NullAssumption DEF Sane, Index, Cap
<1>4. IsList(heap, row, nodes[i])
  BY <1>1, <1>3, SettledFacts
<1> PICK passed \in SUBSET DOMAIN heap : Passed(passed)
  BY DEF IInv, WhenFinding
<1>5. NULL \notin row \ passed /\ IsList(heap, row \ passed, n)
  BY <1>3 DEF Passed, InRow
<1>6. n # NULL => n \in row
  BY <1>5, ListFacts
<1>7. ASSUME n = NULL, NEW a \in DOMAIN heap, heap[a].key = call.key
      PROVE  FALSE
  <2>1. row \ passed = {}
    BY <1>5, <1>7, ListFacts
  <2>2. a \in row
    BY <1>1, <1>7 DEF InRow, Index
  <2> QED
    BY <1>7, <2>1, <2>2 DEF Passed
<1> QED
  BY <1>1, <1>2, <1>3, <1>4, <1>6, <1>7

LEMMA WalkKeeps ==
  ASSUME IInv, Walk
  PROVE  IInv'
<1>1. /\ pc = "find" /\ pc' = "find" /\ n # NULL /\ heap[n].key # call.key
      /\ heap' = heap /\ nodes' = nodes /\ size' = size /\ old' = old /\ call' = call
      /\ i' = i /\ tail' = tail /\ result' = result
      /\ other' = n /\ n' = heap[n].next /\ Cap' = Cap
  BY DEF Walk, table, Cap
<1> DEFINE row == InRow(heap, DOMAIN heap, Cap, i)
<1>2. /\ Sane /\ Settled /\ NULL \notin DOMAIN heap /\ n \in row /\ n \in DOMAIN heap
  BY <1>1, FindingFacts DEF InRow
<1> PICK passed \in SUBSET DOMAIN heap : Passed(passed)
  BY <1>1 DEF IInv, WhenFinding
<1> PICK more : more = passed \cup {n}
  OBVIOUS
<1>3. IsList(heap, row \ more, heap[n].next)
  <2>1. IsList(heap, row \ passed, n) /\ NULL \notin row \ passed
    BY <1>2 DEF Passed, InRow
  <2>2. (row \ passed) \ {n} = row \ more
    OBVIOUS
  <2> QED
    BY <1>1, <2>1, <2>2, ListWithoutHead
<1>4. Passed(more)'
  BY <1>1, <1>3 DEF Passed
<1>5. (\E x \in SUBSET DOMAIN heap : Passed(x))'
  BY <1>1, <1>2, <1>4
<1>6. Sane' /\ Settled'
  BY <1>1, <1>2 DEF Sane, Settled
<1>7. WhenFinding'
  BY <1>1, <1>2, <1>5, <1>6 DEF IInv, WhenFinding, Index
<1> QED
  BY <1>1, <1>6, <1>7 DEF IInv, WhenClosed, WhenReady, WhenGrowing, WhenAtTail, WhenFreeing

(* What a call leaves behind when it returns.                               *)
LEMMA ReturnKeeps ==
  ASSUME Sane', Settled', pc' = "ready", call' = Idle, NoLocals'
  PROVE  IInv'
BY DEF IInv, WhenClosed, WhenReady, WhenFinding, WhenGrowing, WhenAtTail, WhenFreeing

LEMMA ReturnFacts ==
  ASSUME NEW value, Return(value)
  PROVE  result' = value /\ pc' = "ready" /\ call' = Idle /\ NoLocals' /\ i' = 0
BY DEF Return, Locals, NoLocals

LEMMA GetFoundKeeps ==
  ASSUME IInv, GetFound
  PROVE  IInv'
<1>1. pc = "find" /\ n # NULL /\ Return(heap[n].value)
      /\ heap' = heap /\ nodes' = nodes /\ size' = size /\ old' = old
  BY DEF GetFound, Found, table
<1>2. Sane /\ Settled /\ n \in DOMAIN heap
  BY <1>1, FindingFacts DEF InRow
<1>3. Sane'
  BY <1>1, <1>2, ReturnFacts, NodeFacts DEF Sane
<1>4. Settled'
  BY <1>1, <1>2 DEF Settled, Cap
<1> QED
  BY <1>1, <1>3, <1>4, ReturnKeeps, ReturnFacts

LEMMA NothingFoundKeeps ==
  ASSUME IInv, NothingFound
  PROVE  IInv'
<1>1. pc = "find" /\ Return(Zero)
      /\ heap' = heap /\ nodes' = nodes /\ size' = size /\ old' = old
  BY DEF NothingFound, Absent, table
<1>2. Sane /\ Settled
  BY <1>1, FindingFacts
<1>3. Sane'
  BY <1>1, <1>2, ReturnFacts, ValuesAssumption DEF Sane
<1>4. Settled'
  BY <1>1, <1>2 DEF Settled, Cap
<1> QED
  BY <1>1, <1>3, <1>4, ReturnKeeps, ReturnFacts

LEMMA PutFoundKeeps ==
  ASSUME IInv, PutFound
  PROVE  IInv'
<1>1. /\ pc = "find" /\ n # NULL /\ Return(heap[n].value)
      /\ heap' = [heap EXCEPT ![n].value = call.value]
      /\ nodes' = nodes /\ size' = size /\ old' = old
  BY DEF PutFound, Found
<1>2. Sane /\ Settled /\ n \in DOMAIN heap /\ call.value \in Values
  BY <1>1, FindingFacts DEF InRow
<1>3. \A a \in DOMAIN heap : heap[a] \in [key : Keys, value : Values, next : Nat \cup {NULL}]
  BY <1>2 DEF Sane
<1>4. /\ DOMAIN heap' = DOMAIN heap
      /\ \A a \in DOMAIN heap :
           /\ heap'[a] \in [key : Keys, value : Values, next : Nat \cup {NULL}]
           /\ heap'[a].key = heap[a].key /\ heap'[a].next = heap[a].next
  BY <1>1, <1>2, <1>3 DEF Sane
<1>5. heap' \in [DOMAIN heap' -> [key : Keys, value : Values, next : Nat \cup {NULL}]]
  BY <1>1, <1>2, <1>4 DEF Sane
<1>6. Sane'
  BY <1>1, <1>2, <1>4, <1>5, ReturnFacts, NodeFacts DEF Sane
<1>7. Holds(heap', DOMAIN heap', nodes', 0)
  BY <1>1, <1>2, <1>4, HoldsFrame DEF Settled
<1>8. Settled'
  BY <1>1, <1>2, <1>4, <1>7 DEF Settled, Cap
<1> QED
  BY <1>1, <1>6, <1>8, ReturnKeeps, ReturnFacts

(* A heap without a node that was in the table.                             *)
LEMMA ForgetFacts ==
  ASSUME Sane, NEW x \in DOMAIN heap
  PROVE  /\ DOMAIN Forget(x) = DOMAIN heap \ {x}
         /\ \A a \in DOMAIN heap \ {x} : Forget(x)[a] = heap[a]
         /\ Forget(x) \in [DOMAIN heap \ {x} -> [key : Keys, value : Values, next : Nat \cup {NULL}]]
         /\ IsFiniteSet(DOMAIN heap \ {x})
         /\ Cardinality(DOMAIN heap \ {x}) = Cardinality(DOMAIN heap) - 1
         /\ Cardinality(DOMAIN heap) \in Nat \ {0}
<1>1. /\ DOMAIN Forget(x) = DOMAIN heap \ {x}
      /\ \A a \in DOMAIN heap \ {x} : Forget(x)[a] = heap[a]
  BY DEF Forget
<1>2. \A a \in DOMAIN heap : heap[a] \in [key : Keys, value : Values, next : Nat \cup {NULL}]
  BY DEF Sane
<1>3. Forget(x) \in [DOMAIN heap \ {x} -> [key : Keys, value : Values, next : Nat \cup {NULL}]]
  BY <1>2 DEF Forget
<1>4. /\ IsFiniteSet(DOMAIN heap \ {x})
      /\ Cardinality(DOMAIN heap \ {x}) = Cardinality(DOMAIN heap) - 1
      /\ Cardinality(DOMAIN heap) \in Nat
  BY FS_RemoveElement, FS_CardinalityType DEF Sane
<1>5. Cardinality(DOMAIN heap) # 0
  BY FS_EmptySet DEF Sane
<1> QED
  BY <1>1, <1>3, <1>4, <1>5

LEMMA RemoveFoundKeeps ==
  ASSUME IInv, RemoveFound
  PROVE  IInv'
<1>1. /\ pc = "find" /\ n # NULL /\ Return(heap[n].value)
      /\ size' = size - 1 /\ old' = old
  BY DEF RemoveFound, Found
<1> DEFINE row == InRow(heap, DOMAIN heap, Cap, i)
<1>2. /\ Sane /\ Settled /\ NULL \notin DOMAIN heap
      /\ i \in DOMAIN nodes /\ n \in row /\ n \in DOMAIN heap
      /\ IsList(heap, row, nodes[i])
      /\ result' \in Values
      /\ Cap \in Nat \ {0}
  BY <1>1, FindingFacts, ReturnFacts, NodeFacts DEF InRow
<1> PICK kept : kept = DOMAIN heap \ {n}
  OBVIOUS
<1>3. /\ DOMAIN Forget(n) = kept
      /\ \A a \in kept : Forget(n)[a] = heap[a]
      /\ Forget(n) \in [kept -> [key : Keys, value : Values, next : Nat \cup {NULL}]]
      /\ IsFiniteSet(kept)
      /\ Cardinality(kept) = size - 1 /\ size - 1 \in Nat
      /\ \A a \in kept : a \in Nat
  <2>1. /\ size = Cardinality(DOMAIN heap) /\ Cardinality(DOMAIN heap) \in Nat \ {0}
        /\ \A a \in kept : a \in Nat
    BY <1>2, ForgetFacts DEF Settled, Sane
  <2>2. /\ DOMAIN Forget(n) = kept
        /\ \A a \in kept : Forget(n)[a] = heap[a]
        /\ Forget(n) \in [kept -> [key : Keys, value : Values, next : Nat \cup {NULL}]]
        /\ IsFiniteSet(kept)
        /\ Cardinality(kept) = Cardinality(DOMAIN heap) - 1
    BY <1>2, ForgetFacts
  <2> QED
    BY <2>1, <2>2
<1>4. /\ DOMAIN heap' = kept
      /\ \A a \in kept : /\ heap'[a] \in [key : Keys, value : Values, next : Nat \cup {NULL}]
                         /\ heap'[a].key = heap[a].key
      /\ \A a \in kept : other # a => heap'[a].next = heap[a].next
      /\ DOMAIN nodes' = DOMAIN nodes
      /\ \A r \in DOMAIN nodes : r # i => nodes'[r] = nodes[r]
      /\ IsList(heap', row \ {n}, nodes'[i])
      /\ other # NULL => other \in row
  <2>1. CASE other = NULL
    <3>1. n = nodes[i] /\ heap' = Forget(n) /\ nodes' = [nodes EXCEPT ![i] = heap[n].next]
      BY <1>1, <2>1 DEF IInv, WhenFinding, RemoveFound
    <3>2. IsList(heap, row \ {n}, heap[n].next)
      <4>1. NULL \notin row
        BY <1>2 DEF InRow
      <4> QED
        BY <1>1, <1>2, <3>1, <4>1, ListWithoutHead
    <3>3. \A a \in row \ {n} : heap'[a].next = heap[a].next
      BY <1>3, <3>1 DEF InRow
    <3>4. IsList(heap', row \ {n}, heap[n].next)
      BY <3>2, <3>3, ListFrame
    <3>5. nodes'[i] = heap[n].next
      BY <1>2, <3>1
    <3>6. \A a \in kept : heap'[a] \in [key : Keys, value : Values, next : Nat \cup {NULL}]
      BY <1>3, <3>1
    <3> QED
      BY <1>3, <2>1, <3>1, <3>4, <3>5, <3>6
  <2>2. CASE other # NULL
    <3>1. /\ other \in row /\ heap[other].next = n
          /\ heap' = [Forget(n) EXCEPT ![other].next = heap[n].next] /\ nodes' = nodes
      BY <1>1, <2>2 DEF IInv, WhenFinding, RemoveFound
    <3>2. NULL \notin row /\ other \in DOMAIN heap
      BY <1>2, <3>1 DEF InRow
    <3>3. other # n /\ other \in kept
      BY <1>2, <3>1, <3>2, ListFacts
    <3>4. /\ DOMAIN heap' = kept
          /\ heap'[other] = [heap[other] EXCEPT !.next = heap[n].next]
          /\ \A a \in kept : a # other => heap'[a] = heap[a]
      BY <1>3, <3>1, <3>3
    <3>5. \A a \in DOMAIN heap : heap[a] \in [key : Keys, value : Values, next : Nat \cup {NULL}]
      BY <1>2 DEF Sane
    <3>6. \A a \in kept : /\ heap'[a] \in [key : Keys, value : Values, next : Nat \cup {NULL}]
                          /\ heap'[a].key = heap[a].key
      BY <1>2, <3>2, <3>4, <3>5
    <3>7. heap'[other].next = heap[n].next
      BY <3>2, <3>4, <3>5
    <3>8. \A a \in row \ {n, other} : heap'[a].next = heap[a].next
      BY <3>4 DEF InRow
    <3>9. IsList(heap', row \ {n}, nodes[i])
      BY <1>2, <3>1, <3>2, <3>7, <3>8, ListWithout
    <3> QED
      BY <3>1, <3>4, <3>6, <3>9
  <2> QED
    BY <2>1, <2>2
<1>5. InRow(heap', kept, Cap, i) = row \ {n}
  BY <1>4 DEF InRow
<1>6. SameElsewhere(heap, DOMAIN heap, heap', kept, Cap, i)
  BY <1>2, <1>4 DEF SameElsewhere, InRow
<1>7. Holds(heap', kept, nodes', 0)
  <2>1. Holds(heap, DOMAIN heap, nodes, 0)
    BY <1>2 DEF Settled
  <2>2. IsList(heap', InRow(heap', kept, Cap, i), nodes'[i])
    BY <1>4, <1>5
  <2> QED
    BY <1>4, <1>6, <2>1, <2>2, OneRowChanges DEF Cap
<1>8. Cap' = Cap
  BY <1>4 DEF Cap
<1>9. Sane'
  <2>1. heap' \in [DOMAIN heap' -> [key : Keys, value : Values, next : Nat \cup {NULL}]]
    <3>1. heap' = [a \in DOMAIN heap' |-> heap'[a]]
      <4>1. CASE other = NULL
        BY <1>3, <4>1 DEF RemoveFound
      <4>2. CASE other # NULL
        BY <1>3, <4>2 DEF RemoveFound
      <4> QED
        BY <4>1, <4>2
    <3> QED
      BY <1>4, <3>1
  <2>2. \A a, b \in DOMAIN heap' : heap'[a].key = heap'[b].key => a = b
    BY <1>2, <1>4 DEF Sane
  <2>3. TableOK(nodes')
    <3>1. heap[n].next \in Nat \cup {NULL} /\ nodes \in [DOMAIN nodes -> Nat \cup {NULL}]
      BY <1>2, NodeFacts DEF Sane, TableOK
    <3>2. nodes' \in [DOMAIN nodes -> Nat \cup {NULL}]
      BY <3>1 DEF RemoveFound
    <3> QED
      BY <1>2, <1>4, <3>2 DEF Sane, TableOK
  <2> QED
    BY <1>1, <1>2, <1>3, <1>4, <2>1, <2>2, <2>3, ReturnFacts DEF Sane
<1>10. Settled'
  <2>1. size - 1 <= (3 * Cap) \div 4
    BY <1>2, SettledFacts DEF Settled
  <2> QED
    BY <1>1, <1>2, <1>3, <1>4, <1>7, <1>8, <2>1 DEF Settled
<1> QED
  BY <1>1, <1>9, <1>10, ReturnKeeps, ReturnFacts

(* malloc finds an address.                                                 *)
LEMMA FreeIsFree ==
  ASSUME IsFiniteSet(DOMAIN heap)
  PROVE  Free \in Nat \ {0} /\ Free \notin DOMAIN heap
<1> DEFINE c == Cardinality(DOMAIN heap)
<1>1. c \in Nat
  BY FS_CardinalityType
<1>2. \E a \in 1 .. c + 1 : a \notin DOMAIN heap
  <2> SUFFICES ASSUME 1 .. c + 1 \subseteq DOMAIN heap PROVE FALSE
    OBVIOUS
  <2>1. Cardinality(1 .. c + 1) <= c
    BY FS_Subset
  <2>2. Cardinality(1 .. c + 1) = c + 1
    <3>1. 1 \in Int /\ c + 1 \in Int /\ ~(1 > c + 1) /\ (c + 1) - 1 + 1 = c + 1
      BY <1>1
    <3> HIDE DEF c
    <3> QED
      BY <3>1, FS_Interval
  <2> QED
    BY <1>1, <2>1, <2>2
<1>3. Free \in 1 .. c + 1 /\ Free \notin DOMAIN heap
  BY <1>2 DEF Free
<1> QED
  BY <1>1, <1>3

LEMMA PutAbsentKeeps ==
  ASSUME IInv, PutAbsent
  PROVE  IInv'
<1> PICK x : x = Free
  OBVIOUS
<1> PICK head : head = nodes[i]
  OBVIOUS
<1> DEFINE node == [key |-> call.key, value |-> call.value, next |-> After(head)]
           kept == IF head = NULL THEN heap ELSE [heap EXCEPT ![head].next = x]
           row  == InRow(heap, DOMAIN heap, Cap, i)
           Node == [key : Keys, value : Values, next : Nat \cup {NULL}]
<1>1. /\ pc = "find" /\ n = NULL /\ call.op \in {"put", "insert"}
      /\ heap' = [a \in DOMAIN heap \cup {x} |-> IF a = x THEN node ELSE kept[a]]
      /\ nodes' = IF head = NULL THEN [nodes EXCEPT ![i] = x] ELSE nodes
      /\ size' = size + 1 /\ old' = old
      /\ Return(IF call.op = "put" THEN Zero ELSE call.value)
  BY DEF PutAbsent, Absent
<1>2. /\ Sane /\ Settled /\ NULL \notin DOMAIN heap
      /\ i \in DOMAIN nodes /\ i = Index(call.key)
      /\ call.key \in Keys /\ call.value \in Values
      /\ IsList(heap, row, head) /\ NULL \notin row
      /\ \A a \in DOMAIN heap : heap[a].key # call.key
      /\ size + 1 <= (3 * Cap) \div 4
      /\ Cap \in Nat \ {0} /\ size = Cardinality(DOMAIN heap) /\ size \in Nat
  BY <1>1, FindingFacts, SettledFacts DEF IInv, WhenFinding, InRow
<1>3. x \in Nat /\ x \notin DOMAIN heap /\ x # NULL
  BY <1>2, FreeIsFree, NullAssumption DEF Sane
<1>4. head # NULL => head \in row /\ head \in DOMAIN heap
  BY <1>2, ListFacts DEF InRow
<1>5. \A a \in DOMAIN heap : heap[a] \in Node
  BY <1>2 DEF Sane
<1>6. /\ DOMAIN kept = DOMAIN heap
      /\ \A a \in DOMAIN heap : kept[a] \in Node /\ kept[a].key = heap[a].key
      /\ \A a \in DOMAIN heap : a # head => kept[a].next = heap[a].next
      /\ head # NULL => kept[head].next = x
  <2>1. CASE head = NULL
    BY <1>5, <2>1
  <2>2. CASE head # NULL
    <3>1. /\ DOMAIN kept = DOMAIN heap /\ kept[head] = [heap[head] EXCEPT !.next = x]
          /\ \A a \in DOMAIN heap : a # head => kept[a] = heap[a]
      BY <1>2, <1>4, <2>2 DEF Sane
    <3> HIDE DEF kept
    <3> QED
      BY <1>3, <1>4, <1>5, <2>2, <3>1
  <2> QED
    BY <2>1, <2>2
<1>7. node \in Node /\ node.key = call.key /\ node.next = After(head)
  BY <1>2, <1>4, <1>5 DEF After
<1> PICK all : all = DOMAIN heap \cup {x}
  OBVIOUS
<1>8. /\ DOMAIN heap' = all /\ heap'[x] = node
      /\ \A a \in DOMAIN heap : heap'[a] = kept[a]
      /\ heap' \in [all -> Node]
  <2> HIDE DEF node, kept, Node
  <2> QED
    BY <1>1, <1>3, <1>6, <1>7
<1>9. /\ \A a \in DOMAIN heap : heap'[a].key = heap[a].key
      /\ \A a \in DOMAIN heap : a # head => heap'[a].next = heap[a].next
      /\ head # NULL => heap'[head].next = x
      /\ heap'[x].key = call.key /\ heap'[x].next = After(head)
  BY <1>4, <1>6, <1>7, <1>8
<1>10. InRow(heap', all, Cap, i) = row \cup {x}
  BY <1>2, <1>9 DEF InRow, Index
<1>11. IsList(heap', row \cup {x}, nodes'[i])
  <2>1. CASE head = NULL
    <3>1. row = {}
      BY <1>2, <2>1, ListFacts
    <3>2. nodes'[i] = x
      BY <1>1, <1>2, <2>1
    <3>3. heap'[x].next = NULL
      BY <1>9, <2>1 DEF After
    <3>4. IsList(heap', {x}, x)
      BY <1>3, <3>3, ListOfOne
    <3>5. row \cup {x} = {x}
      BY <3>1
    <3> HIDE DEF row
    <3> QED
      BY <3>2, <3>4, <3>5
  <2>2. CASE head # NULL
    <3>1. nodes'[i] = head
      BY <1>1, <2>2
    <3>2. x \notin row /\ heap'[x].next = heap[head].next
      BY <1>3, <1>9, <2>2 DEF InRow, After
    <3>3. \A a \in row \ {head} : heap'[a].next = heap[a].next
      BY <1>9 DEF InRow
    <3> HIDE DEF row
    <3> QED
      BY <1>2, <1>3, <1>9, <2>2, <3>1, <3>2, <3>3, ListWithSecond
  <2> QED
    BY <2>1, <2>2
<1>12. /\ DOMAIN nodes' = DOMAIN nodes
       /\ \A r \in DOMAIN nodes : r # i => nodes'[r] = nodes[r]
  BY <1>1
<1>13. SameElsewhere(heap, DOMAIN heap, heap', all, Cap, i)
  <2>1. head # NULL => Hash[heap[head].key] % Cap = i
    BY <1>4 DEF InRow
  <2>2. Hash[heap'[x].key] % Cap = i
    BY <1>2, <1>9 DEF Index
  <2>3. \A a \in DOMAIN heap : Hash[heap[a].key] % Cap # i => heap'[a].next = heap[a].next
    BY <1>2, <1>9, <2>1
  <2> QED
    BY <1>9, <2>2, <2>3 DEF SameElsewhere
<1>14. Holds(heap', all, nodes', 0)
  <2>1. Holds(heap, DOMAIN heap, nodes, 0)
    BY <1>2 DEF Settled
  <2>2. IsList(heap', InRow(heap', all, Cap, i), nodes'[i])
    BY <1>10, <1>11
  <2> QED
    BY <1>12, <1>13, <2>1, <2>2, OneRowChanges DEF Cap
<1>15. /\ IsFiniteSet(all) /\ Cardinality(all) = size + 1
  BY <1>2, <1>3, FS_AddElement DEF Sane
<1>16. Cap' = Cap
  BY <1>12 DEF Cap
<1>17. Sane'
  <2>1. \A a, b \in all : heap'[a].key = heap'[b].key => a = b
    BY <1>2, <1>9 DEF Sane
  <2>2. all \subseteq Nat
    BY <1>2, <1>3 DEF Sane
  <2>3. TableOK(nodes')
    <3>1. nodes \in [DOMAIN nodes -> Nat \cup {NULL}]
      BY <1>2 DEF Sane, TableOK
    <3>2. nodes' \in [DOMAIN nodes -> Nat \cup {NULL}]
      BY <1>1, <1>3, <3>1
    <3> QED
      BY <1>2, <1>12, <3>2 DEF Sane, TableOK
  <2>4. /\ result' \in Values /\ i' \in Nat /\ pc' = "ready"
        /\ size' \in Nat
    BY <1>1, <1>2, ReturnFacts, ValuesAssumption
  <2> QED
    BY <1>8, <1>15, <2>1, <2>2, <2>3, <2>4 DEF Sane
<1>18. Settled'
  BY <1>1, <1>2, <1>8, <1>14, <1>15, <1>16 DEF Settled
<1> QED
  BY <1>1, <1>17, <1>18, ReturnKeeps, ReturnFacts
-----------------------------------------------------------------------------
(* Freeing. *)

LEMMA StartFreeingKeeps ==
  ASSUME IInv, StartFreeing
  PROVE  IInv'
<1>1. /\ pc = "ready" /\ pc' = "free" /\ i' = 0 /\ n' = nodes[0]
      /\ heap' = heap /\ nodes' = nodes /\ size' = size /\ old' = old /\ call' = call
      /\ result' = result /\ other' = NULL /\ tail' = NULL /\ Cap' = Cap
  BY DEF StartFreeing, Locals, table, Cap
<1>2. /\ Sane /\ Settled /\ call = Idle /\ 0 \in DOMAIN nodes
      /\ \A row \in DOMAIN nodes :
           row \in Nat /\ IsList(heap, InRow(heap, DOMAIN heap, Cap, row), nodes[row])
  <2>1. Sane /\ Settled /\ call = Idle
    BY <1>1 DEF IInv, WhenReady
  <2> QED
    BY <2>1, SettledFacts
<1>3. \A a \in DOMAIN heap : Hash[heap[a].key] % Cap >= 0
  <2> SUFFICES ASSUME NEW a \in DOMAIN heap PROVE Hash[heap[a].key] % Cap >= 0
    OBVIOUS
  <2>1. Hash[heap[a].key] % Cap \in DOMAIN nodes
    BY <1>2, NodeFacts DEF Index
  <2> QED
    BY <1>2, <2>1
<1>4. Holds(heap, DOMAIN heap, nodes, 0 + 1)
  BY <1>2 DEF Holds, Cap
<1>5. IsList(heap, InRow(heap, DOMAIN heap, Cap, 0), nodes[0])
  BY <1>2
<1>6. WhenFreeing'
  BY <1>1, <1>2, <1>3, <1>4, <1>5 DEF WhenFreeing, Settled
<1>7. Sane'
  BY <1>1, <1>2 DEF Sane
<1> QED
  BY <1>1, <1>6, <1>7 DEF IInv, WhenClosed, WhenReady, WhenFinding, WhenGrowing, WhenAtTail

LEMMA FreeingFacts ==
  ASSUME IInv, pc = "free"
  PROVE  /\ Sane /\ Holds(heap, DOMAIN heap, nodes, i + 1)
         /\ Cap \in Nat \ {0} /\ DOMAIN nodes = 0 .. Cap - 1 /\ i \in DOMAIN nodes /\ i \in Nat
         /\ IsList(heap, InRow(heap, DOMAIN heap, Cap, i), n)
         /\ NULL \notin InRow(heap, DOMAIN heap, Cap, i) /\ NULL \notin DOMAIN heap
         /\ \A a \in DOMAIN heap :
              Hash[heap[a].key] % Cap \in DOMAIN nodes /\ Hash[heap[a].key] % Cap >= i
         /\ old = <<>> /\ call = Idle /\ other = NULL /\ tail = NULL
<1>1. /\ Sane /\ Holds(heap, DOMAIN heap, nodes, i + 1) /\ i \in DOMAIN nodes
      /\ IsList(heap, InRow(heap, DOMAIN heap, Cap, i), n)
      /\ \A a \in DOMAIN heap : Hash[heap[a].key] % Cap >= i
      /\ old = <<>> /\ call = Idle /\ other = NULL /\ tail = NULL
  BY DEF IInv, WhenFreeing
<1>2. Cap \in Nat \ {0} /\ DOMAIN nodes = 0 .. Cap - 1 /\ i \in Nat
  BY <1>1 DEF Sane, TableOK, Cap
<1>3. NULL \notin DOMAIN heap
  BY <1>1, NullAssumption DEF Sane
<1>4. \A a \in DOMAIN heap : Hash[heap[a].key] % Cap \in DOMAIN nodes
  BY <1>1, NodeFacts DEF Index
<1> QED
  BY <1>1, <1>2, <1>3, <1>4 DEF InRow

LEMMA FreeNodeKeeps ==
  ASSUME IInv, FreeNode
  PROVE  IInv'
<1>1. /\ pc = "free" /\ pc' = "free" /\ n # NULL
      /\ heap' = Forget(n) /\ n' = heap[n].next
      /\ nodes' = nodes /\ size' = size /\ old' = old /\ call' = call /\ i' = i
      /\ other' = other /\ tail' = tail /\ result' = result /\ Cap' = Cap
  BY DEF FreeNode, Cap
<1> DEFINE row == InRow(heap, DOMAIN heap, Cap, i)
<1> PICK kept : kept = DOMAIN heap \ {n}
  OBVIOUS
<1>2. /\ Sane /\ Holds(heap, DOMAIN heap, nodes, i + 1) /\ i \in DOMAIN nodes /\ i \in Nat
      /\ IsList(heap, row, n) /\ NULL \notin row
      /\ \A a \in DOMAIN heap : Hash[heap[a].key] % Cap >= i
      /\ old = <<>> /\ call = Idle /\ other = NULL /\ tail = NULL
  BY <1>1, FreeingFacts
<1>3. n \in row /\ n \in DOMAIN heap /\ Hash[heap[n].key] % Cap = i
  BY <1>1, <1>2, ListFacts DEF InRow
<1>4. /\ DOMAIN heap' = kept
      /\ \A a \in kept : heap'[a] = heap[a]
      /\ heap' \in [kept -> [key : Keys, value : Values, next : Nat \cup {NULL}]]
      /\ IsFiniteSet(kept)
  BY <1>1, <1>2, <1>3, ForgetFacts
<1>5. Sane'
  BY <1>1, <1>2, <1>4 DEF Sane
<1>6. IsList(heap', InRow(heap', kept, Cap, i), n')
  <2>1. IsList(heap, row \ {n}, n')
    BY <1>1, <1>2, ListWithoutHead
  <2>2. InRow(heap', kept, Cap, i) = row \ {n} /\ \A a \in row \ {n} : heap'[a].next = heap[a].next
    BY <1>4 DEF InRow
  <2> HIDE DEF row
  <2> QED
    BY <2>1, <2>2, ListFrame
<1>7. Holds(heap', kept, nodes, i + 1)
  <2>1. SameElsewhere(heap, DOMAIN heap, heap', kept, Cap, i)
    BY <1>3, <1>4 DEF SameElsewhere
  <2>2. ~(i >= i + 1)
    BY <1>2
  <2> QED
    BY <1>2, <2>1, <2>2, OneRowChanges DEF Cap
<1>8. WhenFreeing'
  BY <1>1, <1>2, <1>4, <1>6, <1>7 DEF WhenFreeing
<1> QED
  BY <1>1, <1>5, <1>8 DEF IInv, WhenClosed, WhenReady, WhenFinding, WhenGrowing, WhenAtTail

LEMMA FreeRowKeeps ==
  ASSUME IInv, FreeRow
  PROVE  IInv'
<1>1. /\ pc = "free" /\ n = NULL
      /\ heap' = heap /\ nodes' = nodes /\ size' = size /\ old' = old /\ call' = call
      /\ result' = result /\ Cap' = Cap
  BY DEF FreeRow, table, Cap
<1>2. /\ Sane /\ Holds(heap, DOMAIN heap, nodes, i + 1)
      /\ Cap \in Nat \ {0} /\ DOMAIN nodes = 0 .. Cap - 1 /\ i \in DOMAIN nodes /\ i \in Nat
      /\ \A a \in DOMAIN heap :
           Hash[heap[a].key] % Cap \in DOMAIN nodes /\ Hash[heap[a].key] % Cap >= i
      /\ old = <<>> /\ call = Idle
      /\ InRow(heap, DOMAIN heap, Cap, i) = {}
  BY <1>1, FreeingFacts, ListFacts
<1>3. \A a \in DOMAIN heap : Hash[heap[a].key] % Cap >= i + 1
  <2> SUFFICES ASSUME NEW a \in DOMAIN heap PROVE Hash[heap[a].key] % Cap >= i + 1
    OBVIOUS
  <2>1. Hash[heap[a].key] % Cap # i
    BY <1>2 DEF InRow
  <2>2. Hash[heap[a].key] % Cap \in Nat /\ Hash[heap[a].key] % Cap >= i
    BY <1>2
  <2> QED
    BY <1>2, <2>1, <2>2
<1>4. CASE i + 1 < Cap
  <2>1. /\ i' = i + 1 /\ n' = nodes[i + 1] /\ other' = NULL /\ tail' = NULL /\ pc' = "free"
    BY <1>1, <1>4 DEF FreeRow, Locals
  <2>2. i + 1 \in DOMAIN nodes /\ i + 1 >= i + 1 /\ i + 1 \in Nat
    BY <1>2, <1>4
  <2>3. IsList(heap, InRow(heap, DOMAIN heap, Cap, i + 1), nodes[i + 1])
    BY <1>2, <2>2 DEF Holds, Cap
  <2>4. Holds(heap, DOMAIN heap, nodes, (i + 1) + 1)
    <3>1. \A row \in DOMAIN nodes : row >= (i + 1) + 1 => row >= i + 1
      BY <1>2
    <3> QED
      BY <1>2, <3>1 DEF Holds
  <2>5. WhenFreeing'
    BY <1>1, <1>2, <1>3, <2>1, <2>2, <2>3, <2>4 DEF WhenFreeing
  <2>6. Sane'
    BY <1>1, <1>2, <2>1, <2>2 DEF Sane
  <2> QED
    BY <2>1, <2>5, <2>6 DEF IInv, WhenClosed, WhenReady, WhenFinding, WhenGrowing, WhenAtTail
<1>5. CASE ~(i + 1 < Cap)
  <2>1. /\ i' = 0 /\ n' = NULL /\ other' = NULL /\ tail' = NULL /\ pc' = "closed"
    BY <1>5 DEF FreeRow, Locals
  <2>2. DOMAIN heap = {}
    <3> SUFFICES ASSUME NEW a \in DOMAIN heap PROVE FALSE
      OBVIOUS
    <3>1. Hash[heap[a].key] % Cap \in 0 .. Cap - 1 /\ Hash[heap[a].key] % Cap >= i + 1
      BY <1>2, <1>3
    <3> QED
      BY <1>2, <1>5, <3>1
  <2>3. heap = <<>>
    <3>1. heap = [a \in DOMAIN heap |-> heap[a]]
      BY <1>2 DEF Sane
    <3> QED
      BY <2>2, <3>1
  <2>4. WhenClosed'
    BY <1>1, <1>2, <2>1, <2>3 DEF WhenClosed, NoLocals
  <2>5. Sane'
    BY <1>1, <1>2, <2>1 DEF Sane
  <2> QED
    BY <2>1, <2>4, <2>5 DEF IInv, WhenReady, WhenFinding, WhenGrowing, WhenAtTail, WhenFreeing
<1> QED
  BY <1>4, <1>5
-----------------------------------------------------------------------------
LEMMA StepKeeps ==
  ASSUME IInv, [Next]_vars
  PROVE  IInv'
<1>1. CASE UNCHANGED vars
  BY <1>1 DEF vars, table, IInv, Sane, NoLocals, WhenClosed, Settled, WhenReady, Passed,
              WhenFinding, Moving, Growing, WhenGrowing, InHand, WhenAtTail, WhenFreeing,
              Cap, Index
<1>2. CASE New
  BY <1>2, NewKeeps
<1>3. CASE Invoke
  BY <1>3, InvokeKeeps
<1>4. CASE StartFreeing
  BY <1>4, StartFreeingKeeps
<1>5. CASE Working
  BY <1>5, RelinkKeeps, FollowTailKeeps, AppendToTailKeeps, NextRowKeeps, StopGrowingKeeps,
     WalkKeeps, GetFoundKeeps, PutFoundKeeps, RemoveFoundKeeps, NothingFoundKeeps,
     PutAbsentKeeps, ComputeAbsentKeeps, FreeNodeKeeps, FreeRowKeeps DEF Working
<1> QED
  BY <1>1, <1>2, <1>3, <1>4, <1>5 DEF Next

(* The invariant holds at every turn of every loop (hmap.h:26-286).         *)
THEOREM HashMapInvariant == Spec => []IInv
<1>1. Init => IInv
  BY InitSane
<1>2. IInv /\ [Next]_vars => IInv'
  BY StepKeeps
<1> QED
  BY <1>1, <1>2, PTL DEF Spec
-----------------------------------------------------------------------------
(* What follows from the invariant. *)

(* Where the pointers of a table lead, from row first on.                   *)
LEMMA TableFacts ==
  ASSUME NEW h, NEW S, NEW t, NEW first, NEW c, c = Cardinality(DOMAIN t),
         Holds(h, S, t, first), NULL \notin S,
         \A a \in S : Hash[h[a].key] % c \in DOMAIN t /\ Hash[h[a].key] % c >= first
  PROVE  /\ \A r \in DOMAIN t : r >= first /\ t[r] # NULL => t[r] \in S /\ Hash[h[t[r]].key] % c = r
         /\ \A a \in S : h[a].next # NULL => h[a].next \in S
         /\ \A a, b \in S : h[a].next = h[b].next /\ h[a].next # NULL => a = b
         /\ \A a \in S, r \in DOMAIN t : r >= first /\ h[a].next = t[r] => t[r] = NULL
         /\ \A b \in S : b = t[Hash[h[b].key] % c] \/ \E a \in S : h[a].next = b
<1> DEFINE R(a) == Hash[h[a].key] % c
           L(r) == InRow(h, S, c, r)
<1>1. \A r \in DOMAIN t : r >= first => IsList(h, L(r), t[r]) /\ NULL \notin L(r)
  BY DEF Holds, InRow
<1>2. \A a \in S : R(a) \in DOMAIN t /\ R(a) >= first /\ a \in L(R(a))
  BY DEF InRow
<1>3. \A r : \A a \in L(r) : a \in S /\ R(a) = r
  BY DEF InRow
<1> HIDE DEF L, R
<1>4. \A r \in DOMAIN t : r >= first /\ t[r] # NULL => t[r] \in L(r)
  BY <1>1, ListFacts
<1>5. \A a \in S : h[a].next # NULL => h[a].next \in L(R(a))
  BY <1>1, <1>2, ListFacts
<1>6. ASSUME NEW a \in S, NEW b \in S, h[a].next = h[b].next, h[a].next # NULL
      PROVE  a = b
  <2>1. R(a) = R(b)
    BY <1>3, <1>5, <1>6
  <2>2. a \in L(R(a)) /\ b \in L(R(a)) /\ IsList(h, L(R(a)), t[R(a)]) /\ NULL \notin L(R(a))
    BY <1>1, <1>2, <2>1
  <2> QED
    BY <1>6, <2>2, ListFacts
<1>7. ASSUME NEW a \in S, NEW r \in DOMAIN t, r >= first, h[a].next = t[r], t[r] # NULL
      PROVE  FALSE
  <2>1. R(a) = r
    BY <1>3, <1>4, <1>5, <1>7
  <2>2. a \in L(r) /\ IsList(h, L(r), t[r]) /\ NULL \notin L(r)
    BY <1>1, <1>2, <2>1
  <2> QED
    BY <1>7, <2>2, ListFacts
<1>8. ASSUME NEW b \in S
      PROVE  b = t[R(b)] \/ \E a \in S : h[a].next = b
  <2>1. b \in L(R(b)) /\ IsList(h, L(R(b)), t[R(b)]) /\ NULL \notin L(R(b))
    BY <1>1, <1>2
  <2>2. b = t[R(b)] \/ \E a \in L(R(b)) : h[a].next = b
    BY <2>1, ListFacts
  <2> QED
    BY <1>3, <2>2
<1>9. \A r \in DOMAIN t : r >= first /\ t[r] # NULL => t[r] \in S /\ R(t[r]) = r
  BY <1>3, <1>4
<1>10. \A a \in S : h[a].next # NULL => h[a].next \in S
  BY <1>3, <1>5
<1> QED
  BY <1>6, <1>7, <1>8, <1>9, <1>10 DEF R

(* The rows from first on that start at a node, and the nodes before it.    *)
HeadsAt(t, first, node) == {row \in DOMAIN t : row >= first /\ t[row] = node}
NextsAt(h, S, node)     == {a \in S : h[a].next = node}

(* A node of a table has one pointer in it: the head of its row, or the     *)
(* next of one node.                                                        *)
LEMMA OneWay ==
  ASSUME NEW h, NEW S, NEW t, NEW first, NEW c, c = Cardinality(DOMAIN t),
         Holds(h, S, t, first), NULL \notin S,
         \A a \in S : Hash[h[a].key] % c \in DOMAIN t /\ Hash[h[a].key] % c >= first,
         NEW node \in S
  PROVE  /\ IsFiniteSet(HeadsAt(t, first, node)) /\ IsFiniteSet(NextsAt(h, S, node))
         /\ Cardinality(HeadsAt(t, first, node)) + Cardinality(NextsAt(h, S, node)) = 1
<1> DEFINE r     == Hash[h[node].key] % c
           Heads == HeadsAt(t, first, node)
           Nexts == NextsAt(h, S, node)
<1>1. node # NULL /\ r \in DOMAIN t /\ r >= first
  OBVIOUS
<1>2. /\ \A row \in DOMAIN t : row >= first /\ t[row] = node => row = r
      /\ \A a, b \in S : h[a].next = node /\ h[b].next = node => a = b
      /\ \A a \in S : h[a].next = node => t[r] # node
      /\ node = t[r] \/ \E a \in S : h[a].next = node
  BY <1>1, TableFacts
<1>3. /\ IsFiniteSet({}) /\ Cardinality({}) = 0
      /\ \A x : IsFiniteSet({x}) /\ Cardinality({x}) = 1
  BY FS_EmptySet, FS_Singleton
<1>4. CASE t[r] = node
  <2>1. Heads = {r} /\ Nexts = {}
    BY <1>1, <1>2, <1>4 DEF HeadsAt, NextsAt
  <2>2. /\ IsFiniteSet(Heads) /\ Cardinality(Heads) = 1
        /\ IsFiniteSet(Nexts) /\ Cardinality(Nexts) = 0
    BY <1>3, <2>1, Zenon
  <2> QED
    BY <2>2
<1>5. CASE t[r] # node
  <2>1. PICK a \in S : h[a].next = node
    BY <1>2, <1>5
  <2>2. Heads = {} /\ Nexts = {a}
    BY <1>2, <1>5, <2>1 DEF HeadsAt, NextsAt
  <2>3. /\ IsFiniteSet(Heads) /\ Cardinality(Heads) = 0
        /\ IsFiniteSet(Nexts) /\ Cardinality(Nexts) = 1
    BY <1>3, <2>2, Zenon
  <2> QED
    BY <2>3
<1> QED
  BY <1>4, <1>5

(* What is left of the old table: row i goes on at first.                   *)
OldTable(first) == [old EXCEPT ![i] = first]

LEMMA RestIsATable ==
  ASSUME Sane, Growing, NEW moved, NEW rest \in SUBSET DOMAIN heap, NEW first,
         Moving(moved, rest, first)
  PROVE  /\ Holds(heap, rest, OldTable(first), i)
         /\ DOMAIN OldTable(first) = DOMAIN old
         /\ OldTable(first)[i] = first
         /\ \A row \in DOMAIN old : row # i => OldTable(first)[row] = old[row]
         /\ \A a \in rest : /\ Hash[heap[a].key] % Cardinality(DOMAIN OldTable(first))
                                 \in DOMAIN OldTable(first)
                            /\ Hash[heap[a].key] % Cardinality(DOMAIN OldTable(first)) >= i
<1> PICK left : left = OldTable(first)
  OBVIOUS
<1> DEFINE c == Cardinality(DOMAIN old)
<1>1. /\ DOMAIN left = DOMAIN old /\ left[i] = first
      /\ \A row \in DOMAIN old : row # i => left[row] = old[row]
      /\ i \in Nat /\ \A row \in DOMAIN old : row \in Nat
  BY GrowingFacts DEF OldTable
<1>2. /\ Holds(heap, rest, old, i + 1)
      /\ IsList(heap, InRow(heap, rest, c, i), first)
      /\ \A a \in rest : Hash[heap[a].key] % c >= i
  BY DEF Moving
<1>3. Holds(heap, rest, left, i)
  <2> SUFFICES ASSUME NEW row \in DOMAIN old, row >= i
               PROVE  IsList(heap, InRow(heap, rest, c, row), left[row])
    BY <1>1 DEF Holds
  <2>1. CASE row = i
    BY <1>1, <1>2, <2>1
  <2>2. CASE row # i
    <3>1. row >= i + 1
      BY <1>1, <2>2
    <3> QED
      BY <1>1, <1>2, <2>2, <3>1 DEF Holds
  <2> QED
    BY <2>1, <2>2
<1>4. \A a \in rest : /\ Hash[heap[a].key] % Cardinality(DOMAIN left) \in DOMAIN left
                      /\ Hash[heap[a].key] % Cardinality(DOMAIN left) >= i
  BY <1>1, <1>2, GrowingFacts
<1> QED
  BY <1>1, <1>3, <1>4

(* Where the pointers of both tables lead while the map grows.              *)
LEMMA MovingFacts ==
  ASSUME Sane, Growing, NEW moved \in SUBSET DOMAIN heap, NEW rest \in SUBSET DOMAIN heap,
         NEW first, Moving(moved, rest, first)
  PROVE  /\ first \in rest \cup {NULL}
         /\ \A row \in DOMAIN nodes : nodes[row] \in moved \cup {NULL}
         /\ \A a \in moved : heap[a].next \in moved \cup {NULL}
         /\ \A row \in DOMAIN old : row > i => old[row] \in rest \cup {NULL}
         /\ \A a \in rest : heap[a].next \in rest \cup {NULL}
<1> DEFINE left == OldTable(first)
<1>1. /\ NULL \notin moved /\ NULL \notin rest /\ i \in DOMAIN old /\ i \in Nat
      /\ \A row \in DOMAIN nodes : row >= 0
      /\ \A row \in DOMAIN old : row \in Nat
      /\ Holds(heap, moved, nodes, 0)
      /\ \A a \in moved : /\ Hash[heap[a].key] % Cap \in DOMAIN nodes
                          /\ Hash[heap[a].key] % Cap >= 0
  BY GrowingFacts DEF Moving
<1>2. /\ \A row \in DOMAIN nodes : nodes[row] \in moved \cup {NULL}
      /\ \A a \in moved : heap[a].next \in moved \cup {NULL}
  BY <1>1, TableFacts DEF Cap
<1>3. /\ Holds(heap, rest, left, i) /\ DOMAIN left = DOMAIN old
      /\ left[i] = first /\ \A row \in DOMAIN old : row # i => left[row] = old[row]
      /\ \A a \in rest : /\ Hash[heap[a].key] % Cardinality(DOMAIN left) \in DOMAIN left
                         /\ Hash[heap[a].key] % Cardinality(DOMAIN left) >= i
  BY RestIsATable
<1> HIDE DEF left
<1>4. /\ \A row \in DOMAIN left : row >= i => left[row] \in rest \cup {NULL}
      /\ \A a \in rest : heap[a].next \in rest \cup {NULL}
  <2>1. /\ \A row \in DOMAIN left : row >= i /\ left[row] # NULL => left[row] \in rest
        /\ \A a \in rest : heap[a].next # NULL => heap[a].next \in rest
    BY <1>1, <1>3, TableFacts
  <2> QED
    BY <2>1
<1>5. first \in rest \cup {NULL}
  <2>1. i >= i
    BY <1>1
  <2> QED
    BY <1>1, <1>3, <1>4, <2>1
<1>6. \A row \in DOMAIN old : row > i => old[row] \in rest \cup {NULL}
  <2> SUFFICES ASSUME NEW row \in DOMAIN old, row > i PROVE old[row] \in rest \cup {NULL}
    OBVIOUS
  <2>1. row >= i /\ row # i
    BY <1>1
  <2> QED
    BY <1>3, <1>4, <2>1
<1> QED
  BY <1>2, <1>4, <1>5, <1>6

LEMMA SettledPointers ==
  ASSUME Sane, Settled
  PROVE  /\ \A row \in DOMAIN nodes : nodes[row] \in Pointers
         /\ \A a \in DOMAIN heap : heap[a].next \in Pointers
<1>1. /\ NULL \notin DOMAIN heap /\ Holds(heap, DOMAIN heap, nodes, 0)
      /\ \A row \in DOMAIN nodes : row >= 0
      /\ \A a \in DOMAIN heap : Hash[heap[a].key] % Cap \in DOMAIN nodes
  BY NullAssumption, NodeFacts, SettledFacts DEF Sane, Settled, Index
<1> QED
  BY <1>1, TableFacts DEF Cap, Pointers

(* Every pointer is NULL or leads to a node that is allocated.              *)
LEMMA InvariantTypes ==
  ASSUME IInv
  PROVE  TypeOK
<1>1. Sane /\ DOMAIN heap \subseteq Nat /\ NULL \notin DOMAIN heap
  BY NullAssumption DEF IInv, Sane
<1>2. nodes \in [DOMAIN nodes -> Nat \cup {NULL}]
  BY <1>1 DEF Sane, TableOK
<1>3. /\ \A a \in DOMAIN heap : heap[a].next \in Pointers
      /\ pc \in {"ready", "find", "grow", "tail"} => \A row \in DOMAIN nodes : nodes[row] \in Pointers
      /\ {n, other, tail} \subseteq Pointers
      /\ call = Idle \/ call \in [op : Ops, key : Keys, value : Values]
  <2>1. CASE pc = "closed"
    BY <2>1 DEF IInv, WhenClosed, NoLocals, Pointers
  <2>2. CASE pc = "ready"
    BY <1>1, <2>2, SettledPointers DEF IInv, WhenReady, NoLocals, Pointers
  <2>3. CASE pc = "find"
    <3>1. n \in Pointers
      BY <2>3, FindingFacts DEF Pointers, InRow
    <3> QED
      BY <1>1, <2>3, <3>1, SettledPointers DEF IInv, WhenFinding, Pointers, InRow
  <2>4. CASE pc = "grow"
    <3>1. Growing /\ other = NULL /\ tail = NULL
      BY <2>4 DEF IInv, WhenGrowing
    <3> PICK moved \in SUBSET DOMAIN heap : Moving(moved, DOMAIN heap \ moved, n)
      BY <2>4 DEF IInv, WhenGrowing
    <3>2. /\ n \in (DOMAIN heap \ moved) \cup {NULL}
          /\ \A row \in DOMAIN nodes : nodes[row] \in moved \cup {NULL}
          /\ \A a \in moved : heap[a].next \in moved \cup {NULL}
          /\ \A a \in DOMAIN heap \ moved : heap[a].next \in (DOMAIN heap \ moved) \cup {NULL}
      BY <1>1, <3>1, MovingFacts
    <3>3. call \in [op : Ops, key : Keys, value : Values]
      BY <3>1 DEF Growing, Ops
    <3> QED
      BY <2>4, <3>1, <3>2, <3>3 DEF Pointers
  <2>5. CASE pc = "tail"
    <3>1. Growing /\ n \in DOMAIN heap /\ heap[n].next = NULL
      BY <2>5 DEF IInv, WhenAtTail
    <3> PICK moved \in SUBSET DOMAIN heap : InHand(moved)
      BY <2>5 DEF IInv, WhenAtTail
    <3> PICK rest : rest = (DOMAIN heap \ moved) \ {n}
      OBVIOUS
    <3>2. /\ other \in rest \cup {NULL}
          /\ \A row \in DOMAIN nodes : nodes[row] \in moved \cup {NULL}
          /\ \A a \in moved : heap[a].next \in moved \cup {NULL}
          /\ \A a \in rest : heap[a].next \in rest \cup {NULL}
      BY <1>1, <3>1, MovingFacts DEF InHand
    <3>3. call \in [op : Ops, key : Keys, value : Values]
      BY <3>1 DEF Growing, Ops
    <3>4. tail \in moved
      BY DEF InHand, InRow
    <3> QED
      BY <2>5, <3>1, <3>2, <3>3, <3>4 DEF Pointers
  <2>6. CASE pc = "free"
    <3>1. /\ Holds(heap, DOMAIN heap, nodes, i + 1) /\ i \in DOMAIN nodes /\ i \in Nat
          /\ IsList(heap, InRow(heap, DOMAIN heap, Cap, i), n)
          /\ NULL \notin InRow(heap, DOMAIN heap, Cap, i)
          /\ DOMAIN nodes = 0 .. Cap - 1 /\ Cap \in Nat
          /\ \A a \in DOMAIN heap :
               Hash[heap[a].key] % Cap \in DOMAIN nodes /\ Hash[heap[a].key] % Cap >= i
          /\ call = Idle /\ other = NULL /\ tail = NULL
      BY <2>6, FreeingFacts
    <3>2. n \in Pointers
      BY <3>1, ListFacts DEF Pointers, InRow
    <3>3. ASSUME NEW a \in DOMAIN heap PROVE heap[a].next \in Pointers
      <4> DEFINE r == Hash[heap[a].key] % Cap
      <4>1. a \in InRow(heap, DOMAIN heap, Cap, r) /\ NULL \notin InRow(heap, DOMAIN heap, Cap, r)
        BY <1>1 DEF InRow
      <4>2. CASE r = i
        <5>1. heap[a].next \in InRow(heap, DOMAIN heap, Cap, i) \cup {NULL}
          BY <3>1, <4>1, <4>2, ListFacts
        <5> QED
          BY <5>1 DEF Pointers, InRow
      <4>3. CASE r # i
        <5>1. r \in DOMAIN nodes /\ r >= i + 1
          BY <3>1, <4>3
        <5>2. IsList(heap, InRow(heap, DOMAIN heap, Cap, r), nodes[r])
          BY <3>1, <5>1 DEF Holds, Cap
        <5>3. heap[a].next \in InRow(heap, DOMAIN heap, Cap, r) \cup {NULL}
          BY <4>1, <5>2, ListFacts
        <5> QED
          BY <5>3 DEF Pointers, InRow
      <4> QED
        BY <4>2, <4>3
    <3> QED
      BY <2>6, <3>1, <3>2, <3>3 DEF Pointers
  <2> QED
    BY <1>1, <2>1, <2>2, <2>3, <2>4, <2>5, <2>6 DEF Sane
<1>4. heap \in [DOMAIN heap -> [key : Keys, value : Values, next : Pointers]]
  <2>1. \A a \in DOMAIN heap : heap[a] \in [key : Keys, value : Values, next : Pointers]
    BY <1>1, <1>3 DEF Sane
  <2> QED
    BY <1>1, <2>1 DEF Sane
<1>5. pc \in {"ready", "find", "grow", "tail"} => nodes \in [DOMAIN nodes -> Pointers]
  BY <1>2, <1>3
<1>6. call = Idle \/ call \in [op : {"put", "get", "compute", "insert", "remove"},
                               key : Keys, value : Values]
  BY <1>3 DEF Ops
<1> QED
  BY <1>1, <1>3, <1>4, <1>5, <1>6 DEF TypeOK, Sane

(* Every pointer of the map, of its nodes and of its loops is NULL or leads *)
(* to a node that is allocated, at every turn of every loop; in particular  *)
(* what Name##_free and a growth walk along is never a node that is freed   *)
(* (hmap.h:60-77, 116-140, 268-286).                                        *)
THEOREM PointersLeadToNodes == Spec => []TypeOK
  BY HashMapInvariant, InvariantTypes, PTL

(* The pointers to a node, as the pointers in three tables and two locals.  *)
LEMMA ReferencesAre ==
  ASSUME Sane, i \in Nat, \A row \in DOMAIN old : row \in Nat, NEW node
  PROVE  References(node) = Cardinality(HeadsAt(nodes, 0, node))
                            + Cardinality(NextsAt(heap, DOMAIN heap, node))
                            + Cardinality(HeadsAt(old, i + 1, node))
                            + (IF pc \in {"grow", "tail"} /\ n = node THEN 1 ELSE 0)
                            + (IF pc = "tail" /\ other = node THEN 1 ELSE 0)
<1>1. /\ {row \in DOMAIN nodes : nodes[row] = node} = HeadsAt(nodes, 0, node)
      /\ {a \in DOMAIN heap : heap[a].next = node} = NextsAt(heap, DOMAIN heap, node)
      /\ {row \in DOMAIN old : row > i /\ old[row] = node} = HeadsAt(old, i + 1, node)
  <2>1. \A row \in DOMAIN nodes : row >= 0
    BY DEF Sane, TableOK
  <2>2. \A row \in DOMAIN old : row > i <=> row >= i + 1
    OBVIOUS
  <2> QED
    BY <2>1, <2>2 DEF HeadsAt, NextsAt
<1> QED
  BY <1>1, Zenon DEF References

LEMMA SettledOneWay ==
  ASSUME Sane, Settled, pc \notin {"grow", "tail"}, NEW node \in DOMAIN heap
  PROVE  References(node) = 1
<1> DEFINE Heads == HeadsAt(nodes, 0, node)
           Nexts == NextsAt(heap, DOMAIN heap, node)
           Olds  == HeadsAt(old, i + 1, node)
<1>1. /\ NULL \notin DOMAIN heap /\ Holds(heap, DOMAIN heap, nodes, 0)
      /\ \A row \in DOMAIN nodes : row >= 0
      /\ \A a \in DOMAIN heap : /\ Hash[heap[a].key] % Cap \in DOMAIN nodes
                                /\ Hash[heap[a].key] % Cap >= 0
  BY NullAssumption, NodeFacts, SettledFacts DEF Sane, Settled, Index
<1>2. Cardinality(Heads) + Cardinality(Nexts) = 1 /\ IsFiniteSet(Heads) /\ IsFiniteSet(Nexts)
  BY <1>1, OneWay DEF Cap
<1>3. Cardinality(Olds) = 0
  <2>1. Olds = {}
    BY DEF Settled, HeadsAt
  <2> QED
    BY <2>1, FS_EmptySet, Zenon
<1>4. Cardinality(Heads) \in Nat /\ Cardinality(Nexts) \in Nat
  BY <1>2, FS_CardinalityType
<1>5. References(node) = Cardinality(Heads) + Cardinality(Nexts) + Cardinality(Olds) + 0 + 0
  <2>1. i \in Nat /\ \A row \in DOMAIN old : row \in Nat
    BY DEF Sane, Settled
  <2> QED
    BY <2>1, ReferencesAre
<1> QED
  BY <1>2, <1>3, <1>4, <1>5

(* A node that has been moved: the old table, n and other lead elsewhere.   *)
LEMMA MovedOneWay ==
  ASSUME Sane, Growing, NEW moved \in SUBSET DOMAIN heap, NEW rest \in SUBSET DOMAIN heap,
         NEW first, Moving(moved, rest, first), moved \cap rest = {},
         \A a \in DOMAIN heap : a \in moved \/ a \in rest \/ heap[a].next = NULL,
         NEW node \in moved
  PROVE  /\ Cardinality(HeadsAt(nodes, 0, node))
            + Cardinality(NextsAt(heap, DOMAIN heap, node)) = 1
         /\ Cardinality(HeadsAt(nodes, 0, node)) \in Nat
         /\ Cardinality(NextsAt(heap, DOMAIN heap, node)) \in Nat
         /\ Cardinality(HeadsAt(old, i + 1, node)) = 0
         /\ first # node
<1> DEFINE Heads == HeadsAt(nodes, 0, node)
           Nexts == NextsAt(heap, DOMAIN heap, node)
           Olds  == HeadsAt(old, i + 1, node)
<1>1. /\ NULL \notin moved /\ Holds(heap, moved, nodes, 0)
      /\ \A a \in moved : /\ Hash[heap[a].key] % Cap \in DOMAIN nodes
                          /\ Hash[heap[a].key] % Cap >= 0
      /\ i \in Nat /\ \A row \in DOMAIN old : row \in Nat
  BY GrowingFacts DEF Moving
<1>2. /\ Cardinality(Heads) + Cardinality(NextsAt(heap, moved, node)) = 1
      /\ IsFiniteSet(Heads) /\ IsFiniteSet(NextsAt(heap, moved, node))
  BY <1>1, OneWay DEF Cap
<1>3. /\ first \in rest \cup {NULL}
      /\ \A row \in DOMAIN old : row > i => old[row] \in rest \cup {NULL}
      /\ \A a \in rest : heap[a].next \in rest \cup {NULL}
  BY MovingFacts
<1>4. NextsAt(heap, moved, node) = Nexts
  BY <1>1, <1>3 DEF NextsAt
<1>5. Olds = {} /\ first # node
  BY <1>1, <1>3 DEF HeadsAt
<1>6. Cardinality(Olds) = 0
  BY <1>5, FS_EmptySet, Zenon
<1>7. Cardinality(Heads) + Cardinality(Nexts) = 1 /\ IsFiniteSet(Heads) /\ IsFiniteSet(Nexts)
  BY <1>2, <1>4, Zenon
<1> QED
  BY <1>5, <1>6, <1>7, FS_CardinalityType

(* A node that is still in the old table: one pointer is there, and in the  *)
(* row at hand it may be the one the loop has.                              *)
LEMMA RestOneWay ==
  ASSUME Sane, Growing, NEW moved \in SUBSET DOMAIN heap, NEW rest \in SUBSET DOMAIN heap,
         NEW first, Moving(moved, rest, first), moved \cap rest = {},
         \A a \in DOMAIN heap : a \in moved \/ a \in rest \/ heap[a].next = NULL,
         NEW node \in rest
  PROVE  /\ Cardinality(HeadsAt(nodes, 0, node)) = 0
         /\ Cardinality(HeadsAt(old, i + 1, node))
            + Cardinality(NextsAt(heap, DOMAIN heap, node))
            + (IF first = node THEN 1 ELSE 0) = 1
         /\ Cardinality(HeadsAt(old, i + 1, node)) \in Nat
         /\ Cardinality(NextsAt(heap, DOMAIN heap, node)) \in Nat
<1> DEFINE Heads == HeadsAt(OldTable(first), i, node)
           Nexts == NextsAt(heap, DOMAIN heap, node)
           Olds  == HeadsAt(old, i + 1, node)
<1>1. /\ NULL \notin rest /\ i \in DOMAIN old /\ i \in Nat
      /\ \A row \in DOMAIN old : row \in Nat
  BY GrowingFacts
<1>2. /\ Holds(heap, rest, OldTable(first), i) /\ DOMAIN OldTable(first) = DOMAIN old
      /\ OldTable(first)[i] = first
      /\ \A row \in DOMAIN old : row # i => OldTable(first)[row] = old[row]
      /\ \A a \in rest : /\ Hash[heap[a].key] % Cardinality(DOMAIN OldTable(first))
                              \in DOMAIN OldTable(first)
                         /\ Hash[heap[a].key] % Cardinality(DOMAIN OldTable(first)) >= i
  BY RestIsATable
<1>3. /\ Cardinality(Heads) + Cardinality(NextsAt(heap, rest, node)) = 1
      /\ IsFiniteSet(Heads) /\ IsFiniteSet(NextsAt(heap, rest, node))
  BY <1>1, <1>2, OneWay
<1>4. /\ \A row \in DOMAIN nodes : nodes[row] \in moved \cup {NULL}
      /\ \A a \in moved : heap[a].next \in moved \cup {NULL}
  BY MovingFacts
<1>5. Cardinality(HeadsAt(nodes, 0, node)) = 0
  <2>1. HeadsAt(nodes, 0, node) = {}
    BY <1>1, <1>4 DEF HeadsAt
  <2> QED
    BY <2>1, FS_EmptySet, Zenon
<1>6. Cardinality(Nexts) = Cardinality(NextsAt(heap, rest, node)) /\ IsFiniteSet(Nexts)
  <2>1. NextsAt(heap, rest, node) = Nexts
    BY <1>1, <1>4 DEF NextsAt
  <2> QED
    BY <1>3, <2>1, Zenon
<1>7. Olds \subseteq Heads /\ i \notin Olds
  BY <1>1, <1>2 DEF HeadsAt
<1>8. /\ first = node => Heads = Olds \cup {i}
      /\ first # node => Heads = Olds
  BY <1>1, <1>2 DEF HeadsAt
<1>9. IsFiniteSet(Olds)
  BY <1>3, <1>7, FS_Subset, Zenon
<1>10. Cardinality(Heads) = Cardinality(Olds) + (IF first = node THEN 1 ELSE 0)
  <2>1. CASE first = node
    <3>1. Cardinality(Olds \cup {i}) = Cardinality(Olds) + 1
      BY <1>7, <1>9, FS_AddElement
    <3>2. Heads = Olds \cup {i}
      BY <1>8, <2>1, Zenon
    <3>3. Cardinality(Heads) = Cardinality(Olds) + 1
      BY <3>1, <3>2, Zenon
    <3> QED
      BY <2>1, <3>3
  <2>2. CASE first # node
    <3>1. Cardinality(Heads) = Cardinality(Olds)
      BY <1>8, <2>2, Zenon
    <3> QED
      BY <1>9, <2>2, <3>1, FS_CardinalityType
  <2> QED
    BY <2>1, <2>2
<1>11. Cardinality(Olds) \in Nat /\ Cardinality(Nexts) \in Nat
  BY <1>6, <1>9, FS_CardinalityType
<1> QED
  BY <1>3, <1>5, <1>6, <1>10, <1>11

LEMMA InvariantOneWay ==
  ASSUME IInv
  PROVE  OneWayToEveryNode
<1> SUFFICES ASSUME pc \notin {"closed", "free"}, NEW node \in DOMAIN heap
             PROVE  References(node) = 1
  BY DEF OneWayToEveryNode
<1> DEFINE Heads == HeadsAt(nodes, 0, node)
           Nexts == NextsAt(heap, DOMAIN heap, node)
           Olds  == HeadsAt(old, i + 1, node)
<1>1. Sane /\ NULL \notin DOMAIN heap
  BY NullAssumption DEF IInv, Sane
<1>2. Growing =>
        References(node) = Cardinality(Heads) + Cardinality(Nexts) + Cardinality(Olds)
                           + (IF pc \in {"grow", "tail"} /\ n = node THEN 1 ELSE 0)
                           + (IF pc = "tail" /\ other = node THEN 1 ELSE 0)
  <2> SUFFICES ASSUME Growing
               PROVE  i \in Nat /\ \A row \in DOMAIN old : row \in Nat
    BY <1>1, ReferencesAre
  <2> QED
    BY <1>1, GrowingFacts
<1>3. CASE pc \in {"ready", "find"}
  BY <1>1, <1>3, SettledOneWay DEF IInv, WhenReady, WhenFinding
<1>4. CASE pc = "grow"
  <2>1. Growing
    BY <1>4 DEF IInv, WhenGrowing
  <2> PICK moved \in SUBSET DOMAIN heap : Moving(moved, DOMAIN heap \ moved, n)
    BY <1>4 DEF IInv, WhenGrowing
  <2> PICK rest : rest = DOMAIN heap \ moved
    OBVIOUS
  <2>2. /\ Moving(moved, rest, n) /\ moved \cap rest = {} /\ rest \in SUBSET DOMAIN heap
        /\ \A a \in DOMAIN heap : a \in moved \/ a \in rest
    OBVIOUS
  <2>3. CASE node \in moved
    <3>1. /\ Cardinality(Heads) + Cardinality(Nexts) = 1
          /\ Cardinality(Heads) \in Nat /\ Cardinality(Nexts) \in Nat
          /\ Cardinality(Olds) = 0 /\ n # node
      BY <1>1, <2>1, <2>2, <2>3, MovedOneWay
    <3> QED
      BY <1>2, <1>4, <2>1, <3>1
  <2>4. CASE node \in rest
    <3>1. /\ Cardinality(Heads) = 0
          /\ Cardinality(Olds) + Cardinality(Nexts) + (IF n = node THEN 1 ELSE 0) = 1
          /\ Cardinality(Olds) \in Nat /\ Cardinality(Nexts) \in Nat
      BY <1>1, <2>1, <2>2, <2>4, RestOneWay
    <3> QED
      BY <1>2, <1>4, <2>1, <3>1
  <2> QED
    BY <2>2, <2>3, <2>4
<1>5. CASE pc = "tail"
  <2>1. Growing /\ n \in DOMAIN heap /\ heap[n].next = NULL
    BY <1>5 DEF IInv, WhenAtTail
  <2> PICK moved \in SUBSET DOMAIN heap : InHand(moved)
    BY <1>5 DEF IInv, WhenAtTail
  <2> PICK rest : rest = (DOMAIN heap \ moved) \ {n}
    OBVIOUS
  <2>2. /\ Moving(moved, rest, other) /\ moved \cap rest = {} /\ rest \in SUBSET DOMAIN heap
        /\ \A a \in DOMAIN heap : a \in moved \/ a \in rest \/ heap[a].next = NULL
        /\ n \notin moved /\ n \notin rest
    BY <2>1 DEF InHand
  <2>3. CASE node \in moved
    <3>1. /\ Cardinality(Heads) + Cardinality(Nexts) = 1
          /\ Cardinality(Heads) \in Nat /\ Cardinality(Nexts) \in Nat
          /\ Cardinality(Olds) = 0 /\ other # node
      BY <1>1, <2>1, <2>2, <2>3, MovedOneWay
    <3>2. n # node
      BY <2>2, <2>3
    <3> QED
      BY <1>2, <1>5, <2>1, <3>1, <3>2
  <2>4. CASE node \in rest
    <3>1. /\ Cardinality(Heads) = 0
          /\ Cardinality(Olds) + Cardinality(Nexts) + (IF other = node THEN 1 ELSE 0) = 1
          /\ Cardinality(Olds) \in Nat /\ Cardinality(Nexts) \in Nat
      BY <1>1, <2>1, <2>2, <2>4, RestOneWay
    <3>2. n # node
      BY <2>2, <2>4
    <3> QED
      BY <1>2, <1>5, <2>1, <3>1, <3>2
  <2>5. CASE node = n
    <3>1. /\ other \in rest \cup {NULL}
          /\ \A row \in DOMAIN nodes : nodes[row] \in moved \cup {NULL}
          /\ \A a \in moved : heap[a].next \in moved \cup {NULL}
          /\ \A row \in DOMAIN old : row > i => old[row] \in rest \cup {NULL}
          /\ \A a \in rest : heap[a].next \in rest \cup {NULL}
      BY <1>1, <2>1, <2>2, MovingFacts
    <3>2. Heads = {} /\ Nexts = {} /\ Olds = {} /\ other # node
      <4>1. i \in Nat /\ \A row \in DOMAIN old : row \in Nat
        BY <1>1, <2>1, GrowingFacts
      <4> QED
        BY <1>1, <2>2, <2>5, <3>1, <4>1 DEF HeadsAt, NextsAt
    <3>3. Cardinality(Heads) = 0 /\ Cardinality(Nexts) = 0 /\ Cardinality(Olds) = 0
      BY <3>2, FS_EmptySet, Zenon
    <3> QED
      BY <1>2, <1>5, <2>1, <2>5, <3>2, <3>3
  <2> QED
    BY <2>3, <2>4, <2>5
<1> QED
  BY <1>1, <1>3, <1>4, <1>5 DEF Sane

(* No node is lost and none is in two lists, at any turn of any loop, those *)
(* of a growth that relinks every node included (hmap.h:60-77, 134-135,     *)
(* 184-197).                                                                *)
THEOREM NoNodeIsLost == Spec => []OneWayToEveryNode
  BY HashMapInvariant, InvariantOneWay, PTL

LEMMA InvariantSize ==
  ASSUME IInv
  PROVE  SizeIsTrue
<1> SUFFICES ASSUME pc = "ready"
             PROVE  /\ size = Cardinality(DOMAIN heap)
                    /\ size <= (3 * Cap) \div 4
                    /\ size = 0 <=> \A row \in DOMAIN nodes : nodes[row] = NULL
  BY DEF SizeIsTrue
<1>1. Sane /\ Settled
  BY DEF IInv, WhenReady
<1>2. /\ size = Cardinality(DOMAIN heap) /\ size <= (3 * Cap) \div 4
      /\ \A row \in DOMAIN nodes : IsList(heap, InRow(heap, DOMAIN heap, Cap, row), nodes[row])
      /\ NULL \notin DOMAIN heap /\ IsFiniteSet(DOMAIN heap)
  BY <1>1, SettledFacts, NullAssumption DEF Sane, Settled
<1>3. size = 0 <=> DOMAIN heap = {}
  BY <1>2, FS_EmptySet
<1>4. \A row \in DOMAIN nodes :
        nodes[row] = NULL <=> InRow(heap, DOMAIN heap, Cap, row) = {}
  <2> SUFFICES ASSUME NEW row \in DOMAIN nodes
               PROVE  nodes[row] = NULL <=> InRow(heap, DOMAIN heap, Cap, row) = {}
    OBVIOUS
  <2>1. NULL \notin InRow(heap, DOMAIN heap, Cap, row)
    BY <1>2 DEF InRow
  <2> QED
    BY <1>2, <2>1, ListFacts
<1>5. ASSUME DOMAIN heap = {}, NEW row \in DOMAIN nodes
      PROVE  nodes[row] = NULL
  <2>1. InRow(heap, DOMAIN heap, Cap, row) = {}
    BY <1>5 DEF InRow
  <2> QED
    BY <1>4, <2>1
<1>6. ASSUME \A row \in DOMAIN nodes : nodes[row] = NULL, NEW a \in DOMAIN heap
      PROVE  FALSE
  <2>1. Index(heap[a].key) \in DOMAIN nodes
    BY <1>1, NodeFacts
  <2>2. a \in InRow(heap, DOMAIN heap, Cap, Index(heap[a].key))
    BY DEF InRow, Index
  <2> QED
    BY <1>4, <1>6, <2>1, <2>2
<1> QED
  BY <1>2, <1>3, <1>5, <1>6

(* Between two calls size counts the nodes, no more than three quarters of  *)
(* the rows, and an empty map is the one whose rows are all NULL: what      *)
(* Name##_all_nulls asks of the table is true exactly when it should be     *)
(* (hmap.h:36-42, 95, 191).                                                 *)
THEOREM TheSizeIsTrue == Spec => []SizeIsTrue
  BY HashMapInvariant, InvariantSize, PTL

(* Name##_free frees every node that was ever allocated and not removed     *)
(* (hmap.h:268-286).                                                        *)
THEOREM FreeingLeavesNothing == Spec => []NothingIsLeft
<1>1. IInv => NothingIsLeft
  BY DEF IInv, WhenClosed, NothingIsLeft
<1> QED
  BY <1>1, HashMapInvariant, PTL
-----------------------------------------------------------------------------
(***************************************************************************)
(* What a caller of the map sees is a dictionary (module Dictionary), for  *)
(* every set of keys and values and every hash function: each step of a    *)
(* loop is a stutter of the dictionary or the one step in which the call   *)
(* takes effect.                                                           *)
(***************************************************************************)

(* The entries of a heap.                                                   *)
Dict(h) == [k \in {h[a].key : a \in DOMAIN h} |->
              h[CHOOSE a \in DOMAIN h : h[a].key = k].value]

Distinct(h) == \A a, b \in DOMAIN h : h[a].key = h[b].key => a = b

LEMMA DictFacts ==
  ASSUME NEW h, Distinct(h)
  PROVE  /\ \A a \in DOMAIN h : /\ h[a].key \in DOMAIN Dict(h)
                                /\ Dict(h)[h[a].key] = h[a].value
         /\ \A k \in DOMAIN Dict(h) : \E a \in DOMAIN h : h[a].key = k
         /\ Dict(h) = [k \in DOMAIN Dict(h) |-> Dict(h)[k]]
<1>1. ASSUME NEW a \in DOMAIN h
      PROVE  h[a].key \in DOMAIN Dict(h) /\ Dict(h)[h[a].key] = h[a].value
  <2> DEFINE b == CHOOSE x \in DOMAIN h : h[x].key = h[a].key
  <2>1. b \in DOMAIN h /\ h[b].key = h[a].key
    OBVIOUS
  <2>2. b = a
    BY <2>1 DEF Distinct
  <2> QED
    BY <2>2 DEF Dict
<1>2. \A k \in DOMAIN Dict(h) : \E a \in DOMAIN h : h[a].key = k
  BY DEF Dict
<1>3. Dict(h) = [k \in DOMAIN Dict(h) |-> Dict(h)[k]]
  BY DEF Dict
<1> QED
  BY <1>1, <1>2, <1>3

(* A function with the entries of a heap is its dictionary.                 *)
LEMMA DictIs ==
  ASSUME NEW h, Distinct(h), NEW f, f = [k \in DOMAIN f |-> f[k]],
         \A a \in DOMAIN h : h[a].key \in DOMAIN f /\ f[h[a].key] = h[a].value,
         \A k \in DOMAIN f : \E a \in DOMAIN h : h[a].key = k
  PROVE  Dict(h) = f
<1>1. DOMAIN Dict(h) = DOMAIN f
  BY DictFacts
<1>2. \A k \in DOMAIN f : Dict(h)[k] = f[k]
  BY DictFacts
<1> QED
  BY <1>1, <1>2, DictFacts

(* Pointers are no part of it.                                              *)
LEMMA DictFrame ==
  ASSUME NEW h, NEW g, Distinct(h), DOMAIN g = DOMAIN h,
         \A a \in DOMAIN h : g[a].key = h[a].key /\ g[a].value = h[a].value
  PROVE  Dict(g) = Dict(h)
<1>1. Distinct(g)
  BY DEF Distinct
<1>2. /\ \A a \in DOMAIN g : g[a].key \in DOMAIN Dict(h) /\ Dict(h)[g[a].key] = g[a].value
      /\ \A k \in DOMAIN Dict(h) : \E a \in DOMAIN g : g[a].key = k
      /\ Dict(h) = [k \in DOMAIN Dict(h) |-> Dict(h)[k]]
  BY DictFacts
<1> QED
  BY <1>1, <1>2, DictIs

LEMMA EntriesAre ==
  /\ pc \in {"free", "closed"} => Entries = <<>>
  /\ pc \notin {"free", "closed"} => Entries = Dict(heap)
  BY DEF Entries, Dict

LEMMA EntriesWillBe ==
  /\ pc' \in {"free", "closed"} => Entries' = <<>>
  /\ pc' \notin {"free", "closed"} => Entries' = Dict(heap')
  BY DEF Entries, Dict

LEMMA SeenFacts ==
  /\ call = Idle => AsSeen = Idle
  /\ call' = Idle => AsSeen' = Idle
  /\ call.op # "insert" => AsSeen = call
  /\ call'.op # "insert" => AsSeen' = call'
  /\ call' = call => AsSeen' = AsSeen
  /\ Idle = Promise!Idle
  BY DEF AsSeen, Idle, Promise!Idle

Stutters == Entries' = Entries /\ AsSeen' = AsSeen /\ result' = result
-----------------------------------------------------------------------------
(* A step of a loop that leaves every key and value where it is.            *)
LEMMA LoopStutters ==
  ASSUME IInv,
         pc \notin {"free", "closed"}, pc' \notin {"free", "closed"},
         DOMAIN heap' = DOMAIN heap,
         \A a \in DOMAIN heap : heap'[a].key = heap[a].key /\ heap'[a].value = heap[a].value,
         call' = call, result' = result
  PROVE  Stutters
<1>1. Distinct(heap)
  BY DEF IInv, Sane, Distinct
<1>2. Dict(heap') = Dict(heap)
  BY <1>1, DictFrame
<1> QED
  BY <1>2, EntriesAre, EntriesWillBe, SeenFacts DEF Stutters

LEMMA InitMaps == Init => Promise!Init
  BY EntriesAre, SeenFacts DEF Init, Promise!Init

LEMMA NewStutters == IInv /\ New => Stutters
<1> SUFFICES ASSUME IInv, New PROVE Stutters
  OBVIOUS
<1>1. heap = <<>> /\ heap' = heap /\ call' = call /\ result' = result
      /\ pc = "closed" /\ pc' = "ready"
  BY DEF IInv, WhenClosed, New
<1>2. Dict(<<>>) = <<>>
  BY DEF Dict
<1> QED
  BY <1>1, <1>2, EntriesAre, EntriesWillBe, SeenFacts DEF Stutters

LEMMA InvokeMaps == IInv /\ Invoke => Promise!Invoke
<1> SUFFICES ASSUME IInv, Invoke PROVE Promise!Invoke
  OBVIOUS
<1> PICK op \in {"put", "get", "compute", "remove"}, k \in Keys, v \in Values :
      /\ call' = [op |-> op, key |-> k, value |-> v]
      /\ IF op = "put" /\ Full THEN StartGrowing ELSE Find(k)
  BY DEF Invoke
<1>1. /\ pc = "ready" /\ pc' \in {"grow", "find"} /\ heap' = heap /\ result' = result
      /\ call = Idle
  BY DEF Invoke, IInv, WhenReady, StartGrowing, Find, table
<1>2. Entries' = Entries
  BY <1>1, EntriesAre, EntriesWillBe
<1>3. AsSeen = Promise!Idle /\ AsSeen' = [op |-> op, key |-> k, value |-> v]
  BY <1>1, SeenFacts
<1> QED
  BY <1>1, <1>2, <1>3 DEF Promise!Invoke

LEMMA RelinkStutters == IInv /\ Relink => Stutters
<1> SUFFICES ASSUME IInv, Relink PROVE Stutters
  OBVIOUS
<1>1. Sane /\ Growing /\ pc = "grow" /\ n # NULL
  BY DEF IInv, WhenGrowing, Relink
<1> PICK moved \in SUBSET DOMAIN heap : Moving(moved, DOMAIN heap \ moved, n)
  BY <1>1 DEF IInv, WhenGrowing
<1>2. heap' = [heap EXCEPT ![n].next = NULL] /\ pc' \in {"grow", "tail"}
      /\ call' = call /\ result' = result
  BY <1>1 DEF Relink
<1>3. DOMAIN heap' = DOMAIN heap
      /\ \A a \in DOMAIN heap : heap'[a].key = heap[a].key /\ heap'[a].value = heap[a].value
  BY <1>1, <1>2, TakenOut
<1> QED
  BY <1>1, <1>2, <1>3, LoopStutters

LEMMA AppendToTailStutters == IInv /\ AppendToTail => Stutters
<1> SUFFICES ASSUME IInv, AppendToTail PROVE Stutters
  OBVIOUS
<1>1. /\ Sane /\ pc = "tail" /\ pc' = "grow" /\ call' = call /\ result' = result
      /\ heap' = [heap EXCEPT ![tail].next = n]
  BY DEF IInv, AppendToTail
<1>2. \A a \in DOMAIN heap : heap[a] \in [key : Keys, value : Values, next : Nat \cup {NULL}]
  BY <1>1 DEF Sane
<1>3. DOMAIN heap' = DOMAIN heap
      /\ \A a \in DOMAIN heap : heap'[a].key = heap[a].key /\ heap'[a].value = heap[a].value
  BY <1>1, <1>2 DEF Sane
<1> QED
  BY <1>1, <1>3, LoopStutters

LEMMA OtherLoopsStutter ==
  IInv /\ (FollowTail \/ NextRow \/ StopGrowing \/ Walk) => Stutters
<1> SUFFICES ASSUME IInv, FollowTail \/ NextRow \/ StopGrowing \/ Walk PROVE Stutters
  OBVIOUS
<1>1. /\ pc \in {"tail", "grow", "find"} /\ pc' \in {"tail", "grow", "find"}
      /\ heap' = heap /\ call' = call /\ result' = result
  BY DEF FollowTail, NextRow, StopGrowing, Walk, table
<1> QED
  BY <1>1, LoopStutters

LEMMA ComputeAbsentStutters == IInv /\ ComputeAbsent => Stutters
<1> SUFFICES ASSUME IInv, ComputeAbsent PROVE Stutters
  OBVIOUS
<1>1. /\ pc = "find" /\ pc' \in {"grow", "find"} /\ heap' = heap /\ result' = result
      /\ call \in [op : Ops, key : Keys, value : Values] /\ call.op = "compute"
      /\ call' = [call EXCEPT !.op = "insert"]
  BY DEF IInv, WhenFinding, ComputeAbsent, Absent, StartGrowing, Find, table
<1>2. AsSeen' = AsSeen
  BY <1>1 DEF AsSeen
<1> QED
  BY <1>1, <1>2, EntriesAre, EntriesWillBe DEF Stutters

(* The walk's end, in the words of the dictionary.                          *)
LEMMA FindingSeen ==
  ASSUME IInv, pc = "find"
  PROVE  /\ Distinct(heap) /\ Entries = Dict(heap)
         /\ call.key \in Keys /\ call \in [op : Ops, key : Keys, value : Values]
         /\ call.op # "insert" => AsSeen = call
         /\ AsSeen.key = call.key /\ AsSeen.value = call.value
         /\ AsSeen.op = IF call.op = "insert" THEN "compute" ELSE call.op
         /\ n # NULL => n \in DOMAIN heap
         /\ n # NULL /\ heap[n].key = call.key =>
              call.key \in DOMAIN Entries /\ Entries[call.key] = heap[n].value
         /\ n = NULL => call.key \notin DOMAIN Entries
<1>1. /\ Sane /\ Distinct(heap) /\ Entries = Dict(heap)
      /\ call \in [op : Ops, key : Keys, value : Values] /\ call.key \in Keys
      /\ n # NULL => n \in DOMAIN heap
      /\ n = NULL => \A a \in DOMAIN heap : heap[a].key # call.key
  BY FindingFacts, EntriesAre DEF IInv, Sane, Distinct, InRow
<1>2. /\ call.op # "insert" => AsSeen = call
      /\ AsSeen.key = call.key /\ AsSeen.value = call.value
      /\ AsSeen.op = IF call.op = "insert" THEN "compute" ELSE call.op
  BY <1>1 DEF AsSeen
<1> QED
  BY <1>1, <1>2, DictFacts

LEMMA Returned ==
  ASSUME NEW value, Return(value)
  PROVE  /\ result' = value /\ AsSeen' = Promise!Idle
         /\ pc' = "ready" /\ Entries' = Dict(heap')
BY ReturnFacts, SeenFacts, EntriesWillBe

LEMMA GetFoundMaps == IInv /\ GetFound => Promise!Next
<1> SUFFICES ASSUME IInv, GetFound PROVE Promise!Next
  OBVIOUS
<1>1. /\ pc = "find" /\ n # NULL /\ heap[n].key = call.key /\ call.op \in {"get", "compute"}
      /\ Return(heap[n].value) /\ heap' = heap
  BY DEF GetFound, Found, table
<1>2. /\ AsSeen = call /\ Entries = Dict(heap) /\ Distinct(heap)
      /\ call.key \in DOMAIN Entries /\ Entries[call.key] = heap[n].value
  BY <1>1, FindingSeen
<1>3. result' = heap[n].value /\ AsSeen' = Promise!Idle /\ Entries' = Entries
  BY <1>1, <1>2, Returned
<1>4. CASE call.op = "get"
  BY <1>2, <1>3, <1>4 DEF Promise!Next, Promise!Get, Promise!Current
<1>5. CASE call.op = "compute"
  <2>1. Entries = [k \in DOMAIN Entries |-> Entries[k]]
    BY <1>2, DictFacts
  <2>2. Promise!With(call.key, Entries[call.key]) = Entries
    BY <1>2, <2>1 DEF Promise!With
  <2> QED
    BY <1>2, <1>3, <1>5, <2>2 DEF Promise!Next, Promise!Compute
<1> QED
  BY <1>1, <1>4, <1>5

LEMMA NothingFoundMaps == IInv /\ NothingFound => Promise!Next
<1> SUFFICES ASSUME IInv, NothingFound PROVE Promise!Next
  OBVIOUS
<1>1. /\ pc = "find" /\ n = NULL /\ call.op \in {"get", "remove"}
      /\ Return(Zero) /\ heap' = heap
  BY DEF NothingFound, Absent, table
<1>2. /\ AsSeen = call /\ Entries = Dict(heap) /\ Distinct(heap)
      /\ call.key \notin DOMAIN Entries
  BY <1>1, FindingSeen
<1>3. result' = Zero /\ AsSeen' = Promise!Idle /\ Entries' = Entries
  BY <1>1, <1>2, Returned
<1>4. CASE call.op = "get"
  BY <1>2, <1>3, <1>4 DEF Promise!Next, Promise!Get, Promise!Current
<1>5. CASE call.op = "remove"
  <2>1. Entries = [k \in DOMAIN Entries |-> Entries[k]]
    BY <1>2, DictFacts
  <2>2. Promise!Without(call.key) = Entries
    BY <1>2, <2>1 DEF Promise!Without
  <2> QED
    BY <1>2, <1>3, <1>5, <2>2 DEF Promise!Next, Promise!Remove, Promise!Current
<1> QED
  BY <1>1, <1>4, <1>5

LEMMA PutFoundMaps == IInv /\ PutFound => Promise!Next
<1> SUFFICES ASSUME IInv, PutFound PROVE Promise!Next
  OBVIOUS
<1>1. /\ pc = "find" /\ n # NULL /\ heap[n].key = call.key /\ call.op = "put"
      /\ Return(heap[n].value) /\ heap' = [heap EXCEPT ![n].value = call.value]
  BY DEF PutFound, Found
<1>2. /\ AsSeen = call /\ Entries = Dict(heap) /\ Distinct(heap) /\ n \in DOMAIN heap
      /\ call.key \in DOMAIN Entries /\ Entries[call.key] = heap[n].value
  BY <1>1, FindingSeen
<1>3. result' = heap[n].value /\ AsSeen' = Promise!Idle /\ Entries' = Dict(heap')
  BY <1>1, Returned
<1>4. /\ DOMAIN heap' = DOMAIN heap
      /\ \A a \in DOMAIN heap : /\ heap'[a].key = heap[a].key
                                /\ a # n => heap'[a].value = heap[a].value
      /\ heap'[n].value = call.value
  <2>1. \A a \in DOMAIN heap : heap[a] \in [key : Keys, value : Values, next : Nat \cup {NULL}]
    BY DEF IInv, Sane
  <2> QED
    BY <1>1, <1>2, <2>1 DEF IInv, Sane
<1>5. Entries' = Promise!With(call.key, call.value)
  <2> DEFINE f == Promise!With(call.key, call.value)
  <2>1. /\ DOMAIN f = DOMAIN Entries /\ f[call.key] = call.value
        /\ \A k \in DOMAIN Entries : k # call.key => f[k] = Entries[k]
        /\ f = [k \in DOMAIN f |-> f[k]]
    BY <1>2 DEF Promise!With
  <2> HIDE DEF f
  <2>2. Distinct(heap')
    BY <1>2, <1>4 DEF Distinct
  <2>3. \A a \in DOMAIN heap' : heap'[a].key \in DOMAIN f /\ f[heap'[a].key] = heap'[a].value
    <3> SUFFICES ASSUME NEW a \in DOMAIN heap
                 PROVE  heap'[a].key \in DOMAIN f /\ f[heap'[a].key] = heap'[a].value
      BY <1>4
    <3>1. heap[a].key \in DOMAIN Entries /\ Entries[heap[a].key] = heap[a].value
      BY <1>2, DictFacts
    <3>2. CASE a = n
      BY <1>1, <1>2, <1>4, <2>1, <3>2
    <3>3. CASE a # n
      <4>1. heap[a].key # call.key
        BY <1>1, <1>2, <3>3 DEF Distinct
      <4> QED
        BY <1>4, <2>1, <3>1, <3>3, <4>1
    <3> QED
      BY <3>2, <3>3
  <2>4. \A k \in DOMAIN f : \E a \in DOMAIN heap' : heap'[a].key = k
    BY <1>2, <1>4, <2>1, DictFacts
  <2>5. Dict(heap') = f
    BY <2>1, <2>2, <2>3, <2>4, DictIs
  <2> QED
    BY <1>3, <2>5 DEF f
<1> QED
  BY <1>1, <1>2, <1>3, <1>5 DEF Promise!Next, Promise!Put, Promise!Current

LEMMA RemoveFoundMaps == IInv /\ RemoveFound => Promise!Next
<1> SUFFICES ASSUME IInv, RemoveFound PROVE Promise!Next
  OBVIOUS
<1>1. /\ pc = "find" /\ n # NULL /\ heap[n].key = call.key /\ call.op = "remove"
      /\ Return(heap[n].value)
  BY DEF RemoveFound, Found
<1>2. /\ AsSeen = call /\ Entries = Dict(heap) /\ Distinct(heap) /\ n \in DOMAIN heap
      /\ call.key \in DOMAIN Entries /\ Entries[call.key] = heap[n].value
  BY <1>1, FindingSeen
<1>3. result' = heap[n].value /\ AsSeen' = Promise!Idle /\ Entries' = Dict(heap')
  BY <1>1, Returned
<1>4. /\ DOMAIN heap' = DOMAIN heap \ {n}
      /\ \A a \in DOMAIN heap' : heap'[a].key = heap[a].key /\ heap'[a].value = heap[a].value
  <2>1. /\ DOMAIN Forget(n) = DOMAIN heap \ {n}
        /\ \A a \in DOMAIN heap \ {n} : Forget(n)[a] = heap[a]
        /\ \A a \in DOMAIN heap \ {n} :
             Forget(n)[a] \in [key : Keys, value : Values, next : Nat \cup {NULL}]
    BY <1>2, ForgetFacts DEF IInv
  <2>2. CASE other = NULL
    BY <2>1, <2>2 DEF RemoveFound
  <2>3. CASE other # NULL
    <3>1. heap' = [Forget(n) EXCEPT ![other].next = heap[n].next]
      BY <2>3 DEF RemoveFound
    <3> QED
      BY <2>1, <3>1
  <2> QED
    BY <2>2, <2>3
<1>5. Entries' = Promise!Without(call.key)
  <2> DEFINE f == Promise!Without(call.key)
  <2>1. /\ DOMAIN f = DOMAIN Entries \ {call.key}
        /\ \A k \in DOMAIN f : f[k] = Entries[k]
        /\ f = [k \in DOMAIN f |-> f[k]]
    BY <1>2 DEF Promise!Without
  <2> HIDE DEF f
  <2>2. Distinct(heap')
    BY <1>2, <1>4 DEF Distinct
  <2>3. \A a \in DOMAIN heap' : heap'[a].key \in DOMAIN f /\ f[heap'[a].key] = heap'[a].value
    <3> SUFFICES ASSUME NEW a \in DOMAIN heap'
                 PROVE  heap'[a].key \in DOMAIN f /\ f[heap'[a].key] = heap'[a].value
      OBVIOUS
    <3>1. a \in DOMAIN heap /\ a # n
      BY <1>4
    <3>2. heap[a].key # call.key
      BY <1>1, <1>2, <3>1 DEF Distinct
    <3>3. heap[a].key \in DOMAIN Entries /\ Entries[heap[a].key] = heap[a].value
      BY <1>2, <3>1, DictFacts
    <3> QED
      BY <1>4, <2>1, <3>2, <3>3
  <2>4. \A k \in DOMAIN f : \E a \in DOMAIN heap' : heap'[a].key = k
    <3> SUFFICES ASSUME NEW k \in DOMAIN f PROVE \E a \in DOMAIN heap' : heap'[a].key = k
      OBVIOUS
    <3>1. PICK a \in DOMAIN heap : heap[a].key = k
      BY <1>2, <2>1, DictFacts
    <3>2. a # n
      BY <1>1, <2>1, <3>1
    <3> QED
      BY <1>4, <3>1, <3>2
  <2>5. Dict(heap') = f
    BY <2>1, <2>2, <2>3, <2>4, DictIs
  <2> QED
    BY <1>3, <2>5 DEF f
<1> QED
  BY <1>1, <1>2, <1>3, <1>5 DEF Promise!Next, Promise!Remove, Promise!Current

LEMMA PutAbsentMaps == IInv /\ PutAbsent => Promise!Next
<1> SUFFICES ASSUME IInv, PutAbsent PROVE Promise!Next
  OBVIOUS
<1> PICK x : x = Free
  OBVIOUS
<1> PICK head : head = nodes[i]
  OBVIOUS
<1> DEFINE node == [key |-> call.key, value |-> call.value, next |-> After(head)]
           kept == IF head = NULL THEN heap ELSE [heap EXCEPT ![head].next = x]
<1>1. /\ pc = "find" /\ n = NULL /\ call.op \in {"put", "insert"}
      /\ heap' = [a \in DOMAIN heap \cup {x} |-> IF a = x THEN node ELSE kept[a]]
      /\ Return(IF call.op = "put" THEN Zero ELSE call.value)
  BY DEF PutAbsent, Absent
<1>2. /\ AsSeen.key = call.key /\ AsSeen.value = call.value
      /\ AsSeen.op = IF call.op = "insert" THEN "compute" ELSE call.op
      /\ Entries = Dict(heap) /\ Distinct(heap)
      /\ call.key \notin DOMAIN Entries
  BY <1>1, FindingSeen
<1>3. /\ result' = IF call.op = "put" THEN Zero ELSE call.value
      /\ AsSeen' = Promise!Idle /\ Entries' = Dict(heap')
  BY <1>1, Returned
<1>4. x \notin DOMAIN heap
  BY FreeIsFree DEF IInv, Sane
<1>5. /\ DOMAIN heap' = DOMAIN heap \cup {x}
      /\ \A a \in DOMAIN heap : heap'[a].key = heap[a].key /\ heap'[a].value = heap[a].value
      /\ heap'[x].key = call.key /\ heap'[x].value = call.value
  <2>1. \A a \in DOMAIN heap : heap[a] \in [key : Keys, value : Values, next : Nat \cup {NULL}]
    BY DEF IInv, Sane
  <2>2. \A a \in DOMAIN heap : kept[a].key = heap[a].key /\ kept[a].value = heap[a].value
    <3>1. CASE head = NULL
      BY <3>1
    <3>2. CASE head # NULL
      BY <2>1, <3>2 DEF IInv, Sane
    <3> QED
      BY <3>1, <3>2
  <2>3. node.key = call.key /\ node.value = call.value
    OBVIOUS
  <2> HIDE DEF node, kept
  <2> QED
    BY <1>1, <1>4, <2>2, <2>3
<1>6. Entries' = Promise!With(call.key, call.value)
  <2> DEFINE f == Promise!With(call.key, call.value)
  <2>1. /\ DOMAIN f = DOMAIN Entries \cup {call.key} /\ f[call.key] = call.value
        /\ \A k \in DOMAIN Entries : k # call.key => f[k] = Entries[k]
        /\ f = [k \in DOMAIN f |-> f[k]]
    BY DEF Promise!With
  <2> HIDE DEF f
  <2>2. \A a \in DOMAIN heap :
          /\ heap[a].key \in DOMAIN Entries /\ Entries[heap[a].key] = heap[a].value
          /\ heap[a].key # call.key
    BY <1>2, DictFacts
  <2>3. Distinct(heap')
    BY <1>2, <1>5, <2>2 DEF Distinct
  <2>4. \A a \in DOMAIN heap' : heap'[a].key \in DOMAIN f /\ f[heap'[a].key] = heap'[a].value
    BY <1>5, <2>1, <2>2
  <2>5. \A k \in DOMAIN f : \E a \in DOMAIN heap' : heap'[a].key = k
    BY <1>2, <1>5, <2>1, DictFacts
  <2>6. Dict(heap') = f
    BY <2>1, <2>3, <2>4, <2>5, DictIs
  <2> QED
    BY <1>3, <2>6 DEF f
<1>7. CASE call.op = "put"
  BY <1>2, <1>3, <1>6, <1>7 DEF Promise!Next, Promise!Put, Promise!Current
<1>8. CASE call.op = "insert"
  BY <1>2, <1>3, <1>6, <1>8 DEF Promise!Next, Promise!Compute
<1> QED
  BY <1>1, <1>7, <1>8

LEMMA FreeingMaps ==
  /\ IInv /\ StartFreeing => Promise!Next
  /\ IInv /\ (FreeNode \/ FreeRow) => Stutters
<1>1. ASSUME IInv, StartFreeing PROVE Promise!Next
  <2>1. call = Idle /\ call' = call /\ result' = result /\ pc' = "free"
    BY <1>1 DEF IInv, WhenReady, StartFreeing
  <2> QED
    BY <2>1, SeenFacts, EntriesWillBe DEF Promise!Next, Promise!Free
<1>2. ASSUME IInv, FreeNode \/ FreeRow PROVE Stutters
  <2>1. pc = "free" /\ pc' \in {"free", "closed"} /\ call' = call /\ result' = result
    BY <1>2 DEF FreeNode, FreeRow
  <2> QED
    BY <2>1, EntriesAre, EntriesWillBe, SeenFacts DEF Stutters
<1> QED
  BY <1>1, <1>2
-----------------------------------------------------------------------------
LEMMA StepMaps ==
  ASSUME IInv, [Next]_vars
  PROVE  [Promise!Next]_<<Entries, AsSeen, result>>
<1>1. SUFFICES Promise!Next \/ Stutters
  BY DEF Stutters
<1>2. CASE UNCHANGED vars
  <2>1. heap' = heap /\ pc' = pc /\ call' = call /\ result' = result
    BY <1>2 DEF vars, table
  <2> QED
    BY <2>1, EntriesAre, EntriesWillBe, SeenFacts DEF Stutters
<1>3. CASE New
  BY <1>3, NewStutters
<1>4. CASE Invoke
  BY <1>4, InvokeMaps DEF Promise!Next
<1>5. CASE StartFreeing
  BY <1>5, FreeingMaps
<1>6. CASE Working
  BY <1>6, RelinkStutters, AppendToTailStutters, OtherLoopsStutter, ComputeAbsentStutters,
     GetFoundMaps, NothingFoundMaps, PutFoundMaps, RemoveFoundMaps, PutAbsentMaps,
     FreeingMaps DEF Working
<1> QED
  BY <1>2, <1>3, <1>4, <1>5, <1>6 DEF Next

(* What a caller sees of the map is a dictionary, whatever growth, removal  *)
(* and insertion do to the lists: a get returns what was put last, Zero     *)
(* when nothing was, and a compute_if_absent that has to grow the table     *)
(* first still inserts the value it made (hmap.h:81-265).                   *)
THEOREM TheMapIsADictionary == Spec => IsADictionary
<1>1. Init => Promise!Init
  BY InitMaps
<1>2. IInv /\ [Next]_vars => [Promise!Next]_<<Entries, AsSeen, result>>
  BY StepMaps
<1> QED
  BY <1>1, <1>2, HashMapInvariant, PTL DEF Spec, IsADictionary, Promise!Spec
=============================================================================
