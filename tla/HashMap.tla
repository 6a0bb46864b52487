------------------------------- MODULE HashMap -------------------------------
(***************************************************************************)
(* The hash map of hmap.h (DEFINE_HMAP): a table of buckets, each the head *)
(* of a list of nodes that are linked by pointers.  One action for every   *)
(* turn of its loops.  A node is a number, its address; a key is what      *)
(* strcmp tells apart, and Hash its hash.                                  *)
(***************************************************************************)
EXTENDS Naturals, FiniteSets

CONSTANTS
  Keys, Values,
  Zero,       \* (Type)0, one of the values
  NULL,       \* the null pointer
  Hash,       \* Name##_hash, of every key
  InitialCap  \* HASH_MAP_DEFAULT_CAPACITY

ASSUME ValuesAssumption == Zero \in Values
ASSUME NullAssumption   == NULL \notin Nat
ASSUME HashAssumption   == Hash \in [Keys -> Nat]
ASSUME CapAssumption    == InitialCap \in Nat \ {0}

VARIABLES
  heap,    \* the nodes that are allocated
  nodes,   \* hm->nodes
  size,    \* hm->size
  old,     \* old_nodes of Name##_grow
  pc,      \* where the call is
  call,    \* the call, or Idle
  i,       \* the row of the loops over a table
  n,       \* the node of the innermost loop
  other,   \* prev of Name##_remove, next of Name##_grow
  tail,    \* head, in Name##_grow
  result   \* what the last call returned

table == <<heap, nodes, size>>
vars  == <<table, old, pc, call, i, n, other, tail, result>>

NewTable(cap) == [row \in 0 .. cap - 1 |-> NULL]
Cap           == Cardinality(DOMAIN nodes)
Index(key)    == Hash[key] % Cap

Idle == [op |-> "none"]

Init ==
  /\ heap = <<>> /\ nodes = NewTable(InitialCap) /\ size = 0
  /\ old = <<>>
  /\ pc = "closed" /\ call = Idle
  /\ i = 0 /\ n = NULL /\ other = NULL /\ tail = NULL
  /\ result = Zero

New ==
  /\ pc = "closed"
  /\ nodes' = NewTable(InitialCap) /\ size' = 0
  /\ pc' = "ready"
  /\ UNCHANGED <<heap, old, call, i, n, other, tail, result>>

Locals(row, node) == i' = row /\ n' = node /\ other' = NULL /\ tail' = NULL

Return(value) ==
  /\ result' = value
  /\ pc' = "ready" /\ call' = Idle
  /\ Locals(0, NULL)
-----------------------------------------------------------------------------
(* Every call but put walks its list at once; put looks at the load first, *)
(* and so may grow the table for a key that is already in it.              *)
Find(key) ==
  /\ pc' = "find"
  /\ Locals(Index(key), nodes[Index(key)])
  /\ UNCHANGED <<table, old>>

(* A definition marked "Mistake" is the one that follows it with a bug the *)
(* code could well have; nothing uses it but the check of the properties.  *)

(* Mistake: the node to come is not counted. *)
FullLate == size > (3 * Cap) \div 4

Full == size + 1 > (3 * Cap) \div 4

StartGrowing ==
  /\ old' = nodes /\ nodes' = NewTable(2 * Cap) /\ size' = 0
  /\ pc' = "grow"
  /\ Locals(0, nodes[0])
  /\ UNCHANGED heap

Invoke ==
  /\ pc = "ready"
  /\ \E op \in {"put", "get", "compute", "remove"}, k \in Keys, v \in Values :
       /\ op \in {"get", "remove"} => v = Zero \* they take no value
       /\ call' = [op |-> op, key |-> k, value |-> v]
       /\ IF op = "put" /\ Full THEN StartGrowing ELSE Find(k)
  /\ UNCHANGED result
-----------------------------------------------------------------------------
(* Name##_grow: every node goes to the end of its new list. *)

Relink ==
  /\ pc = "grow" /\ n # NULL
  /\ heap' = [heap EXCEPT ![n].next = NULL]
  /\ LET head == nodes[Index(heap[n].key)]
     IN  IF head = NULL
         THEN /\ nodes' = [nodes EXCEPT ![Index(heap[n].key)] = n]
              /\ size' = size + 1
              /\ n' = heap[n].next
              /\ UNCHANGED <<pc, other, tail>>
         ELSE /\ other' = heap[n].next
              /\ tail' = head
              /\ pc' = "tail"
              /\ UNCHANGED <<nodes, size, n>>
  /\ UNCHANGED <<old, call, i, result>>

FollowTail ==
  /\ pc = "tail" /\ heap[tail].next # NULL
  /\ tail' = heap[tail].next
  /\ UNCHANGED <<table, old, pc, call, i, n, other, result>>

AppendToTail ==
  /\ pc = "tail" /\ heap[tail].next = NULL
  /\ heap' = [heap EXCEPT ![tail].next = n]
  /\ size' = size + 1
  /\ n' = other /\ other' = NULL /\ tail' = NULL
  /\ pc' = "grow"
  /\ UNCHANGED <<nodes, old, call, i, result>>

NextRow ==
  /\ pc = "grow" /\ n = NULL /\ i + 1 \in DOMAIN old
  /\ Locals(i + 1, old[i + 1])
  /\ UNCHANGED <<table, old, pc, call, result>>

StopGrowing ==
  /\ pc = "grow" /\ n = NULL /\ i + 1 \notin DOMAIN old
  /\ old' = <<>>
  /\ pc' = "find"
  /\ Locals(Index(call.key), nodes[Index(call.key)])
  /\ UNCHANGED <<table, call, result>>
-----------------------------------------------------------------------------
(* The walk along a list, and what a call does with the node it finds. *)
Found(op) == pc = "find" /\ n # NULL /\ heap[n].key = call.key /\ call.op = op

(* Mistake: n is not moved on. *)
WalkInPlace ==
  /\ pc = "find" /\ n # NULL /\ heap[n].key # call.key
  /\ other' = n
  /\ UNCHANGED <<table, old, pc, call, i, n, tail, result>>

Walk ==
  /\ pc = "find" /\ n # NULL /\ heap[n].key # call.key
  /\ other' = n /\ n' = heap[n].next
  /\ UNCHANGED <<table, old, pc, call, i, tail, result>>

GetFound ==
  /\ Found("get") \/ Found("compute")
  /\ Return(heap[n].value)
  /\ UNCHANGED <<table, old>>

PutFound ==
  /\ Found("put")
  /\ heap' = [heap EXCEPT ![n].value = call.value]
  /\ Return(heap[n].value)
  /\ UNCHANGED <<nodes, size, old>>

Forget(node) == [a \in DOMAIN heap \ {node} |-> heap[a]]

(* Mistake: the rest of the list goes with a removed head. *)
RemoveList ==
  /\ Found("remove")
  /\ IF other = NULL
     THEN nodes' = [nodes EXCEPT ![i] = NULL] /\ heap' = Forget(n)
     ELSE /\ heap' = [Forget(n) EXCEPT ![other].next = heap[n].next]
          /\ UNCHANGED nodes
  /\ size' = size - 1
  /\ Return(heap[n].value)
  /\ UNCHANGED old

(* Mistake: the removed head stays in the table. *)
RemoveBehindHead ==
  /\ Found("remove")
  /\ heap' = IF other = NULL THEN Forget(n) ELSE [Forget(n) EXCEPT ![other].next = heap[n].next]
  /\ size' = size - 1
  /\ Return(heap[n].value)
  /\ UNCHANGED <<nodes, old>>

RemoveFound ==
  /\ Found("remove")
  /\ IF other = NULL
     THEN nodes' = [nodes EXCEPT ![i] = heap[n].next] /\ heap' = Forget(n)
     ELSE /\ heap' = [Forget(n) EXCEPT ![other].next = heap[n].next]
          /\ UNCHANGED nodes
  /\ size' = size - 1
  /\ Return(heap[n].value)
  /\ UNCHANGED old
-----------------------------------------------------------------------------
(* The end of the list without the key. *)
Absent(op) == pc = "find" /\ n = NULL /\ call.op = op

NothingFound ==
  /\ Absent("get") \/ Absent("remove")
  /\ Return(Zero)
  /\ UNCHANGED <<table, old>>

(* malloc: some address that is not in use *)
Free == CHOOSE a \in 1 .. Cardinality(DOMAIN heap) + 1 : a \notin DOMAIN heap

(* Mistake: the new node is put behind the head as if it were the last. *)
Cut(head) == NULL

(* Where the new node's list goes on: it is the second one, or the head. *)
After(head) == IF head = NULL THEN NULL ELSE heap[head].next

(* Name##_put; as a part of compute_if_absent it returns the new value. *)
PutAbsent ==
  /\ Absent("put") \/ Absent("insert")
  /\ LET head == nodes[i]
         node == [key |-> call.key, value |-> call.value, next |-> After(head)]
         kept == IF head = NULL THEN heap ELSE [heap EXCEPT ![head].next = Free]
     IN  /\ heap' = [a \in DOMAIN heap \cup {Free} |-> IF a = Free THEN node ELSE kept[a]]
         /\ nodes' = IF head = NULL THEN [nodes EXCEPT ![i] = Free] ELSE nodes
  /\ size' = size + 1
  /\ Return(IF call.op = "put" THEN Zero ELSE call.value)
  /\ UNCHANGED old

(* compute_if_absent: the constructor has made the value, put is called. *)
ComputeAbsent ==
  /\ Absent("compute")
  /\ call' = [call EXCEPT !.op = "insert"]
  /\ IF Full THEN StartGrowing ELSE Find(call.key)
  /\ UNCHANGED result
-----------------------------------------------------------------------------
(* Name##_free; the deallocator of the values is called on each node's. *)
StartFreeing ==
  /\ pc = "ready"
  /\ pc' = "free" /\ Locals(0, nodes[0])
  /\ UNCHANGED <<table, old, call, result>>

FreeNode ==
  /\ pc = "free" /\ n # NULL
  /\ heap' = Forget(n) /\ n' = heap[n].next
  /\ UNCHANGED <<nodes, size, old, pc, call, i, other, tail, result>>

(* Mistake: the rows that growth has added are left out. *)
FreeFirstRows ==
  /\ pc = "free" /\ n = NULL
  /\ IF i + 1 < InitialCap
     THEN Locals(i + 1, nodes[i + 1]) /\ UNCHANGED pc
     ELSE Locals(0, NULL) /\ pc' = "closed"
  /\ UNCHANGED <<table, old, call, result>>

FreeRow ==
  /\ pc = "free" /\ n = NULL
  /\ IF i + 1 < Cap
     THEN Locals(i + 1, nodes[i + 1]) /\ UNCHANGED pc
     ELSE Locals(0, NULL) /\ pc' = "closed"
  /\ UNCHANGED <<table, old, call, result>>

Working ==
  \/ Relink \/ FollowTail \/ AppendToTail \/ NextRow \/ StopGrowing
  \/ Walk \/ GetFound \/ PutFound \/ RemoveFound
  \/ NothingFound \/ PutAbsent \/ ComputeAbsent
  \/ FreeNode \/ FreeRow

Next == New \/ Invoke \/ StartFreeing \/ Working

(* A call that has begun goes on; nobody has to make one. *)
Spec == Init /\ [][Next]_vars /\ WF_vars(Working)
-----------------------------------------------------------------------------
Pointers == DOMAIN heap \cup {NULL}

TypeOK ==
  /\ heap \in [DOMAIN heap -> [key : Keys, value : Values, next : Pointers]]
  /\ DOMAIN heap \subseteq Nat
  /\ size \in Nat
  /\ pc \in {"closed", "ready", "find", "grow", "tail", "free"}
  /\ call = Idle \/ call \in [op : {"put", "get", "compute", "insert", "remove"},
                              key : Keys, value : Values]
  /\ pc \in {"ready", "find", "grow", "tail"} => nodes \in [DOMAIN nodes -> Pointers]
  /\ {n, other, tail} \subseteq Pointers
  /\ i \in Nat /\ result \in Values

(* The pointers to a node: the head of its list, the node before it, a row *)
(* of the old table that has not been reached, and next in Name##_grow.    *)
References(node) ==
  Cardinality({row \in DOMAIN nodes : nodes[row] = node})
  + Cardinality({a \in DOMAIN heap : heap[a].next = node})
  + Cardinality({row \in DOMAIN old : row > i /\ old[row] = node})
  + (IF pc \in {"grow", "tail"} /\ n = node THEN 1 ELSE 0)
  + (IF pc = "tail" /\ other = node THEN 1 ELSE 0)

(* No node is lost and none is in two lists, at any turn of any loop: one  *)
(* pointer leads to every node that is allocated (hmap.h:60-77, 134-135,   *)
(* 184-197).                                                               *)
OneWayToEveryNode ==
  pc \notin {"closed", "free"} => \A node \in DOMAIN heap : References(node) = 1

(* Between two calls size is the number of nodes, the table is at most     *)
(* three quarters full, and nodes[] is all NULL when size is 0             *)
(* (Name##_all_nulls, which hmap_test.c asserts after removing all).       *)
SizeIsTrue ==
  pc = "ready" =>
    /\ size = Cardinality(DOMAIN heap)
    /\ size <= (3 * Cap) \div 4
    /\ size = 0 <=> \A row \in DOMAIN nodes : nodes[row] = NULL

(* Freeing a map frees every node it ever allocated and did not free.      *)
NothingIsLeft == pc = "closed" => heap = <<>>

(* Every call returns: no list is a ring.                                  *)
CallsReturn == pc # "ready" ~> pc \in {"ready", "closed"}

(* What a caller sees is a dictionary (module Dictionary): the entries are *)
(* the nodes, wherever a growth that is under way has them.                *)
Entries ==
  IF pc \in {"free", "closed"} THEN <<>>
  ELSE [k \in {heap[a].key : a \in DOMAIN heap} |->
          heap[CHOOSE a \in DOMAIN heap : heap[a].key = k].value]

AsSeen == IF call.op = "insert" THEN [call EXCEPT !.op = "compute"] ELSE call

Promise == INSTANCE Dictionary WITH dict <- Entries, call <- AsSeen
IsADictionary == Promise!Spec
=============================================================================
