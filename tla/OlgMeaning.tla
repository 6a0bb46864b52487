----------------------------- MODULE OlgMeaning -----------------------------
(***************************************************************************)
(* What a program of the prototype means, as functions of its tree: no C   *)
(* stack, no list of deferred statements with marks into it, no catch      *)
(* frames.  A statement maps a state to a state; an environment is an      *)
(* argument; what a statement has deferred and not run is part of its      *)
(* result, for the block or the call around it to run or to hand on.       *)
(* Arithmetic is exact: the result is the number of its type that is       *)
(* congruent to it, or that is next to it for a quotient, and a comparison *)
(* is one of numbers.                                                      *)
(*                                                                         *)
(* The documents of the language and the prototype differ at some points.  *)
(* At those in Documented, a program means here what the documents say,    *)
(* at the others what exec.c does:                                         *)
(*   "order"     deferred statements run last in, first out                *)
(*               (OWNERSHIP_RULES.md:81, README.md:1757-1758)              *)
(*   "exits"     they run at the end of their block, too, when it is left  *)
(*               by a return, a break or a continue (README.md:1755-1756,  *)
(*               OWNERSHIP_RULES.md:81)                                    *)
(*   "failures"  and when it is left by a failure on its way to the catch  *)
(*               or out of the function (README.md:1061-1062, 1184-1187,   *)
(*               1756-1757)                                                *)
(*   "try"       try unwraps the value of its statement (README.md:1038)   *)
(*   "labels"    continue takes a label as break does (README.md:318)      *)
(*   "ordinals"  the ordinal of a loop counts from 0 (README.md:332-335)   *)
(*   "slices"    a lower bound that is left out is 0 (GRAMMAR.md:747)      *)
(*   "branches"  a checked if without a then has its else                  *)
(*               (GRAMMAR.md:532-534)                                      *)
(*   "bodies"    a function expression without a type of its result has a  *)
(*               body (GRAMMAR.md:823)                                     *)
(*   "shifts"    <<~ and >>~ are cyclic (README.md:182)                    *)
(*   "equality"  == and != compare bools and enums (the comment at         *)
(*               exec.c:258)                                               *)
(* The documents are about programs with types.  Of others, as of one that *)
(* defers a jump or drops an error, they say nothing, and neither does     *)
(* this: it goes on as exec.c would.                                       *)
(***************************************************************************)
EXTENDS OlgOperators, Sequences, SequencesExt

CONSTANT Documented \* the points at which to follow the documents

As(point) == point \in Documented

(* A state: environments and output so far, the value, flow, label and     *)
(* returned value, what is deferred, how many regions and called functions *)
(* there are around, and the fate: "fine", "raised" or the diagnostic that *)
(* ends it all.                                                            *)
Fresh ==
  [ envs |-> GlobalEnvs, out |-> <<>>, v |-> Void, flow |-> "FL_NONE",
    label |-> NoLabel, ret |-> Void, defers |-> <<>>, styp |-> <<>>,
    around |-> 0, fate |-> "fine" ]

Fine(s)   == s.fate = "fine"
Goes(s)   == Fine(s) /\ s.flow = "FL_NONE"
Gives(s, v) == [s EXCEPT !.v = v]
Dies(s, msg) == [s EXCEPT !.fate = msg]
Then(s, next(_)) == IF Fine(s) THEN next(s) ELSE s

Knows(s, env, nm, v) == [s EXCEPT !.envs[env].b = Append(@, [nm |-> nm, v |-> v])]
Names(s, env, nm, v) == IF nm = "_" THEN s ELSE Knows(s, env, nm, v)

Place(s, env, nm) ==
  LET find[a \in 0 .. Len(s.envs)] ==
        IF a = 0 THEN <<>>
        ELSE LET hits == {i \in DOMAIN s.envs[a].b : s.envs[a].b[i].nm = nm}
             IN  IF hits = {} THEN find[s.envs[a].parent] ELSE <<a, Max(hits)>>
  IN  find[env]

Value(s, place) == s.envs[place[1]].b[place[2]].v
Store(s, place, v) == [s EXCEPT !.envs[place[1]].b[place[2]].v = v]

Opens(s, parent) == [s EXCEPT !.envs = Append(@, [parent |-> parent, b |-> <<>>])]

(* A condition. *)
Decides(s, yes(_), no(_)) ==
  IF ~Fine(s) THEN s
  ELSE IF ~Usable(s.v) THEN Dies(s, "not a condition")
  ELSE IF Truth(s.v) THEN yes(s) ELSE no(s)

Missing(s) == s.v.k \in {"V_ERR", "V_VOID"}

(* A result that may be a Fault. *)
Yields(s, r) == IF r.k = "fault" THEN Dies(s, r.msg) ELSE Gives(s, r)

Number(v) == IF v.k = "V_UINT" THEN v.u ELSE v.i
Ints  == -Half .. Half - 1
Uints == 0 .. 2 * Half - 1

(* The int, or the uint if one operand is one, that n is up to whole words. *)
AsInt(n)  == Num(CHOOSE i \in Ints : (i - n) % (2 * Half) = 0)
AsUint(n) == Uint(CHOOSE u \in Uints : (u - n) % (2 * Half) = 0)
Like(a, b, n) == IF a.k = "V_UINT" \/ b.k = "V_UINT" THEN AsUint(n) ELSE AsInt(n)

(* The quotient towards zero: what is left over has the sign of x. *)
Nearest(x, y) ==
  CHOOSE q \in -(2 * Half) .. 2 * Half :
    LET rest == x - q * y
    IN  Abs(rest) < Abs(y) /\ (rest = 0 \/ (rest < 0) = (x < 0))

Quot(op, a, b) ==
  LET x == Number(Like(a, b, Number(a)))
      y == Number(Like(a, b, Number(b)))
      q == Nearest(x, y)
  IN  IF y = 0 THEN Fault("division by zero")
      ELSE IF a.k # "V_UINT" /\ b.k # "V_UINT" /\ q \notin Ints THEN Fault("division overflow")
      ELSE Like(a, b, IF op = "/" THEN q ELSE x - q * y)

(* A shift multiplies or divides by a power of two. *)
ShiftBy(op, a, b) ==
  LET by == Number(AsInt(Number(b)))
      i  == Number(AsInt(Number(a)))
      u  == Number(AsUint(Number(a)))
      lost == IF by > 0 /\ (i < 0 \/ As("shifts")) THEN u \div 2^(Width - by) ELSE 0
  IN  IF by \notin 0 .. Width - 1 THEN Fault("shift out of range")
      ELSE Like(a, b, CASE op = "<<"  -> i * 2^by
                        [] op = ">>"  -> i \div 2^by
                        [] op = "<<~" -> i * 2^by + lost
                        [] op = ">>~" /\ As("shifts") -> u \div 2^by + (u % 2^by) * 2^(Width - by)
                        [] OTHER      -> u \div 2^by)

(* The powers of two that a word is the sum of. *)
Powers(v) == {p \in {2^i : i \in 0 .. Width - 1} : (Number(AsUint(Number(v))) \div p) % 2 = 1}
Bits(op, a, b) ==
  Like(a, b, SumSet(CASE op = "&" -> Powers(a) \cap Powers(b)
                      [] op = "|" -> Powers(a) \cup Powers(b)
                      [] op = "^" -> (Powers(a) \cup Powers(b)) \ (Powers(a) \cap Powers(b))))

Holds(op, x, y) ==
  CASE op = "==" -> x = y [] op = "!=" -> x # y [] op = "<" -> x < y
    [] op = "<=" -> x <= y [] op = ">" -> x > y [] op = ">=" -> x >= y

Operate(op, a, b) ==
  LET x == Number(a)
      y == Number(b)
  IN  IF op \in Arithmetic \cup Shifts \cup BitOps /\ ~(IsInt(a) /\ IsInt(b)) THEN Fault("arithmetic")
      ELSE CASE op = "+" -> Like(a, b, x + y)
             [] op = "-" -> Like(a, b, x - y)
             [] op = "*" -> Like(a, b, x * y)
             [] op \in {"/", "%"} -> Quot(op, a, b)
             [] op \in Shifts -> ShiftBy(op, a, b)
             [] op \in BitOps -> Bits(op, a, b)
             [] op \in {"==", "!=", "<", "<=", ">", ">="} /\ IsInt(a) /\ IsInt(b) -> Bool(Holds(op, x, y))
             [] op \in {"==", "!="} /\ As("equality") /\ a.k = b.k /\ a.k \in {"V_BOOL", "V_ENUM"} ->
                  Bool((a = b) = (op = "=="))
             [] OTHER -> Binary(op, a, b)

Operate1(op, a) == IF op = "-" /\ IsInt(a) THEN AsInt(-Number(a)) ELSE UnaryOf(op, a)

(* The numbers a range is about, in order; it is read off its bounds. *)
Counting(span) ==
  LET last == IF span.incl THEN span.hi ELSE IF span.desc THEN span.hi + 1 ELSE span.hi - 1
  IN  IF span.desc THEN [i \in 1 .. span.lo - last + 1 |-> Num(span.lo + 1 - i)]
      ELSE [i \in 1 .. last - span.lo + 1 |-> Num(span.lo - 1 + i)]

(* The meaning of a node, an expression or a statement, or of what is left *)
(* of one: the turns of a loop, the arms of a match, what is deferred.     *)
RECURSIVE Mean(_, _, _)

Left(kind, of, n) == [k |-> kind, of |-> of, n |-> n]

(* A statement; an expression is none. *)
Run(st, env, s) ==
  IF s.flow = "FL_NONE" /\ st.k \notin Statements THEN Dies(s, "not executable") ELSE Mean(st, env, s)

(* A list of statements; its value is the last one's. *)
MeanAll(ch, env, s) ==
  FoldLeft(LAMBDA t, st : IF Goes(t) THEN Run(st, env, t) ELSE t, s, ch)

(* A part with its own deferred statements, before those of the state. *)
Inside(s, part(_)) ==
  LET t == part([s EXCEPT !.defers = <<>>])
  IN  [t EXCEPT !.defers = IF Fine(t) THEN s.defers \o @ ELSE s.defers]

(* What is deferred runs; what is left after a jump out of it is dropped. *)
Closed(env, s, v) ==
  Then(Mean(Left("deferred", "all", 0), env, s), LAMBDA t : [t EXCEPT !.v = v, !.defers = <<>>])

(* A jump or a failure that waits for it, to go on behind it. *)
Waits(s) ==
  \/ As("exits") /\ Fine(s) /\ s.flow # "FL_NONE"
  \/ As("failures") /\ s.fate = "raised" /\ s.around > 0

Ends(env, s) ==
  IF Goes(s) THEN Closed(env, s, s.v)
  ELSE IF ~Waits(s) THEN s
  ELSE LET t == Closed(env, [s EXCEPT !.fate = "fine", !.flow = "FL_NONE"], s.v)
       IN  IF Goes(t) THEN [t EXCEPT !.fate = s.fate, !.flow = s.flow, !.label = s.label, !.ret = s.ret]
           ELSE t

BlockOf(ch, env, s) ==
  LET own == Len(s.envs) + 1
  IN  Inside(Opens(s, env), LAMBDA t : Ends(own, MeanAll(ch, own, Gives(t, Void))))

(* A call: its flow is its own, unless a deferred statement of it jumps. *)
Apply(f, args, env, s) ==
  IF f = Builtin("println") THEN
    Gives([s EXCEPT !.out = Append(@, [i \in DOMAIN args |-> Printed(s.envs, args[i])])], Void)
  ELSE IF f \in {Builtin(tag) : tag \in Casts} THEN
    (IF Len(args) # 1 THEN Dies(s, "from takes one argument") ELSE Gives(s, From(f.tag, args[1])))
  ELSE IF f.k # "V_FUNC" THEN Dies(s, "not a function")
  ELSE IF Len(args) > Len(f.params) THEN Dies(s, "too many arguments")
  ELSE
    LET own == Len(s.envs) + 1
        param(t, i) ==
          IF ~Fine(t) THEN t
          ELSE IF i <= Len(args) THEN Names(t, own, f.params[i].nm, args[i])
          ELSE IF f.params[i].dflt = NoNode THEN Dies(t, "missing argument")
          ELSE Then(Mean(f.params[i].dflt, env, t), LAMBDA u : Names(u, own, f.params[i].nm, u.v))
        open == FoldLeft(param, Opens(s, f.closure), [i \in DOMAIN f.params |-> i])
        run(t) == IF f.body = NoNode THEN Gives(t, Void)
                  ELSE IF f.body.k = "N_BLOCK" THEN BlockOf(f.body.ch, own, t)
                  ELSE MeanAll(<<f.body>>, own, t)
        ended(t) == [t EXCEPT !.v = IF t.flow = "FL_RETURN" THEN t.ret ELSE @, !.flow = "FL_NONE"]
        call(t)  == Inside([t EXCEPT !.flow = "FL_NONE"], LAMBDA u :
                      LET w == run(u)
                      IN  IF Fine(w) THEN Closed(own, ended(w), ended(w).v) ELSE Ends(own, w))
    IN  Then(open, call)

(* The values of expressions from left to right, as long as no objection   *)
(* to the next one is made. *)
Parts(ch, objection(_, _), env, s) ==
  FoldLeft(LAMBDA acc, i :
             IF ~Fine(acc.s) THEN acc
             ELSE IF objection(i, acc.vals) # "" THEN [acc EXCEPT !.s = Dies(@, objection(i, acc.vals))]
             ELSE LET t == Mean(ch[i], env, acc.s) IN [s |-> t, vals |-> Append(acc.vals, t.v)],
           [s |-> s, vals |-> <<>>], [i \in DOMAIN ch |-> i])

WithParts(ch, env, s, next(_, _)) ==
  LET parts == Parts(ch, LAMBDA i, vals : "", env, s)
  IN  Then(parts.s, LAMBDA t : next(t, parts.vals))

(* A part with one more region or called function around it. *)
Deeper(s, part(_)) == [part([s EXCEPT !.around = @ + 1]) EXCEPT !.around = s.around]

Called(ch, env, s) ==
  WithParts(ch, env, s, LAMBDA t, vals : Deeper(t, LAMBDA u : Apply(Head(vals), Tail(vals), env, u)))

(* Arrays and records. *)
New(s, make(_), cells) ==
  Gives([s EXCEPT !.envs = Append(@, [parent |-> 0, b |-> cells])], make(Len(s.envs) + 1))

CellsOf(s, v)   == s.envs[v.at].b
FieldNo(bs, nm) == SelectInSeq(bs, LAMBDA b : b.nm = nm)
Bound(i, s, v)  == i \in 0 .. Len(CellsOf(s, v)) - 1

(* What the items of a list look like; or, behind a type, an array. *)
MakeCells(names, ch, env, s) ==
  WithParts(ch, env, s, LAMBDA t, vals :
    LET cells == [i \in DOMAIN vals |-> [nm |-> names[i], v |-> vals[i]]]
    IN  IF names # <<>> /\ names[1] # NoName THEN New(t, Rec, cells) ELSE New(t, Arr, cells))

MakeArray(ch, env, s) == MakeCells([i \in DOMAIN ch |-> NoName], ch, env, s)

(* A record of a struct type: zeros, and then one item after the other. *)
MakeStruct(nm, names, ch, env, s) ==
  LET known  == SelectInSeq(s.styp, LAMBDA st : st.nm = nm)
      fields == s.styp[known].fields
      zeros  == [j \in DOMAIN fields |-> [nm |-> fields[j].nm, v |-> ZeroValue(fields[j].ty)]]
      item(acc, i) ==
        LET named == names[i] # NoName
            j     == IF named THEN FieldNo(fields, names[i]) ELSE acc.next
            t     == Mean(ch[i], env, acc.s)
        IN  IF ~Fine(acc.s) THEN acc
            ELSE IF j \notin DOMAIN fields THEN [acc EXCEPT !.s = Dies(@, "no such field")]
            ELSE [s |-> t, cells |-> [acc.cells EXCEPT ![j].v = t.v],
                  next |-> IF named THEN acc.next ELSE j + 1]
  IN  IF known = 0 THEN Dies(s, "no such field")
      ELSE LET all == FoldLeft(item, [s |-> s, cells |-> zeros, next |-> 1], [i \in DOMAIN ch |-> i])
           IN  Then(all.s, LAMBDA t : New(t, Rec, all.cells))

Sliced(x, env, s) ==
  LET bounds == Parts(x.ch, LAMBDA i, vals :
                        IF i = 3 /\ vals[2].k # "V_INT" THEN "slice bound must be an int" ELSE "", env, s)
      given  == bounds.vals
      vals   == IF As("slices") /\ ~x.low THEN <<given[1], Num(0)>> \o Tail(given) ELSE given
  IN  Then(bounds.s, LAMBDA t :
        IF \E i \in 2 .. Len(vals) : vals[i].k # "V_INT" THEN Dies(t, "slice bound must be an int")
        ELSE IF vals[1].k # "V_ARR" THEN Dies(t, "cannot slice")
        ELSE
          LET cells == CellsOf(t, vals[1])
              from  == IF Len(vals) > 1 THEN vals[2].i ELSE 0
              to    == IF Len(vals) > 2 THEN vals[3].i ELSE Len(cells)
              taken == SelectSeq([i \in DOMAIN cells |-> i], LAMBDA i : i > from /\ i <= to)
          IN  IF to < 0 \/ from > Len(cells) \/ (from > to /\ from > 0) THEN Dies(t, "bad slice bounds")
              ELSE New(t, Arr, [i \in DOMAIN taken |-> cells[taken[i]]]))

MemberOf(v, nm, s) ==
  CASE v.k = "V_REC" /\ FieldNo(CellsOf(s, v), nm) # 0 -> CellsOf(s, v)[FieldNo(CellsOf(s, v), nm)].v
    [] <<v.k, nm>> = <<"V_STR", "length">>  -> Num(IF v = Text("") THEN 0 ELSE 1)
    [] <<v.k, nm>> = <<"V_ARR", "length">>  -> Num(Len(CellsOf(s, v)))
    [] <<v.k, nm>> = <<"V_ERR", "message">> -> Text(IF v = Err("") THEN "" ELSE "x")
    [] OTHER                                -> Fault("no such member")

ElementOf(v, ix, s) ==
  IF ix.k # "V_INT" THEN Fault("index must be an int")
  ELSE IF v.k # "V_ARR" THEN Fault("cannot index")
  ELSE IF Bound(ix.i, s, v) THEN CellsOf(s, v)[ix.i + 1].v ELSE Fault("index out of bounds")

(* The place an assignment is for, as the value of a state. *)
Located(s, env, i) == Gives(s, [k |-> "place", at |-> <<env, i>>])

Locate(lv, env, s) ==
  CASE lv.k = "N_NAME" ->
         IF Place(s, env, lv.nm) = <<>> THEN Dies(s, "unknown name")
         ELSE Located(s, Place(s, env, lv.nm)[1], Place(s, env, lv.nm)[2])
    [] lv.k = "N_MEMBER" ->
         WithParts(lv.ch, env, s, LAMBDA t, vals :
           IF vals[1].k # "V_REC" THEN Dies(t, "cannot assign to a member")
           ELSE LET j == FieldNo(CellsOf(t, vals[1]), lv.nm)
                IN  IF j = 0 THEN Dies(t, "no such field") ELSE Located(t, vals[1].at, j))
    [] lv.k = "N_INDEX" ->
         WithParts(lv.ch, env, s, LAMBDA t, vals :
           IF vals[1].k # "V_ARR" THEN Dies(t, "cannot index-assign")
           ELSE IF vals[2].k # "V_INT" THEN Dies(t, "index must be an int")
           ELSE IF Bound(vals[2].i, t, vals[1]) THEN Located(t, vals[1].at, vals[2].i + 1)
           ELSE Dies(t, "index out of bounds"))
    [] OTHER -> Dies(s, "not assignable")

Update(op, old, v) == IF op = "" THEN v ELSE Operate(op, old, v)

Declared(st, env, s) ==
  IF st.x = NoNode THEN Gives(s, ZeroValue(st.ty))
  ELSE IF st.x.k # "N_INIT" THEN Mean(st.x, env, s)
  ELSE IF st.ty = NoNode THEN MakeCells(st.x.names, st.x.ch, env, s)
  ELSE IF st.ty.k = "N_TNAMED" /\ \E i \in DOMAIN s.styp : s.styp[i].nm = st.ty.nm
  THEN MakeStruct(st.ty.nm, st.x.names, st.x.ch, env, s)
  ELSE MakeArray(st.x.ch, env, s)

(* The labels of the jumps that are a loop's; one it is known by is kept with it. *)
Labels(loop) == {NoLabel} \cup IF "label" \in DOMAIN loop THEN {loop.label} ELSE {}
Labelled(st) == IF As("labels") THEN st.st @@ [label |-> st.nm] ELSE st.st

(* A loop, from its turn i on, and from the body of that turn on. *)
Body(loop, i, env, s) ==
  LET again(t) == Mean(Left("turns", loop, i + 1), env, t)
      after(t) ==
        IF loop.k = "N_LOOP" /\ loop.until # NoNode
        THEN Decides(Mean(loop.until, env, t), LAMBDA u : u, again)
        ELSE IF loop.k = "N_CFOR" /\ loop.post # NoNode THEN Then(Run(loop.post, env, t), again)
        ELSE again(t)
      turn(t) ==
        LET on   == [t EXCEPT !.flow = "FL_NONE"]
            mine == t.label \in Labels(loop)
        IN  IF t.flow = "FL_NONE" \/ (t.flow = "FL_CONTINUE" /\ mine) THEN after(on)
            ELSE IF t.flow = "FL_BREAK" /\ mine THEN on
            ELSE t
  IN  Then(Run(loop.body, env, s), turn)

Turns(loop, i, env, s) ==
  CASE loop.k = "N_LOOP" /\ loop.x = NoNode -> Body(loop, i, env, s)
    [] loop.k = "N_IN_CLAUSE" ->
         IF ~(i < loop.n /\ Goes(s)) THEN s
         ELSE LET span == loop.of.k = "V_RANGE"
                  elem == IF span THEN Counting(loop.of)[i + 1] ELSE CellsOf(s, loop.of)[i + 1].v
              IN  Body(loop, i, env,
                       Names(Names(s, env, loop.ord, IF span /\ ~As("ordinals") THEN elem ELSE Num(i)),
                             env, loop.nm, elem))
    [] loop.k = "N_CHECK_IN" ->
         Then(Mean(loop.x, env, s), LAMBDA t :
           IF Missing(t) THEN t ELSE Body(loop, i, env, Names(t, env, loop.nm, t.v)))
    [] OTHER ->
         Decides(Mean(loop.x, env, s), LAMBDA t : Body(loop, i, env, t), LAMBDA t : t)

(* A match, from its n-th arm on. *)
Arms(match, n, env, s) ==
  IF n > Len(match.arms) THEN Dies(s, "no match arm matched")
  ELSE
    LET pat == match.arms[n].pat
        take(t) == Run(match.arms[n].body, env, t)
        pass(t) == Mean(Left("arms", match, n + 1), env, t)
        equal(v) == IF ~Comparable(match.subject) THEN Dies(s, "cannot compare")
                    ELSE IF match.subject = v THEN take(s) ELSE pass(s)
    IN  IF pat = Name("_") THEN take(s)
        ELSE IF pat.k = "N_LIT" THEN equal(pat.v)
        ELSE IF pat.k = "N_CALL" THEN
          (IF match.subject.k = "V_ENUM" /\ pat.ch[1] = Name(match.subject.name) THEN take(s) ELSE pass(s))
        ELSE IF pat.k # "N_NAME" THEN
          (IF Goes(s) THEN Decides(Mean(pat, env, s), take, pass) ELSE pass(s))
        ELSE IF Place(s, env, pat.nm) = <<>> THEN pass(s)
        ELSE equal(Value(s, Place(s, env, pat.nm)))

OrNothing(st, env, s) == IF st = NoNode THEN s ELSE Run(st, env, s)

(* The two branches of a checked if. *)
Branches(st) ==
  IF As("branches") /\ st.bare THEN [then |-> NoNode, else |-> st.then] ELSE [then |-> st.then, else |-> st.else]

(* The statement behind a try. *)
Tried(st) ==
  IF As("try") /\ st.k \in {"N_EXPR_STMT", "N_VAR", "N_ASSIGN"} /\ st.x.k \notin {"NULL", "N_INIT"}
  THEN [st EXCEPT !.x = Unwrap(@, "!")] ELSE st

(* The statements whose value is void. *)
Effect(st, env, s) ==
  CASE st.k = "N_ASSIGN" ->
         Then(Locate(st.lv, env, s), LAMBDA t :
           Then(Mean(st.x, env, t), LAMBDA u :
             LET r == Update(st.op, Value(u, t.v.at), u.v)
             IN  IF r.k = "fault" THEN Dies(u, r.msg) ELSE Store(u, t.v.at, r)))
    [] st.k = "N_SWAP" ->
         Then(Locate(st.a, env, s), LAMBDA t :
           Then(Locate(st.b, env, t), LAMBDA u :
             Store(Store(u, t.v.at, Value(u, u.v.at)), u.v.at, Value(u, t.v.at))))
    [] st.k = "N_IF" ->
         Decides(Mean(st.x, env, s), LAMBDA t : OrNothing(st.then, env, t), LAMBDA t : OrNothing(st.else, env, t))
    [] st.k = "N_CHECK_IF" ->
         Then(Mean(st.x, env, s), LAMBDA t :
           IF Missing(t) THEN OrNothing(Branches(st).else, env, t)
           ELSE OrNothing(Branches(st).then, env, Names(t, env, st.nm, t.v)))
    [] st.k \in {"N_LOOP", "N_CHECK_IN"} -> Turns(st, 0, env, s)
    [] st.k = "N_CFOR" ->
         Then(Mean(st.init, env, s), LAMBDA t : Turns(st, 0, env, Names(t, env, st.nm, t.v)))
    [] st.k = "N_IN_CLAUSE" ->
         Then(Mean(st.x, env, s), LAMBDA t :
           IF t.v.k \notin {"V_RANGE", "V_ARR"} THEN Dies(t, "not iterable")
           ELSE Turns([of |-> t.v, n |-> IF t.v.k = "V_RANGE" THEN Len(Counting(t.v)) ELSE Len(CellsOf(t, t.v))]
                        @@ st, 0, env, t))
    [] st.k = "N_MATCH" ->
         Then(Mean(st.x, env, s), LAMBDA t : Arms([arms |-> st.arms, subject |-> t.v], 1, env, t))
    [] st.k = "N_TRY" -> Run(Tried(st.st), env, s)
    [] st.k = "N_DEFER" -> [s EXCEPT !.defers = Append(@, st.st)]
    [] st.k = "N_REGION" ->
         LET t == Deeper(s, LAMBDA u : Inside(u, LAMBDA w : Ends(env, MeanAll(st.regs, env, w))))
         IN  IF t.fate # "raised" THEN t
             ELSE MeanAll(st.handlers, env,
                          Knows([t EXCEPT !.fate = "fine", !.flow = "FL_NONE"], env, st.nm, t.v))
    [] st.k = "N_RETURN" ->
         Then(IF st.x = NoNode THEN Gives(s, Void) ELSE Mean(st.x, env, s),
              LAMBDA t : [t EXCEPT !.ret = t.v, !.flow = "FL_RETURN"])
    [] st.k = "N_TRANSFER" ->
         IF st.op = "yield" THEN Dies(s, "not executable")
         ELSE [s EXCEPT !.flow = IF st.op = "break" THEN "FL_BREAK" ELSE "FL_CONTINUE",
                        !.label = st.label]
    [] st.k = "N_LABEL" ->
         Then(Run(Labelled(st), env, s), LAMBDA t :
           IF t.flow \in {"FL_BREAK", "FL_CONTINUE"} /\ t.label = st.nm
           THEN [t EXCEPT !.flow = "FL_NONE"] ELSE t)

(* A program: its items, then main. *)
HasMain(s) ==
  IF ~Fine(s) \/ Place(s, 1, "main") = <<>> THEN FALSE
  ELSE Value(s, Place(s, 1, "main")).k = "V_FUNC"

Items(items, s) ==
  FoldLeft(LAMBDA t, item :
             IF ~Fine(t) THEN t
             ELSE IF item.k = "N_IMPORT" THEN t
             ELSE IF item.k = "N_STRUCT_DECL" THEN
               (IF \E i \in DOMAIN t.styp : t.styp[i].nm = item.nm THEN t
                ELSE [t EXCEPT !.styp = Append(@, [nm |-> item.nm, fields |-> item.fields])])
             ELSE IF item.k = "N_ENUM_DECL" THEN
               FoldLeft(LAMBDA u, i : Names(u, 1, item.members[i], Enum(item.members[i], i - 1)),
                        t, [i \in DOMAIN item.members |-> i])
             ELSE IF item.k = "N_FUNC_DECL"
             THEN Names(t, 1, item.nm, User(item.params, item.body, 1))
             ELSE Run(item, 1, t),
           s, items)

Main(s) == IF HasMain(s) THEN Apply(Value(s, Place(s, 1, "main")), <<>>, 1, s) ELSE Gives(s, Void)

Mean(x, env, s) ==
  CASE x.k = "deferred" ->
         IF s.defers = <<>> \/ ~Goes(s) THEN s
         ELSE Mean(x, env, IF As("order") THEN Run(Last(s.defers), env, [s EXCEPT !.defers = Front(@)])
                           ELSE Run(Head(s.defers), env, [s EXCEPT !.defers = Tail(@)]))
    [] x.k = "program" -> Main(Items(x.of, s))
    [] x.k = "turns" -> Turns(x.of, x.n, env, s)
    [] x.k = "arms"  -> Arms(x.of, x.n, env, s)
    [] OTHER ->
  IF s.flow # "FL_NONE" THEN Gives(s, Void) ELSE
  CASE x.k = "N_LIT"    -> Gives(s, x.v)
    [] x.k = "N_NAME"   -> IF Place(s, env, x.nm) = <<>> THEN Dies(s, "unknown name")
                           ELSE Gives(s, Value(s, Place(s, env, x.nm)))
    [] x.k = "N_CALL"   -> Called(x.ch, env, s)
    [] x.k = "N_BIN"    -> WithParts(x.ch, env, s, LAMBDA t, vals : Yields(t, Operate(x.op, vals[1], vals[2])))
    [] x.k = "N_UNARY"  -> WithParts(x.ch, env, s, LAMBDA t, vals : Yields(t, Operate1(x.op, vals[1])))
    [] x.k = "N_MEMBER" -> WithParts(x.ch, env, s, LAMBDA t, vals : Yields(t, MemberOf(vals[1], x.nm, t)))
    [] x.k = "N_INDEX"  -> WithParts(x.ch, env, s, LAMBDA t, vals : Yields(t, ElementOf(vals[1], vals[2], t)))
    [] x.k = "N_SLICE"  -> Sliced(x, env, s)
    [] x.k = "N_INIT"   -> MakeCells(x.names, x.ch, env, s)
    [] x.k = "N_STRUCT_LIT" -> MakeStruct(x.nm, x.names, x.ch, env, s)
    [] x.k = "N_UNWRAP" -> Then(Mean(x.ch[1], env, s), LAMBDA t :
                             IF t.v.k # "V_ERR" THEN t
                             ELSE IF x.op = "?" THEN Gives(t, Void) ELSE [t EXCEPT !.fate = "raised"])
    [] x.k = "N_IS"     -> Then(Mean(x.ch[1], env, s), LAMBDA t :
                             IF t.v = Err(x.kind) THEN Gives(Names(t, env, x.nm, t.v), Bool(TRUE))
                             ELSE Gives(t, Bool(FALSE)))
    [] x.k = "N_FUNC_EXPR" -> Gives(s, User(x.params, IF As("bodies") THEN x.written ELSE x.body, env))
    [] x.k = "N_BLOCK"     -> BlockOf(x.ch, env, s)
    [] x.k = "N_LIST"      -> MeanAll(x.ch, env, Gives(s, Void))
    [] x.k = "N_EXPR_STMT" -> Mean(x.x, env, s)
    [] x.k = "N_VAR"       -> Then(Declared(x, env, s), LAMBDA t : Names(t, env, x.nm, t.v))
    [] OTHER               -> Then(Effect(x, env, s), LAMBDA t : Gives(t, Void))

Ending(s, code) ==
  [code |-> IF Fine(s) THEN code ELSE -1,
   msg  |-> IF Fine(s) THEN "done" ELSE IF s.fate = "raised" THEN "uncaught error" ELSE s.fate]

Means(program) ==
  LET s == Mean(Left("program", program, 0), 1, Fresh)
  IN  [ outcome |-> Ending(s, IF s.v.k = "V_INT" THEN s.v.i ELSE 0), output |-> s.out ]
=============================================================================
