----------------------------- MODULE Expressions -----------------------------
(***************************************************************************)
(* Expression trees: the nodes the factories of System.Linq.Expressions    *)
(* build (bcl/system_linq_expressions.go), what a compiled lambda computes *)
(* (interpreter/exprcompile.go) and what an ExpressionVisitor rebuilds     *)
(* (interpreter/exprvisitor.go), against the meaning C# gives a tree.      *)
(*                                                                         *)
(* A node has an operation, a name x, a constant v and children.  The      *)
(* world of an evaluation is the environment, the field F of the one       *)
(* object o, and the log of the calls made, in their order.                *)
(***************************************************************************)
EXTENDS Integers, Sequences, FiniteSets, SequencesExt

Half == 4   \* Int32 is -Half .. Half - 1
V(k, n) == [k |-> k, n |-> n, e |-> <<>>]
Arr(vs) == [k |-> "arr", n |-> 0, e |-> vs]
Null == V("null", 0)
Narrow(n) == ((n + Half) % (2 * Half)) - Half

Node(op, x, kids) == [op |-> op, x |-> x, v |-> Null, kids |-> kids]
Const(v) == [Node("const", "", <<>>) EXCEPT !.v = v]
I4(n) == Const(V("i4", n))
Param(x) == Node("param", x, <<>>)
Types == [p |-> "i4", w |-> "i4", x |-> "i4", o |-> "object", n |-> "object", e |-> "object"]

Answer(k, v, st) == [k |-> k, v |-> v, st |-> st]
Ok(v, st) == Answer("value", v, st)
Plain(st) == Answer("plain", Null, st)
Then(r, Next(_, _)) == IF r.k = "value" THEN Next(r.v, r.st) ELSE r
Bind(st, x, v) ==
    [st EXCEPT !.env = [y \in DOMAIN @ \union {x} |-> IF y = x THEN v ELSE @[y]]]
Logs(v, st) == Ok(v, [st EXCEPT !.log = Append(@, v.n)])

-----------------------------------------------------------------------------
\* What the code computes.

defaultValueForExprType(t) == IF t \in {"i4", "i8"} THEN V(t, 0) ELSE Null
convertExprValue(v, t) ==
    CASE t = "i4" /\ v.k = "i8" -> V("i4", Narrow(v.n))
      [] t = "i8" /\ v.k = "i4" -> V("i8", v.n)
      [] OTHER -> v
addIntDelta(v, d) == CASE v.k = "i4" -> V("i4", Narrow(v.n + d))
                       [] v.k = "i8" -> V("i8", v.n + d)
                       [] OTHER -> v
referenceOrValueEqual(a, b) == a.k = b.k /\ (a.k = "null" \/ (a.k # "arr" /\ a.n = b.n))
Truthy(v) == v.k # "null" /\ (v.k \notin {"i4", "i8"} \/ v.n # 0)
\* Machine.call: the one method logs its last argument and returns it.
callMethod(vs, st) == Logs(Last(vs.e), st)
exceptionMatchesCatch(v, type) == type = "any" \/ v.n = (IF type = "E1" THEN 1 ELSE 2)

IncDecs == {"++x", "x++", "--x", "x--"}

RECURSIVE evalExprNode(_, _), evalExprList(_, _), evalBlock(_, _, _)

evalExprList(ns, st) ==
    IF ns = <<>> THEN Ok(Arr(<<>>), st)
    ELSE Then(evalExprNode(Head(ns), st), LAMBDA v, s :
           Then(evalExprList(Tail(ns), s), LAMBDA vs, s2 : Ok(Arr(<<v>> \o vs.e), s2)))

evalBlock(ns, last, st) ==
    IF ns = <<>> THEN Ok(last, st)
    ELSE Then(evalExprNode(Head(ns), st), LAMBDA v, s : evalBlock(Tail(ns), v, s))

\* A variable that the environment already holds keeps its value.
Seed(x, st) ==
    IF x = "" \/ x \in DOMAIN st.env THEN st
    ELSE Bind(st, x, defaultValueForExprType(Types[x]))

\* The body of a lambda that is invoked in place runs in a copy of the
\* environment, which is dropped afterwards.
InCopy(r, st) == [r EXCEPT !.st.env = st.env]

\* Mutant: finally is run only after a result.
evalTryNoFinally(n, st) ==
    LET body == evalExprNode(n.kids[1], st)
        caught == body.k = "raise" /\ n.op # "tryFinally" /\ exceptionMatchesCatch(body.v, n.x)
        result == IF caught
                  THEN evalExprNode(n.kids[2], Bind(body.st, "e", body.v)) ELSE body
    IN IF n.op = "tryCatch" \/ result.k = "raise" THEN result
       ELSE LET final == evalExprNode(Last(n.kids), result.st)
            IN IF final.k # "value" THEN final ELSE [result EXCEPT !.st = final.st]
evalTry(n, st) ==
    LET body == evalExprNode(n.kids[1], st)
        caught == body.k = "raise" /\ n.op # "tryFinally"
                  /\ exceptionMatchesCatch(body.v, n.x)
        result == IF caught
                  THEN evalExprNode(n.kids[2], Bind(body.st, "e", body.v)) ELSE body
        final == evalExprNode(Last(n.kids), result.st)
    IN IF n.op = "tryCatch" THEN result
       ELSE IF final.k # "value" THEN final ELSE [result EXCEPT !.st = final.st]

evalAssign(n, st) ==
    Then(evalExprNode(n.kids[2], st), LAMBDA v, s :
      IF n.kids[1].op = "param" THEN Ok(v, Bind(s, n.kids[1].x, v))
      ELSE IF n.kids[1].op = "member"
      THEN Then(evalExprNode(n.kids[1].kids[1], s), LAMBDA r, s2 :
             IF r.k # "obj" THEN Plain(s2) ELSE Ok(v, [s2 EXCEPT !.f = v.n]))
      ELSE Plain(s))

evalIncDec(n, st) ==
    LET x == n.kids[1].x
        delta == IF n.x \in {"--x", "x--"} THEN -1 ELSE 1
    IN IF n.kids[1].op # "param" THEN Plain(st)
       ELSE Then(evalExprNode(n.kids[1], st), LAMBDA old, s :
              Ok(IF n.x \in {"++x", "--x"} THEN addIntDelta(old, delta) ELSE old,
                 Bind(s, x, addIntDelta(old, delta))))

evalExprNode(n, st) ==
    LET Kid(i) == evalExprNode(n.kids[i], st) IN
    CASE n.op = "const" -> Ok(n.v, st)
      [] n.op = "param" ->
           Ok(IF n.x \in DOMAIN st.env THEN st.env[n.x]
              ELSE defaultValueForExprType(Types[n.x]), st)
      [] n.op = "member" ->
           Then(Kid(1), LAMBDA r, s : IF r.k = "obj" THEN Ok(V("i4", s.f), s) ELSE Plain(s))
      [] n.op = "call" ->
           Then(evalExprList(n.kids, st), LAMBDA vs, s : callMethod(vs, s))
      [] n.op = "icall" ->
           Then(evalExprList(Tail(n.kids), st), LAMBDA vs, s :
             Then(evalExprNode(n.kids[1], s), LAMBDA r, s2 :
               IF r.k # "obj" THEN Plain(s2) ELSE callMethod(Arr(<<r>> \o vs.e), s2)))
      [] n.op = "array" -> evalExprList(n.kids, st)
      [] n.op = "convert" -> Then(Kid(1), LAMBDA v, s : Ok(convertExprValue(v, n.x), s))
      [] n.op = "assign" -> evalAssign(n, st)
      [] n.op = "block" -> evalBlock(n.kids, Null, Seed(n.x, st))
      [] n.op = "default" -> Ok(defaultValueForExprType(n.x), st)
      [] n.op = "cond" ->
           Then(Kid(1), LAMBDA t, s :
             IF Truthy(t) THEN evalExprNode(n.kids[2], s)
             ELSE IF Len(n.kids) = 2 THEN Ok(Null, s) ELSE evalExprNode(n.kids[3], s))
      [] n.op = "lambda" -> Kid(1)
      [] n.op = "invoke" ->
           Then(evalExprList(Tail(n.kids), st), LAMBDA vs, s :
             InCopy(evalExprNode(n.kids[1].kids[1], Bind(s, n.kids[1].x, vs.e[1])), s))
      [] n.op \in {"tryCatch", "tryFinally", "tryCatchFinally"} -> evalTry(n, st)
      [] n.op = "throw" ->
           Then(Kid(1), LAMBDA v, s : IF v.k = "exc" THEN Answer("raise", v, s) ELSE Plain(s))
      [] n.op = "coalesce" ->
           Then(Kid(1), LAMBDA v, s :
             IF v.k # "null" THEN Ok(v, s) ELSE evalExprNode(n.kids[2], s))
      [] n.op = "index" ->
           Then(Kid(1), LAMBDA a, s :
             Then(evalExprNode(n.kids[2], s), LAMBDA i, s2 :
               IF i.n \in 0..(Len(a.e) - 1) THEN Ok(a.e[i.n + 1], s2)
               ELSE Answer("raise", V("exc", 3), s2)))
      [] n.op \in {"equal", "notEqual"} ->
           Then(Kid(1), LAMBDA a, s :
             Then(evalExprNode(n.kids[2], s), LAMBDA b, s2 :
               Ok(V("i4", IF referenceOrValueEqual(a, b) = (n.op = "equal") THEN 1 ELSE 0),
                  s2)))
      [] n.op = "incdec" -> evalIncDec(n, st)
      [] OTHER -> Plain(st)

\* Parameters are bound to the arguments by their positions; one without an
\* argument is left to its default.
compiledExpressionInvoke(params, args, body, field) ==
    LET bound == {i \in DOMAIN params : i <= Len(args)}
        at(x) == CHOOSE i \in bound : params[i] = x
    IN evalExprNode(body, [env |-> [x \in {params[i] : i \in bound} |-> args[at(x)]],
                           f |-> field, log |-> <<>>])

\* Expression.Type, "object" where the node knows no better.
RECURSIVE expressionGetType(_)
expressionGetType(n) ==
    CASE n.op = "param" -> Types[n.x]
      [] n.op = "convert" -> n.x
      [] n.op = "default" -> n.x
      [] n.op \in {"equal", "notEqual"} -> "bool"
      [] n.op = "block" /\ n.kids # <<>> -> expressionGetType(Last(n.kids))
      [] n.op = "cond" -> expressionGetType(n.kids[2])
      [] n.op \in {"assign", "incdec", "coalesce", "tryCatch", "tryFinally",
                   "tryCatchFinally"} -> expressionGetType(n.kids[1])
      [] OTHER -> "object"

\* A visitor that puts a constant in place of p: the default visit of each
\* node visits its children; nodes without one are passed through.
VisitedOps == {"member", "call", "icall", "array", "convert", "incdec", "throw", "assign",
               "equal", "notEqual", "coalesce", "block", "cond", "invoke", "lambda"}
RECURSIVE expressionVisitorVisit(_, _)
expressionVisitorVisit(n, c) ==
    IF n.op = "param" /\ n.x = "p" THEN c
    ELSE IF n.op \in VisitedOps
         THEN [n EXCEPT !.kids = [i \in DOMAIN n.kids |-> expressionVisitorVisit(n.kids[i], c)]]
    ELSE n

-----------------------------------------------------------------------------
\* Expression.Call finds out by the arguments' shapes which overload was
\* meant: a shape is "node", "method", "array", "string" or "null".

IsMethod(args, i) == i \in DOMAIN args /\ args[i] = "method"
CallOf(inst, method, given) == [inst |-> inst, method |-> method, args |-> given]
NoCall == CallOf(0, 0, <<>>)

expressionCall(args) ==
    LET n == Len(args) IN
    IF n >= 3 /\ args[2] = "string" THEN CallOf(1, 2, IF n > 3 THEN <<4>> ELSE <<>>)
    ELSE IF n \notin 2..4 THEN NoCall
    ELSE IF IsMethod(args, 1) THEN CallOf(0, 1, [i \in 1..(n - 1) |-> i + 1])
    ELSE IF ~ IsMethod(args, 2) THEN NoCall
    ELSE CallOf(1, 2, [i \in 1..(n - 2) |-> i + 2])

\* The overloads there are, as (shapes, what they mean).
Overload(shapes) ==
    CASE shapes \in {<<"method", "array">>, <<"method", "node">>,
                     <<"method", "node", "node">>, <<"method", "node", "node", "node">>} ->
           CallOf(0, 1, [i \in 1..(Len(shapes) - 1) |-> i + 1])
      [] shapes \in {<<"node", "method">>, <<"node", "method", "array">>,
                     <<"null", "method", "array">>, <<"node", "method", "node", "node">>} ->
           CallOf(1, 2, [i \in 1..(Len(shapes) - 2) |-> i + 2])
      [] shapes \in {<<"node", "string", "null", "array">>} -> CallOf(1, 2, <<4>>)
      [] OTHER -> NoCall
Shapes == {"node", "method", "array", "string", "null"}

-----------------------------------------------------------------------------
\* What a tree means.  Operands are evaluated from left to right, the object
\* of a call or an assignment first; a name is visible in the block or lambda
\* that declares it.

Operands(n) ==
    CASE n.op = "assign" /\ n.kids[1].op = "param" -> <<n.kids[2]>>
      [] n.op = "assign" -> <<n.kids[1].kids[1], n.kids[2]>>
      [] n.op = "invoke" -> Tail(n.kids)
      [] n.op \in {"cond", "coalesce"} -> <<n.kids[1]>>
      [] n.op \in {"block", "tryCatch", "tryFinally", "tryCatchFinally", "lambda"} -> <<>>
      [] OTHER -> n.kids

RECURSIVE Meaning(_, _), InOrder(_, _, _)
InOrder(ns, vs, st) ==
    IF ns = <<>> THEN Ok(Arr(vs), st)
    ELSE Then(Meaning(Head(ns), st), LAMBDA v, s : InOrder(Tail(ns), Append(vs, v), s))

Within(x, v, st, Body(_)) ==
    IF x = "" THEN Body(st)
    ELSE LET r == Body(Bind(st, x, v))
             outer == IF x \in DOMAIN st.env THEN Bind(r.st, x, st.env[x]).env
                      ELSE [y \in DOMAIN r.st.env \ {x} |-> r.st.env[y]]
         IN [r EXCEPT !.st.env = outer]

Finally(r, n) ==
    LET f == Meaning(n, r.st) IN IF f.k = "value" THEN [r EXCEPT !.st = f.st] ELSE f
Handled(r, type, n) ==
    IF r.k = "raise" /\ (type = "any" \/ r.v.n = (IF type = "E1" THEN 1 ELSE 2))
    THEN Within("e", r.v, r.st, LAMBDA s : Meaning(n, s)) ELSE r

Applied(n, vs, s) ==
    LET a == vs[1]  b == vs[2]  Yes(c) == Ok(V("i4", IF c THEN 1 ELSE 0), s) IN
    CASE n.op = "const" -> Ok(n.v, s)
      [] n.op = "default" -> Ok(defaultValueForExprType(n.x), s)
      [] n.op = "param" -> Ok(s.env[n.x], s)
      [] n.op = "member" -> Ok(V("i4", s.f), s)
      [] n.op \in {"call", "icall"} -> Logs(Last(vs), s)
      [] n.op = "array" -> Ok(Arr(vs), s)
      [] n.op = "convert" -> Ok(V(n.x, IF n.x = "i4" THEN Narrow(a.n) ELSE a.n), s)
      [] n.op = "assign" -> IF n.kids[1].op = "param" THEN Ok(a, Bind(s, n.kids[1].x, a))
                            ELSE Ok(b, [s EXCEPT !.f = b.n])
      [] n.op = "throw" -> Answer("raise", a, s)
      [] n.op = "index" -> IF b.n >= 0 /\ b.n < Len(a.e) THEN Ok(a.e[b.n + 1], s)
                           ELSE Answer("raise", V("exc", 3), s)
      [] n.op = "equal" -> Yes(a = b)
      [] n.op = "notEqual" -> Yes(a # b)
      [] n.op = "incdec" ->
           LET up == V("i4", Narrow(a.n + (IF n.x \in {"++x", "x++"} THEN 1 ELSE -1)))
           IN Ok(IF n.x \in {"++x", "--x"} THEN up ELSE a, Bind(s, n.kids[1].x, up))
      [] n.op = "cond" -> IF a.n # 0 THEN Meaning(n.kids[2], s)
                          ELSE IF Len(n.kids) = 3 THEN Meaning(n.kids[3], s) ELSE Ok(Null, s)
      [] n.op = "coalesce" -> IF a # Null THEN Ok(a, s) ELSE Meaning(n.kids[2], s)
      [] n.op = "block" ->
           Within(n.x, V("i4", 0), s, LAMBDA t :
             Then(InOrder(n.kids, <<>>, t), LAMBDA all, u : Ok(Last(all.e), u)))
      [] n.op = "invoke" ->
           Within(n.kids[1].x, a, s, LAMBDA t : Meaning(n.kids[1].kids[1], t))
      [] n.op = "tryCatch" -> Handled(Meaning(n.kids[1], s), n.x, n.kids[2])
      [] n.op = "tryFinally" -> Finally(Meaning(n.kids[1], s), n.kids[2])
      [] n.op = "tryCatchFinally" ->
           Finally(Handled(Meaning(n.kids[1], s), n.x, n.kids[2]), n.kids[3])
Meaning(n, st) == Then(InOrder(Operands(n), <<>>, st), LAMBDA vs, s : Applied(n, vs.e, s))

-----------------------------------------------------------------------------
\* The trees that are tried: an operation over leaves and over one operation.

Throws(type) == Node("throw", "", <<Const(V("exc", IF type = "E1" THEN 1 ELSE 2))>>)
IncDec(x, how) == Node("incdec", how, <<Param(x)>>)
Assign(to, n) == Node("assign", "", <<to, n>>)
FieldF == Node("member", "", <<Param("o")>>)
Cond(t, a, b) == Node("cond", "", <<t, a, b>>)
Leaves == {I4(1), Param("p"), Param("w"), Param("x"), FieldF, Throws("E1"),
           Node("call", "", <<I4(3)>>), IncDec("p", "x++"), IncDec("w", "--x"),
           Node("convert", "i4", <<Const(V("i8", Half + 1))>>)}
OuterLeaves == {Param("p"), IncDec("p", "++x"), Throws("E2"), Assign(FieldF, I4(3)),
                Node("call", "", <<Node("default", "i4", <<>>)>>)}

Tops == {"call", "icall", "widen", "convert", "set", "setF", "seq", "scope", "index",
         "choose", "ifThen", "same", "differ", "coalesce", "instead", "invoke", "catchE1",
         "catchAny", "rethrow", "finally", "catchFinally"}
Tree(top, a, b) ==
    CASE top = "call" -> Node("call", "", <<a, b>>)
      [] top = "icall" -> Node("icall", "", <<Param("o"), a, b>>)
      [] top = "widen" -> Node("convert", "i8", <<a>>)
      [] top = "convert" -> Node("convert", "i4", <<Node("convert", "i8", <<a>>)>>)
      [] top = "set" -> Assign(Param("p"), a)
      [] top = "setF" -> Assign(FieldF, a)
      [] top = "seq" -> Node("block", "", <<a, b>>)
      [] top = "scope" -> Node("block", "w", <<Assign(Param("w"), a), b>>)
      [] top = "index" -> Node("index", "", <<Node("array", "", <<a, Param("p")>>), b>>)
      [] top = "choose" -> Cond(a, b, I4(0))
      [] top = "ifThen" -> Node("block", "", <<Node("cond", "", <<a, b>>), Param("p")>>)
      [] top = "same" ->
           Cond(Node("equal", "", <<Node("coalesce", "", <<Param("n"), Param("o")>>),
                                    Param("o")>>), a, b)
      [] top = "differ" -> Cond(Node("notEqual", "", <<Param("n"), Const(Null)>>), a, b)
      [] top = "coalesce" -> Node("coalesce", "", <<a, b>>)
      [] top = "instead" -> Node("coalesce", "", <<Const(Null), a>>)
      [] top = "invoke" -> Node("invoke", "", <<Node("lambda", "x", <<b>>), a>>)
      [] top = "catchE1" -> Node("tryCatch", "E1", <<a, b>>)
      [] top = "catchAny" -> Node("tryCatch", "any", <<a, b>>)
      [] top = "rethrow" -> Node("tryCatch", "any", <<a, Node("throw", "", <<Param("e")>>)>>)
      [] top = "finally" -> Node("tryFinally", "", <<a, b>>)
      [] top = "catchFinally" ->
           Node("tryCatchFinally", "E1", <<a, b, Node("call", "", <<I4(2)>>)>>)

RECURSIVE Free(_), Parts(_), Declares(_)
Free(n) == IF n.op = "param" THEN {n.x}
           ELSE UNION {Free(n.kids[i]) : i \in DOMAIN n.kids}
                \ (IF n.op \in {"block", "lambda"} THEN {n.x}
                   ELSE IF n.op \in {"tryCatch", "tryCatchFinally"} THEN {"e"} ELSE {})
Parts(n) == {n} \union UNION {Parts(n.kids[i]) : i \in DOMAIN n.kids}
Declares(n) == (IF n.op = "block" /\ n.x # "" THEN 1 ELSE 0)
               + FoldFunction(LAMBDA a, b : a + b, 0, [i \in DOMAIN n.kids |-> Declares(n.kids[i])])
Writes(n) == {m.kids[1].x : m \in {k \in Parts(n) : k.op \in {"assign", "incdec"}}}

\* Where the code is known to part from C#: it drops what a lambda invoked in
\* place assigns, and lets a second block that declares a variable see what
\* the first left.  (It also evaluates the arguments of a call before its
\* object; the objects here have no effects.)
Ordinary(t) ==
    /\ \A m \in Parts(t) :
         m.op = "lambda" => Writes(m) \subseteq {m.x}
    /\ Declares(t) <= 1
    /\ Free(t) \subseteq {"p", "o", "n"}

Given(p) == [env |-> [x \in {"p", "o", "n"} |->
                        CASE x = "p" -> V("i4", p) [] x = "o" -> V("obj", 1) [] OTHER -> Null],
             f |-> 2, log |-> <<>>]
Compiled(t, p) ==
    compiledExpressionInvoke(<<"p", "o", "n">>, <<V("i4", p), V("obj", 1), Null>>, t, 2)
Seen(r) == [k |-> r.k, v |-> r.v, f |-> r.st.f, log |-> r.st.log]

IsExpressionTask(t) ==
    \/ \E top, inner \in Tops, a, b \in Leaves, c \in OuterLeaves :
         /\ inner # "widen"
         /\ LET m == Tree(inner, a, b)
            IN t = [k |-> "tree", n |-> Tree(top, m, c)] \/ t = [k |-> "tree", n |-> Tree(top, c, m)]
    \/ \E k \in 2..4 : \E s \in [1..k -> Shapes] : t = [k |-> "call", n |-> s]

\* A constant in place of a parameter that is only read is that parameter.
Rewritable(n) ==
    /\ Ordinary(n) /\ "p" \notin Writes(n)
    /\ \A m \in Parts(n) : m.op \in VisitedOps \union {"param", "const", "default"}

RunExpression(t) ==
    IF t.k = "call" THEN expressionCall(t.n)
    ELSE [is |-> Seen(Compiled(t.n, 1)), type |-> expressionGetType(t.n),
          rewritten |-> Seen(Compiled(expressionVisitorVisit(t.n, I4(3)), 1))]

ExpressionStandard(t, r) ==
    IF t.k = "call" THEN Overload(t.n) # NoCall => r = Overload(t.n)
    ELSE /\ Ordinary(t.n) => r.is = Seen(Meaning(t.n, Given(1)))
         /\ Ordinary(t.n) /\ r.type \in {"i4", "i8"} /\ r.is.k = "value" => r.is.v.k = r.type
         /\ Rewritable(t.n) => r.rewritten = Seen(Meaning(t.n, Given(3)))
==============================================================================
