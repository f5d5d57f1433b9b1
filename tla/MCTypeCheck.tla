---------------------------- MODULE MCTypeCheck ----------------------------
(***************************************************************************)
(* TypeCheck on every single statement over a set of operands that holds   *)
(* each category of type, and on the pairs and triples of some of them.    *)
(***************************************************************************)
EXTENDS TypeRules

(* The source as a tree: its kind, its name, its children.                 *)
N(k, name, ch) == [k |-> k, name |-> name, ch |-> ch]
Num(v) == [k |-> "int", v |-> v, ch |-> <<>>]
Constant(e) == N("const", e, <<>>)
Id(a) == N("id", a, <<>>)
VarDecl(a) == N("vardecl", a, <<>>)
Arith(l, r) == N("arith", "", <<l, r>>)
Logic(l, r) == N("logic", "", <<l, r>>)
Neg(x) == N("unary", "", <<x>>)
Set(l, r) == N("assign", "", <<l, r>>)
Comma(l, r) == N("comma", "", <<l, r>>)
Dot(l, m) == N("access", "", <<l, N("member", m, <<>>)>>)
Sub(l, r) == N("index", "", <<l, r>>)
List(xs) == N("list", "", xs)
Call(f, xs) == N("call", f, <<Id(f)>> \o xs)
Ret(x) == N("return", "", <<x>>)
Block(xs) == N("block", "", xs)
If(c, xs) == N("if", "", <<c, Block(xs)>>)
For(a, over, range, xs) ==
    [k |-> "forin", name |-> a, over |-> over, range |-> range,
     ch |-> <<N("iter", "", IF range = <<>> THEN <<Id(over)>> ELSE <<>>),
              Block(xs)>>]

(* The nodes of a tree in the order the walk leaves them in.               *)
RECURSIVE StepsOf(_, _)
StepsOf(base, n) ==
    LET entered == IF n.k = "forin" THEN base + 1 ELSE base
        Add(acc, c) ==
            LET st == StepsOf(entered + Len(acc.steps), c)
            IN  [steps |-> acc.steps \o st,
                 kids |-> Append(acc.kids, entered + Len(acc.steps) + Len(st))]
        below == FoldLeft(Add, [steps |-> <<>>, kids |-> <<>>], n.ch)
        after == entered + Len(below.steps) + 2
    IN  CASE n.k = "int" -> <<[k |-> "int", v |-> n.v]>>
          [] n.k = "forin" ->
                <<[k |-> "forin", name |-> n.name, over |-> n.over,
                   range |-> n.range, skip |-> after]>>
                \o [below.steps EXCEPT ![below.kids[1] - entered].range = n.range]
                \o <<[k |-> "for", kids |-> below.kids]>>
          [] OTHER -> Append(below.steps,
                [k |-> n.k, name |-> n.name, kids |-> below.kids,
                 range |-> <<>>])

T(name) == Xid(name, <<>>)
And(l, r) == TypeOp(",", l, r)
Or(l, r) == TypeOp("|", l, r)
Var(a, d) == [is |-> "var", name |-> a, desc |-> d, ret |-> NoDesc]
Type(a, d) == [is |-> "type", name |-> a, desc |-> d, ret |-> NoDesc]
Fn(a, d, r) == [is |-> "fn", name |-> a, desc |-> d, ret |-> r]
File(decls, within, newest) ==
    [decls |-> decls, within |-> within, newestFirst |-> newest]

Declarations == <<
    Type("foo", And(Leaf("x", T("i32")), Leaf("y", T("string")))),
    Type("bar", Or(T("i32"), T("bool"))),
    Fn("f1", Leaf("q", T("i16")), T("i32")),
    Fn("f2", And(Leaf("q", T("i32")), Leaf("r", T("string"))), T("f32")),
    Fn("f3", And(And(Leaf("q", T("u8")), Leaf("r", T("i32"))), Leaf("z", T("bool"))),
       NoDesc),
    Fn("g1", Leaf("q", Or(Or(T("f32"), T("u16")), T("u64"))), T("foo")),
    Fn("g2", Leaf("q", Or(T("bool"), T("string"))), T("i32")),
    Fn("h", Leaf("q", T("foo")), T("bar")),
    Fn("n", NoDesc, T("string")),
    Var("a", T("u8")), Var("b", T("i32")), Var("c", T("u64")),
    Var("d", T("f32")), Var("e", T("bool")), Var("s", T("string")),
    Var("p", T("foo")), Var("u", T("bar")), Var("v", Xid("i32", <<3>>)),
    Var("w", Xid("u8", <<-1>>))>>

Names == {"a", "b", "c", "d", "e", "s", "p", "u", "v", "w", "k"}
Leaves == {Id(x) : x \in Names} \cup
    {Id("_"), Num(3), Num(300), Constant("f32"), Constant("bool"), Constant("string")}
Some == {Id("a"), Id("b"), Id("c"), Id("s"), Id("p"), Id("v"), Id("k"), Num(300)}
Functions == {"f1", "f2", "f3", "g1", "g2", "h", "n", "foo", "bar",
              "u16", "string", "bool", "k"}

Arguments == {<<>>} \cup {<<x>> : x \in Leaves} \cup
    {<<Comma(x, y)>> : x \in {Id("a"), Id("b"), Id("p"), Num(3)},
                       y \in {Id("s"), Id("c"), Id("u"), Constant("string")}} \cup
    {<<Comma(Comma(x, y), z)>> : x \in {Id("a"), Id("b")}, y \in {Id("b"), Id("s")},
                                 z \in {Id("e"), Id("s")}} \cup
    {<<List(<<>>)>>}

Lists == {List(<<>>)} \cup {List(<<x>>) : x \in Leaves} \cup
    {List(<<x, y>>) : x \in Some, y \in Some} \cup
    {List(<<Num(3), Num(4), y>>) : y \in Leaves}

Ranges == {<<0, 1, 3>>, <<0, 2, 5>>, <<3, 1, 3>>, <<0, 0, 3>>, <<0, Unknown, 3>>,
           <<Unknown, 1, 4>>}
LoopBodies == {<<>>, <<Id("i")>>, <<Set(Id("a"), Id("i"))>>, <<Set(Id("b"), Id("i"))>>,
           <<Id("k")>>, <<If(Id("e"), <<Id("d")>>)>>,
           <<For("j", "w", <<>>, <<Set(Id("i"), Id("j"))>>)>>}

Statements ==
    {Arith(l, r) : l \in Leaves, r \in Leaves} \cup
    {Logic(l, r) : l \in Some, r \in Leaves} \cup
    {Neg(x) : x \in Leaves} \cup
    {Set(l, r) : l \in {Id(x) : x \in Names}, r \in Leaves} \cup
    {Set(VarDecl(x), y) : x \in {"a", "p", "u", "v"}, y \in Some} \cup
    {Set(Dot(Id("p"), m), y) : m \in {"x", "y", "z"}, y \in Leaves} \cup
    {Dot(x, m) : x \in {Id("b"), Id("k"), Id("foo"), Call("g1", <<Id("d")>>)},
                 m \in {"x", "y", "a"}} \cup
    {N("access", "", <<Id("p"), Num(3)>>), Set(Num(3), Id("a")),
     Dot(Call("k", <<>>), "x"), Sub(Call("k", <<>>), Num(3))} \cup
    {Sub(l, r) : l \in {Id("v"), Id("w"), Id("b"), Id("k")},
                 r \in Leaves \cup {Num(0), Num(2)}} \cup
    {Set(l, r) : l \in {Id("v"), Id("w"), Id("b"), Id("p")}, r \in Lists} \cup
    {Call(f, x) : f \in Functions, x \in Arguments} \cup
    {Ret(x) : x \in Leaves \cup {List(<<>>), Call("n", <<>>)}} \cup
    {For("i", x, <<>>, xs) : x \in {"v", "w", "b", "k"}, xs \in LoopBodies} \cup
    {For("i", "", g, xs) : g \in Ranges, xs \in LoopBodies} \cup
    {Block(<<>>), If(Id("e"), <<>>), If(Id("e"), <<Set(Id("a"), Id("b"))>>)}

Inner == {Call("f1", <<Id("b")>>), Call("g1", <<Id("a")>>),
          Call("g2", <<Id("e")>>), Set(Id("b"), Id("u")), Set(Id("u"), Id("s")),
          Set(Id("a"), Id("b")), Ret(Id("u")), Comma(Id("b"), Id("s")),
          Set(Id("b"), Dot(Id("p"), "x"))}
Core == Inner \cup {Call("f1", <<Id("b")>>), Call("f2", <<Comma(Id("a"), Id("s"))>>),
         Call("g1", <<Id("a")>>), Call("g2", <<Id("e")>>), Call("g2", <<Id("b")>>),
         Set(Id("b"), Id("u")), Set(Id("a"), Id("b")), Set(Id("u"), Id("s")),
         Set(Id("b"), Arith(Id("a"), Id("c"))), Ret(Id("u")), Ret(Id("a")),
         Set(Id("v"), List(<<Num(3), Num(4), Num(5)>>)),
         Set(Id("b"), Dot(Id("p"), "x")), Comma(Id("s"), Comma(Id("b"), Id("s"))),
         Comma(Id("b"), Id("s")), Call("k", <<>>), Block(<<>>),
         Call("foo", <<Comma(Id("b"), Id("s"))>>)}

MCPrograms ==
    {File(Declarations, f, FALSE) : f \in {"", "f1", "f2", "f3", "g1", "h", "n"}}
    \cup {File(Declarations, "f1", TRUE)} \cup
    {File(<<d>>, "", FALSE) :
        d \in {Var("a", T("k")), Type("a", And(T("i32"), T("k"))),
               Fn("a", Leaf("q", T("k")), NoDesc), Fn("a", NoDesc, T("k"))}}

BodiesIn(within, bodies) ==
    {[within |-> within, steps |-> StepsOf(0, Block(xs))] : xs \in bodies}
MCBodies ==
    BodiesIn("", {<<Ret(Id("a"))>>, <<Id("q")>>, <<Block(<<Ret(Id("b"))>>)>>})
    \cup UNION {BodiesIn(f, {<<Ret(x)>> : x \in Some \cup {Id("q"), Id("r")}}) :
                   f \in {"f2", "f3", "g1", "h", "n"}}
    \cup BodiesIn("f1", {<<x>> : x \in Statements})
    \cup BodiesIn("f1", [1..2 -> Core] \cup [1..3 -> Inner])
=============================================================================
