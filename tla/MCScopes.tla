------------------------------ MODULE MCScopes ------------------------------
(***************************************************************************)
(* Scopes on all bodies of up to three statements, on all heads of a       *)
(* program of up to three declarations, and on modules that use others.    *)
(***************************************************************************)
EXTENDS Scopes

N(k, name, ty, ch) == [k |-> k, name |-> name, ty |-> ty, ch |-> ch]
Use(a) == N("use", a, NoName, <<>>)
Leaf(a, t) == N("leaf", a, t, <<>>)
Desc(leaves) == N("typedesc", NoName, NoName, leaves)
Var(a, t) == N("vardecl", NoName, NoName, <<Leaf(a, t)>>)
TypeDecl(a, t) == N("typedecl", a, NoName, <<Desc(<<Leaf("x", t)>>)>>)
Return(a) == N("return", NoName, NoName, <<Use(a)>>)
Block(body) == N("block", NoName, NoName, body)
For(a, over, body) ==
    N("for", NoName, NoName, <<N("loopvar", a, NoName, <<>>),
        N("iter", over, NoName, <<>>), Block(body)>>)
Match(a, x, t, b) ==
    N("match", a, NoName, <<Use(a),
        N("case", NoName, NoName, <<Desc(<<Leaf(x, t)>>), Use(b)>>)>>)
FnHead(a, where, args, ret) ==
    N("fndecl", a, where, <<Desc(args)>>
        \o (IF ret = NoName THEN <<>> ELSE <<N("xid", ret, NoName, <<>>)>>))
Fn(a, args, ret, body) ==
    N("fnimpl", NoName, NoName, <<FnHead(a, "impl", args, ret), Block(body)>>)
Foreign(a, args) ==
    N("import", NoName, NoName, <<FnHead(a, "foreign", args, NoName)>>)
Module(name, body, deps, file) ==
    [tree |-> N("module", name, NoName, body), deps |-> deps, file |-> file]
Main(body, deps) ==
    [tree |-> N("root", "main", NoName, body), deps |-> deps, file |-> "f"]

Statements == {
    Var("a", "i32"), Var("a", "i32[]"), Var("b", "T"), Var("T", "i32"),
    TypeDecl("T", "i32"), Use("a"), Use("b"), Return("a"),
    Block(<<Var("a", "i32"), Use("a")>>), Block(<<TypeDecl("T", "a")>>),
    For("a", "b", <<Use("a"), Return("b")>>), For("b", "a", <<Use("b")>>),
    For("a", NoName, <<Var("b", "i32[]"), For("a", "b", <<Use("a")>>)>>),
    For("T", NoName, <<Var("b", "T")>>),
    Match("a", "b", "i32", "b"), Match("b", "x", "T", "a")}

Upto(S, n) == UNION {[1..k -> S] : k \in 0..n}
Bodies == {<<Main(<<TypeDecl("T", "i32"),
                    Fn("f", <<Leaf("a", "i32"), Leaf("b", "T")>>, NoName,
                       body), Var("c", "i32")>>, <<>>)>> :
               body \in Upto(Statements, 3)}

Declarations3 == {
    TypeDecl("T", "i32"), TypeDecl("a", "T"), Var("a", "i32"), Var("b", "T"),
    Fn("a", <<Leaf("a", "i32")>>, NoName, <<Use("a"), Return("a")>>),
    Fn("b", <<Leaf("a", "T")>>, "T", <<Use("b")>>),
    Fn("T", <<Leaf("T", "T"), Leaf("b", "T")>>, "i32", <<Return("T")>>),
    Fn("g", <<Leaf("a", "i32"), Leaf("a", "i32")>>, NoName, <<>>),
    Foreign("a", <<Leaf("b", "i32"), Leaf("T", "i32")>>),
    Foreign("h", <<Leaf("a", "i32"), Leaf("a", "i32")>>),
    Use("a"), Return("a"), For("i", NoName, <<Return("b")>>)}
Heads == {<<Main(body, <<>>)>> : body \in Upto(Declarations3, 3)}

(* A module L and one that uses it, in its own file or in that of main.    *)
Parts == {
    TypeDecl("T", "i32"), Fn("L", <<>>, NoName, <<>>),
    Fn("a", <<Leaf("b", "T")>>, NoName, <<Use("b")>>), Var("a", "i32[]")}
Users == {
    Fn("f", <<Leaf("b", "T")>>, NoName, <<Use("b")>>),
    Fn("f", <<>>, NoName, <<Use("a"), Use("L")>>),
    Fn("f", <<>>, NoName, <<Var("b", "T"), Var("a", "T"), Use("a")>>),
    Fn("L", <<>>, NoName, <<>>), Use("a"),
    Fn("T", <<Leaf("a", "T")>>, NoName, <<Use("a")>>),
    Fn("a", <<>>, NoName, <<For("b", "a", <<Use("b")>>)>>)}
TwoModules ==
    {<<Module("L", lib, <<>>, file), Main(body, deps)>> :
        lib \in Upto(Parts, 2), body \in Upto(Users, 2),
        deps \in {<<>>, <<1>>}, file \in {"f", "g"}}
ThreeModules ==
    {<<Module("L", lib, <<>>, "g"), Module("K", <<user>>, <<1>>, file),
       Main(<<Fn("f", <<>>, NoName, <<Use("a"), Use("f"), Use("L")>>)>>, deps)>> :
        lib \in Upto(Parts, 1), user \in Users, file \in {"f", "g"},
        deps \in {<<2>>, <<1, 2>>, <<2, 1>>}}

(* A module that is used has others in its file, or main comes before it.  *)
InOneFile ==
    {<<Module("L", lib, <<>>, "g"), Module("K", <<>>, <<>>, "g"),
       Main(<<Fn("f", <<>>, NoName, <<Use("K"), Use("a")>>)>>, deps)>> :
        lib \in Upto(Parts, 1), deps \in {<<>>, <<1>>, <<2>>, <<1, 2>>}}
AfterMain ==
    {<<Main(main, <<>>), Module("L", lib, deps, file), Module("K", <<user>>, <<2>>, "g")>> :
        main \in Upto(Parts, 1), lib \in Upto(Parts, 1), user \in Users,
        deps \in {<<>>, <<1>>}, file \in {"f", "g"}}

MCPrograms == Bodies \cup Heads \cup TwoModules \cup ThreeModules
                \cup InOneFile \cup AfterMain
=============================================================================
