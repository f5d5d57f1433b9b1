-------------------------------- MODULE MCRir --------------------------------
(***************************************************************************)
(* RirRoundTrip on small modules that between them hold every kind of      *)
(* expression and every instruction.                                       *)
(***************************************************************************)
EXTENDS RirRoundTrip

MCTypedefs ==
    [P |-> [union |-> FALSE, members |-> <<[name |-> "x", type |-> Elementary("i64")],
                                           [name |-> "y", type |-> Elementary("bool")]>>],
     Q |-> [union |-> FALSE, members |-> <<[name |-> "s", type |-> Elementary("string")]>>],
     U |-> [union |-> TRUE, members |-> <<[name |-> "i", type |-> Elementary("i64")],
                                          [name |-> "p", type |-> Defined("P")]>>]]

i64 == Elementary("i64")
i32 == Elementary("i32")
bool == Elementary("bool")
string == Elementary("string")
One == Constant("1", "i64")
True == Constant("true", "bool")
Half == Constant("0.5", "f64")
Arg(n, t) == [n |-> n, t |-> t]

Ast(texts, types, fns) ==
    [written |-> FALSE, literals |-> texts, typedefs |-> types, functions |-> fns]
Handwritten(types, fns) ==
    [written |-> TRUE, literals |-> <<>>, typedefs |-> types, functions |-> fns]

Say == FunctionNode("say", TRUE, <<Arg("s", string)>>, NoReturn, <<>>, <<>>)

Plain ==
    Ast(<<"hi">>, <<>>,
        <<Say,
          FunctionNode("less", FALSE, <<Arg("a", i64), Arg("b", i64)>>, bool, <<>>,
                       <<Call("say", <<string>>, <<String("hi")>>),
                         Returns(Binary("cmplt", Binary("mul", Name("a"), Name("b")), One))>>),
          FunctionNode("none", FALSE, <<>>, NoReturn, <<>>, <<>>)>>)
Converts ==
    Ast(<<>>, <<>>,
        <<FunctionNode("sum", FALSE, <<Arg("a", i32), Arg("b", Elementary("u8"))>>, i64, <<>>,
                       <<Returns(Binary("add", Name("a"), Binary("sub", Name("b"), Name("a"))))>>),
          FunctionNode("half", FALSE, <<>>, i64, <<>>, <<Returns(Binary("div", One, One))>>)>>)
Float ==
    Ast(<<>>, <<>>,
        <<FunctionNode("float", FALSE, <<>>, Elementary("f64"), <<>>, <<Returns(Half)>>)>>)
Locals ==
    Ast(<<>>, <<"P", "U">>,
        <<FunctionNode("take", FALSE, <<Arg("p", Defined("P"))>>, Defined("P"), <<>>,
                       <<Returns(Name("p"))>>),
          FunctionNode("make", FALSE, <<>>, i32, <<Arg("k", i32), Arg("p", Defined("P"))>>,
                       <<Assign(Name("k"), Member("p", "x")),
                         Assign(Name("k"), Unary("-", Unary("++", Name("k")))),
                         Call("take", <<Defined("P")>>, <<Name("p")>>),
                         Assign(Member("p", "x"), Name("k")),
                         Assign(Name("p"), Construct("P", <<i64, bool>>, <<Name("k"), True>>)),
                         Returns(Name("k"))>>)>>)
Sums ==
    Ast(<<>>, <<"P", "U">>,
        <<FunctionNode("either", FALSE, <<Arg("i64|P", Operator("U"))>>, NoReturn, <<>>, <<>>),
          FunctionNode("call", FALSE, <<Arg("a", i64)>>, NoReturn, <<Arg("u", Operator("U"))>>,
                       <<SumCall("either", Operator("U"), <<i64>>, <<Name("a")>>),
                         Assign(Name("u"), Construct("U", <<i64, bool>>, <<Name("a"), True>>))>>)>>)
Arrays ==
    Ast(<<>>, <<"Q">>,
        <<FunctionNode("pick", FALSE, <<Arg("a", i64)>>, i64, <<Arg("l", ArrayOf(i64, 2))>>,
                       <<Assign(Name("l"), List(i64, <<One, Name("a")>>)),
                         Returns(Index(Name("l"), Name("a")))>>)>>)
Strings ==
    Ast(<<"hi">>, <<"Q">>,
        <<Say,
          FunctionNode("tell", FALSE, <<Arg("b", bool)>>, i64, <<Arg("q", Defined("Q"))>>,
                       <<Call("say", <<string>>, <<Convert(string, Name("b"))>>),
                         Call("say", <<string>>, <<Convert(string, True)>>),
                         Assign(Name("q"), Construct("Q", <<string>>, <<String("hi")>>)),
                         Returns(Unary("--", One))>>)>>)
Unended ==
    Ast(<<>>, <<>>,
        <<Say,
          FunctionNode("tell", FALSE, <<Arg("b", bool)>>, NoReturn, <<>>,
                       <<Call("say", <<string>>, <<Name("b")>>)>>)>>)

----------------------------------------------------------------------------
v(n, t) == Var(VarName(n), t, "f")
I64 == Elem("i64", FALSE)
Bool == Elem("bool", FALSE)
Code(op, n, t, vt, args) == Instr(op, v(n, vt), t, args, "", 0)

Branches ==
    Handwritten(<<"P">>,
        <<Function("f", FALSE, <<Elem("i64", TRUE)>>, I64,
            <<[label |-> "start", exit |-> CondBranch(v(3, Bool), "yes", "no"),
               code |-> <<Code("read", 2, Elem("i64", TRUE), I64, <<v(0, Elem("i64", TRUE))>>),
                          Code("cmpeq", 3, NilType, Bool, <<v(2, I64), Const("7", "i64")>>)>>],
              [label |-> "yes", exit |-> Branch("no"),
               code |-> <<Instr("write", Nil, NilType, <<v(0, Elem("i64", TRUE)), v(2, I64)>>, "", 0)>>],
              [label |-> "no", exit |-> Return(v(4, I64)),
               code |-> <<Code("convert", 4, I64, I64, <<v(3, Bool)>>)>>]>>)>>)

\* A label that comes twice: its second block ends at once or has an instruction.
Twice(code) ==
    Handwritten(<<>>,
        <<Function("f", FALSE, <<I64, Elem("i64", TRUE)>>, NilType,
            <<[label |-> "start", exit |-> Branch("start"), code |-> <<>>],
              [label |-> "start", exit |-> Return(Nil), code |-> code]>>)>>)

\* A function with arguments after one without: their names may clash.
After ==
    Ast(<<>>, <<>>,
        <<FunctionNode("zero", FALSE, <<>>, i64, <<>>, <<Returns(One)>>),
          FunctionNode("same", FALSE, <<Arg("a", i64)>>, i64, <<>>, <<Returns(Name("a"))>>)>>)

MCPrograms ==
    <<Plain, Converts, Float, Locals, Sums, Arrays, Strings, Unended, Branches, After,
      Twice(<<>>),
      Twice(<<Code("convert", 2, I64, I64, <<v(0, I64)>>)>>),
      Twice(<<Instr("write", Nil, NilType, <<v(1, Elem("i64", TRUE)), v(0, I64)>>, "", 0)>>)>>

(* Two functions with arguments *)
TwoArguments ==
    <<Ast(<<>>, <<>>,
          <<FunctionNode("first", FALSE, <<Arg("a", i64)>>, i64, <<>>, <<Returns(Name("a"))>>),
            FunctionNode("second", FALSE, <<Arg("a", i64)>>, i64, <<>>, <<Returns(Name("a"))>>)>>)>>
=============================================================================
