------------------------------- MODULE RirText -------------------------------
(***************************************************************************)
(* The text of a module of the RIR, as rir_tostring() makes it: the        *)
(* literals, the type definitions and the functions, block by block in the *)
(* order the blocks were added.  The text is the sequence of tokens the    *)
(* lexer finds in it; white space and the text of numbers are left out.    *)
(***************************************************************************)
EXTENDS RirValues

Token(k, s) == [k |-> k, s |-> s]
Word(s) == Token("identifier", s)
Key(s) == Token(s, s)                       \* a keyword or a symbol
Label(s) == Token("label", s)
Number(n) == Token("integer", ToString(n))

(* How the tokens of a list are set apart.                                 *)
Apart(lists) ==
    FoldLeft(LAMBDA text, list : IF text = <<>> THEN list ELSE text \o <<Key(",")>> \o list,
             <<>>, lists)
InParens(name, lists) == <<name, Key("(")>> \o Apart(lists) \o <<Key(")")>>

(* A constant whose text is that of a boolean is read as a word.           *)
ConstToken(v) ==
    CASE v.t.e = "bool" -> Word(v.id)
      [] v.t.e = "f64" -> Token("float", v.id)
      [] OTHER -> Token("integer", v.id)
ValueTokens(v) ==
    CASE v.k = "nil" -> <<>>
      [] v.k = "const" -> <<ConstToken(v)>>
      [] OTHER -> <<Token("variable", v.id)>>

Star(ptr) == IF ptr THEN <<Key("*")>> ELSE <<>>
NameOf(t) == IF t.c = "elem" THEN t.e ELSE t.n
TypeTokens(t) ==
    CASE t.c = "elem" -> <<Word(t.e)>> \o Star(t.ptr)
      [] t.c = "comp" -> <<Word(t.n)>> \o Star(t.ptr)
      [] t.c = "arr" -> <<Key("["), Number(t.size), Word("x" \o NameOf(t.of))>>
                        \o Star(t.of.ptr) \o <<Key("]")>> \o Star(t.ptr)
TypesTokens(ts) == Apart([i \in DOMAIN ts |-> TypeTokens(ts[i])])
ValuesTokens(vs) == [i \in DOMAIN vs |-> ValueTokens(vs[i])]

(* What each instruction shows: a write the type of its memory, an         *)
(* operation that of its first operand; a member's index counts from zero. *)
OperandTexts(i) ==
    CASE i.op = "write" -> <<TypeTokens(i.args[1].t)>> \o ValuesTokens(i.args)
      [] i.op \in Arithmetic \cup Comparisons ->
           <<TypeTokens(i.args[1].t)>> \o ValuesTokens(i.args)
      [] i.op = "alloca" -> <<TypeTokens(i.t)>>
      [] i.op = "convert" -> <<ValueTokens(i.args[1]), TypeTokens(i.t)>>
      [] i.op \in {"read", "objidx"} -> ValuesTokens(i.args)
      [] i.op = "call" ->
           <<<<Word(i.name)>>, <<Word(IF i.n = 1 THEN "foreign" ELSE "defined")>>>>
           \o ValuesTokens(i.args)
      [] i.op \in {"setunionidx", "objmemberat"} ->
           <<ValueTokens(i.args[1]), <<Number(i.n - 1)>>>>
      [] i.op = "unionmemberat" ->
           <<TypeTokens(i.args[1].t), ValueTokens(i.args[1]), <<Number(i.n - 1)>>>>
      [] i.op = "fixedarr" ->
           <<<<Number(Len(i.args))>>, TypeTokens(i.t)>> \o ValuesTokens(i.args)

\* The operations the lexer has keywords for; the others are words.
Keywords == {"convert", "write", "read", "call"} \cup Arithmetic \cup Comparisons
OperationToken(op) == IF op \in Keywords THEN Key(op) ELSE Word(op)

InstrTokens(i) ==
    (IF i.val = Nil THEN <<>> ELSE ValueTokens(i.val) \o <<Key("=")>>)
    \o InParens(OperationToken(i.op), OperandTexts(i))

ExitTokens(e) ==
    CASE e.x = "branch" -> InParens(Key("branch"), <<<<Label(e.to[1])>>>>)
      [] e.x = "condbranch" ->
           InParens(Key("condbranch"), <<ValueTokens(e.val), <<Label(e.to[1])>>, <<Label(e.to[2])>>>>)
      [] e.x = "return" -> InParens(Key("return"), <<ValueTokens(e.val)>>)

Concat(texts) == FoldLeft(LAMBDA text, more : text \o more, <<>>, texts)

BlockTokens(b) ==
    <<Label(b.label)>> \o Concat([i \in DOMAIN b.code |-> InstrTokens(b.code[i])])
    \o ExitTokens(b.exit)

HeaderTokens(f) ==
    <<Key(IF f.plain THEN "fndecl" ELSE "fndef"), Key("("), Word(f.name), Key(";")>>
    \o (IF f.args = <<>> THEN <<Word("nil")>> ELSE TypesTokens(f.args))
    \o <<Key(";")>> \o TypeTokens(f.returns) \o <<Key(")")>>

FunctionTokens(f) ==
    HeaderTokens(f)
    \o (IF f.plain THEN <<>>
        ELSE <<Key("{")>> \o Concat([i \in DOMAIN f.blocks |-> BlockTokens(f.blocks[i])])
             \o <<Key("}")>>)

GlobalTokens(text) ==
    ValueTokens(Literal(text)) \o <<Key("=")>>
    \o InParens(Key("global"), <<<<Word("string")>>, <<Token("string", text)>>>>)

TypedefTokens(n) ==
    <<Token("variable", "$" \o n), Key("=")>>
    \o InParens(Key(IF Typedefs[n].union THEN "uniondef" ELSE "typedef"), <<TypesTokens(MemberTypes(n))>>)

ModuleTokens(literals, typedefs, functions) ==
    Concat([i \in DOMAIN literals |-> GlobalTokens(literals[i])])
    \o Concat([i \in DOMAIN typedefs |-> TypedefTokens(typedefs[i])])
    \o Concat([i \in DOMAIN functions |-> FunctionTokens(functions[i])])

(* A block that was never given an exit cannot be printed.                 *)
Printable(functions) ==
    \A i \in DOMAIN functions : \A j \in DOMAIN functions[i].blocks :
        functions[i].blocks[j].exit # NoExit
=============================================================================
