-------------------------- MODULE AcceptFunctions --------------------------
(***************************************************************************)
(* The ast_parser_acc_*() functions of src/parser/recursive_descent/, each *)
(* as a program over the calls that change the parser: the token cursor,   *)
(* its stack of marks, the error flag, and the other accept functions.     *)
(* The nodes themselves are left out; which value tokens go into one, when *)
(* a function reports an error, and how it gives up are kept.              *)
(*                                                                         *)
(* A program maps labels to sequences of steps and begins at `start'.  The *)
(* last argument of a step that may not find what it looks for is the      *)
(* label to go on from.  The ways out that all programs share:             *)
(*    ok                 return the node                                   *)
(*    none, err          return NULL; after lexer_rollback()               *)
(*    say_none, say_err  the same, after parser_synerr()                   *)
(* A failed allocation is not modelled.                                    *)
(***************************************************************************)
EXTENDS Naturals, Sequences

CONSTANT Kinds  \* the kinds of token the input files are made of

\* lexer_lookahead() returns NULL where there is no token.
ASSUME NullIsNoKind == "NULL" \notin Kinds

\* Kinds that go by a name: their characters have a meaning to the provers.
OBrace == "{"
CBrace == "}"
Comma == ","

ValueKinds == {"id", "num", "str"}
PrefixOps == {"&", "++", "--", "-", "+"}
PostfixOps == {"++", "--"}

\* check_operator_type(): the operators of each level, the loosest first.
MaxLevel == 13
OperatorsAt ==
    << {Comma}, {"="}, {"||"}, {"&&"}, {"|"}, {"^"}, {"&"}, {"==", "!="},
       {">", ">=", "<", "<="}, {"+", "-"}, {"*", "/"}, {".", "["}, {} >>

\* A level with no operator among Kinds only hands its operand on, and is
\* left out.
Levels == {MaxLevel} \cup {l \in 1..MaxLevel : OperatorsAt[l] \cap Kinds # {}}
LevelAfter(l) ==
    IF l = MaxLevel THEN MaxLevel
    ELSE CHOOSE m \in Levels : m > l /\ \A n \in Levels : n > l => n >= m

-----------------------------------------------------------------------------
(* The steps.  `tok' is the token the function looked at last.             *)

Push == [do |-> "push"]
Pop == [do |-> "pop"]
Advance == [do |-> "advance"]
Mark == [do |-> "mark"]
Look(ks, l) == [do |-> "look", kinds |-> ks, fail |-> l]
Is(ks, l) == [do |-> "is", kinds |-> ks, fail |-> l]
Is2(ks, l) == [do |-> "is2", kinds |-> ks, fail |-> l]
Ahead(ks, l) == [do |-> "ahead", kinds |-> ks, fail |-> l]
Expect(ks, l) == [do |-> "expect", kinds |-> ks, fail |-> l]
Take(ks, l) == [do |-> "take", kinds |-> ks, fail |-> l]
\* lexer_token_get_value(tok)
Value == [do |-> "value"]
\* The next token is used without a test for NULL.
MustExist == [do |-> "must_exist"]
\* ast_node_get_name_str() of the node that was read since tok
NameOf == [do |-> "name_of"]
\* A local is read that nothing was assigned to.
ReadUnset == [do |-> "read_unset"]
Post == [do |-> "post"]
IfError(l) == [do |-> "if_error", fail |-> l]
IfErrorReset(l) == [do |-> "if_error_reset", fail |-> l]
InfoPush == [do |-> "info_push"]
InfoPop == [do |-> "info_pop"]
InfoRollback == [do |-> "info_rollback"]
Goto(l) == [do |-> "goto", fail |-> l]
Ok == [do |-> "ok"]
Fail == [do |-> "fail"]
Undo == [do |-> "undo"]
Adopt == [do |-> "adopt"]
Finish(v) == [do |-> "finish", verdict |-> v]

\* Call f, and go on with the next step if it returns a node.
MustAt(f, lvl, l) ==
    [do |-> "call", f |-> f, lvl |-> lvl, ok |-> "next", fail |-> l]
Must(f, l) == MustAt(f, 0, l)
\* Call f, and go on with the next step whatever it returns.
TryAt(f, lvl) ==
    [do |-> "call", f |-> f, lvl |-> lvl, ok |-> "next", fail |-> "next"]
Try(f) == TryAt(f, 0)
\* One branch of a dispatch: if tok is of ks (and the token after it of ks2)
\* then return what f returns, and go to l if that is NULL.
When(ks, f, l) ==
    [do |-> "when", kinds |-> ks, f |-> f, lvl |-> 0, ok |-> "ok", fail |-> l]
When2(ks, ks2, f, l) ==
    [do |-> "when2", kinds |-> ks, second |-> ks2, f |-> f, lvl |-> 0,
     ok |-> "ok", fail |-> l]

Exits == [ok |-> <<Ok>>, none |-> <<Fail>>, err |-> <<Undo>>,
          say_none |-> <<Post, Fail>>, say_err |-> <<Post, Undo>>]
Straight(steps) == [start |-> steps]

-----------------------------------------------------------------------------
(* core.c, block.c, module.c                                               *)

ParseFile ==
    [start  |-> <<Must("stmt", "end"), Adopt, Goto("start")>>,
     end    |-> <<Take(Kinds, "whole"), Post, Finish("rejected")>>,
     whole  |-> <<Finish("accepted")>>]

Stmt == Straight(
    <<Mark,
      When({"module"}, "module", "none"),
      When({OBrace}, "block", "none"),
      When2({"id"}, {":"}, "vardecl", "none"),
      When({"type"}, "typedecl", "none"),
      When2({"fn"}, {"id"}, "fnimpl", "none"),
      When({"import", "foreign_import"}, "import", "none"),
      Fail>>)

ReturnStatement == Straight(
    <<Expect({"return"}, "none"), Must("expression", "say_none"), Ok>>)

ExprStatement == Straight(
    <<Mark,
      When({OBrace}, "block", "none"),
      When({"type"}, "typedecl", "none"),
      When({"return"}, "return_statement", "none"),
      Fail>>)

BlockElement ==
    [start     |-> <<Must("expression", "statement"), Ok>>,
     statement |-> <<Must("expr_statement", "none"), Ok>>]

\* ast_parser_acc_block(p, true); the empty block returns with its mark left.
AccBlock ==
    [start |-> <<Push, Look({OBrace}, "err"), Advance,
                 Must("block_element", "empty"), Goto("more")>>,
     empty |-> <<Expect({CBrace}, "say_err"), Ok>>,
     more  |-> <<Must("block_element", "close"), Goto("more")>>,
     close |-> <<Expect({CBrace}, "say_err"), Pop, Ok>>]

AccImport ==
    [start |-> <<Push, Advance, Goto("child")>>,
     child |-> <<InfoPush, Must("foreign_fndecl", "plain"), InfoPop,
                 Goto("more")>>,
     plain |-> <<InfoRollback, Must("identifier", "say_err"), Goto("more")>>,
     more  |-> <<Expect({Comma}, "done"), Goto("child")>>,
     done  |-> <<Pop, Ok>>]

ModuleStatement == Straight(
    <<Mark,
      When({"type"}, "typedecl", "none"),
      When({"import", "foreign_import"}, "import", "none"),
      When2({"fn"}, {"id"}, "fnimpl", "none"),
      Fail>>)

AccModule ==
    [start   |-> <<Expect({"module"}, "none"), Push,
                   Must("identifier", "say_err"),
                   Ahead({"(", OBrace}, "say_err"), Ahead({"("}, "body"), Advance,
                   Must("typedesc", "no_args"), Goto("close")>>,
     no_args |-> <<IfErrorReset("say_err"), Goto("close")>>,
     close   |-> <<Expect({")"}, "say_err"), Goto("body")>>,
     body    |-> <<Expect({OBrace}, "say_err"), Goto("stmts")>>,
     stmts   |-> <<Must("module_statement", "end"), Goto("stmts")>>,
     end     |-> <<IfErrorReset("err"), Expect({CBrace}, "say_err"), Pop, Ok>>]
-----------------------------------------------------------------------------
(* function.c, identifier.c, vardecl.c                                     *)

Identifier == Straight(<<Expect({"id"}, "none"), Value, Ok>>)

\* What a function declaration is after its `fn'.
Signature ==
    [args    |-> <<Take({"("}, "say_err"), Must("typedesc", "no_args"),
                   Goto("close")>>,
     no_args |-> <<IfErrorReset("say_err"), Goto("close")>>,
     close   |-> <<Take({")"}, "say_err"), Ahead({"->"}, "done"), Advance,
                   Must("typedesc", "say_err"), Goto("done")>>,
     done    |-> <<Pop, Ok>>,
     name    |-> <<Must("identifier", "say_err"), Ahead({"<"}, "args"),
                   Must("genrdecl", "err"), Goto("args")>>,
     start   |-> <<Push, Expect({"fn"}, "err"), Goto("name")>>]
Fndecl == Signature
\* The position FNDECL_PARTOF_FOREIGN_IMPORT has no `fn'.
ForeignFndecl == [Signature EXCEPT !.start = <<Push, Goto("name")>>]

\* A header that ends the file is dropped without a word.
Fnimpl ==
    [start    |-> <<Must("fndecl", "none"), Look(Kinds, "none"),
                    Is({OBrace}, "headless"), Must("block", "say_none"), Ok>>,
     headless |-> <<Must("headless_matchexpr", "say_none"), Ok>>]

\* A mutation of FncallOr: whatever ends the arguments is the parenthesis.
FncallUnclosedOr(miss) ==
    [start   |-> <<Push, Must("identifier", "err"), Must("genrattr", "no_genr"),
                   Goto("open")>>,
     no_genr |-> <<IfError("err"), Goto("open")>>,
     open    |-> <<Expect({"("}, miss), Must("expression", "no_args"),
                   Goto("close")>>,
     no_args |-> <<IfError("say_err"), Goto("close")>>,
     close   |-> <<Advance, Pop, Ok>>]

\* ast_parser_acc_fncall(); miss is the way out when no call is expected.
FncallOr(miss) ==
    [start   |-> <<Push, Must("identifier", "err"), Must("genrattr", "no_genr"),
                   Goto("open")>>,
     no_genr |-> <<IfError("err"), Goto("open")>>,
     open    |-> <<Expect({"("}, miss), Must("expression", "no_args"),
                   Goto("close")>>,
     no_args |-> <<IfError("say_err"), Goto("close")>>,
     close   |-> <<Expect({")"}, miss), Pop, Ok>>]

\* ast_parser_acc_xidentifier(); miss as above.
XidentifierOr(miss) ==
    [start   |-> <<Look(Kinds, "none"), Is({"const"}, "name"), Advance,
                   Look(Kinds, "say_none"), Goto("name")>>,
     name    |-> <<Is({"id"}, miss), Advance, Value,
                   Must("genrattr", "no_genr"), Goto("dims")>>,
     no_genr |-> <<IfError("none"), Goto("dims")>>,
     dims    |-> <<Must("arrspec", "no_dims"), Ok>>,
     no_dims |-> <<IfError("none"), Ok>>]

Vardecl == Straight(<<Push, Must("typeleaf", "err"), Pop, Ok>>)
-----------------------------------------------------------------------------
(* type.c, generics.c, arr.c                                               *)

ParenthesizedTypedesc == Straight(
    <<Push, Advance, Must("typedesc", "say_err"), Expect({")"}, "say_err"),
      Pop, Ok>>)

Typeleaf ==
    [start |-> <<Look({"const", "id"}, "none"), Push, Is({"id"}, "plain"),
                 Is2({":"}, "plain"), Value, Advance, Advance,
                 MustExist, Look({"("}, "named"),
                 Must("parenthesized_typedesc", "say_err"), Pop, Ok>>,
     named |-> <<Is({"const", "id"}, "say_err"),
                 Must("xidentifier", "say_err"), Pop, Ok>>,
     plain |-> <<Must("xidentifier", "nil"), Pop, Ok>>,
     nil   |-> <<Pop, Fail>>]

Typeelement ==
    [start |-> <<Look(Kinds, "none"), Push, Is({"("}, "leaf"),
                 Must("parenthesized_typedesc", "err"), Pop, Ok>>,
     leaf  |-> <<Must("typeleaf", "err"), Pop, Ok>>]

\* The right operands of `,', `|' and `->' in a type description.
TypePrime(op, operand, self) == Straight(
    <<Look({op}, "none"), Push, Advance, Must(operand, "say_err"),
      Try(self), IfError("err"), Pop, Ok>>)
TypefactorPrime == TypePrime(Comma, "typeelement", "typefactor_prime")
TypetermPrime == TypePrime("|", "typefactor", "typeterm_prime")
TypedescPrime == TypePrime("->", "typeterm", "typedesc_prime")

Typefactor == Straight(
    <<Must("typeelement", "none"), Try("typefactor_prime"), IfError("none"),
      Ok>>)
Typeterm == Straight(
    <<Must("typefactor", "none"), Try("typeterm_prime"), IfError("none"), Ok>>)
Typedesc == Straight(
    <<Push, Must("typeterm", "err"), Try("typedesc_prime"), IfError("err"),
      Pop, Ok>>)

Typedecl == Straight(
    <<Push, Take({"type"}, "err"), Must("identifier", "err"),
      Take({OBrace}, "err"), Must("typedesc", "say_err"), Take({CBrace}, "say_err"),
      Pop, Ok>>)

Genrtype == Straight(
    <<Push, Take({"id"}, "say_err"), Value, Take({"id"}, "say_err"), Value,
      Pop, Ok>>)
GenericDeclsPrime == Straight(
    <<Look({Comma}, "ok"), Advance, Must("genrtype", "say_none"),
      Must("generic_decls_prime", "none"), Ok>>)
GenericDecls == Straight(
    <<Must("genrtype", "none"), Must("generic_decls_prime", "none"), Ok>>)
Genrdecl == Straight(
    <<Look({"<"}, "none"), Push, Advance, Must("generic_decls", "say_err"),
      MustExist, Take({">"}, "say_err"), Pop, Ok>>)

\* The generic attributes, which no caller expects: expect_it is false, but
\* for what follows a comma.
GenrattrSingle ==
    [start |-> <<Push, Look(Kinds, "err"), Is({"("}, "named"), Advance,
                 Must("typedesc", "err"), Take({")"}, "err"), Pop, Ok>>,
     named |-> <<Must("speculative_xidentifier", "err"), Pop, Ok>>]
GenericAttributePrime == Straight(
    <<Look({Comma}, "ok"), Advance, Must("genrattr_single", "say_none"),
      Must("generic_attribute_prime", "none"), Ok>>)
GenericAttribute == Straight(
    <<Must("genrattr_single", "none"), Must("generic_attribute_prime", "none"),
      Ok>>)
Genrattr == Straight(
    <<Push, Look({"<"}, "err"), Advance, Must("generic_attribute", "err"),
      Take({">"}, "err"), Pop, Ok>>)

ArraySingle ==
    [start |-> <<Advance, MustExist, Ahead({"]"}, "size"), Advance, Ok>>,
     size  |-> <<Must("expression", "say_none"), Expect({"]"}, "say_none"),
                 Ok>>]
Arrspec ==
    [start |-> <<Look({"["}, "none"), Push, Goto("dim")>>,
     dim   |-> <<Must("array_single", "err"), Ahead({"["}, "done"),
                 Goto("dim")>>,
     done  |-> <<Pop, Ok>>]
Bracketlist ==
    [start   |-> <<Push, Advance, Must("expression", "no_args"), Goto("close")>>,
     no_args |-> <<IfError("say_err"), Goto("close")>>,
     close   |-> <<Expect({"]"}, "say_err"), Pop, Ok>>]
-----------------------------------------------------------------------------
(* expression.c, ifexpr.c, forexpr.c, matchexpr.c                          *)

\* tok and tok2 are read once; when the generic call in the middle of the
\* dispatch is not found, tok is taken for the element all the same.
ExprElement ==
    [start    |-> <<Look(Kinds, "none"), Is({"("}, "dispatch"), Advance,
                    Must("expression", "say_none"), Take({")"}, "say_none"),
                    Ok>>,
     dispatch |-> <<When2({"id"}, {":"}, "vardecl", "say_none"),
                    When2({"id"}, {"<"}, "speculative_fncall", "constant"),
                    When2({"id"}, {"("}, "fncall", "none"),
                    When({"["}, "bracketlist", "none"),
                    When({OBrace}, "block", "say_none"),
                    When({"if"}, "ifexpr", "say_none"),
                    When({"for"}, "forexpr", "say_none"),
                    When({"match"}, "matchexpr", "say_none"),
                    Goto("constant")>>,
     constant |-> <<Is({"true", "false"}, "value"), Advance, Ok>>,
     value    |-> <<Is(ValueKinds, "none"), Value, Advance, Ok>>]

\* A mutation of Exprfactor: no test that there is an element.
ExprfactorUntested ==
    [start |-> <<Look(PrefixOps, "plain"), Advance,
                 Must("expr_element", "say_none"), Ok>>,
     plain |-> <<Try("expr_element"), Ahead(PostfixOps, "ok"), Advance, Ok>>]

Exprfactor ==
    [start |-> <<Look(PrefixOps, "plain"), Advance,
                 Must("expr_element", "say_none"), Ok>>,
     plain |-> <<Must("expr_element", "none"), Ahead(PostfixOps, "ok"),
                 Advance, Ok>>]

Exprlevel(l) == Straight(
    <<IF l = MaxLevel THEN Must("exprfactor", "none")
      ELSE MustAt("exprlevel", LevelAfter(l), "none"),
      TryAt("expression_prime", l), IfError("none"), Ok>>)

ExpressionPrime(l) ==
    [start   |-> <<Look(OperatorsAt[l], "none"), Advance,
                   MustAt("exprlevel", LevelAfter(l), "say_none"),
                   Is({"["}, "more"), MustExist, Ahead({"]"}, "unnamed"),
                   Advance, Goto("more")>>,
     unnamed |-> <<NameOf, Post, Fail>>,
     more    |-> <<TryAt("expression_prime", l), IfError("none"), Ok>>]

Expression ==
    [start |-> <<Push, MustAt("exprlevel", LevelAfter(0), "nil"), Pop, Ok>>,
     nil   |-> <<IfError("err"), Pop, Fail>>]

\* A mutation of Condbranch: no message for a missing block.
CondbranchSilent == Straight(
    <<Must("expression", "say_none"), Must("block", "none"), Ok>>)
Condbranch == Straight(
    <<Must("expression", "say_none"), Must("block", "say_none"), Ok>>)
IfexprFrom(keyword) ==
    [start |-> <<Expect({keyword}, "none"), Push, Must("condbranch", "err"),
                 Goto("more")>>,
     more  |-> <<Look({"elif"}, "else"), Must("elifexpr", "err"),
                 Goto("more")>>,
     else  |-> <<Is({"else"}, "done"), Advance, Must("block", "say_err"),
                 Goto("more")>>,
     done  |-> <<Pop, Ok>>]

RangeMember == Straight(<<Expect({"id", "num"}, "none"), Value, Ok>>)
Iterable ==
    [start      |-> <<Push, Look(Kinds, "err"), Is2({":"}, "collection"),
                      Must("range_member", "err"), Advance,
                      Must("range_member", "say_err"), Ahead({":"}, "done"),
                      Advance, Must("range_member", "say_err"),
                      Goto("done")>>,
     collection |-> <<Must("identifier", "err"), Goto("done")>>,
     done       |-> <<Pop, Ok>>]
Forexpr == Straight(
    <<Look({"for"}, "none"), Push, Advance, Must("identifier", "say_err"),
      Expect({"in"}, "say_err"), Must("iterable", "say_err"),
      Must("block", "say_err"), Pop, Ok>>)

\* A mutation of Matchcase: it rolls back to the mark of its caller.
MatchcaseRollsBack == Straight(
    <<Must("typedesc", "none"), Expect({"=>"}, "say_err"),
      Must("expression", "say_none"), Ok>>)
Matchcase == Straight(
    <<Must("typedesc", "none"), Expect({"=>"}, "say_none"),
      Must("expression", "say_none"), Ok>>)
\* ast_parser_acc_matchexpr(p, true, true); without a body it returns with
\* its mark left.
Matchexpr ==
    [start |-> <<Push, Expect({"match"}, "say_err"), Ahead({"("}, "name"),
                 Advance, Must("identifier", "say_err"),
                 Expect({")"}, "say_err"), Goto("body")>>,
     name  |-> <<Must("identifier", "say_err"), Goto("body")>>,
     body  |-> <<Expect({OBrace}, "ok"), Goto("cases")>>,
     cases |-> <<Must("matchcase", "end"), Goto("cases")>>,
     end   |-> <<IfError("err"), Expect({CBrace}, "say_err"), Pop, Ok>>]
\* ast_parser_acc_matchexpr(p, false, true), the body of a function; with one
\* case only, the end of the node is never set.
HeadlessMatchexpr ==
    [start |-> <<Push, Must("matchcase", "say_err"), Must("matchcase", "one"),
                 Goto("cases")>>,
     one   |-> <<IfError("err"), ReadUnset, Pop, Ok>>,
     cases |-> <<Must("matchcase", "end"), Goto("cases")>>,
     end   |-> <<IfError("err"), Pop, Ok>>]
-----------------------------------------------------------------------------
AcceptFunction ==
    [parse_file |-> ParseFile, stmt |-> Stmt, block |-> AccBlock,
     return_statement |-> ReturnStatement, expr_statement |-> ExprStatement,
     block_element |-> BlockElement, import |-> AccImport,
     module |-> AccModule, module_statement |-> ModuleStatement,
     identifier |-> Identifier, fndecl |-> Fndecl,
     foreign_fndecl |-> ForeignFndecl, fnimpl |-> Fnimpl,
     fncall |-> FncallOr("say_err"), speculative_fncall |-> FncallOr("err"),
     xidentifier |-> XidentifierOr("say_none"),
     speculative_xidentifier |-> XidentifierOr("none"), vardecl |-> Vardecl,
     parenthesized_typedesc |-> ParenthesizedTypedesc, typeleaf |-> Typeleaf,
     typeelement |-> Typeelement, typefactor |-> Typefactor,
     typefactor_prime |-> TypefactorPrime, typeterm |-> Typeterm,
     typeterm_prime |-> TypetermPrime, typedesc |-> Typedesc,
     typedesc_prime |-> TypedescPrime, typedecl |-> Typedecl,
     genrtype |-> Genrtype, generic_decls |-> GenericDecls,
     generic_decls_prime |-> GenericDeclsPrime, genrdecl |-> Genrdecl,
     genrattr_single |-> GenrattrSingle,
     generic_attribute |-> GenericAttribute,
     generic_attribute_prime |-> GenericAttributePrime, genrattr |-> Genrattr,
     array_single |-> ArraySingle, arrspec |-> Arrspec,
     bracketlist |-> Bracketlist, expr_element |-> ExprElement,
     exprfactor |-> Exprfactor, expression |-> Expression,
     condbranch |-> Condbranch, ifexpr |-> IfexprFrom("if"),
     elifexpr |-> IfexprFrom("elif"), range_member |-> RangeMember,
     iterable |-> Iterable, forexpr |-> Forexpr, matchcase |-> Matchcase,
     matchexpr |-> Matchexpr, headless_matchexpr |-> HeadlessMatchexpr]

ExprlevelAt == [l \in Levels |-> Exprlevel(l)]
ExpressionPrimeAt == [l \in Levels |-> ExpressionPrime(l)]

\* The steps of function f (at operator level lvl) under a label.
Steps(f, lvl, label) ==
    IF label \in DOMAIN Exits THEN Exits[label]
    ELSE IF f = "exprlevel" THEN ExprlevelAt[lvl][label]
    ELSE IF f = "expression_prime" THEN ExpressionPrimeAt[lvl][label]
    ELSE AcceptFunction[f][label]
=============================================================================
