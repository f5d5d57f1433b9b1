----------------------- MODULE AcceptFunctionsProofs -----------------------
(***************************************************************************)
(* What the programs of the accept functions have in common, whatever the  *)
(* kinds of token: a discipline that the marks, the tokens, the messages   *)
(* and the ways out of every function keep to, and that can be seen in its *)
(* text.  What it gives the parser that runs them is in AstParserProofs.   *)
(***************************************************************************)
EXTENDS AcceptFunctions, TLAPS

Program(f, lvl) ==
    IF f = "exprlevel" THEN Exprlevel(lvl)
    ELSE IF f = "expression_prime" THEN ExpressionPrime(lvl)
    ELSE AcceptFunction[f]

Body(p, l) == IF l \in DOMAIN Exits THEN Exits[l] ELSE p[l]
Labels(p) == DOMAIN p \cup DOMAIN Exits

Callable(f, lvl) ==
    \/ f \in DOMAIN AcceptFunction /\ lvl = 0
    \/ f \in {"exprlevel", "expression_prime"} /\ lvl \in Levels

-----------------------------------------------------------------------------
(* The kinds of step.                                                      *)

LooksAtTok == {"look", "is", "expect", "take"}
Tests == LooksAtTok \cup {"is2", "ahead", "if_error", "if_error_reset"}
Calls == {"call", "when", "when2"}
Leaves == {"ok", "fail", "undo"}
Plain == {"push", "pop", "advance", "mark", "value", "must_exist", "name_of",
          "read_unset", "post", "info_push", "info_pop", "info_rollback",
          "adopt"}
SetsTok == {"mark", "look", "expect", "take"}

\* A step may go to label l.
Branches(step) == step.do \in Tests \cup Calls \cup {"goto"}

-----------------------------------------------------------------------------
(* What is known before step k of the steps s of label l.                  *)

\* The functions that set a mark at their start and have it set under all
\* their other labels, as everything has at the ways out that roll back.
Marking == {"block", "import", "module", "fndecl", "foreign_fndecl", "fncall",
            "speculative_fncall", "typeleaf", "typeelement",
            "genrattr_single", "arrspec", "bracketlist", "expression",
            "ifexpr", "elifexpr", "iterable", "matchexpr",
            "headless_matchexpr"}
EntersHeld(f, l) ==
    \/ l \in {"err", "say_err"}
    \/ f \in Marking /\ l \notin {"start", "ok", "none", "say_none"}

\* The function has a mark of its own.
Holds(f, l, s, k) ==
    /\ EntersHeld(f, l) \/ \E j \in 1..k-1 : s[j].do = "push"
    /\ \A j \in 1..k-1 : s[j].do # "pop"

\* tok is what it was after step j.
TokStays(s, j, k) == \A i \in j+1..k-1 : s[i].do \notin SetsTok
\* Step j found tok to be of its kinds.
Saw(s, k, j) == j \in 1..k-1 /\ s[j].do \in LooksAtTok /\ TokStays(s, j, k)
SawSome(s, k) == \E j \in 1..k-1 : Saw(s, k, j)
SawOf(s, k, kinds) == \E j \in 1..k-1 : Saw(s, k, j) /\ s[j].kinds \subseteq kinds
\* The cursor is past tok.
Passed(s, k) ==
    \E j \in 1..k-1 :
        s[j].do \in {"advance", "expect", "take"} /\ TokStays(s, j, k)

\* The functions that may return a node without reading a token, and what
\* shows that another one has read one.
Frugal == {"parse_file", "generic_decls_prime", "generic_attribute_prime",
           "array_single", "arrspec"}
MustEat(step) == step.do = "call" /\ step.fail # "next" /\ step.f \notin Frugal
EatenLabels == {"ok", "args", "body", "stmts", "end", "more", "done", "no_genr",
                "dims", "no_dims", "cases", "one", "else"}
\* The function has read a token.
Eats(l, s, k) ==
    \/ l \in EatenLabels
    \/ \E j \in 1..k-1 :
        \/ s[j].do \in {"expect", "take"}
        \/ MustEat(s[j])
        \/ s[j].do = "advance" /\ SawSome(s, j)
\* It has read a token after tok.
Wide(l, s, k) ==
    \/ l = "unnamed" /\ TokStays(s, 0, k)
    \/ \E j \in 1..k-1 :
        MustEat(s[j]) /\ Passed(s, j) /\ SawSome(s, j) /\ TokStays(s, j, k)
\* It has read the arrow of a case.
Arrow(l, s, k) ==
    \/ l = "one"
    \/ \E j \in 1..k-1 :
        \/ s[j].do = "expect" /\ s[j].kinds = {"=>"}
        \/ s[j].do = "call" /\ s[j].f = "matchcase" /\ s[j].fail # "next"

\* The functions that post a message when they fail, the position where they
\* have done so, and tok being the next token.
Loud == {"genrtype", "condbranch", "ifexpr", "elifexpr"}
Said(l, s, k) == l = "err" \/ \E j \in 1..k-1 : s[j].do = "post"
Fresh(l, s, k) ==
    \/ l = "dispatch" /\ \A i \in 1..k-1 : s[i].do \in {"when", "when2"}
    \/ \E j \in 1..k-1 :
        /\ s[j].do = "look"
        /\ \A i \in j+1..k-1 : s[i].do \in {"is", "is2", "push", "pop", "ahead"}

-----------------------------------------------------------------------------
(* The discipline.                                                         *)

CanGo(f, labels, l, s, k) ==
    /\ s[k].fail \in labels \cup DOMAIN Exits /\ s[k].fail # "next"
    /\ EntersHeld(f, s[k].fail) => Holds(f, l, s, k)
    /\ s[k].fail \in EatenLabels => Eats(l, s, k) \/ f \in Frugal
    /\ s[k].fail = "unnamed" =>
        /\ Wide(l, s, k)
        /\ SawOf(s, k, {"["})
        /\ s[k].do = "ahead" /\ s[k].kinds = {"]"}
    /\ s[k].fail = "one" => Arrow(l, s, k)
    /\ s[k].fail = "dispatch" => Fresh(l, s, k) /\ s[k].do = "is"
    /\ f = "matchcase" => s[k].fail # "ok"
    /\ f = "parse_file" => s[k].fail \notin DOMAIN Exits
    /\ f \in Loud =>
        /\ s[k].fail # "start"
        /\ s[k].fail = "err" => s[k].do = "call" /\ s[k].f \in Loud
        /\ s[k].fail = "none" =>
            f \in {"ifexpr", "elifexpr"} /\ l = "start" /\ k = 1

CanCall(f, l, s, k) ==
    /\ Callable(s[k].f, s[k].lvl) /\ s[k].f # "parse_file"
    /\ s[k].do = "call" => s[k].ok = "next"
    /\ s[k].do # "call" =>
        /\ s[k].ok = "ok" /\ s[k].fail # "next" /\ s[k].f \notin Frugal
        /\ f \notin {"parse_file", "matchcase"} \cup Loud
    /\ s[k].f = "ifexpr" =>
        Fresh(l, s, k) /\ s[k].do = "when" /\ s[k].kinds = {"if"}
    /\ s[k].f = "elifexpr" =>
        Fresh(l, s, k) /\ s[k].do = "call" /\ SawOf(s, k, {"elif"})

StepOK(f, labels, l, s, k) ==
    \* It goes on to a step or label that is there.
    /\ s[k].do \in Leaves \cup Tests \cup Calls \cup Plain \cup {"goto", "finish"}
    /\ s[k].do \in Tests \cup Calls \cup Plain => k + 1 \in DOMAIN s
    /\ Branches(s[k]) =>
        \/ s[k].do \in Calls /\ s[k].fail = "next"
        \/ CanGo(f, labels, l, s, k)
    /\ s[k].do \in Calls => CanCall(f, l, s, k)
    /\ s[k].do \in LooksAtTok \cup {"is2", "ahead"} => "NULL" \notin s[k].kinds
    /\ s[k].do = "finish" => s[k].verdict \in {"accepted", "rejected"}
    \* It takes away no mark but the function's own.
    /\ s[k].do \in {"pop", "undo"} => Holds(f, l, s, k)
    \* It takes the value of a token that has one, and is read with it.
    /\ s[k].do = "value" =>
        /\ SawOf(s, k, ValueKinds)
        /\ Passed(s, k) \/ s[k + 1].do = "advance"
    \* What it asserts is explained.
    /\ s[k].do = "name_of" => l = "unnamed" /\ k = 1
    /\ s[k].do = "read_unset" => Arrow(l, s, k)
    \* It leaves the function as the function promises.
    /\ s[k].do \in Leaves => f # "parse_file"
    /\ s[k].do = "ok" => f \in Frugal \/ Eats(l, s, k)
    /\ s[k].do = "ok" /\ f = "matchcase" => Arrow(l, s, k)
    /\ s[k].do \in {"fail", "undo"} /\ f \in Loud /\ l # "none" => Said(l, s, k)
    /\ s[k].do \in Calls \cup {"if_error_reset", "info_rollback"} /\ f \in Loud =>
        ~Said(l, s, k)
    /\ f \in {"ifexpr", "elifexpr"} /\ l = "start" /\ k = 1 =>
        /\ s[k].do = "expect"
        /\ s[k].kinds = {IF f = "ifexpr" THEN "if" ELSE "elif"}
    /\ l = "unnamed" => f = "expression_prime"

Disciplined(f, p) ==
    /\ "start" \in DOMAIN p
    /\ \A l \in DOMAIN p \ DOMAIN Exits :
        /\ 1 \in DOMAIN p[l]
        /\ \A k \in DOMAIN p[l] : StepOK(f, DOMAIN p, l, p[l], k)

-----------------------------------------------------------------------------
(* How what is known changes from step to step.                            *)

\* What is known before a step comes from what was known before the one that
\* precedes it, and from that step.
LEMMA MarkAfterStep ==
    ASSUME NEW f, NEW l, NEW s, NEW k \in Nat \ {0}, Holds(f, l, s, k + 1)
    PROVE  s[k].do # "pop" /\ (s[k].do = "push" \/ Holds(f, l, s, k))
  <1>1. \A j : j \in 1..k+1-1 <=> j \in 1..k-1 \/ j = k
    OBVIOUS
  <1> QED
    BY <1>1 DEF Holds

\* What was seen of tok, and that the cursor is past it, is known after step k
\* from before it, while tok stays.
LEMMA TokAfterStep ==
    ASSUME NEW s, NEW k \in Nat \ {0}
    PROVE  /\ \A j \in 1..k : Saw(s, k + 1, j) =>
                \/ j = k /\ s[k].do \in LooksAtTok
                \/ j # k /\ Saw(s, k, j) /\ s[k].do \notin SetsTok
           /\ Passed(s, k + 1) =>
                \/ s[k].do \in {"advance", "expect", "take"}
                \/ Passed(s, k) /\ s[k].do \notin SetsTok
  <1>1. \A j : j \in 1..k+1-1 <=> j \in 1..k-1 \/ j = k
    OBVIOUS
  <1>2. \A j \in 1..k-1 :
            TokStays(s, j, k + 1) => TokStays(s, j, k) /\ s[k].do \notin SetsTok
    BY DEF TokStays
  <1>3. \A j \in 1..k : Saw(s, k + 1, j) =>
            \/ j = k /\ s[k].do \in LooksAtTok
            \/ j # k /\ Saw(s, k, j) /\ s[k].do \notin SetsTok
    BY <1>1, <1>2 DEF Saw
  <1>4. Passed(s, k + 1) =>
            \/ s[k].do \in {"advance", "expect", "take"}
            \/ Passed(s, k) /\ s[k].do \notin SetsTok
    BY <1>1, <1>2 DEF Passed
  <1> QED
    BY <1>3, <1>4

\* So is what was read.
LEMMA ReadAfterStep ==
    ASSUME NEW l, NEW s, NEW k \in Nat \ {0}
    PROVE  /\ Eats(l, s, k + 1) =>
                \/ Eats(l, s, k) \/ s[k].do \in {"expect", "take"}
                \/ MustEat(s[k]) \/ (s[k].do = "advance" /\ SawSome(s, k))
           /\ Wide(l, s, k + 1) =>
                \/ Wide(l, s, k) /\ s[k].do \notin SetsTok
                \/ MustEat(s[k]) /\ Passed(s, k) /\ SawSome(s, k)
           /\ Arrow(l, s, k + 1) =>
                \/ Arrow(l, s, k)
                \/ s[k].do = "expect" /\ s[k].kinds = {"=>"}
                \/ s[k].do = "call" /\ s[k].f = "matchcase" /\ s[k].fail # "next"
  <1>1. \A j : j \in 1..k+1-1 <=> j \in 1..k-1 \/ j = k
    OBVIOUS
  <1>2. \A j \in 0..k-1 :
            TokStays(s, j, k + 1) => TokStays(s, j, k) /\ s[k].do \notin SetsTok
    BY DEF TokStays
  <1>3. Eats(l, s, k + 1) =>
            \/ Eats(l, s, k) \/ s[k].do \in {"expect", "take"}
            \/ MustEat(s[k]) \/ (s[k].do = "advance" /\ SawSome(s, k))
    <2> DEFINE E(j) == \/ s[j].do \in {"expect", "take"}
                       \/ MustEat(s[j])
                       \/ s[j].do = "advance" /\ SawSome(s, j)
    <2>1. (\E j \in 1..k+1-1 : E(j)) => (\E j \in 1..k-1 : E(j)) \/ E(k)
      <3> HIDE DEF E
      <3> QED
        BY <1>1
    <2>2. /\ Eats(l, s, k + 1) <=> l \in EatenLabels \/ \E j \in 1..k+1-1 : E(j)
          /\ Eats(l, s, k) <=> l \in EatenLabels \/ \E j \in 1..k-1 : E(j)
      BY DEF Eats
    <2> QED
      BY <2>1, <2>2
  <1>4. Wide(l, s, k + 1) =>
            \/ Wide(l, s, k) /\ s[k].do \notin SetsTok
            \/ MustEat(s[k]) /\ Passed(s, k) /\ SawSome(s, k)
    BY <1>1, <1>2 DEF Wide
  <1>5. Arrow(l, s, k + 1) =>
            \/ Arrow(l, s, k)
            \/ s[k].do = "expect" /\ s[k].kinds = {"=>"}
            \/ s[k].do = "call" /\ s[k].f = "matchcase" /\ s[k].fail # "next"
    BY <1>1 DEF Arrow
  <1> QED
    BY <1>3, <1>4, <1>5

\* So are what was said, and that tok is the next token.
LEMMA SaidAfterStep ==
    ASSUME NEW l, NEW s, NEW k \in Nat \ {0}
    PROVE  /\ Said(l, s, k + 1) => Said(l, s, k) \/ s[k].do = "post"
           /\ Fresh(l, s, k + 1) =>
                \/ s[k].do = "look"
                \/ /\ Fresh(l, s, k)
                   /\ s[k].do \in {"is", "is2", "push", "pop", "ahead", "when",
                                   "when2"}
  <1>1. \A j : j \in 1..k+1-1 <=> j \in 1..k-1 \/ j = k
    OBVIOUS
  <1>2. Said(l, s, k + 1) => Said(l, s, k) \/ s[k].do = "post"
    BY <1>1 DEF Said
  <1>3. Fresh(l, s, k + 1) =>
            \/ s[k].do = "look"
            \/ /\ Fresh(l, s, k)
               /\ s[k].do \in {"is", "is2", "push", "pop", "ahead", "when",
                               "when2"}
    BY <1>1 DEF Fresh
  <1> QED
    BY <1>2, <1>3

\* What is known before the first step depends on the label only.
LEMMA MarkAtEntry ==
    ASSUME NEW f, NEW l, NEW s, Holds(f, l, s, 1)
    PROVE  EntersHeld(f, l)
  BY DEF Holds

\* So does the rest.
LEMMA KnownAtEntry ==
    ASSUME NEW l, NEW s
    PROVE  /\ \A j : ~Saw(s, 1, j)
           /\ ~Passed(s, 1)
           /\ Eats(l, s, 1) => l \in EatenLabels
           /\ Wide(l, s, 1) => l = "unnamed"
           /\ Arrow(l, s, 1) => l = "one"
           /\ Said(l, s, 1) => l = "err"
           /\ Fresh(l, s, 1) => l = "dispatch"
  BY DEF Saw, Passed, Eats, Wide, Arrow, Said, Fresh

\* The kinds that go by a name are kinds.
LEMMA NamedKinds == OBrace # "NULL" /\ CBrace # "NULL" /\ Comma # "NULL"
  BY DEF OBrace, CBrace, Comma

\* The functions there are.
LEMMA Named ==
  DOMAIN AcceptFunction =
    {"parse_file", "stmt", "block", "return_statement", "expr_statement",
     "block_element", "import", "module", "module_statement", "identifier",
     "fndecl", "foreign_fndecl", "fnimpl", "fncall", "speculative_fncall",
     "xidentifier", "speculative_xidentifier", "vardecl",
     "parenthesized_typedesc", "typeleaf", "typeelement", "typefactor",
     "typefactor_prime", "typeterm", "typeterm_prime", "typedesc",
     "typedesc_prime", "typedecl", "genrtype", "generic_decls",
     "generic_decls_prime", "genrdecl", "genrattr_single",
     "generic_attribute", "generic_attribute_prime", "genrattr",
     "array_single", "arrspec", "bracketlist", "expr_element", "exprfactor",
     "expression", "condbranch", "ifexpr", "elifexpr", "range_member",
     "iterable", "forexpr", "matchcase", "matchexpr", "headless_matchexpr"}
  BY DEF AcceptFunction

\* The next level is a level.
LEMMA LevelAfterIsALevel ==
    ASSUME NEW l \in Levels \cup {0}
    PROVE  LevelAfter(l) \in Levels
  <1>1. CASE l = MaxLevel
    BY <1>1 DEF LevelAfter, Levels
  <1>2. CASE l # MaxLevel
    <2>1. MaxLevel \in Levels /\ Levels \subseteq 1..13 /\ l < MaxLevel
      BY <1>2 DEF Levels, MaxLevel
    <2>2. \E m \in Levels : m > l /\ \A n \in Levels : n > l => n >= m
      <3> DEFINE Above(n) == n \in Levels /\ n > l
      <3>1. PICK n \in 1..13 : Above(n) /\ \A i \in 1..13 : i < n => ~Above(i)
        <4>1. Above(13)
          BY <2>1 DEF MaxLevel
        <4> HIDE DEF Above
        <4> QED
          BY <4>1, SMT
      <3> QED
        BY <2>1, <3>1, SMT
    <2> QED
      BY <1>2, <2>2 DEF LevelAfter
  <1> QED
    BY <1>1, <1>2

\* NULL is not an operator.
LEMMA NullIsNoOperator ==
    ASSUME NEW l \in Levels
    PROVE  "NULL" \notin OperatorsAt[l]
  <1>1. l \in 1..13
    BY DEF Levels, MaxLevel
  <1> QED
    BY <1>1, NamedKinds, SMT DEF OperatorsAt

USE NullIsNoKind, NamedKinds, Named
USE DEF Push, Pop, Advance, Mark, Look, Is, Is2, Ahead, Expect, Take, Value,
        MustExist, NameOf, ReadUnset, Post, IfError, IfErrorReset, InfoPush,
        InfoPop, InfoRollback, Goto, Ok, Fail, Undo, Adopt, Finish, MustAt,
        Must, TryAt, Try, When, When2, Straight, Exits, ValueKinds
USE DEF LooksAtTok, Tests, Calls, Leaves, Plain, SetsTok, Branches, Marking,
        EntersHeld, Holds, TokStays, Saw, SawSome, SawOf, Passed, Frugal,
        MustEat, EatenLabels, Eats, Wide, Arrow, Loud, Said, Fresh, CanGo,
        CanCall, Callable, StepOK

\* ast_parser_parse_file() keeps to it.
LEMMA ParseFileKeeps == Disciplined("parse_file", ParseFile)
  <1> DEFINE L == {"start", "end", "whole"}
  <1>1. DOMAIN ParseFile = L
    BY DEF ParseFile
  <1>2. ASSUME NEW s, s = ParseFile["start"]
        PROVE  1 \in DOMAIN s /\ \A k \in DOMAIN s : StepOK("parse_file", L, "start", s, k)
    <2>1. StepOK("parse_file", L, "start", s, 1)  BY <1>2 DEF ParseFile
    <2>2. StepOK("parse_file", L, "start", s, 2)  BY <1>2 DEF ParseFile
    <2>3. StepOK("parse_file", L, "start", s, 3)  BY <1>2 DEF ParseFile
    <2>4. DOMAIN s = 1..3  BY <1>2 DEF ParseFile
    <2> HIDE DEF StepOK
    <2> QED  BY <2>1, <2>2, <2>3, <2>4
  <1>3. ASSUME NEW s, s = ParseFile["end"]
        PROVE  1 \in DOMAIN s /\ \A k \in DOMAIN s : StepOK("parse_file", L, "end", s, k)
    <2>1. StepOK("parse_file", L, "end", s, 1)  BY <1>3 DEF ParseFile
    <2>2. StepOK("parse_file", L, "end", s, 2)  BY <1>3 DEF ParseFile
    <2>3. StepOK("parse_file", L, "end", s, 3)  BY <1>3 DEF ParseFile
    <2>4. DOMAIN s = 1..3  BY <1>3 DEF ParseFile
    <2> HIDE DEF StepOK
    <2> QED  BY <2>1, <2>2, <2>3, <2>4
  <1>4. ASSUME NEW s, s = ParseFile["whole"]
        PROVE  1 \in DOMAIN s /\ \A k \in DOMAIN s : StepOK("parse_file", L, "whole", s, k)
    <2>1. StepOK("parse_file", L, "whole", s, 1)  BY <1>4 DEF ParseFile
    <2>2. DOMAIN s = 1..1  BY <1>4 DEF ParseFile
    <2> HIDE DEF StepOK
    <2> QED  BY <2>1, <2>2
  <1> HIDE DEF StepOK, Exits
  <1> QED  BY <1>1, <1>2, <1>3, <1>4 DEF Disciplined

\* ast_parser_acc_stmt() keeps to it.
LEMMA StmtKeeps == Disciplined("stmt", Stmt)
  <1> DEFINE L == {"start"}
  <1>1. DOMAIN Stmt = L
    BY DEF Stmt
  <1>2. ASSUME NEW s, s = Stmt["start"]
        PROVE  1 \in DOMAIN s /\ \A k \in DOMAIN s : StepOK("stmt", L, "start", s, k)
    <2>1. StepOK("stmt", L, "start", s, 1)  BY <1>2 DEF Stmt
    <2>2. StepOK("stmt", L, "start", s, 2)  BY <1>2 DEF Stmt
    <2>3. StepOK("stmt", L, "start", s, 3)  BY <1>2 DEF Stmt
    <2>4. StepOK("stmt", L, "start", s, 4)  BY <1>2 DEF Stmt
    <2>5. StepOK("stmt", L, "start", s, 5)  BY <1>2 DEF Stmt
    <2>6. StepOK("stmt", L, "start", s, 6)  BY <1>2 DEF Stmt
    <2>7. StepOK("stmt", L, "start", s, 7)  BY <1>2 DEF Stmt
    <2>8. StepOK("stmt", L, "start", s, 8)  BY <1>2 DEF Stmt
    <2>9. DOMAIN s = 1..8  BY <1>2 DEF Stmt
    <2> HIDE DEF StepOK
    <2> QED  BY <2>1, <2>2, <2>3, <2>4, <2>5, <2>6, <2>7, <2>8, <2>9
  <1> HIDE DEF StepOK, Exits
  <1> QED  BY <1>1, <1>2 DEF Disciplined

\* ast_parser_acc_return_statement() keeps to it.
LEMMA ReturnStatementKeeps == Disciplined("return_statement", ReturnStatement)
  <1> DEFINE L == {"start"}
  <1>1. DOMAIN ReturnStatement = L
    BY DEF ReturnStatement
  <1>2. ASSUME NEW s, s = ReturnStatement["start"]
        PROVE  1 \in DOMAIN s /\ \A k \in DOMAIN s : StepOK("return_statement", L, "start", s, k)
    <2>1. StepOK("return_statement", L, "start", s, 1)  BY <1>2 DEF ReturnStatement
    <2>2. StepOK("return_statement", L, "start", s, 2)  BY <1>2 DEF ReturnStatement
    <2>3. StepOK("return_statement", L, "start", s, 3)  BY <1>2 DEF ReturnStatement
    <2>4. DOMAIN s = 1..3  BY <1>2 DEF ReturnStatement
    <2> HIDE DEF StepOK
    <2> QED  BY <2>1, <2>2, <2>3, <2>4
  <1> HIDE DEF StepOK, Exits
  <1> QED  BY <1>1, <1>2 DEF Disciplined

\* ast_parser_acc_expr_statement() keeps to it.
LEMMA ExprStatementKeeps == Disciplined("expr_statement", ExprStatement)
  <1> DEFINE L == {"start"}
  <1>1. DOMAIN ExprStatement = L
    BY DEF ExprStatement
  <1>2. ASSUME NEW s, s = ExprStatement["start"]
        PROVE  1 \in DOMAIN s /\ \A k \in DOMAIN s : StepOK("expr_statement", L, "start", s, k)
    <2>1. StepOK("expr_statement", L, "start", s, 1)  BY <1>2 DEF ExprStatement
    <2>2. StepOK("expr_statement", L, "start", s, 2)  BY <1>2 DEF ExprStatement
    <2>3. StepOK("expr_statement", L, "start", s, 3)  BY <1>2 DEF ExprStatement
    <2>4. StepOK("expr_statement", L, "start", s, 4)  BY <1>2 DEF ExprStatement
    <2>5. StepOK("expr_statement", L, "start", s, 5)  BY <1>2 DEF ExprStatement
    <2>6. DOMAIN s = 1..5  BY <1>2 DEF ExprStatement
    <2> HIDE DEF StepOK
    <2> QED  BY <2>1, <2>2, <2>3, <2>4, <2>5, <2>6
  <1> HIDE DEF StepOK, Exits
  <1> QED  BY <1>1, <1>2 DEF Disciplined

\* ast_parser_acc_block_element() keeps to it.
LEMMA BlockElementKeeps == Disciplined("block_element", BlockElement)
  <1> DEFINE L == {"start", "statement"}
  <1>1. DOMAIN BlockElement = L
    BY DEF BlockElement
  <1>2. ASSUME NEW s, s = BlockElement["start"]
        PROVE  1 \in DOMAIN s /\ \A k \in DOMAIN s : StepOK("block_element", L, "start", s, k)
    <2>1. StepOK("block_element", L, "start", s, 1)  BY <1>2 DEF BlockElement
    <2>2. StepOK("block_element", L, "start", s, 2)  BY <1>2 DEF BlockElement
    <2>3. DOMAIN s = 1..2  BY <1>2 DEF BlockElement
    <2> HIDE DEF StepOK
    <2> QED  BY <2>1, <2>2, <2>3
  <1>3. ASSUME NEW s, s = BlockElement["statement"]
        PROVE  1 \in DOMAIN s /\ \A k \in DOMAIN s : StepOK("block_element", L, "statement", s, k)
    <2>1. StepOK("block_element", L, "statement", s, 1)  BY <1>3 DEF BlockElement
    <2>2. StepOK("block_element", L, "statement", s, 2)  BY <1>3 DEF BlockElement
    <2>3. DOMAIN s = 1..2  BY <1>3 DEF BlockElement
    <2> HIDE DEF StepOK
    <2> QED  BY <2>1, <2>2, <2>3
  <1> HIDE DEF StepOK, Exits
  <1> QED  BY <1>1, <1>2, <1>3 DEF Disciplined

\* ast_parser_acc_block() keeps to it.
LEMMA AccBlockKeeps == Disciplined("block", AccBlock)
  <1> DEFINE L == {"start", "empty", "more", "close"}
  <1>1. DOMAIN AccBlock = L
    BY DEF AccBlock
  <1>2. ASSUME NEW s, s = AccBlock["start"]
        PROVE  1 \in DOMAIN s /\ \A k \in DOMAIN s : StepOK("block", L, "start", s, k)
    <2>1. StepOK("block", L, "start", s, 1)  BY <1>2 DEF AccBlock
    <2>2. StepOK("block", L, "start", s, 2)  BY <1>2 DEF AccBlock
    <2>3. StepOK("block", L, "start", s, 3)  BY <1>2 DEF AccBlock
    <2>4. StepOK("block", L, "start", s, 4)  BY <1>2 DEF AccBlock
    <2>5. StepOK("block", L, "start", s, 5)  BY <1>2 DEF AccBlock
    <2>6. DOMAIN s = 1..5  BY <1>2 DEF AccBlock
    <2> HIDE DEF StepOK
    <2> QED  BY <2>1, <2>2, <2>3, <2>4, <2>5, <2>6
  <1>3. ASSUME NEW s, s = AccBlock["empty"]
        PROVE  1 \in DOMAIN s /\ \A k \in DOMAIN s : StepOK("block", L, "empty", s, k)
    <2>1. StepOK("block", L, "empty", s, 1)  BY <1>3 DEF AccBlock
    <2>2. StepOK("block", L, "empty", s, 2)  BY <1>3 DEF AccBlock
    <2>3. DOMAIN s = 1..2  BY <1>3 DEF AccBlock
    <2> HIDE DEF StepOK
    <2> QED  BY <2>1, <2>2, <2>3
  <1>4. ASSUME NEW s, s = AccBlock["more"]
        PROVE  1 \in DOMAIN s /\ \A k \in DOMAIN s : StepOK("block", L, "more", s, k)
    <2>1. StepOK("block", L, "more", s, 1)  BY <1>4 DEF AccBlock
    <2>2. StepOK("block", L, "more", s, 2)  BY <1>4 DEF AccBlock
    <2>3. DOMAIN s = 1..2  BY <1>4 DEF AccBlock
    <2> HIDE DEF StepOK
    <2> QED  BY <2>1, <2>2, <2>3
  <1>5. ASSUME NEW s, s = AccBlock["close"]
        PROVE  1 \in DOMAIN s /\ \A k \in DOMAIN s : StepOK("block", L, "close", s, k)
    <2>1. StepOK("block", L, "close", s, 1)  BY <1>5 DEF AccBlock
    <2>2. StepOK("block", L, "close", s, 2)  BY <1>5 DEF AccBlock
    <2>3. StepOK("block", L, "close", s, 3)  BY <1>5 DEF AccBlock
    <2>4. DOMAIN s = 1..3  BY <1>5 DEF AccBlock
    <2> HIDE DEF StepOK
    <2> QED  BY <2>1, <2>2, <2>3, <2>4
  <1> HIDE DEF StepOK, Exits
  <1> QED  BY <1>1, <1>2, <1>3, <1>4, <1>5 DEF Disciplined

\* ast_parser_acc_import() keeps to it.
LEMMA AccImportKeeps == Disciplined("import", AccImport)
  <1> DEFINE L == {"start", "more", "child", "plain", "done"}
  <1>1. DOMAIN AccImport = L
    BY DEF AccImport
  <1>2. ASSUME NEW s, s = AccImport["start"]
        PROVE  1 \in DOMAIN s /\ \A k \in DOMAIN s : StepOK("import", L, "start", s, k)
    <2>1. StepOK("import", L, "start", s, 1)  BY <1>2 DEF AccImport
    <2>2. StepOK("import", L, "start", s, 2)  BY <1>2 DEF AccImport
    <2>3. StepOK("import", L, "start", s, 3)  BY <1>2 DEF AccImport
    <2>4. DOMAIN s = 1..3  BY <1>2 DEF AccImport
    <2> HIDE DEF StepOK
    <2> QED  BY <2>1, <2>2, <2>3, <2>4
  <1>3. ASSUME NEW s, s = AccImport["more"]
        PROVE  1 \in DOMAIN s /\ \A k \in DOMAIN s : StepOK("import", L, "more", s, k)
    <2>1. StepOK("import", L, "more", s, 1)  BY <1>3 DEF AccImport
    <2>2. StepOK("import", L, "more", s, 2)  BY <1>3 DEF AccImport
    <2>3. DOMAIN s = 1..2  BY <1>3 DEF AccImport
    <2> HIDE DEF StepOK
    <2> QED  BY <2>1, <2>2, <2>3
  <1>4. ASSUME NEW s, s = AccImport["child"]
        PROVE  1 \in DOMAIN s /\ \A k \in DOMAIN s : StepOK("import", L, "child", s, k)
    <2>1. StepOK("import", L, "child", s, 1)  BY <1>4 DEF AccImport
    <2>2. StepOK("import", L, "child", s, 2)  BY <1>4 DEF AccImport
    <2>3. StepOK("import", L, "child", s, 3)  BY <1>4 DEF AccImport
    <2>4. StepOK("import", L, "child", s, 4)  BY <1>4 DEF AccImport
    <2>5. DOMAIN s = 1..4  BY <1>4 DEF AccImport
    <2> HIDE DEF StepOK
    <2> QED  BY <2>1, <2>2, <2>3, <2>4, <2>5
  <1>5. ASSUME NEW s, s = AccImport["plain"]
        PROVE  1 \in DOMAIN s /\ \A k \in DOMAIN s : StepOK("import", L, "plain", s, k)
    <2>1. StepOK("import", L, "plain", s, 1)  BY <1>5 DEF AccImport
    <2>2. StepOK("import", L, "plain", s, 2)  BY <1>5 DEF AccImport
    <2>3. StepOK("import", L, "plain", s, 3)  BY <1>5 DEF AccImport
    <2>4. DOMAIN s = 1..3  BY <1>5 DEF AccImport
    <2> HIDE DEF StepOK
    <2> QED  BY <2>1, <2>2, <2>3, <2>4
  <1>6. ASSUME NEW s, s = AccImport["done"]
        PROVE  1 \in DOMAIN s /\ \A k \in DOMAIN s : StepOK("import", L, "done", s, k)
    <2>1. StepOK("import", L, "done", s, 1)  BY <1>6 DEF AccImport
    <2>2. StepOK("import", L, "done", s, 2)  BY <1>6 DEF AccImport
    <2>3. DOMAIN s = 1..2  BY <1>6 DEF AccImport
    <2> HIDE DEF StepOK
    <2> QED  BY <2>1, <2>2, <2>3
  <1> HIDE DEF StepOK, Exits
  <1> QED  BY <1>1, <1>2, <1>3, <1>4, <1>5, <1>6 DEF Disciplined

\* ast_parser_acc_module_statement() keeps to it.
LEMMA ModuleStatementKeeps == Disciplined("module_statement", ModuleStatement)
  <1> DEFINE L == {"start"}
  <1>1. DOMAIN ModuleStatement = L
    BY DEF ModuleStatement
  <1>2. ASSUME NEW s, s = ModuleStatement["start"]
        PROVE  1 \in DOMAIN s /\ \A k \in DOMAIN s : StepOK("module_statement", L, "start", s, k)
    <2>1. StepOK("module_statement", L, "start", s, 1)  BY <1>2 DEF ModuleStatement
    <2>2. StepOK("module_statement", L, "start", s, 2)  BY <1>2 DEF ModuleStatement
    <2>3. StepOK("module_statement", L, "start", s, 3)  BY <1>2 DEF ModuleStatement
    <2>4. StepOK("module_statement", L, "start", s, 4)  BY <1>2 DEF ModuleStatement
    <2>5. StepOK("module_statement", L, "start", s, 5)  BY <1>2 DEF ModuleStatement
    <2>6. DOMAIN s = 1..5  BY <1>2 DEF ModuleStatement
    <2> HIDE DEF StepOK
    <2> QED  BY <2>1, <2>2, <2>3, <2>4, <2>5, <2>6
  <1> HIDE DEF StepOK, Exits
  <1> QED  BY <1>1, <1>2 DEF Disciplined

\* ast_parser_acc_module() keeps to it.
LEMMA AccModuleKeeps == Disciplined("module", AccModule)
  <1> DEFINE L == {"start", "end", "close", "no_args", "body", "stmts"}
  <1>1. DOMAIN AccModule = L
    BY DEF AccModule
  <1>2. ASSUME NEW s, s = AccModule["start"]
        PROVE  1 \in DOMAIN s /\ \A k \in DOMAIN s : StepOK("module", L, "start", s, k)
    <2>1. StepOK("module", L, "start", s, 1)  BY <1>2 DEF AccModule
    <2>2. StepOK("module", L, "start", s, 2)  BY <1>2 DEF AccModule
    <2>3. StepOK("module", L, "start", s, 3)  BY <1>2 DEF AccModule
    <2>4. StepOK("module", L, "start", s, 4)  BY <1>2 DEF AccModule
    <2>5. StepOK("module", L, "start", s, 5)  BY <1>2 DEF AccModule
    <2>6. StepOK("module", L, "start", s, 6)  BY <1>2 DEF AccModule
    <2>7. StepOK("module", L, "start", s, 7)  BY <1>2 DEF AccModule
    <2>8. StepOK("module", L, "start", s, 8)  BY <1>2 DEF AccModule
    <2>9. DOMAIN s = 1..8  BY <1>2 DEF AccModule
    <2> HIDE DEF StepOK
    <2> QED  BY <2>1, <2>2, <2>3, <2>4, <2>5, <2>6, <2>7, <2>8, <2>9
  <1>3. ASSUME NEW s, s = AccModule["end"]
        PROVE  1 \in DOMAIN s /\ \A k \in DOMAIN s : StepOK("module", L, "end", s, k)
    <2>1. StepOK("module", L, "end", s, 1)  BY <1>3 DEF AccModule
    <2>2. StepOK("module", L, "end", s, 2)  BY <1>3 DEF AccModule
    <2>3. StepOK("module", L, "end", s, 3)  BY <1>3 DEF AccModule
    <2>4. StepOK("module", L, "end", s, 4)  BY <1>3 DEF AccModule
    <2>5. DOMAIN s = 1..4  BY <1>3 DEF AccModule
    <2> HIDE DEF StepOK
    <2> QED  BY <2>1, <2>2, <2>3, <2>4, <2>5
  <1>4. ASSUME NEW s, s = AccModule["close"]
        PROVE  1 \in DOMAIN s /\ \A k \in DOMAIN s : StepOK("module", L, "close", s, k)
    <2>1. StepOK("module", L, "close", s, 1)  BY <1>4 DEF AccModule
    <2>2. StepOK("module", L, "close", s, 2)  BY <1>4 DEF AccModule
    <2>3. DOMAIN s = 1..2  BY <1>4 DEF AccModule
    <2> HIDE DEF StepOK
    <2> QED  BY <2>1, <2>2, <2>3
  <1>5. ASSUME NEW s, s = AccModule["no_args"]
        PROVE  1 \in DOMAIN s /\ \A k \in DOMAIN s : StepOK("module", L, "no_args", s, k)
    <2>1. StepOK("module", L, "no_args", s, 1)  BY <1>5 DEF AccModule
    <2>2. StepOK("module", L, "no_args", s, 2)  BY <1>5 DEF AccModule
    <2>3. DOMAIN s = 1..2  BY <1>5 DEF AccModule
    <2> HIDE DEF StepOK
    <2> QED  BY <2>1, <2>2, <2>3
  <1>6. ASSUME NEW s, s = AccModule["body"]
        PROVE  1 \in DOMAIN s /\ \A k \in DOMAIN s : StepOK("module", L, "body", s, k)
    <2>1. StepOK("module", L, "body", s, 1)  BY <1>6 DEF AccModule
    <2>2. StepOK("module", L, "body", s, 2)  BY <1>6 DEF AccModule
    <2>3. DOMAIN s = 1..2  BY <1>6 DEF AccModule
    <2> HIDE DEF StepOK
    <2> QED  BY <2>1, <2>2, <2>3
  <1>7. ASSUME NEW s, s = AccModule["stmts"]
        PROVE  1 \in DOMAIN s /\ \A k \in DOMAIN s : StepOK("module", L, "stmts", s, k)
    <2>1. StepOK("module", L, "stmts", s, 1)  BY <1>7 DEF AccModule
    <2>2. StepOK("module", L, "stmts", s, 2)  BY <1>7 DEF AccModule
    <2>3. DOMAIN s = 1..2  BY <1>7 DEF AccModule
    <2> HIDE DEF StepOK
    <2> QED  BY <2>1, <2>2, <2>3
  <1> HIDE DEF StepOK, Exits
  <1> QED  BY <1>1, <1>2, <1>3, <1>4, <1>5, <1>6, <1>7 DEF Disciplined

\* ast_parser_acc_identifier() keeps to it.
LEMMA IdentifierKeeps == Disciplined("identifier", Identifier)
  <1> DEFINE L == {"start"}
  <1>1. DOMAIN Identifier = L
    BY DEF Identifier
  <1>2. ASSUME NEW s, s = Identifier["start"]
        PROVE  1 \in DOMAIN s /\ \A k \in DOMAIN s : StepOK("identifier", L, "start", s, k)
    <2>1. StepOK("identifier", L, "start", s, 1)  BY <1>2 DEF Identifier
    <2>2. StepOK("identifier", L, "start", s, 2)  BY <1>2 DEF Identifier
    <2>3. StepOK("identifier", L, "start", s, 3)  BY <1>2 DEF Identifier
    <2>4. DOMAIN s = 1..3  BY <1>2 DEF Identifier
    <2> HIDE DEF StepOK
    <2> QED  BY <2>1, <2>2, <2>3, <2>4
  <1> HIDE DEF StepOK, Exits
  <1> QED  BY <1>1, <1>2 DEF Disciplined

\* ast_parser_acc_fndecl() keeps to it.
LEMMA FndeclKeeps == Disciplined("fndecl", Fndecl)
  <1> DEFINE L == {"start", "close", "done", "no_args", "args", "name"}
  <1>1. DOMAIN Fndecl = L
    BY DEF Fndecl, Signature
  <1>2. ASSUME NEW s, s = Fndecl["start"]
        PROVE  1 \in DOMAIN s /\ \A k \in DOMAIN s : StepOK("fndecl", L, "start", s, k)
    <2>1. StepOK("fndecl", L, "start", s, 1)  BY <1>2 DEF Fndecl, Signature
    <2>2. StepOK("fndecl", L, "start", s, 2)  BY <1>2 DEF Fndecl, Signature
    <2>3. StepOK("fndecl", L, "start", s, 3)  BY <1>2 DEF Fndecl, Signature
    <2>4. DOMAIN s = 1..3  BY <1>2 DEF Fndecl, Signature
    <2> HIDE DEF StepOK
    <2> QED  BY <2>1, <2>2, <2>3, <2>4
  <1>3. ASSUME NEW s, s = Fndecl["close"]
        PROVE  1 \in DOMAIN s /\ \A k \in DOMAIN s : StepOK("fndecl", L, "close", s, k)
    <2>1. StepOK("fndecl", L, "close", s, 1)  BY <1>3 DEF Fndecl, Signature
    <2>2. StepOK("fndecl", L, "close", s, 2)  BY <1>3 DEF Fndecl, Signature
    <2>3. StepOK("fndecl", L, "close", s, 3)  BY <1>3 DEF Fndecl, Signature
    <2>4. StepOK("fndecl", L, "close", s, 4)  BY <1>3 DEF Fndecl, Signature
    <2>5. StepOK("fndecl", L, "close", s, 5)  BY <1>3 DEF Fndecl, Signature
    <2>6. DOMAIN s = 1..5  BY <1>3 DEF Fndecl, Signature
    <2> HIDE DEF StepOK
    <2> QED  BY <2>1, <2>2, <2>3, <2>4, <2>5, <2>6
  <1>4. ASSUME NEW s, s = Fndecl["done"]
        PROVE  1 \in DOMAIN s /\ \A k \in DOMAIN s : StepOK("fndecl", L, "done", s, k)
    <2>1. StepOK("fndecl", L, "done", s, 1)  BY <1>4 DEF Fndecl, Signature
    <2>2. StepOK("fndecl", L, "done", s, 2)  BY <1>4 DEF Fndecl, Signature
    <2>3. DOMAIN s = 1..2  BY <1>4 DEF Fndecl, Signature
    <2> HIDE DEF StepOK
    <2> QED  BY <2>1, <2>2, <2>3
  <1>5. ASSUME NEW s, s = Fndecl["no_args"]
        PROVE  1 \in DOMAIN s /\ \A k \in DOMAIN s : StepOK("fndecl", L, "no_args", s, k)
    <2>1. StepOK("fndecl", L, "no_args", s, 1)  BY <1>5 DEF Fndecl, Signature
    <2>2. StepOK("fndecl", L, "no_args", s, 2)  BY <1>5 DEF Fndecl, Signature
    <2>3. DOMAIN s = 1..2  BY <1>5 DEF Fndecl, Signature
    <2> HIDE DEF StepOK
    <2> QED  BY <2>1, <2>2, <2>3
  <1>6. ASSUME NEW s, s = Fndecl["args"]
        PROVE  1 \in DOMAIN s /\ \A k \in DOMAIN s : StepOK("fndecl", L, "args", s, k)
    <2>1. StepOK("fndecl", L, "args", s, 1)  BY <1>6 DEF Fndecl, Signature
    <2>2. StepOK("fndecl", L, "args", s, 2)  BY <1>6 DEF Fndecl, Signature
    <2>3. StepOK("fndecl", L, "args", s, 3)  BY <1>6 DEF Fndecl, Signature
    <2>4. DOMAIN s = 1..3  BY <1>6 DEF Fndecl, Signature
    <2> HIDE DEF StepOK
    <2> QED  BY <2>1, <2>2, <2>3, <2>4
  <1>7. ASSUME NEW s, s = Fndecl["name"]
        PROVE  1 \in DOMAIN s /\ \A k \in DOMAIN s : StepOK("fndecl", L, "name", s, k)
    <2>1. StepOK("fndecl", L, "name", s, 1)  BY <1>7 DEF Fndecl, Signature
    <2>2. StepOK("fndecl", L, "name", s, 2)  BY <1>7 DEF Fndecl, Signature
    <2>3. StepOK("fndecl", L, "name", s, 3)  BY <1>7 DEF Fndecl, Signature
    <2>4. StepOK("fndecl", L, "name", s, 4)  BY <1>7 DEF Fndecl, Signature
    <2>5. DOMAIN s = 1..4  BY <1>7 DEF Fndecl, Signature
    <2> HIDE DEF StepOK
    <2> QED  BY <2>1, <2>2, <2>3, <2>4, <2>5
  <1> HIDE DEF StepOK, Exits
  <1> QED  BY <1>1, <1>2, <1>3, <1>4, <1>5, <1>6, <1>7 DEF Disciplined

\* ast_parser_acc_fndecl() keeps to it, called for a foreign function.
LEMMA ForeignFndeclKeeps == Disciplined("foreign_fndecl", ForeignFndecl)
  <1> DEFINE L == {"start", "close", "done", "no_args", "args", "name"}
  <1>1. DOMAIN ForeignFndecl = L
    BY DEF ForeignFndecl, Signature
  <1>2. ASSUME NEW s, s = ForeignFndecl["start"]
        PROVE  1 \in DOMAIN s /\ \A k \in DOMAIN s : StepOK("foreign_fndecl", L, "start", s, k)
    <2>1. StepOK("foreign_fndecl", L, "start", s, 1)  BY <1>2 DEF ForeignFndecl, Signature
    <2>2. StepOK("foreign_fndecl", L, "start", s, 2)  BY <1>2 DEF ForeignFndecl, Signature
    <2>3. DOMAIN s = 1..2  BY <1>2 DEF ForeignFndecl, Signature
    <2> HIDE DEF StepOK
    <2> QED  BY <2>1, <2>2, <2>3
  <1>3. ASSUME NEW s, s = ForeignFndecl["close"]
        PROVE  1 \in DOMAIN s /\ \A k \in DOMAIN s : StepOK("foreign_fndecl", L, "close", s, k)
    <2>1. StepOK("foreign_fndecl", L, "close", s, 1)  BY <1>3 DEF ForeignFndecl, Signature
    <2>2. StepOK("foreign_fndecl", L, "close", s, 2)  BY <1>3 DEF ForeignFndecl, Signature
    <2>3. StepOK("foreign_fndecl", L, "close", s, 3)  BY <1>3 DEF ForeignFndecl, Signature
    <2>4. StepOK("foreign_fndecl", L, "close", s, 4)  BY <1>3 DEF ForeignFndecl, Signature
    <2>5. StepOK("foreign_fndecl", L, "close", s, 5)  BY <1>3 DEF ForeignFndecl, Signature
    <2>6. DOMAIN s = 1..5  BY <1>3 DEF ForeignFndecl, Signature
    <2> HIDE DEF StepOK
    <2> QED  BY <2>1, <2>2, <2>3, <2>4, <2>5, <2>6
  <1>4. ASSUME NEW s, s = ForeignFndecl["done"]
        PROVE  1 \in DOMAIN s /\ \A k \in DOMAIN s : StepOK("foreign_fndecl", L, "done", s, k)
    <2>1. StepOK("foreign_fndecl", L, "done", s, 1)  BY <1>4 DEF ForeignFndecl, Signature
    <2>2. StepOK("foreign_fndecl", L, "done", s, 2)  BY <1>4 DEF ForeignFndecl, Signature
    <2>3. DOMAIN s = 1..2  BY <1>4 DEF ForeignFndecl, Signature
    <2> HIDE DEF StepOK
    <2> QED  BY <2>1, <2>2, <2>3
  <1>5. ASSUME NEW s, s = ForeignFndecl["no_args"]
        PROVE  1 \in DOMAIN s /\ \A k \in DOMAIN s : StepOK("foreign_fndecl", L, "no_args", s, k)
    <2>1. StepOK("foreign_fndecl", L, "no_args", s, 1)  BY <1>5 DEF ForeignFndecl, Signature
    <2>2. StepOK("foreign_fndecl", L, "no_args", s, 2)  BY <1>5 DEF ForeignFndecl, Signature
    <2>3. DOMAIN s = 1..2  BY <1>5 DEF ForeignFndecl, Signature
    <2> HIDE DEF StepOK
    <2> QED  BY <2>1, <2>2, <2>3
  <1>6. ASSUME NEW s, s = ForeignFndecl["args"]
        PROVE  1 \in DOMAIN s /\ \A k \in DOMAIN s : StepOK("foreign_fndecl", L, "args", s, k)
    <2>1. StepOK("foreign_fndecl", L, "args", s, 1)  BY <1>6 DEF ForeignFndecl, Signature
    <2>2. StepOK("foreign_fndecl", L, "args", s, 2)  BY <1>6 DEF ForeignFndecl, Signature
    <2>3. StepOK("foreign_fndecl", L, "args", s, 3)  BY <1>6 DEF ForeignFndecl, Signature
    <2>4. DOMAIN s = 1..3  BY <1>6 DEF ForeignFndecl, Signature
    <2> HIDE DEF StepOK
    <2> QED  BY <2>1, <2>2, <2>3, <2>4
  <1>7. ASSUME NEW s, s = ForeignFndecl["name"]
        PROVE  1 \in DOMAIN s /\ \A k \in DOMAIN s : StepOK("foreign_fndecl", L, "name", s, k)
    <2>1. StepOK("foreign_fndecl", L, "name", s, 1)  BY <1>7 DEF ForeignFndecl, Signature
    <2>2. StepOK("foreign_fndecl", L, "name", s, 2)  BY <1>7 DEF ForeignFndecl, Signature
    <2>3. StepOK("foreign_fndecl", L, "name", s, 3)  BY <1>7 DEF ForeignFndecl, Signature
    <2>4. StepOK("foreign_fndecl", L, "name", s, 4)  BY <1>7 DEF ForeignFndecl, Signature
    <2>5. DOMAIN s = 1..4  BY <1>7 DEF ForeignFndecl, Signature
    <2> HIDE DEF StepOK
    <2> QED  BY <2>1, <2>2, <2>3, <2>4, <2>5
  <1> HIDE DEF StepOK, Exits
  <1> QED  BY <1>1, <1>2, <1>3, <1>4, <1>5, <1>6, <1>7 DEF Disciplined

\* ast_parser_acc_fnimpl() keeps to it.
LEMMA FnimplKeeps == Disciplined("fnimpl", Fnimpl)
  <1> DEFINE L == {"start", "headless"}
  <1>1. DOMAIN Fnimpl = L
    BY DEF Fnimpl
  <1>2. ASSUME NEW s, s = Fnimpl["start"]
        PROVE  1 \in DOMAIN s /\ \A k \in DOMAIN s : StepOK("fnimpl", L, "start", s, k)
    <2>1. StepOK("fnimpl", L, "start", s, 1)  BY <1>2 DEF Fnimpl
    <2>2. StepOK("fnimpl", L, "start", s, 2)  BY <1>2 DEF Fnimpl
    <2>3. StepOK("fnimpl", L, "start", s, 3)  BY <1>2 DEF Fnimpl
    <2>4. StepOK("fnimpl", L, "start", s, 4)  BY <1>2 DEF Fnimpl
    <2>5. StepOK("fnimpl", L, "start", s, 5)  BY <1>2 DEF Fnimpl
    <2>6. DOMAIN s = 1..5  BY <1>2 DEF Fnimpl
    <2> HIDE DEF StepOK
    <2> QED  BY <2>1, <2>2, <2>3, <2>4, <2>5, <2>6
  <1>3. ASSUME NEW s, s = Fnimpl["headless"]
        PROVE  1 \in DOMAIN s /\ \A k \in DOMAIN s : StepOK("fnimpl", L, "headless", s, k)
    <2>1. StepOK("fnimpl", L, "headless", s, 1)  BY <1>3 DEF Fnimpl
    <2>2. StepOK("fnimpl", L, "headless", s, 2)  BY <1>3 DEF Fnimpl
    <2>3. DOMAIN s = 1..2  BY <1>3 DEF Fnimpl
    <2> HIDE DEF StepOK
    <2> QED  BY <2>1, <2>2, <2>3
  <1> HIDE DEF StepOK, Exits
  <1> QED  BY <1>1, <1>2, <1>3 DEF Disciplined

\* ast_parser_acc_fncall() keeps to it.
LEMMA FncallKeeps ==
    ASSUME NEW f \in {"fncall", "speculative_fncall"}, NEW miss \in {"say_err", "err"}
    PROVE  Disciplined(f, FncallOr(miss))
  <1> DEFINE L == {"start", "close", "no_args", "no_genr", "open"}
  <1>1. DOMAIN FncallOr(miss) = L
    BY DEF FncallOr
  <1>2. ASSUME NEW s, s = FncallOr(miss)["start"]
        PROVE  1 \in DOMAIN s /\ \A k \in DOMAIN s : StepOK(f, L, "start", s, k)
    <2>1. StepOK(f, L, "start", s, 1)  BY <1>2 DEF FncallOr
    <2>2. StepOK(f, L, "start", s, 2)  BY <1>2 DEF FncallOr
    <2>3. StepOK(f, L, "start", s, 3)  BY <1>2 DEF FncallOr
    <2>4. StepOK(f, L, "start", s, 4)  BY <1>2 DEF FncallOr
    <2>5. DOMAIN s = 1..4  BY <1>2 DEF FncallOr
    <2> HIDE DEF StepOK
    <2> QED  BY <2>1, <2>2, <2>3, <2>4, <2>5
  <1>3. ASSUME NEW s, s = FncallOr(miss)["close"]
        PROVE  1 \in DOMAIN s /\ \A k \in DOMAIN s : StepOK(f, L, "close", s, k)
    <2>1. StepOK(f, L, "close", s, 1)  BY <1>3 DEF FncallOr
    <2>2. StepOK(f, L, "close", s, 2)  BY <1>3 DEF FncallOr
    <2>3. StepOK(f, L, "close", s, 3)  BY <1>3 DEF FncallOr
    <2>4. DOMAIN s = 1..3  BY <1>3 DEF FncallOr
    <2> HIDE DEF StepOK
    <2> QED  BY <2>1, <2>2, <2>3, <2>4
  <1>4. ASSUME NEW s, s = FncallOr(miss)["no_args"]
        PROVE  1 \in DOMAIN s /\ \A k \in DOMAIN s : StepOK(f, L, "no_args", s, k)
    <2>1. StepOK(f, L, "no_args", s, 1)  BY <1>4 DEF FncallOr
    <2>2. StepOK(f, L, "no_args", s, 2)  BY <1>4 DEF FncallOr
    <2>3. DOMAIN s = 1..2  BY <1>4 DEF FncallOr
    <2> HIDE DEF StepOK
    <2> QED  BY <2>1, <2>2, <2>3
  <1>5. ASSUME NEW s, s = FncallOr(miss)["no_genr"]
        PROVE  1 \in DOMAIN s /\ \A k \in DOMAIN s : StepOK(f, L, "no_genr", s, k)
    <2>1. StepOK(f, L, "no_genr", s, 1)  BY <1>5 DEF FncallOr
    <2>2. StepOK(f, L, "no_genr", s, 2)  BY <1>5 DEF FncallOr
    <2>3. DOMAIN s = 1..2  BY <1>5 DEF FncallOr
    <2> HIDE DEF StepOK
    <2> QED  BY <2>1, <2>2, <2>3
  <1>6. ASSUME NEW s, s = FncallOr(miss)["open"]
        PROVE  1 \in DOMAIN s /\ \A k \in DOMAIN s : StepOK(f, L, "open", s, k)
    <2>1. StepOK(f, L, "open", s, 1)  BY <1>6 DEF FncallOr
    <2>2. StepOK(f, L, "open", s, 2)  BY <1>6 DEF FncallOr
    <2>3. StepOK(f, L, "open", s, 3)  BY <1>6 DEF FncallOr
    <2>4. DOMAIN s = 1..3  BY <1>6 DEF FncallOr
    <2> HIDE DEF StepOK
    <2> QED  BY <2>1, <2>2, <2>3, <2>4
  <1> HIDE DEF StepOK, Exits
  <1> QED  BY <1>1, <1>2, <1>3, <1>4, <1>5, <1>6 DEF Disciplined

\* ast_parser_acc_xidentifier() keeps to it.
LEMMA XidentifierKeeps ==
    ASSUME NEW f \in {"xidentifier", "speculative_xidentifier"},
           NEW miss \in {"say_none", "none"}
    PROVE  Disciplined(f, XidentifierOr(miss))
  <1> DEFINE L == {"start", "name", "no_genr", "dims", "no_dims"}
  <1>1. DOMAIN XidentifierOr(miss) = L
    BY DEF XidentifierOr
  <1>2. ASSUME NEW s, s = XidentifierOr(miss)["start"]
        PROVE  1 \in DOMAIN s /\ \A k \in DOMAIN s : StepOK(f, L, "start", s, k)
    <2>1. StepOK(f, L, "start", s, 1)  BY <1>2 DEF XidentifierOr
    <2>2. StepOK(f, L, "start", s, 2)  BY <1>2 DEF XidentifierOr
    <2>3. StepOK(f, L, "start", s, 3)  BY <1>2 DEF XidentifierOr
    <2>4. StepOK(f, L, "start", s, 4)  BY <1>2 DEF XidentifierOr
    <2>5. StepOK(f, L, "start", s, 5)  BY <1>2 DEF XidentifierOr
    <2>6. DOMAIN s = 1..5  BY <1>2 DEF XidentifierOr
    <2> HIDE DEF StepOK
    <2> QED  BY <2>1, <2>2, <2>3, <2>4, <2>5, <2>6
  <1>3. ASSUME NEW s, s = XidentifierOr(miss)["name"]
        PROVE  1 \in DOMAIN s /\ \A k \in DOMAIN s : StepOK(f, L, "name", s, k)
    <2>1. StepOK(f, L, "name", s, 1)  BY <1>3 DEF XidentifierOr
    <2>2. StepOK(f, L, "name", s, 2)  BY <1>3 DEF XidentifierOr
    <2>3. StepOK(f, L, "name", s, 3)  BY <1>3 DEF XidentifierOr
    <2>4. StepOK(f, L, "name", s, 4)  BY <1>3 DEF XidentifierOr
    <2>5. StepOK(f, L, "name", s, 5)  BY <1>3 DEF XidentifierOr
    <2>6. DOMAIN s = 1..5  BY <1>3 DEF XidentifierOr
    <2> HIDE DEF StepOK
    <2> QED  BY <2>1, <2>2, <2>3, <2>4, <2>5, <2>6
  <1>4. ASSUME NEW s, s = XidentifierOr(miss)["no_genr"]
        PROVE  1 \in DOMAIN s /\ \A k \in DOMAIN s : StepOK(f, L, "no_genr", s, k)
    <2>1. StepOK(f, L, "no_genr", s, 1)  BY <1>4 DEF XidentifierOr
    <2>2. StepOK(f, L, "no_genr", s, 2)  BY <1>4 DEF XidentifierOr
    <2>3. DOMAIN s = 1..2  BY <1>4 DEF XidentifierOr
    <2> HIDE DEF StepOK
    <2> QED  BY <2>1, <2>2, <2>3
  <1>5. ASSUME NEW s, s = XidentifierOr(miss)["dims"]
        PROVE  1 \in DOMAIN s /\ \A k \in DOMAIN s : StepOK(f, L, "dims", s, k)
    <2>1. StepOK(f, L, "dims", s, 1)  BY <1>5 DEF XidentifierOr
    <2>2. StepOK(f, L, "dims", s, 2)  BY <1>5 DEF XidentifierOr
    <2>3. DOMAIN s = 1..2  BY <1>5 DEF XidentifierOr
    <2> HIDE DEF StepOK
    <2> QED  BY <2>1, <2>2, <2>3
  <1>6. ASSUME NEW s, s = XidentifierOr(miss)["no_dims"]
        PROVE  1 \in DOMAIN s /\ \A k \in DOMAIN s : StepOK(f, L, "no_dims", s, k)
    <2>1. StepOK(f, L, "no_dims", s, 1)  BY <1>6 DEF XidentifierOr
    <2>2. StepOK(f, L, "no_dims", s, 2)  BY <1>6 DEF XidentifierOr
    <2>3. DOMAIN s = 1..2  BY <1>6 DEF XidentifierOr
    <2> HIDE DEF StepOK
    <2> QED  BY <2>1, <2>2, <2>3
  <1> HIDE DEF StepOK, Exits
  <1> QED  BY <1>1, <1>2, <1>3, <1>4, <1>5, <1>6 DEF Disciplined

\* ast_parser_acc_vardecl() keeps to it.
LEMMA VardeclKeeps == Disciplined("vardecl", Vardecl)
  <1> DEFINE L == {"start"}
  <1>1. DOMAIN Vardecl = L
    BY DEF Vardecl
  <1>2. ASSUME NEW s, s = Vardecl["start"]
        PROVE  1 \in DOMAIN s /\ \A k \in DOMAIN s : StepOK("vardecl", L, "start", s, k)
    <2>1. StepOK("vardecl", L, "start", s, 1)  BY <1>2 DEF Vardecl
    <2>2. StepOK("vardecl", L, "start", s, 2)  BY <1>2 DEF Vardecl
    <2>3. StepOK("vardecl", L, "start", s, 3)  BY <1>2 DEF Vardecl
    <2>4. StepOK("vardecl", L, "start", s, 4)  BY <1>2 DEF Vardecl
    <2>5. DOMAIN s = 1..4  BY <1>2 DEF Vardecl
    <2> HIDE DEF StepOK
    <2> QED  BY <2>1, <2>2, <2>3, <2>4, <2>5
  <1> HIDE DEF StepOK, Exits
  <1> QED  BY <1>1, <1>2 DEF Disciplined

\* ast_parser_acc_parenthesized_typedesc() keeps to it.
LEMMA ParenthesizedTypedescKeeps == Disciplined("parenthesized_typedesc", ParenthesizedTypedesc)
  <1> DEFINE L == {"start"}
  <1>1. DOMAIN ParenthesizedTypedesc = L
    BY DEF ParenthesizedTypedesc
  <1>2. ASSUME NEW s, s = ParenthesizedTypedesc["start"]
        PROVE  1 \in DOMAIN s /\ \A k \in DOMAIN s : StepOK("parenthesized_typedesc", L, "start", s, k)
    <2>1. StepOK("parenthesized_typedesc", L, "start", s, 1)  BY <1>2 DEF ParenthesizedTypedesc
    <2>2. StepOK("parenthesized_typedesc", L, "start", s, 2)  BY <1>2 DEF ParenthesizedTypedesc
    <2>3. StepOK("parenthesized_typedesc", L, "start", s, 3)  BY <1>2 DEF ParenthesizedTypedesc
    <2>4. StepOK("parenthesized_typedesc", L, "start", s, 4)  BY <1>2 DEF ParenthesizedTypedesc
    <2>5. StepOK("parenthesized_typedesc", L, "start", s, 5)  BY <1>2 DEF ParenthesizedTypedesc
    <2>6. StepOK("parenthesized_typedesc", L, "start", s, 6)  BY <1>2 DEF ParenthesizedTypedesc
    <2>7. DOMAIN s = 1..6  BY <1>2 DEF ParenthesizedTypedesc
    <2> HIDE DEF StepOK
    <2> QED  BY <2>1, <2>2, <2>3, <2>4, <2>5, <2>6, <2>7
  <1> HIDE DEF StepOK, Exits
  <1> QED  BY <1>1, <1>2 DEF Disciplined

\* ast_parser_acc_typeleaf() keeps to it.
LEMMA TypeleafKeeps == Disciplined("typeleaf", Typeleaf)
  <1> DEFINE L == {"start", "plain", "named", "nil"}
  <1>1. DOMAIN Typeleaf = L
    BY DEF Typeleaf
  <1>2. ASSUME NEW s, s = Typeleaf["start"]
        PROVE  1 \in DOMAIN s /\ \A k \in DOMAIN s : StepOK("typeleaf", L, "start", s, k)
    <2>1. StepOK("typeleaf", L, "start", s, 1)  BY <1>2 DEF Typeleaf
    <2>2. StepOK("typeleaf", L, "start", s, 2)  BY <1>2 DEF Typeleaf
    <2>3. StepOK("typeleaf", L, "start", s, 3)  BY <1>2 DEF Typeleaf
    <2>4. StepOK("typeleaf", L, "start", s, 4)  BY <1>2 DEF Typeleaf
    <2>5. StepOK("typeleaf", L, "start", s, 5)  BY <1>2 DEF Typeleaf
    <2>6. StepOK("typeleaf", L, "start", s, 6)  BY <1>2 DEF Typeleaf
    <2>7. StepOK("typeleaf", L, "start", s, 7)  BY <1>2 DEF Typeleaf
    <2>8. StepOK("typeleaf", L, "start", s, 8)  BY <1>2 DEF Typeleaf
    <2>9. StepOK("typeleaf", L, "start", s, 9)  BY <1>2 DEF Typeleaf
    <2>10. StepOK("typeleaf", L, "start", s, 10)  BY <1>2 DEF Typeleaf
    <2>11. StepOK("typeleaf", L, "start", s, 11)  BY <1>2 DEF Typeleaf
    <2>12. StepOK("typeleaf", L, "start", s, 12)  BY <1>2 DEF Typeleaf
    <2>13. DOMAIN s = 1..12  BY <1>2 DEF Typeleaf
    <2> HIDE DEF StepOK
    <2> QED  BY <2>1, <2>2, <2>3, <2>4, <2>5, <2>6, <2>7, <2>8, <2>9, <2>10, <2>11, <2>12, <2>13
  <1>3. ASSUME NEW s, s = Typeleaf["plain"]
        PROVE  1 \in DOMAIN s /\ \A k \in DOMAIN s : StepOK("typeleaf", L, "plain", s, k)
    <2>1. StepOK("typeleaf", L, "plain", s, 1)  BY <1>3 DEF Typeleaf
    <2>2. StepOK("typeleaf", L, "plain", s, 2)  BY <1>3 DEF Typeleaf
    <2>3. StepOK("typeleaf", L, "plain", s, 3)  BY <1>3 DEF Typeleaf
    <2>4. DOMAIN s = 1..3  BY <1>3 DEF Typeleaf
    <2> HIDE DEF StepOK
    <2> QED  BY <2>1, <2>2, <2>3, <2>4
  <1>4. ASSUME NEW s, s = Typeleaf["named"]
        PROVE  1 \in DOMAIN s /\ \A k \in DOMAIN s : StepOK("typeleaf", L, "named", s, k)
    <2>1. StepOK("typeleaf", L, "named", s, 1)  BY <1>4 DEF Typeleaf
    <2>2. StepOK("typeleaf", L, "named", s, 2)  BY <1>4 DEF Typeleaf
    <2>3. StepOK("typeleaf", L, "named", s, 3)  BY <1>4 DEF Typeleaf
    <2>4. StepOK("typeleaf", L, "named", s, 4)  BY <1>4 DEF Typeleaf
    <2>5. DOMAIN s = 1..4  BY <1>4 DEF Typeleaf
    <2> HIDE DEF StepOK
    <2> QED  BY <2>1, <2>2, <2>3, <2>4, <2>5
  <1>5. ASSUME NEW s, s = Typeleaf["nil"]
        PROVE  1 \in DOMAIN s /\ \A k \in DOMAIN s : StepOK("typeleaf", L, "nil", s, k)
    <2>1. StepOK("typeleaf", L, "nil", s, 1)  BY <1>5 DEF Typeleaf
    <2>2. StepOK("typeleaf", L, "nil", s, 2)  BY <1>5 DEF Typeleaf
    <2>3. DOMAIN s = 1..2  BY <1>5 DEF Typeleaf
    <2> HIDE DEF StepOK
    <2> QED  BY <2>1, <2>2, <2>3
  <1> HIDE DEF StepOK, Exits
  <1> QED  BY <1>1, <1>2, <1>3, <1>4, <1>5 DEF Disciplined

\* ast_parser_acc_typeelement() keeps to it.
LEMMA TypeelementKeeps == Disciplined("typeelement", Typeelement)
  <1> DEFINE L == {"start", "leaf"}
  <1>1. DOMAIN Typeelement = L
    BY DEF Typeelement
  <1>2. ASSUME NEW s, s = Typeelement["start"]
        PROVE  1 \in DOMAIN s /\ \A k \in DOMAIN s : StepOK("typeelement", L, "start", s, k)
    <2>1. StepOK("typeelement", L, "start", s, 1)  BY <1>2 DEF Typeelement
    <2>2. StepOK("typeelement", L, "start", s, 2)  BY <1>2 DEF Typeelement
    <2>3. StepOK("typeelement", L, "start", s, 3)  BY <1>2 DEF Typeelement
    <2>4. StepOK("typeelement", L, "start", s, 4)  BY <1>2 DEF Typeelement
    <2>5. StepOK("typeelement", L, "start", s, 5)  BY <1>2 DEF Typeelement
    <2>6. StepOK("typeelement", L, "start", s, 6)  BY <1>2 DEF Typeelement
    <2>7. DOMAIN s = 1..6  BY <1>2 DEF Typeelement
    <2> HIDE DEF StepOK
    <2> QED  BY <2>1, <2>2, <2>3, <2>4, <2>5, <2>6, <2>7
  <1>3. ASSUME NEW s, s = Typeelement["leaf"]
        PROVE  1 \in DOMAIN s /\ \A k \in DOMAIN s : StepOK("typeelement", L, "leaf", s, k)
    <2>1. StepOK("typeelement", L, "leaf", s, 1)  BY <1>3 DEF Typeelement
    <2>2. StepOK("typeelement", L, "leaf", s, 2)  BY <1>3 DEF Typeelement
    <2>3. StepOK("typeelement", L, "leaf", s, 3)  BY <1>3 DEF Typeelement
    <2>4. DOMAIN s = 1..3  BY <1>3 DEF Typeelement
    <2> HIDE DEF StepOK
    <2> QED  BY <2>1, <2>2, <2>3, <2>4
  <1> HIDE DEF StepOK, Exits
  <1> QED  BY <1>1, <1>2, <1>3 DEF Disciplined

\* ast_parser_acc_typefactor_prime() keeps to it.
LEMMA TypefactorPrimeKeeps == Disciplined("typefactor_prime", TypefactorPrime)
  <1> DEFINE L == {"start"}
  <1>1. DOMAIN TypefactorPrime = L
    BY DEF TypefactorPrime, TypePrime
  <1>2. ASSUME NEW s, s = TypefactorPrime["start"]
        PROVE  1 \in DOMAIN s /\ \A k \in DOMAIN s : StepOK("typefactor_prime", L, "start", s, k)
    <2>1. StepOK("typefactor_prime", L, "start", s, 1)  BY <1>2 DEF TypefactorPrime, TypePrime
    <2>2. StepOK("typefactor_prime", L, "start", s, 2)  BY <1>2 DEF TypefactorPrime, TypePrime
    <2>3. StepOK("typefactor_prime", L, "start", s, 3)  BY <1>2 DEF TypefactorPrime, TypePrime
    <2>4. StepOK("typefactor_prime", L, "start", s, 4)  BY <1>2 DEF TypefactorPrime, TypePrime
    <2>5. StepOK("typefactor_prime", L, "start", s, 5)  BY <1>2 DEF TypefactorPrime, TypePrime
    <2>6. StepOK("typefactor_prime", L, "start", s, 6)  BY <1>2 DEF TypefactorPrime, TypePrime
    <2>7. StepOK("typefactor_prime", L, "start", s, 7)  BY <1>2 DEF TypefactorPrime, TypePrime
    <2>8. StepOK("typefactor_prime", L, "start", s, 8)  BY <1>2 DEF TypefactorPrime, TypePrime
    <2>9. DOMAIN s = 1..8  BY <1>2 DEF TypefactorPrime, TypePrime
    <2> HIDE DEF StepOK
    <2> QED  BY <2>1, <2>2, <2>3, <2>4, <2>5, <2>6, <2>7, <2>8, <2>9
  <1> HIDE DEF StepOK, Exits
  <1> QED  BY <1>1, <1>2 DEF Disciplined

\* ast_parser_acc_typeterm_prime() keeps to it.
LEMMA TypetermPrimeKeeps == Disciplined("typeterm_prime", TypetermPrime)
  <1> DEFINE L == {"start"}
  <1>1. DOMAIN TypetermPrime = L
    BY DEF TypetermPrime, TypePrime
  <1>2. ASSUME NEW s, s = TypetermPrime["start"]
        PROVE  1 \in DOMAIN s /\ \A k \in DOMAIN s : StepOK("typeterm_prime", L, "start", s, k)
    <2>1. StepOK("typeterm_prime", L, "start", s, 1)  BY <1>2 DEF TypetermPrime, TypePrime
    <2>2. StepOK("typeterm_prime", L, "start", s, 2)  BY <1>2 DEF TypetermPrime, TypePrime
    <2>3. StepOK("typeterm_prime", L, "start", s, 3)  BY <1>2 DEF TypetermPrime, TypePrime
    <2>4. StepOK("typeterm_prime", L, "start", s, 4)  BY <1>2 DEF TypetermPrime, TypePrime
    <2>5. StepOK("typeterm_prime", L, "start", s, 5)  BY <1>2 DEF TypetermPrime, TypePrime
    <2>6. StepOK("typeterm_prime", L, "start", s, 6)  BY <1>2 DEF TypetermPrime, TypePrime
    <2>7. StepOK("typeterm_prime", L, "start", s, 7)  BY <1>2 DEF TypetermPrime, TypePrime
    <2>8. StepOK("typeterm_prime", L, "start", s, 8)  BY <1>2 DEF TypetermPrime, TypePrime
    <2>9. DOMAIN s = 1..8  BY <1>2 DEF TypetermPrime, TypePrime
    <2> HIDE DEF StepOK
    <2> QED  BY <2>1, <2>2, <2>3, <2>4, <2>5, <2>6, <2>7, <2>8, <2>9
  <1> HIDE DEF StepOK, Exits
  <1> QED  BY <1>1, <1>2 DEF Disciplined

\* ast_parser_acc_typedesc_prime() keeps to it.
LEMMA TypedescPrimeKeeps == Disciplined("typedesc_prime", TypedescPrime)
  <1> DEFINE L == {"start"}
  <1>1. DOMAIN TypedescPrime = L
    BY DEF TypedescPrime, TypePrime
  <1>2. ASSUME NEW s, s = TypedescPrime["start"]
        PROVE  1 \in DOMAIN s /\ \A k \in DOMAIN s : StepOK("typedesc_prime", L, "start", s, k)
    <2>1. StepOK("typedesc_prime", L, "start", s, 1)  BY <1>2 DEF TypedescPrime, TypePrime
    <2>2. StepOK("typedesc_prime", L, "start", s, 2)  BY <1>2 DEF TypedescPrime, TypePrime
    <2>3. StepOK("typedesc_prime", L, "start", s, 3)  BY <1>2 DEF TypedescPrime, TypePrime
    <2>4. StepOK("typedesc_prime", L, "start", s, 4)  BY <1>2 DEF TypedescPrime, TypePrime
    <2>5. StepOK("typedesc_prime", L, "start", s, 5)  BY <1>2 DEF TypedescPrime, TypePrime
    <2>6. StepOK("typedesc_prime", L, "start", s, 6)  BY <1>2 DEF TypedescPrime, TypePrime
    <2>7. StepOK("typedesc_prime", L, "start", s, 7)  BY <1>2 DEF TypedescPrime, TypePrime
    <2>8. StepOK("typedesc_prime", L, "start", s, 8)  BY <1>2 DEF TypedescPrime, TypePrime
    <2>9. DOMAIN s = 1..8  BY <1>2 DEF TypedescPrime, TypePrime
    <2> HIDE DEF StepOK
    <2> QED  BY <2>1, <2>2, <2>3, <2>4, <2>5, <2>6, <2>7, <2>8, <2>9
  <1> HIDE DEF StepOK, Exits
  <1> QED  BY <1>1, <1>2 DEF Disciplined

\* ast_parser_acc_typefactor() keeps to it.
LEMMA TypefactorKeeps == Disciplined("typefactor", Typefactor)
  <1> DEFINE L == {"start"}
  <1>1. DOMAIN Typefactor = L
    BY DEF Typefactor
  <1>2. ASSUME NEW s, s = Typefactor["start"]
        PROVE  1 \in DOMAIN s /\ \A k \in DOMAIN s : StepOK("typefactor", L, "start", s, k)
    <2>1. StepOK("typefactor", L, "start", s, 1)  BY <1>2 DEF Typefactor
    <2>2. StepOK("typefactor", L, "start", s, 2)  BY <1>2 DEF Typefactor
    <2>3. StepOK("typefactor", L, "start", s, 3)  BY <1>2 DEF Typefactor
    <2>4. StepOK("typefactor", L, "start", s, 4)  BY <1>2 DEF Typefactor
    <2>5. DOMAIN s = 1..4  BY <1>2 DEF Typefactor
    <2> HIDE DEF StepOK
    <2> QED  BY <2>1, <2>2, <2>3, <2>4, <2>5
  <1> HIDE DEF StepOK, Exits
  <1> QED  BY <1>1, <1>2 DEF Disciplined

\* ast_parser_acc_typeterm() keeps to it.
LEMMA TypetermKeeps == Disciplined("typeterm", Typeterm)
  <1> DEFINE L == {"start"}
  <1>1. DOMAIN Typeterm = L
    BY DEF Typeterm
  <1>2. ASSUME NEW s, s = Typeterm["start"]
        PROVE  1 \in DOMAIN s /\ \A k \in DOMAIN s : StepOK("typeterm", L, "start", s, k)
    <2>1. StepOK("typeterm", L, "start", s, 1)  BY <1>2 DEF Typeterm
    <2>2. StepOK("typeterm", L, "start", s, 2)  BY <1>2 DEF Typeterm
    <2>3. StepOK("typeterm", L, "start", s, 3)  BY <1>2 DEF Typeterm
    <2>4. StepOK("typeterm", L, "start", s, 4)  BY <1>2 DEF Typeterm
    <2>5. DOMAIN s = 1..4  BY <1>2 DEF Typeterm
    <2> HIDE DEF StepOK
    <2> QED  BY <2>1, <2>2, <2>3, <2>4, <2>5
  <1> HIDE DEF StepOK, Exits
  <1> QED  BY <1>1, <1>2 DEF Disciplined

\* ast_parser_acc_typedesc() keeps to it.
LEMMA TypedescKeeps == Disciplined("typedesc", Typedesc)
  <1> DEFINE L == {"start"}
  <1>1. DOMAIN Typedesc = L
    BY DEF Typedesc
  <1>2. ASSUME NEW s, s = Typedesc["start"]
        PROVE  1 \in DOMAIN s /\ \A k \in DOMAIN s : StepOK("typedesc", L, "start", s, k)
    <2>1. StepOK("typedesc", L, "start", s, 1)  BY <1>2 DEF Typedesc
    <2>2. StepOK("typedesc", L, "start", s, 2)  BY <1>2 DEF Typedesc
    <2>3. StepOK("typedesc", L, "start", s, 3)  BY <1>2 DEF Typedesc
    <2>4. StepOK("typedesc", L, "start", s, 4)  BY <1>2 DEF Typedesc
    <2>5. StepOK("typedesc", L, "start", s, 5)  BY <1>2 DEF Typedesc
    <2>6. StepOK("typedesc", L, "start", s, 6)  BY <1>2 DEF Typedesc
    <2>7. DOMAIN s = 1..6  BY <1>2 DEF Typedesc
    <2> HIDE DEF StepOK
    <2> QED  BY <2>1, <2>2, <2>3, <2>4, <2>5, <2>6, <2>7
  <1> HIDE DEF StepOK, Exits
  <1> QED  BY <1>1, <1>2 DEF Disciplined

\* ast_parser_acc_typedecl() keeps to it.
LEMMA TypedeclKeeps == Disciplined("typedecl", Typedecl)
  <1> DEFINE L == {"start"}
  <1>1. DOMAIN Typedecl = L
    BY DEF Typedecl
  <1>2. ASSUME NEW s, s = Typedecl["start"]
        PROVE  1 \in DOMAIN s /\ \A k \in DOMAIN s : StepOK("typedecl", L, "start", s, k)
    <2>1. StepOK("typedecl", L, "start", s, 1)  BY <1>2 DEF Typedecl
    <2>2. StepOK("typedecl", L, "start", s, 2)  BY <1>2 DEF Typedecl
    <2>3. StepOK("typedecl", L, "start", s, 3)  BY <1>2 DEF Typedecl
    <2>4. StepOK("typedecl", L, "start", s, 4)  BY <1>2 DEF Typedecl
    <2>5. StepOK("typedecl", L, "start", s, 5)  BY <1>2 DEF Typedecl
    <2>6. StepOK("typedecl", L, "start", s, 6)  BY <1>2 DEF Typedecl
    <2>7. StepOK("typedecl", L, "start", s, 7)  BY <1>2 DEF Typedecl
    <2>8. StepOK("typedecl", L, "start", s, 8)  BY <1>2 DEF Typedecl
    <2>9. DOMAIN s = 1..8  BY <1>2 DEF Typedecl
    <2> HIDE DEF StepOK
    <2> QED  BY <2>1, <2>2, <2>3, <2>4, <2>5, <2>6, <2>7, <2>8, <2>9
  <1> HIDE DEF StepOK, Exits
  <1> QED  BY <1>1, <1>2 DEF Disciplined

\* ast_parser_acc_genrtype() keeps to it.
LEMMA GenrtypeKeeps == Disciplined("genrtype", Genrtype)
  <1> DEFINE L == {"start"}
  <1>1. DOMAIN Genrtype = L
    BY DEF Genrtype
  <1>2. ASSUME NEW s, s = Genrtype["start"]
        PROVE  1 \in DOMAIN s /\ \A k \in DOMAIN s : StepOK("genrtype", L, "start", s, k)
    <2>1. StepOK("genrtype", L, "start", s, 1)  BY <1>2 DEF Genrtype
    <2>2. StepOK("genrtype", L, "start", s, 2)  BY <1>2 DEF Genrtype
    <2>3. StepOK("genrtype", L, "start", s, 3)  BY <1>2 DEF Genrtype
    <2>4. StepOK("genrtype", L, "start", s, 4)  BY <1>2 DEF Genrtype
    <2>5. StepOK("genrtype", L, "start", s, 5)  BY <1>2 DEF Genrtype
    <2>6. StepOK("genrtype", L, "start", s, 6)  BY <1>2 DEF Genrtype
    <2>7. StepOK("genrtype", L, "start", s, 7)  BY <1>2 DEF Genrtype
    <2>8. DOMAIN s = 1..7  BY <1>2 DEF Genrtype
    <2> HIDE DEF StepOK
    <2> QED  BY <2>1, <2>2, <2>3, <2>4, <2>5, <2>6, <2>7, <2>8
  <1> HIDE DEF StepOK, Exits
  <1> QED  BY <1>1, <1>2 DEF Disciplined

\* ast_parser_acc_generic_decls_prime() keeps to it.
LEMMA GenericDeclsPrimeKeeps == Disciplined("generic_decls_prime", GenericDeclsPrime)
  <1> DEFINE L == {"start"}
  <1>1. DOMAIN GenericDeclsPrime = L
    BY DEF GenericDeclsPrime
  <1>2. ASSUME NEW s, s = GenericDeclsPrime["start"]
        PROVE  1 \in DOMAIN s /\ \A k \in DOMAIN s : StepOK("generic_decls_prime", L, "start", s, k)
    <2>1. StepOK("generic_decls_prime", L, "start", s, 1)  BY <1>2 DEF GenericDeclsPrime
    <2>2. StepOK("generic_decls_prime", L, "start", s, 2)  BY <1>2 DEF GenericDeclsPrime
    <2>3. StepOK("generic_decls_prime", L, "start", s, 3)  BY <1>2 DEF GenericDeclsPrime
    <2>4. StepOK("generic_decls_prime", L, "start", s, 4)  BY <1>2 DEF GenericDeclsPrime
    <2>5. StepOK("generic_decls_prime", L, "start", s, 5)  BY <1>2 DEF GenericDeclsPrime
    <2>6. DOMAIN s = 1..5  BY <1>2 DEF GenericDeclsPrime
    <2> HIDE DEF StepOK
    <2> QED  BY <2>1, <2>2, <2>3, <2>4, <2>5, <2>6
  <1> HIDE DEF StepOK, Exits
  <1> QED  BY <1>1, <1>2 DEF Disciplined

\* ast_parser_acc_generic_decls() keeps to it.
LEMMA GenericDeclsKeeps == Disciplined("generic_decls", GenericDecls)
  <1> DEFINE L == {"start"}
  <1>1. DOMAIN GenericDecls = L
    BY DEF GenericDecls
  <1>2. ASSUME NEW s, s = GenericDecls["start"]
        PROVE  1 \in DOMAIN s /\ \A k \in DOMAIN s : StepOK("generic_decls", L, "start", s, k)
    <2>1. StepOK("generic_decls", L, "start", s, 1)  BY <1>2 DEF GenericDecls
    <2>2. StepOK("generic_decls", L, "start", s, 2)  BY <1>2 DEF GenericDecls
    <2>3. StepOK("generic_decls", L, "start", s, 3)  BY <1>2 DEF GenericDecls
    <2>4. DOMAIN s = 1..3  BY <1>2 DEF GenericDecls
    <2> HIDE DEF StepOK
    <2> QED  BY <2>1, <2>2, <2>3, <2>4
  <1> HIDE DEF StepOK, Exits
  <1> QED  BY <1>1, <1>2 DEF Disciplined

\* ast_parser_acc_genrdecl() keeps to it.
LEMMA GenrdeclKeeps == Disciplined("genrdecl", Genrdecl)
  <1> DEFINE L == {"start"}
  <1>1. DOMAIN Genrdecl = L
    BY DEF Genrdecl
  <1>2. ASSUME NEW s, s = Genrdecl["start"]
        PROVE  1 \in DOMAIN s /\ \A k \in DOMAIN s : StepOK("genrdecl", L, "start", s, k)
    <2>1. StepOK("genrdecl", L, "start", s, 1)  BY <1>2 DEF Genrdecl
    <2>2. StepOK("genrdecl", L, "start", s, 2)  BY <1>2 DEF Genrdecl
    <2>3. StepOK("genrdecl", L, "start", s, 3)  BY <1>2 DEF Genrdecl
    <2>4. StepOK("genrdecl", L, "start", s, 4)  BY <1>2 DEF Genrdecl
    <2>5. StepOK("genrdecl", L, "start", s, 5)  BY <1>2 DEF Genrdecl
    <2>6. StepOK("genrdecl", L, "start", s, 6)  BY <1>2 DEF Genrdecl
    <2>7. StepOK("genrdecl", L, "start", s, 7)  BY <1>2 DEF Genrdecl
    <2>8. StepOK("genrdecl", L, "start", s, 8)  BY <1>2 DEF Genrdecl
    <2>9. DOMAIN s = 1..8  BY <1>2 DEF Genrdecl
    <2> HIDE DEF StepOK
    <2> QED  BY <2>1, <2>2, <2>3, <2>4, <2>5, <2>6, <2>7, <2>8, <2>9
  <1> HIDE DEF StepOK, Exits
  <1> QED  BY <1>1, <1>2 DEF Disciplined

\* ast_parser_acc_genrattr_single() keeps to it.
LEMMA GenrattrSingleKeeps == Disciplined("genrattr_single", GenrattrSingle)
  <1> DEFINE L == {"start", "named"}
  <1>1. DOMAIN GenrattrSingle = L
    BY DEF GenrattrSingle
  <1>2. ASSUME NEW s, s = GenrattrSingle["start"]
        PROVE  1 \in DOMAIN s /\ \A k \in DOMAIN s : StepOK("genrattr_single", L, "start", s, k)
    <2>1. StepOK("genrattr_single", L, "start", s, 1)  BY <1>2 DEF GenrattrSingle
    <2>2. StepOK("genrattr_single", L, "start", s, 2)  BY <1>2 DEF GenrattrSingle
    <2>3. StepOK("genrattr_single", L, "start", s, 3)  BY <1>2 DEF GenrattrSingle
    <2>4. StepOK("genrattr_single", L, "start", s, 4)  BY <1>2 DEF GenrattrSingle
    <2>5. StepOK("genrattr_single", L, "start", s, 5)  BY <1>2 DEF GenrattrSingle
    <2>6. StepOK("genrattr_single", L, "start", s, 6)  BY <1>2 DEF GenrattrSingle
    <2>7. StepOK("genrattr_single", L, "start", s, 7)  BY <1>2 DEF GenrattrSingle
    <2>8. StepOK("genrattr_single", L, "start", s, 8)  BY <1>2 DEF GenrattrSingle
    <2>9. DOMAIN s = 1..8  BY <1>2 DEF GenrattrSingle
    <2> HIDE DEF StepOK
    <2> QED  BY <2>1, <2>2, <2>3, <2>4, <2>5, <2>6, <2>7, <2>8, <2>9
  <1>3. ASSUME NEW s, s = GenrattrSingle["named"]
        PROVE  1 \in DOMAIN s /\ \A k \in DOMAIN s : StepOK("genrattr_single", L, "named", s, k)
    <2>1. StepOK("genrattr_single", L, "named", s, 1)  BY <1>3 DEF GenrattrSingle
    <2>2. StepOK("genrattr_single", L, "named", s, 2)  BY <1>3 DEF GenrattrSingle
    <2>3. StepOK("genrattr_single", L, "named", s, 3)  BY <1>3 DEF GenrattrSingle
    <2>4. DOMAIN s = 1..3  BY <1>3 DEF GenrattrSingle
    <2> HIDE DEF StepOK
    <2> QED  BY <2>1, <2>2, <2>3, <2>4
  <1> HIDE DEF StepOK, Exits
  <1> QED  BY <1>1, <1>2, <1>3 DEF Disciplined

\* ast_parser_acc_generic_attribute_prime() keeps to it.
LEMMA GenericAttributePrimeKeeps == Disciplined("generic_attribute_prime", GenericAttributePrime)
  <1> DEFINE L == {"start"}
  <1>1. DOMAIN GenericAttributePrime = L
    BY DEF GenericAttributePrime
  <1>2. ASSUME NEW s, s = GenericAttributePrime["start"]
        PROVE  1 \in DOMAIN s /\ \A k \in DOMAIN s : StepOK("generic_attribute_prime", L, "start", s, k)
    <2>1. StepOK("generic_attribute_prime", L, "start", s, 1)  BY <1>2 DEF GenericAttributePrime
    <2>2. StepOK("generic_attribute_prime", L, "start", s, 2)  BY <1>2 DEF GenericAttributePrime
    <2>3. StepOK("generic_attribute_prime", L, "start", s, 3)  BY <1>2 DEF GenericAttributePrime
    <2>4. StepOK("generic_attribute_prime", L, "start", s, 4)  BY <1>2 DEF GenericAttributePrime
    <2>5. StepOK("generic_attribute_prime", L, "start", s, 5)  BY <1>2 DEF GenericAttributePrime
    <2>6. DOMAIN s = 1..5  BY <1>2 DEF GenericAttributePrime
    <2> HIDE DEF StepOK
    <2> QED  BY <2>1, <2>2, <2>3, <2>4, <2>5, <2>6
  <1> HIDE DEF StepOK, Exits
  <1> QED  BY <1>1, <1>2 DEF Disciplined

\* ast_parser_acc_generic_attribute() keeps to it.
LEMMA GenericAttributeKeeps == Disciplined("generic_attribute", GenericAttribute)
  <1> DEFINE L == {"start"}
  <1>1. DOMAIN GenericAttribute = L
    BY DEF GenericAttribute
  <1>2. ASSUME NEW s, s = GenericAttribute["start"]
        PROVE  1 \in DOMAIN s /\ \A k \in DOMAIN s : StepOK("generic_attribute", L, "start", s, k)
    <2>1. StepOK("generic_attribute", L, "start", s, 1)  BY <1>2 DEF GenericAttribute
    <2>2. StepOK("generic_attribute", L, "start", s, 2)  BY <1>2 DEF GenericAttribute
    <2>3. StepOK("generic_attribute", L, "start", s, 3)  BY <1>2 DEF GenericAttribute
    <2>4. DOMAIN s = 1..3  BY <1>2 DEF GenericAttribute
    <2> HIDE DEF StepOK
    <2> QED  BY <2>1, <2>2, <2>3, <2>4
  <1> HIDE DEF StepOK, Exits
  <1> QED  BY <1>1, <1>2 DEF Disciplined

\* ast_parser_acc_genrattr() keeps to it.
LEMMA GenrattrKeeps == Disciplined("genrattr", Genrattr)
  <1> DEFINE L == {"start"}
  <1>1. DOMAIN Genrattr = L
    BY DEF Genrattr
  <1>2. ASSUME NEW s, s = Genrattr["start"]
        PROVE  1 \in DOMAIN s /\ \A k \in DOMAIN s : StepOK("genrattr", L, "start", s, k)
    <2>1. StepOK("genrattr", L, "start", s, 1)  BY <1>2 DEF Genrattr
    <2>2. StepOK("genrattr", L, "start", s, 2)  BY <1>2 DEF Genrattr
    <2>3. StepOK("genrattr", L, "start", s, 3)  BY <1>2 DEF Genrattr
    <2>4. StepOK("genrattr", L, "start", s, 4)  BY <1>2 DEF Genrattr
    <2>5. StepOK("genrattr", L, "start", s, 5)  BY <1>2 DEF Genrattr
    <2>6. StepOK("genrattr", L, "start", s, 6)  BY <1>2 DEF Genrattr
    <2>7. StepOK("genrattr", L, "start", s, 7)  BY <1>2 DEF Genrattr
    <2>8. DOMAIN s = 1..7  BY <1>2 DEF Genrattr
    <2> HIDE DEF StepOK
    <2> QED  BY <2>1, <2>2, <2>3, <2>4, <2>5, <2>6, <2>7, <2>8
  <1> HIDE DEF StepOK, Exits
  <1> QED  BY <1>1, <1>2 DEF Disciplined

\* ast_parser_acc_array_single() keeps to it.
LEMMA ArraySingleKeeps == Disciplined("array_single", ArraySingle)
  <1> DEFINE L == {"start", "size"}
  <1>1. DOMAIN ArraySingle = L
    BY DEF ArraySingle
  <1>2. ASSUME NEW s, s = ArraySingle["start"]
        PROVE  1 \in DOMAIN s /\ \A k \in DOMAIN s : StepOK("array_single", L, "start", s, k)
    <2>1. StepOK("array_single", L, "start", s, 1)  BY <1>2 DEF ArraySingle
    <2>2. StepOK("array_single", L, "start", s, 2)  BY <1>2 DEF ArraySingle
    <2>3. StepOK("array_single", L, "start", s, 3)  BY <1>2 DEF ArraySingle
    <2>4. StepOK("array_single", L, "start", s, 4)  BY <1>2 DEF ArraySingle
    <2>5. StepOK("array_single", L, "start", s, 5)  BY <1>2 DEF ArraySingle
    <2>6. DOMAIN s = 1..5  BY <1>2 DEF ArraySingle
    <2> HIDE DEF StepOK
    <2> QED  BY <2>1, <2>2, <2>3, <2>4, <2>5, <2>6
  <1>3. ASSUME NEW s, s = ArraySingle["size"]
        PROVE  1 \in DOMAIN s /\ \A k \in DOMAIN s : StepOK("array_single", L, "size", s, k)
    <2>1. StepOK("array_single", L, "size", s, 1)  BY <1>3 DEF ArraySingle
    <2>2. StepOK("array_single", L, "size", s, 2)  BY <1>3 DEF ArraySingle
    <2>3. StepOK("array_single", L, "size", s, 3)  BY <1>3 DEF ArraySingle
    <2>4. DOMAIN s = 1..3  BY <1>3 DEF ArraySingle
    <2> HIDE DEF StepOK
    <2> QED  BY <2>1, <2>2, <2>3, <2>4
  <1> HIDE DEF StepOK, Exits
  <1> QED  BY <1>1, <1>2, <1>3 DEF Disciplined

\* ast_parser_acc_arrspec() keeps to it.
LEMMA ArrspecKeeps == Disciplined("arrspec", Arrspec)
  <1> DEFINE L == {"start", "done", "dim"}
  <1>1. DOMAIN Arrspec = L
    BY DEF Arrspec
  <1>2. ASSUME NEW s, s = Arrspec["start"]
        PROVE  1 \in DOMAIN s /\ \A k \in DOMAIN s : StepOK("arrspec", L, "start", s, k)
    <2>1. StepOK("arrspec", L, "start", s, 1)  BY <1>2 DEF Arrspec
    <2>2. StepOK("arrspec", L, "start", s, 2)  BY <1>2 DEF Arrspec
    <2>3. StepOK("arrspec", L, "start", s, 3)  BY <1>2 DEF Arrspec
    <2>4. DOMAIN s = 1..3  BY <1>2 DEF Arrspec
    <2> HIDE DEF StepOK
    <2> QED  BY <2>1, <2>2, <2>3, <2>4
  <1>3. ASSUME NEW s, s = Arrspec["done"]
        PROVE  1 \in DOMAIN s /\ \A k \in DOMAIN s : StepOK("arrspec", L, "done", s, k)
    <2>1. StepOK("arrspec", L, "done", s, 1)  BY <1>3 DEF Arrspec
    <2>2. StepOK("arrspec", L, "done", s, 2)  BY <1>3 DEF Arrspec
    <2>3. DOMAIN s = 1..2  BY <1>3 DEF Arrspec
    <2> HIDE DEF StepOK
    <2> QED  BY <2>1, <2>2, <2>3
  <1>4. ASSUME NEW s, s = Arrspec["dim"]
        PROVE  1 \in DOMAIN s /\ \A k \in DOMAIN s : StepOK("arrspec", L, "dim", s, k)
    <2>1. StepOK("arrspec", L, "dim", s, 1)  BY <1>4 DEF Arrspec
    <2>2. StepOK("arrspec", L, "dim", s, 2)  BY <1>4 DEF Arrspec
    <2>3. StepOK("arrspec", L, "dim", s, 3)  BY <1>4 DEF Arrspec
    <2>4. DOMAIN s = 1..3  BY <1>4 DEF Arrspec
    <2> HIDE DEF StepOK
    <2> QED  BY <2>1, <2>2, <2>3, <2>4
  <1> HIDE DEF StepOK, Exits
  <1> QED  BY <1>1, <1>2, <1>3, <1>4 DEF Disciplined

\* ast_parser_acc_bracketlist() keeps to it.
LEMMA BracketlistKeeps == Disciplined("bracketlist", Bracketlist)
  <1> DEFINE L == {"start", "close", "no_args"}
  <1>1. DOMAIN Bracketlist = L
    BY DEF Bracketlist
  <1>2. ASSUME NEW s, s = Bracketlist["start"]
        PROVE  1 \in DOMAIN s /\ \A k \in DOMAIN s : StepOK("bracketlist", L, "start", s, k)
    <2>1. StepOK("bracketlist", L, "start", s, 1)  BY <1>2 DEF Bracketlist
    <2>2. StepOK("bracketlist", L, "start", s, 2)  BY <1>2 DEF Bracketlist
    <2>3. StepOK("bracketlist", L, "start", s, 3)  BY <1>2 DEF Bracketlist
    <2>4. StepOK("bracketlist", L, "start", s, 4)  BY <1>2 DEF Bracketlist
    <2>5. DOMAIN s = 1..4  BY <1>2 DEF Bracketlist
    <2> HIDE DEF StepOK
    <2> QED  BY <2>1, <2>2, <2>3, <2>4, <2>5
  <1>3. ASSUME NEW s, s = Bracketlist["close"]
        PROVE  1 \in DOMAIN s /\ \A k \in DOMAIN s : StepOK("bracketlist", L, "close", s, k)
    <2>1. StepOK("bracketlist", L, "close", s, 1)  BY <1>3 DEF Bracketlist
    <2>2. StepOK("bracketlist", L, "close", s, 2)  BY <1>3 DEF Bracketlist
    <2>3. StepOK("bracketlist", L, "close", s, 3)  BY <1>3 DEF Bracketlist
    <2>4. DOMAIN s = 1..3  BY <1>3 DEF Bracketlist
    <2> HIDE DEF StepOK
    <2> QED  BY <2>1, <2>2, <2>3, <2>4
  <1>4. ASSUME NEW s, s = Bracketlist["no_args"]
        PROVE  1 \in DOMAIN s /\ \A k \in DOMAIN s : StepOK("bracketlist", L, "no_args", s, k)
    <2>1. StepOK("bracketlist", L, "no_args", s, 1)  BY <1>4 DEF Bracketlist
    <2>2. StepOK("bracketlist", L, "no_args", s, 2)  BY <1>4 DEF Bracketlist
    <2>3. DOMAIN s = 1..2  BY <1>4 DEF Bracketlist
    <2> HIDE DEF StepOK
    <2> QED  BY <2>1, <2>2, <2>3
  <1> HIDE DEF StepOK, Exits
  <1> QED  BY <1>1, <1>2, <1>3, <1>4 DEF Disciplined

\* ast_parser_acc_expr_element() keeps to it.
LEMMA ExprElementKeeps == Disciplined("expr_element", ExprElement)
  <1> DEFINE L == {"start", "dispatch", "constant", "value"}
  <1>1. DOMAIN ExprElement = L
    BY DEF ExprElement
  <1>2. ASSUME NEW s, s = ExprElement["start"]
        PROVE  1 \in DOMAIN s /\ \A k \in DOMAIN s : StepOK("expr_element", L, "start", s, k)
    <2>1. StepOK("expr_element", L, "start", s, 1)  BY <1>2 DEF ExprElement
    <2>2. StepOK("expr_element", L, "start", s, 2)  BY <1>2 DEF ExprElement
    <2>3. StepOK("expr_element", L, "start", s, 3)  BY <1>2 DEF ExprElement
    <2>4. StepOK("expr_element", L, "start", s, 4)  BY <1>2 DEF ExprElement
    <2>5. StepOK("expr_element", L, "start", s, 5)  BY <1>2 DEF ExprElement
    <2>6. StepOK("expr_element", L, "start", s, 6)  BY <1>2 DEF ExprElement
    <2>7. DOMAIN s = 1..6  BY <1>2 DEF ExprElement
    <2> HIDE DEF StepOK
    <2> QED  BY <2>1, <2>2, <2>3, <2>4, <2>5, <2>6, <2>7
  <1>3. ASSUME NEW s, s = ExprElement["dispatch"]
        PROVE  1 \in DOMAIN s /\ \A k \in DOMAIN s : StepOK("expr_element", L, "dispatch", s, k)
    <2>1. StepOK("expr_element", L, "dispatch", s, 1)  BY <1>3 DEF ExprElement
    <2>2. StepOK("expr_element", L, "dispatch", s, 2)  BY <1>3 DEF ExprElement
    <2>3. StepOK("expr_element", L, "dispatch", s, 3)  BY <1>3 DEF ExprElement
    <2>4. StepOK("expr_element", L, "dispatch", s, 4)  BY <1>3 DEF ExprElement
    <2>5. StepOK("expr_element", L, "dispatch", s, 5)  BY <1>3 DEF ExprElement
    <2>6. StepOK("expr_element", L, "dispatch", s, 6)  BY <1>3 DEF ExprElement
    <2>7. StepOK("expr_element", L, "dispatch", s, 7)  BY <1>3 DEF ExprElement
    <2>8. StepOK("expr_element", L, "dispatch", s, 8)  BY <1>3 DEF ExprElement
    <2>9. StepOK("expr_element", L, "dispatch", s, 9)  BY <1>3 DEF ExprElement
    <2>10. DOMAIN s = 1..9  BY <1>3 DEF ExprElement
    <2> HIDE DEF StepOK
    <2> QED  BY <2>1, <2>2, <2>3, <2>4, <2>5, <2>6, <2>7, <2>8, <2>9, <2>10
  <1>4. ASSUME NEW s, s = ExprElement["constant"]
        PROVE  1 \in DOMAIN s /\ \A k \in DOMAIN s : StepOK("expr_element", L, "constant", s, k)
    <2>1. StepOK("expr_element", L, "constant", s, 1)  BY <1>4 DEF ExprElement
    <2>2. StepOK("expr_element", L, "constant", s, 2)  BY <1>4 DEF ExprElement
    <2>3. StepOK("expr_element", L, "constant", s, 3)  BY <1>4 DEF ExprElement
    <2>4. DOMAIN s = 1..3  BY <1>4 DEF ExprElement
    <2> HIDE DEF StepOK
    <2> QED  BY <2>1, <2>2, <2>3, <2>4
  <1>5. ASSUME NEW s, s = ExprElement["value"]
        PROVE  1 \in DOMAIN s /\ \A k \in DOMAIN s : StepOK("expr_element", L, "value", s, k)
    <2>1. StepOK("expr_element", L, "value", s, 1)  BY <1>5 DEF ExprElement
    <2>2. StepOK("expr_element", L, "value", s, 2)  BY <1>5 DEF ExprElement
    <2>3. StepOK("expr_element", L, "value", s, 3)  BY <1>5 DEF ExprElement
    <2>4. StepOK("expr_element", L, "value", s, 4)  BY <1>5 DEF ExprElement
    <2>5. DOMAIN s = 1..4  BY <1>5 DEF ExprElement
    <2> HIDE DEF StepOK
    <2> QED  BY <2>1, <2>2, <2>3, <2>4, <2>5
  <1> HIDE DEF StepOK, Exits
  <1> QED  BY <1>1, <1>2, <1>3, <1>4, <1>5 DEF Disciplined

\* ast_parser_acc_exprfactor() keeps to it.
LEMMA ExprfactorKeeps == Disciplined("exprfactor", Exprfactor)
  <1> DEFINE L == {"start", "plain"}
  <1>1. DOMAIN Exprfactor = L
    BY DEF Exprfactor, PrefixOps, PostfixOps
  <1>2. ASSUME NEW s, s = Exprfactor["start"]
        PROVE  1 \in DOMAIN s /\ \A k \in DOMAIN s : StepOK("exprfactor", L, "start", s, k)
    <2>1. StepOK("exprfactor", L, "start", s, 1)  BY <1>2 DEF Exprfactor, PrefixOps, PostfixOps
    <2>2. StepOK("exprfactor", L, "start", s, 2)  BY <1>2 DEF Exprfactor, PrefixOps, PostfixOps
    <2>3. StepOK("exprfactor", L, "start", s, 3)  BY <1>2 DEF Exprfactor, PrefixOps, PostfixOps
    <2>4. StepOK("exprfactor", L, "start", s, 4)  BY <1>2 DEF Exprfactor, PrefixOps, PostfixOps
    <2>5. DOMAIN s = 1..4  BY <1>2 DEF Exprfactor, PrefixOps, PostfixOps
    <2> HIDE DEF StepOK
    <2> QED  BY <2>1, <2>2, <2>3, <2>4, <2>5
  <1>3. ASSUME NEW s, s = Exprfactor["plain"]
        PROVE  1 \in DOMAIN s /\ \A k \in DOMAIN s : StepOK("exprfactor", L, "plain", s, k)
    <2>1. StepOK("exprfactor", L, "plain", s, 1)  BY <1>3 DEF Exprfactor, PrefixOps, PostfixOps
    <2>2. StepOK("exprfactor", L, "plain", s, 2)  BY <1>3 DEF Exprfactor, PrefixOps, PostfixOps
    <2>3. StepOK("exprfactor", L, "plain", s, 3)  BY <1>3 DEF Exprfactor, PrefixOps, PostfixOps
    <2>4. StepOK("exprfactor", L, "plain", s, 4)  BY <1>3 DEF Exprfactor, PrefixOps, PostfixOps
    <2>5. DOMAIN s = 1..4  BY <1>3 DEF Exprfactor, PrefixOps, PostfixOps
    <2> HIDE DEF StepOK
    <2> QED  BY <2>1, <2>2, <2>3, <2>4, <2>5
  <1> HIDE DEF StepOK, Exits
  <1> QED  BY <1>1, <1>2, <1>3 DEF Disciplined

\* ast_parser_acc_exprlevel() keeps to it.
LEMMA ExprlevelKeeps ==
    ASSUME NEW lvl \in Levels
    PROVE  Disciplined("exprlevel", Exprlevel(lvl))
  <1> DEFINE L == {"start"}
  <1>1. DOMAIN Exprlevel(lvl) = L
    BY DEF Exprlevel
  <1>2. ASSUME NEW s, s = Exprlevel(lvl)["start"]
        PROVE  1 \in DOMAIN s /\ \A k \in DOMAIN s : StepOK("exprlevel", L, "start", s, k)
    <2>1. StepOK("exprlevel", L, "start", s, 1)  BY <1>2, LevelAfterIsALevel DEF Exprlevel
    <2>2. StepOK("exprlevel", L, "start", s, 2)  BY <1>2 DEF Exprlevel
    <2>3. StepOK("exprlevel", L, "start", s, 3)  BY <1>2 DEF Exprlevel
    <2>4. StepOK("exprlevel", L, "start", s, 4)  BY <1>2 DEF Exprlevel
    <2>5. DOMAIN s = 1..4  BY <1>2 DEF Exprlevel
    <2> HIDE DEF StepOK
    <2> QED  BY <2>1, <2>2, <2>3, <2>4, <2>5
  <1> HIDE DEF StepOK, Exits
  <1> QED  BY <1>1, <1>2 DEF Disciplined

\* ast_parser_acc_expression_prime() keeps to it.
LEMMA ExpressionPrimeKeeps ==
    ASSUME NEW lvl \in Levels
    PROVE  Disciplined("expression_prime", ExpressionPrime(lvl))
  <1> DEFINE L == {"start", "more", "unnamed"}
  <1>1. DOMAIN ExpressionPrime(lvl) = L
    BY DEF ExpressionPrime
  <1>2. ASSUME NEW s, s = ExpressionPrime(lvl)["start"]
        PROVE  1 \in DOMAIN s /\ \A k \in DOMAIN s : StepOK("expression_prime", L, "start", s, k)
    <2>1. StepOK("expression_prime", L, "start", s, 1)  BY <1>2, NullIsNoOperator DEF ExpressionPrime
    <2>2. StepOK("expression_prime", L, "start", s, 2)  BY <1>2 DEF ExpressionPrime
    <2>3. StepOK("expression_prime", L, "start", s, 3)  BY <1>2, LevelAfterIsALevel DEF ExpressionPrime
    <2>4. StepOK("expression_prime", L, "start", s, 4)  BY <1>2 DEF ExpressionPrime
    <2>5. StepOK("expression_prime", L, "start", s, 5)  BY <1>2 DEF ExpressionPrime
    <2>6. StepOK("expression_prime", L, "start", s, 6)  BY <1>2 DEF ExpressionPrime
    <2>7. StepOK("expression_prime", L, "start", s, 7)  BY <1>2 DEF ExpressionPrime
    <2>8. StepOK("expression_prime", L, "start", s, 8)  BY <1>2 DEF ExpressionPrime
    <2>9. DOMAIN s = 1..8  BY <1>2 DEF ExpressionPrime
    <2> HIDE DEF StepOK
    <2> QED  BY <2>1, <2>2, <2>3, <2>4, <2>5, <2>6, <2>7, <2>8, <2>9
  <1>3. ASSUME NEW s, s = ExpressionPrime(lvl)["more"]
        PROVE  1 \in DOMAIN s /\ \A k \in DOMAIN s : StepOK("expression_prime", L, "more", s, k)
    <2>1. StepOK("expression_prime", L, "more", s, 1)  BY <1>3 DEF ExpressionPrime
    <2>2. StepOK("expression_prime", L, "more", s, 2)  BY <1>3 DEF ExpressionPrime
    <2>3. StepOK("expression_prime", L, "more", s, 3)  BY <1>3 DEF ExpressionPrime
    <2>4. DOMAIN s = 1..3  BY <1>3 DEF ExpressionPrime
    <2> HIDE DEF StepOK
    <2> QED  BY <2>1, <2>2, <2>3, <2>4
  <1>4. ASSUME NEW s, s = ExpressionPrime(lvl)["unnamed"]
        PROVE  1 \in DOMAIN s /\ \A k \in DOMAIN s : StepOK("expression_prime", L, "unnamed", s, k)
    <2>1. StepOK("expression_prime", L, "unnamed", s, 1)  BY <1>4 DEF ExpressionPrime
    <2>2. StepOK("expression_prime", L, "unnamed", s, 2)  BY <1>4 DEF ExpressionPrime
    <2>3. StepOK("expression_prime", L, "unnamed", s, 3)  BY <1>4 DEF ExpressionPrime
    <2>4. DOMAIN s = 1..3  BY <1>4 DEF ExpressionPrime
    <2> HIDE DEF StepOK
    <2> QED  BY <2>1, <2>2, <2>3, <2>4
  <1> HIDE DEF StepOK, Exits
  <1> QED  BY <1>1, <1>2, <1>3, <1>4 DEF Disciplined

\* ast_parser_acc_expression() keeps to it.
LEMMA ExpressionKeeps == Disciplined("expression", Expression)
  <1> DEFINE L == {"start", "nil"}
  <1>1. DOMAIN Expression = L
    BY DEF Expression
  <1>2. ASSUME NEW s, s = Expression["start"]
        PROVE  1 \in DOMAIN s /\ \A k \in DOMAIN s : StepOK("expression", L, "start", s, k)
    <2>1. StepOK("expression", L, "start", s, 1)  BY <1>2 DEF Expression
    <2>2. StepOK("expression", L, "start", s, 2)  BY <1>2, LevelAfterIsALevel DEF Expression
    <2>3. StepOK("expression", L, "start", s, 3)  BY <1>2 DEF Expression
    <2>4. StepOK("expression", L, "start", s, 4)  BY <1>2 DEF Expression
    <2>5. DOMAIN s = 1..4  BY <1>2 DEF Expression
    <2> HIDE DEF StepOK
    <2> QED  BY <2>1, <2>2, <2>3, <2>4, <2>5
  <1>3. ASSUME NEW s, s = Expression["nil"]
        PROVE  1 \in DOMAIN s /\ \A k \in DOMAIN s : StepOK("expression", L, "nil", s, k)
    <2>1. StepOK("expression", L, "nil", s, 1)  BY <1>3 DEF Expression
    <2>2. StepOK("expression", L, "nil", s, 2)  BY <1>3 DEF Expression
    <2>3. StepOK("expression", L, "nil", s, 3)  BY <1>3 DEF Expression
    <2>4. DOMAIN s = 1..3  BY <1>3 DEF Expression
    <2> HIDE DEF StepOK
    <2> QED  BY <2>1, <2>2, <2>3, <2>4
  <1> HIDE DEF StepOK, Exits
  <1> QED  BY <1>1, <1>2, <1>3 DEF Disciplined

\* ast_parser_acc_condbranch() keeps to it.
LEMMA CondbranchKeeps == Disciplined("condbranch", Condbranch)
  <1> DEFINE L == {"start"}
  <1>1. DOMAIN Condbranch = L
    BY DEF Condbranch
  <1>2. ASSUME NEW s, s = Condbranch["start"]
        PROVE  1 \in DOMAIN s /\ \A k \in DOMAIN s : StepOK("condbranch", L, "start", s, k)
    <2>1. StepOK("condbranch", L, "start", s, 1)  BY <1>2 DEF Condbranch
    <2>2. StepOK("condbranch", L, "start", s, 2)  BY <1>2 DEF Condbranch
    <2>3. StepOK("condbranch", L, "start", s, 3)  BY <1>2 DEF Condbranch
    <2>4. DOMAIN s = 1..3  BY <1>2 DEF Condbranch
    <2> HIDE DEF StepOK
    <2> QED  BY <2>1, <2>2, <2>3, <2>4
  <1> HIDE DEF StepOK, Exits
  <1> QED  BY <1>1, <1>2 DEF Disciplined

\* ast_parser_acc_ifexpr() keeps to it, called for an if.
LEMMA IfexprKeeps == Disciplined("ifexpr", IfexprFrom("if"))
  <1> DEFINE L == {"start", "more", "done", "else"}
  <1>1. DOMAIN IfexprFrom("if") = L
    BY DEF IfexprFrom
  <1>2. ASSUME NEW s, s = IfexprFrom("if")["start"]
        PROVE  1 \in DOMAIN s /\ \A k \in DOMAIN s : StepOK("ifexpr", L, "start", s, k)
    <2>1. StepOK("ifexpr", L, "start", s, 1)  BY <1>2 DEF IfexprFrom
    <2>2. StepOK("ifexpr", L, "start", s, 2)  BY <1>2 DEF IfexprFrom
    <2>3. StepOK("ifexpr", L, "start", s, 3)  BY <1>2 DEF IfexprFrom
    <2>4. StepOK("ifexpr", L, "start", s, 4)  BY <1>2 DEF IfexprFrom
    <2>5. DOMAIN s = 1..4  BY <1>2 DEF IfexprFrom
    <2> HIDE DEF StepOK
    <2> QED  BY <2>1, <2>2, <2>3, <2>4, <2>5
  <1>3. ASSUME NEW s, s = IfexprFrom("if")["more"]
        PROVE  1 \in DOMAIN s /\ \A k \in DOMAIN s : StepOK("ifexpr", L, "more", s, k)
    <2>1. StepOK("ifexpr", L, "more", s, 1)  BY <1>3 DEF IfexprFrom
    <2>2. StepOK("ifexpr", L, "more", s, 2)  BY <1>3 DEF IfexprFrom
    <2>3. StepOK("ifexpr", L, "more", s, 3)  BY <1>3 DEF IfexprFrom
    <2>4. DOMAIN s = 1..3  BY <1>3 DEF IfexprFrom
    <2> HIDE DEF StepOK
    <2> QED  BY <2>1, <2>2, <2>3, <2>4
  <1>4. ASSUME NEW s, s = IfexprFrom("if")["done"]
        PROVE  1 \in DOMAIN s /\ \A k \in DOMAIN s : StepOK("ifexpr", L, "done", s, k)
    <2>1. StepOK("ifexpr", L, "done", s, 1)  BY <1>4 DEF IfexprFrom
    <2>2. StepOK("ifexpr", L, "done", s, 2)  BY <1>4 DEF IfexprFrom
    <2>3. DOMAIN s = 1..2  BY <1>4 DEF IfexprFrom
    <2> HIDE DEF StepOK
    <2> QED  BY <2>1, <2>2, <2>3
  <1>5. ASSUME NEW s, s = IfexprFrom("if")["else"]
        PROVE  1 \in DOMAIN s /\ \A k \in DOMAIN s : StepOK("ifexpr", L, "else", s, k)
    <2>1. StepOK("ifexpr", L, "else", s, 1)  BY <1>5 DEF IfexprFrom
    <2>2. StepOK("ifexpr", L, "else", s, 2)  BY <1>5 DEF IfexprFrom
    <2>3. StepOK("ifexpr", L, "else", s, 3)  BY <1>5 DEF IfexprFrom
    <2>4. StepOK("ifexpr", L, "else", s, 4)  BY <1>5 DEF IfexprFrom
    <2>5. DOMAIN s = 1..4  BY <1>5 DEF IfexprFrom
    <2> HIDE DEF StepOK
    <2> QED  BY <2>1, <2>2, <2>3, <2>4, <2>5
  <1> HIDE DEF StepOK, Exits
  <1> QED  BY <1>1, <1>2, <1>3, <1>4, <1>5 DEF Disciplined

\* ast_parser_acc_ifexpr() keeps to it, called for an elif.
LEMMA ElifexprKeeps == Disciplined("elifexpr", IfexprFrom("elif"))
  <1> DEFINE L == {"start", "more", "done", "else"}
  <1>1. DOMAIN IfexprFrom("elif") = L
    BY DEF IfexprFrom
  <1>2. ASSUME NEW s, s = IfexprFrom("elif")["start"]
        PROVE  1 \in DOMAIN s /\ \A k \in DOMAIN s : StepOK("elifexpr", L, "start", s, k)
    <2>1. StepOK("elifexpr", L, "start", s, 1)  BY <1>2 DEF IfexprFrom
    <2>2. StepOK("elifexpr", L, "start", s, 2)  BY <1>2 DEF IfexprFrom
    <2>3. StepOK("elifexpr", L, "start", s, 3)  BY <1>2 DEF IfexprFrom
    <2>4. StepOK("elifexpr", L, "start", s, 4)  BY <1>2 DEF IfexprFrom
    <2>5. DOMAIN s = 1..4  BY <1>2 DEF IfexprFrom
    <2> HIDE DEF StepOK
    <2> QED  BY <2>1, <2>2, <2>3, <2>4, <2>5
  <1>3. ASSUME NEW s, s = IfexprFrom("elif")["more"]
        PROVE  1 \in DOMAIN s /\ \A k \in DOMAIN s : StepOK("elifexpr", L, "more", s, k)
    <2>1. StepOK("elifexpr", L, "more", s, 1)  BY <1>3 DEF IfexprFrom
    <2>2. StepOK("elifexpr", L, "more", s, 2)  BY <1>3 DEF IfexprFrom
    <2>3. StepOK("elifexpr", L, "more", s, 3)  BY <1>3 DEF IfexprFrom
    <2>4. DOMAIN s = 1..3  BY <1>3 DEF IfexprFrom
    <2> HIDE DEF StepOK
    <2> QED  BY <2>1, <2>2, <2>3, <2>4
  <1>4. ASSUME NEW s, s = IfexprFrom("elif")["done"]
        PROVE  1 \in DOMAIN s /\ \A k \in DOMAIN s : StepOK("elifexpr", L, "done", s, k)
    <2>1. StepOK("elifexpr", L, "done", s, 1)  BY <1>4 DEF IfexprFrom
    <2>2. StepOK("elifexpr", L, "done", s, 2)  BY <1>4 DEF IfexprFrom
    <2>3. DOMAIN s = 1..2  BY <1>4 DEF IfexprFrom
    <2> HIDE DEF StepOK
    <2> QED  BY <2>1, <2>2, <2>3
  <1>5. ASSUME NEW s, s = IfexprFrom("elif")["else"]
        PROVE  1 \in DOMAIN s /\ \A k \in DOMAIN s : StepOK("elifexpr", L, "else", s, k)
    <2>1. StepOK("elifexpr", L, "else", s, 1)  BY <1>5 DEF IfexprFrom
    <2>2. StepOK("elifexpr", L, "else", s, 2)  BY <1>5 DEF IfexprFrom
    <2>3. StepOK("elifexpr", L, "else", s, 3)  BY <1>5 DEF IfexprFrom
    <2>4. StepOK("elifexpr", L, "else", s, 4)  BY <1>5 DEF IfexprFrom
    <2>5. DOMAIN s = 1..4  BY <1>5 DEF IfexprFrom
    <2> HIDE DEF StepOK
    <2> QED  BY <2>1, <2>2, <2>3, <2>4, <2>5
  <1> HIDE DEF StepOK, Exits
  <1> QED  BY <1>1, <1>2, <1>3, <1>4, <1>5 DEF Disciplined

\* ast_parser_acc_range_member() keeps to it.
LEMMA RangeMemberKeeps == Disciplined("range_member", RangeMember)
  <1> DEFINE L == {"start"}
  <1>1. DOMAIN RangeMember = L
    BY DEF RangeMember
  <1>2. ASSUME NEW s, s = RangeMember["start"]
        PROVE  1 \in DOMAIN s /\ \A k \in DOMAIN s : StepOK("range_member", L, "start", s, k)
    <2>1. StepOK("range_member", L, "start", s, 1)  BY <1>2 DEF RangeMember
    <2>2. StepOK("range_member", L, "start", s, 2)  BY <1>2 DEF RangeMember
    <2>3. StepOK("range_member", L, "start", s, 3)  BY <1>2 DEF RangeMember
    <2>4. DOMAIN s = 1..3  BY <1>2 DEF RangeMember
    <2> HIDE DEF StepOK
    <2> QED  BY <2>1, <2>2, <2>3, <2>4
  <1> HIDE DEF StepOK, Exits
  <1> QED  BY <1>1, <1>2 DEF Disciplined

\* ast_parser_acc_iterable() keeps to it.
LEMMA IterableKeeps == Disciplined("iterable", Iterable)
  <1> DEFINE L == {"start", "done", "collection"}
  <1>1. DOMAIN Iterable = L
    BY DEF Iterable
  <1>2. ASSUME NEW s, s = Iterable["start"]
        PROVE  1 \in DOMAIN s /\ \A k \in DOMAIN s : StepOK("iterable", L, "start", s, k)
    <2>1. StepOK("iterable", L, "start", s, 1)  BY <1>2 DEF Iterable
    <2>2. StepOK("iterable", L, "start", s, 2)  BY <1>2 DEF Iterable
    <2>3. StepOK("iterable", L, "start", s, 3)  BY <1>2 DEF Iterable
    <2>4. StepOK("iterable", L, "start", s, 4)  BY <1>2 DEF Iterable
    <2>5. StepOK("iterable", L, "start", s, 5)  BY <1>2 DEF Iterable
    <2>6. StepOK("iterable", L, "start", s, 6)  BY <1>2 DEF Iterable
    <2>7. StepOK("iterable", L, "start", s, 7)  BY <1>2 DEF Iterable
    <2>8. StepOK("iterable", L, "start", s, 8)  BY <1>2 DEF Iterable
    <2>9. StepOK("iterable", L, "start", s, 9)  BY <1>2 DEF Iterable
    <2>10. StepOK("iterable", L, "start", s, 10)  BY <1>2 DEF Iterable
    <2>11. DOMAIN s = 1..10  BY <1>2 DEF Iterable
    <2> HIDE DEF StepOK
    <2> QED  BY <2>1, <2>2, <2>3, <2>4, <2>5, <2>6, <2>7, <2>8, <2>9, <2>10, <2>11
  <1>3. ASSUME NEW s, s = Iterable["done"]
        PROVE  1 \in DOMAIN s /\ \A k \in DOMAIN s : StepOK("iterable", L, "done", s, k)
    <2>1. StepOK("iterable", L, "done", s, 1)  BY <1>3 DEF Iterable
    <2>2. StepOK("iterable", L, "done", s, 2)  BY <1>3 DEF Iterable
    <2>3. DOMAIN s = 1..2  BY <1>3 DEF Iterable
    <2> HIDE DEF StepOK
    <2> QED  BY <2>1, <2>2, <2>3
  <1>4. ASSUME NEW s, s = Iterable["collection"]
        PROVE  1 \in DOMAIN s /\ \A k \in DOMAIN s : StepOK("iterable", L, "collection", s, k)
    <2>1. StepOK("iterable", L, "collection", s, 1)  BY <1>4 DEF Iterable
    <2>2. StepOK("iterable", L, "collection", s, 2)  BY <1>4 DEF Iterable
    <2>3. DOMAIN s = 1..2  BY <1>4 DEF Iterable
    <2> HIDE DEF StepOK
    <2> QED  BY <2>1, <2>2, <2>3
  <1> HIDE DEF StepOK, Exits
  <1> QED  BY <1>1, <1>2, <1>3, <1>4 DEF Disciplined

\* ast_parser_acc_forexpr() keeps to it.
LEMMA ForexprKeeps == Disciplined("forexpr", Forexpr)
  <1> DEFINE L == {"start"}
  <1>1. DOMAIN Forexpr = L
    BY DEF Forexpr
  <1>2. ASSUME NEW s, s = Forexpr["start"]
        PROVE  1 \in DOMAIN s /\ \A k \in DOMAIN s : StepOK("forexpr", L, "start", s, k)
    <2>1. StepOK("forexpr", L, "start", s, 1)  BY <1>2 DEF Forexpr
    <2>2. StepOK("forexpr", L, "start", s, 2)  BY <1>2 DEF Forexpr
    <2>3. StepOK("forexpr", L, "start", s, 3)  BY <1>2 DEF Forexpr
    <2>4. StepOK("forexpr", L, "start", s, 4)  BY <1>2 DEF Forexpr
    <2>5. StepOK("forexpr", L, "start", s, 5)  BY <1>2 DEF Forexpr
    <2>6. StepOK("forexpr", L, "start", s, 6)  BY <1>2 DEF Forexpr
    <2>7. StepOK("forexpr", L, "start", s, 7)  BY <1>2 DEF Forexpr
    <2>8. StepOK("forexpr", L, "start", s, 8)  BY <1>2 DEF Forexpr
    <2>9. StepOK("forexpr", L, "start", s, 9)  BY <1>2 DEF Forexpr
    <2>10. DOMAIN s = 1..9  BY <1>2 DEF Forexpr
    <2> HIDE DEF StepOK
    <2> QED  BY <2>1, <2>2, <2>3, <2>4, <2>5, <2>6, <2>7, <2>8, <2>9, <2>10
  <1> HIDE DEF StepOK, Exits
  <1> QED  BY <1>1, <1>2 DEF Disciplined

\* ast_parser_accept_matchcase() keeps to it.
LEMMA MatchcaseKeeps == Disciplined("matchcase", Matchcase)
  <1> DEFINE L == {"start"}
  <1>1. DOMAIN Matchcase = L
    BY DEF Matchcase
  <1>2. ASSUME NEW s, s = Matchcase["start"]
        PROVE  1 \in DOMAIN s /\ \A k \in DOMAIN s : StepOK("matchcase", L, "start", s, k)
    <2>1. StepOK("matchcase", L, "start", s, 1)  BY <1>2 DEF Matchcase
    <2>2. StepOK("matchcase", L, "start", s, 2)  BY <1>2 DEF Matchcase
    <2>3. StepOK("matchcase", L, "start", s, 3)  BY <1>2 DEF Matchcase
    <2>4. StepOK("matchcase", L, "start", s, 4)  BY <1>2 DEF Matchcase
    <2>5. DOMAIN s = 1..4  BY <1>2 DEF Matchcase
    <2> HIDE DEF StepOK
    <2> QED  BY <2>1, <2>2, <2>3, <2>4, <2>5
  <1> HIDE DEF StepOK, Exits
  <1> QED  BY <1>1, <1>2 DEF Disciplined

\* ast_parser_acc_matchexpr() keeps to it.
LEMMA MatchexprKeeps == Disciplined("matchexpr", Matchexpr)
  <1> DEFINE L == {"start", "end", "body", "name", "cases"}
  <1>1. DOMAIN Matchexpr = L
    BY DEF Matchexpr
  <1>2. ASSUME NEW s, s = Matchexpr["start"]
        PROVE  1 \in DOMAIN s /\ \A k \in DOMAIN s : StepOK("matchexpr", L, "start", s, k)
    <2>1. StepOK("matchexpr", L, "start", s, 1)  BY <1>2 DEF Matchexpr
    <2>2. StepOK("matchexpr", L, "start", s, 2)  BY <1>2 DEF Matchexpr
    <2>3. StepOK("matchexpr", L, "start", s, 3)  BY <1>2 DEF Matchexpr
    <2>4. StepOK("matchexpr", L, "start", s, 4)  BY <1>2 DEF Matchexpr
    <2>5. StepOK("matchexpr", L, "start", s, 5)  BY <1>2 DEF Matchexpr
    <2>6. StepOK("matchexpr", L, "start", s, 6)  BY <1>2 DEF Matchexpr
    <2>7. StepOK("matchexpr", L, "start", s, 7)  BY <1>2 DEF Matchexpr
    <2>8. DOMAIN s = 1..7  BY <1>2 DEF Matchexpr
    <2> HIDE DEF StepOK
    <2> QED  BY <2>1, <2>2, <2>3, <2>4, <2>5, <2>6, <2>7, <2>8
  <1>3. ASSUME NEW s, s = Matchexpr["end"]
        PROVE  1 \in DOMAIN s /\ \A k \in DOMAIN s : StepOK("matchexpr", L, "end", s, k)
    <2>1. StepOK("matchexpr", L, "end", s, 1)  BY <1>3 DEF Matchexpr
    <2>2. StepOK("matchexpr", L, "end", s, 2)  BY <1>3 DEF Matchexpr
    <2>3. StepOK("matchexpr", L, "end", s, 3)  BY <1>3 DEF Matchexpr
    <2>4. StepOK("matchexpr", L, "end", s, 4)  BY <1>3 DEF Matchexpr
    <2>5. DOMAIN s = 1..4  BY <1>3 DEF Matchexpr
    <2> HIDE DEF StepOK
    <2> QED  BY <2>1, <2>2, <2>3, <2>4, <2>5
  <1>4. ASSUME NEW s, s = Matchexpr["body"]
        PROVE  1 \in DOMAIN s /\ \A k \in DOMAIN s : StepOK("matchexpr", L, "body", s, k)
    <2>1. StepOK("matchexpr", L, "body", s, 1)  BY <1>4 DEF Matchexpr
    <2>2. StepOK("matchexpr", L, "body", s, 2)  BY <1>4 DEF Matchexpr
    <2>3. DOMAIN s = 1..2  BY <1>4 DEF Matchexpr
    <2> HIDE DEF StepOK
    <2> QED  BY <2>1, <2>2, <2>3
  <1>5. ASSUME NEW s, s = Matchexpr["name"]
        PROVE  1 \in DOMAIN s /\ \A k \in DOMAIN s : StepOK("matchexpr", L, "name", s, k)
    <2>1. StepOK("matchexpr", L, "name", s, 1)  BY <1>5 DEF Matchexpr
    <2>2. StepOK("matchexpr", L, "name", s, 2)  BY <1>5 DEF Matchexpr
    <2>3. DOMAIN s = 1..2  BY <1>5 DEF Matchexpr
    <2> HIDE DEF StepOK
    <2> QED  BY <2>1, <2>2, <2>3
  <1>6. ASSUME NEW s, s = Matchexpr["cases"]
        PROVE  1 \in DOMAIN s /\ \A k \in DOMAIN s : StepOK("matchexpr", L, "cases", s, k)
    <2>1. StepOK("matchexpr", L, "cases", s, 1)  BY <1>6 DEF Matchexpr
    <2>2. StepOK("matchexpr", L, "cases", s, 2)  BY <1>6 DEF Matchexpr
    <2>3. DOMAIN s = 1..2  BY <1>6 DEF Matchexpr
    <2> HIDE DEF StepOK
    <2> QED  BY <2>1, <2>2, <2>3
  <1> HIDE DEF StepOK, Exits
  <1> QED  BY <1>1, <1>2, <1>3, <1>4, <1>5, <1>6 DEF Disciplined

\* ast_parser_acc_matchexpr() keeps to it, called in a function body.
LEMMA HeadlessMatchexprKeeps == Disciplined("headless_matchexpr", HeadlessMatchexpr)
  <1> DEFINE L == {"start", "end", "cases", "one"}
  <1>1. DOMAIN HeadlessMatchexpr = L
    BY DEF HeadlessMatchexpr
  <1>2. ASSUME NEW s, s = HeadlessMatchexpr["start"]
        PROVE  1 \in DOMAIN s /\ \A k \in DOMAIN s : StepOK("headless_matchexpr", L, "start", s, k)
    <2>1. StepOK("headless_matchexpr", L, "start", s, 1)  BY <1>2 DEF HeadlessMatchexpr
    <2>2. StepOK("headless_matchexpr", L, "start", s, 2)  BY <1>2 DEF HeadlessMatchexpr
    <2>3. StepOK("headless_matchexpr", L, "start", s, 3)  BY <1>2 DEF HeadlessMatchexpr
    <2>4. StepOK("headless_matchexpr", L, "start", s, 4)  BY <1>2 DEF HeadlessMatchexpr
    <2>5. DOMAIN s = 1..4  BY <1>2 DEF HeadlessMatchexpr
    <2> HIDE DEF StepOK
    <2> QED  BY <2>1, <2>2, <2>3, <2>4, <2>5
  <1>3. ASSUME NEW s, s = HeadlessMatchexpr["end"]
        PROVE  1 \in DOMAIN s /\ \A k \in DOMAIN s : StepOK("headless_matchexpr", L, "end", s, k)
    <2>1. StepOK("headless_matchexpr", L, "end", s, 1)  BY <1>3 DEF HeadlessMatchexpr
    <2>2. StepOK("headless_matchexpr", L, "end", s, 2)  BY <1>3 DEF HeadlessMatchexpr
    <2>3. StepOK("headless_matchexpr", L, "end", s, 3)  BY <1>3 DEF HeadlessMatchexpr
    <2>4. DOMAIN s = 1..3  BY <1>3 DEF HeadlessMatchexpr
    <2> HIDE DEF StepOK
    <2> QED  BY <2>1, <2>2, <2>3, <2>4
  <1>4. ASSUME NEW s, s = HeadlessMatchexpr["cases"]
        PROVE  1 \in DOMAIN s /\ \A k \in DOMAIN s : StepOK("headless_matchexpr", L, "cases", s, k)
    <2>1. StepOK("headless_matchexpr", L, "cases", s, 1)  BY <1>4 DEF HeadlessMatchexpr
    <2>2. StepOK("headless_matchexpr", L, "cases", s, 2)  BY <1>4 DEF HeadlessMatchexpr
    <2>3. DOMAIN s = 1..2  BY <1>4 DEF HeadlessMatchexpr
    <2> HIDE DEF StepOK
    <2> QED  BY <2>1, <2>2, <2>3
  <1>5. ASSUME NEW s, s = HeadlessMatchexpr["one"]
        PROVE  1 \in DOMAIN s /\ \A k \in DOMAIN s : StepOK("headless_matchexpr", L, "one", s, k)
    <2>1. StepOK("headless_matchexpr", L, "one", s, 1)  BY <1>5 DEF HeadlessMatchexpr
    <2>2. StepOK("headless_matchexpr", L, "one", s, 2)  BY <1>5 DEF HeadlessMatchexpr
    <2>3. StepOK("headless_matchexpr", L, "one", s, 3)  BY <1>5 DEF HeadlessMatchexpr
    <2>4. StepOK("headless_matchexpr", L, "one", s, 4)  BY <1>5 DEF HeadlessMatchexpr
    <2>5. DOMAIN s = 1..4  BY <1>5 DEF HeadlessMatchexpr
    <2> HIDE DEF StepOK
    <2> QED  BY <2>1, <2>2, <2>3, <2>4, <2>5
  <1> HIDE DEF StepOK, Exits
  <1> QED  BY <1>1, <1>2, <1>3, <1>4, <1>5 DEF Disciplined

HIDE DEF Push, Pop, Advance, Mark, Look, Is, Is2, Ahead, Expect, Take, Value,
         MustExist, NameOf, ReadUnset, Post, IfError, IfErrorReset, InfoPush,
         InfoPop, InfoRollback, Goto, Ok, Fail, Undo, Adopt, Finish, MustAt,
         Must, TryAt, Try, When, When2, Straight, Exits, ValueKinds
HIDE DEF LooksAtTok, Tests, Calls, Leaves, Plain, SetsTok, Branches, Marking,
         EntersHeld, Holds, TokStays, Saw, SawSome, SawOf, Passed, Frugal,
         MustEat, EatenLabels, Eats, Wide, Arrow, Loud, Said, Fresh, CanGo,
         CanCall, Callable, StepOK

-----------------------------------------------------------------------------
(* All of them.                                                            *)

\* Every accept function keeps to the discipline.
LEMMA ProgramsAreDisciplined ==
    ASSUME NEW f, NEW lvl, Callable(f, lvl)
    PROVE  Disciplined(f, Program(f, lvl))
  <1>1. CASE f \in DOMAIN AcceptFunction
    <2>1. Program(f, lvl) = AcceptFunction[f]
      BY <1>1, Named DEF Program
    <2>2. Disciplined(f, AcceptFunction[f])
      BY <1>1, Named, ParseFileKeeps, StmtKeeps, ReturnStatementKeeps,
         ExprStatementKeeps, BlockElementKeeps, AccBlockKeeps, AccImportKeeps,
         ModuleStatementKeeps, AccModuleKeeps, IdentifierKeeps, FndeclKeeps,
         ForeignFndeclKeeps, FnimplKeeps, FncallKeeps, XidentifierKeeps,
         VardeclKeeps, ParenthesizedTypedescKeeps, TypeleafKeeps,
         TypeelementKeeps, TypefactorPrimeKeeps, TypetermPrimeKeeps,
         TypedescPrimeKeeps, TypefactorKeeps, TypetermKeeps, TypedescKeeps,
         TypedeclKeeps, GenrtypeKeeps, GenericDeclsPrimeKeeps,
         GenericDeclsKeeps, GenrdeclKeeps, GenrattrSingleKeeps,
         GenericAttributePrimeKeeps, GenericAttributeKeeps, GenrattrKeeps,
         ArraySingleKeeps, ArrspecKeeps, BracketlistKeeps, ExprElementKeeps,
         ExprfactorKeeps, ExpressionKeeps, CondbranchKeeps, IfexprKeeps,
         ElifexprKeeps, RangeMemberKeeps, IterableKeeps, ForexprKeeps,
         MatchcaseKeeps, MatchexprKeeps, HeadlessMatchexprKeeps
      DEF AcceptFunction
    <2> QED
      BY <2>1, <2>2
  <1>2. CASE f \in {"exprlevel", "expression_prime"} /\ lvl \in Levels
    BY <1>2, ExprlevelKeeps, ExpressionPrimeKeeps DEF Program
  <1> QED
    BY <1>1, <1>2 DEF Callable

\* The shared ways out are a sound end of every function that may take them.
LEMMA WaysOutAreDisciplined ==
    ASSUME NEW f, NEW labels, NEW l \in DOMAIN Exits,
           f # "parse_file", f = "matchcase" => l # "ok"
    PROVE  /\ 1 \in DOMAIN Exits[l]
           /\ \A k \in DOMAIN Exits[l] : StepOK(f, labels, l, Exits[l], k)
  <1> DEFINE Sound == /\ 1 \in DOMAIN Exits[l]
                      /\ \A k \in DOMAIN Exits[l] : StepOK(f, labels, l, Exits[l], k)
  <1> USE DEF Leaves, Tests, LooksAtTok, Calls, Plain, Branches, Ok, Fail, Undo,
              Post, EntersHeld, Holds, Eats, EatenLabels, Said, Arrow, StepOK
  <1>1. CASE l = "ok"
    <2>1. ASSUME NEW s, s = <<Ok>> PROVE StepOK(f, labels, "ok", s, 1)
      BY <1>1, <2>1
    <2> HIDE DEF StepOK, Ok
    <2> QED
      BY <1>1, <2>1 DEF Exits
  <1>2. CASE l = "none"
    <2>1. ASSUME NEW s, s = <<Fail>> PROVE StepOK(f, labels, "none", s, 1)
      BY <2>1
    <2> HIDE DEF StepOK, Fail
    <2> QED
      BY <1>2, <2>1 DEF Exits
  <1>3. CASE l = "err"
    <2>1. ASSUME NEW s, s = <<Undo>> PROVE StepOK(f, labels, "err", s, 1)
      BY <2>1
    <2> HIDE DEF StepOK, Undo
    <2> QED
      BY <1>3, <2>1 DEF Exits
  <1>4. CASE l = "say_none"
    <2>1. ASSUME NEW s, s = <<Post, Fail>>
          PROVE  StepOK(f, labels, "say_none", s, 1) /\ StepOK(f, labels, "say_none", s, 2)
      BY <2>1
    <2> HIDE DEF StepOK, Post, Fail
    <2> QED
      BY <1>4, <2>1 DEF Exits
  <1>5. CASE l = "say_err"
    <2>1. ASSUME NEW s, s = <<Post, Undo>>
          PROVE  StepOK(f, labels, "say_err", s, 1) /\ StepOK(f, labels, "say_err", s, 2)
      BY <2>1
    <2> HIDE DEF StepOK, Post, Undo
    <2> QED
      BY <1>5, <2>1 DEF Exits
  <1> HIDE DEF StepOK
  <1>6. DOMAIN Exits = {"ok", "none", "err", "say_none", "say_err"}
    BY DEF Exits
  <1> QED
    BY <1>1, <1>2, <1>3, <1>4, <1>5, <1>6

\* Every step that the parser can come to keeps to the discipline.
LEMMA StepsAreDisciplined ==
    ASSUME NEW f, NEW lvl, Callable(f, lvl), NEW l \in Labels(Program(f, lvl)),
           l \in DOMAIN Exits => f # "parse_file", f = "matchcase" => l # "ok"
    PROVE  /\ 1 \in DOMAIN Body(Program(f, lvl), l)
           /\ \A k \in DOMAIN Body(Program(f, lvl), l) :
                StepOK(f, DOMAIN Program(f, lvl), l, Body(Program(f, lvl), l), k)
  <1>1. CASE l \in DOMAIN Exits
    BY <1>1, WaysOutAreDisciplined DEF Body
  <1>2. CASE l \notin DOMAIN Exits
    BY <1>2, ProgramsAreDisciplined DEF Body, Labels, Disciplined
  <1> QED
    BY <1>1, <1>2

\* A program begins at `start', which is a label of its own.
LEMMA ProgramsStart ==
    ASSUME NEW f, NEW lvl, Callable(f, lvl)
    PROVE  "start" \in Labels(Program(f, lvl)) /\ "start" \notin DOMAIN Exits
  <1>1. "start" \notin DOMAIN Exits
    BY DEF Exits
  <1> QED
    BY <1>1, ProgramsAreDisciplined DEF Labels, Disciplined

\* What Steps looks up is the text of the program.
LEMMA StepsAreTheText ==
    ASSUME NEW f, NEW lvl, Callable(f, lvl), NEW l
    PROVE  Steps(f, lvl, l) = Body(Program(f, lvl), l)
  BY Named DEF Steps, Body, Program, Callable, ExprlevelAt, ExpressionPrimeAt

=============================================================================
