------------------------------- MODULE RirParser -------------------------------
(***************************************************************************)
(* The parser of RIR files (src/ir/parser): rir_parse() reads one outer    *)
(* statement after the other until one fails or the text ends; a function  *)
(* is read block by block and instruction by instruction.  A step here is  *)
(* an outer statement, a label, an instruction or the end of a function.   *)
(*                                                                         *)
(* What fails may post a message, fail in silence (a RF_ERROR in the log,  *)
(* or the end of the text) or run into an assertion.                       *)
(***************************************************************************)
EXTENDS RirText

VARIABLES
    text,       \* the tokens of the file
    at,         \* index of the next one
    place,      \* "outer", "blocks", "block", "stopped", or "idle" before the parser runs
    current,    \* name of current_fn, "" when there is none yet
    names,      \* the maps: function, or "" for the module's -> id -> value
    functions,  \* the functions read, the current one with the blocks so far
    blocks,     \* label -> block, of the function that is read
    label,      \* the block that is read
    typedefs,   \* names of the types defined
    posted,     \* whether there is a message
    ended       \* how rir_parse ended: "", "accepted", "refused", "dead"

pvars == <<text, at, place, current, names, functions, blocks, label, typedefs, posted, ended>>

NoNames == [id \in {} |-> Nil]

IdleParser ==
    /\ text = <<>> /\ at = 1 /\ place = "idle" /\ current = ""
    /\ names = [f \in {""} |-> NoNames]
    /\ functions = <<>> /\ blocks = [l \in {} |-> Block(l)] /\ label = ""
    /\ typedefs = {} /\ posted = FALSE /\ ended = ""

----------------------------------------------------------------------------
(* A parse in progress: where it is, what it got and, when it went wrong,  *)
(* how: by a "message", in "silence" or "dead".                            *)
From(i) == [at |-> i, got |-> <<>>, bad |-> "", posted |-> FALSE]
EndToken == Token("end", "")
Peek(i) == IF i <= Len(text) THEN text[i] ELSE EndToken
Next1(p) == Peek(p.at)
Took(p, x) == [p EXCEPT !.at = @ + 1, !.got = Append(@, x)]
Bad(p, how) == [p EXCEPT !.bad = how]

(* rir_map_getobj: the current function's names, then the module's.        *)
Known(id) == id \in DOMAIN names[current] \cup DOMAIN names[""]
Meaning(id) == IF id \in DOMAIN names[current] THEN names[current][id] ELSE names[""][id]

(* Every number is a 64 bit integer; floats here have one decimal.         *)
Whole(s) == SubSeq(s, 1, Len(s) - 2)
ParseValue(p) ==
    LET tok == Next1(p)
    IN  CASE tok.k = "end" -> Bad(p, "silence")
          [] tok.k = "integer" -> Took(p, Const(tok.s, "i64"))
          [] tok.k = "float" -> Took(p, Const(Whole(tok.s), "i64"))
          [] tok.k = "variable" /\ Known(tok.s) -> Took(p, Meaning(tok.s))
          [] OTHER -> Bad(p, "message")

ElementaryNames == {"i8", "u8", "i32", "u32", "i64", "u64", "f32", "f64", "bool", "string", "nil"}
TypeNamed(s) == IF s \in ElementaryNames THEN Elem(s, FALSE) ELSE Comp(s, FALSE)
StarFollows(p) == Peek(p.at + 1).k = "*"
ParseType(p) ==
    LET tok == Next1(p)
    IN  CASE tok.k # "identifier" -> Bad(p, "dead")
          [] tok.s \notin ElementaryNames \cup typedefs -> Bad(p, "message")
          [] OTHER -> [Took(p, FromOther(TypeNamed(tok.s), StarFollows(p)))
                       EXCEPT !.at = IF StarFollows(p) THEN @ + 1 ELSE @]

(* Lists end at the token end, which they leave; they also end at a token  *)
(* that cannot be one of theirs, even right after a comma.  After a comma  *)
(* that ends the text the code looks past the tokens.                      *)
RECURSIVE ParseList(_, _, _, _)
ListItem(q, list, kind, end) ==
    CASE q.bad # "" -> q
      [] Next1(q).k \notin {",", end} -> Bad(q, "message")
      [] Next1(q).k = "," ->
           ParseList([q EXCEPT !.at = @ + 1, !.got = Front(@)], Append(list, Last(q.got)), kind, end)
      [] OTHER -> [q EXCEPT !.got = Append(Front(@), Append(list, Last(@)))]
IsValueToken(tok) == tok.k \in {"integer", "float", "variable"}
ParseList(p, list, kind, end) ==
    CASE Next1(p).k = "end" -> Bad(p, IF list = <<>> THEN "silence" ELSE "dead")
      [] kind = "values" /\ IsValueToken(Next1(p)) -> ListItem(ParseValue(p), list, kind, end)
      [] kind = "types" /\ Next1(p).k = "identifier" -> ListItem(ParseType(p), list, kind, end)
      [] OTHER -> [p EXCEPT !.got = Append(@, list)]

(* What a statement is made of, in order.                                  *)
Sym(k) == [i |-> "symbol", k |-> k]
Noted(k) == [i |-> "noted", k |-> k]     \* posts a message when it is missing, and goes on
Item(i) == [i |-> i, k |-> ""]
Until(i, k) == [i |-> i, k |-> k]

ParseItem(p, item) ==
    CASE item.i = "symbol" -> IF Next1(p).k = item.k THEN [p EXCEPT !.at = @ + 1] ELSE Bad(p, "message")
      [] item.i = "noted" -> IF Next1(p).k = item.k THEN [p EXCEPT !.at = @ + 1]
                             ELSE [p EXCEPT !.posted = TRUE]
      [] item.i = "name" ->
           IF Next1(p).k = "identifier" THEN Took(p, Next1(p).s) ELSE Bad(p, "message")
      [] item.i = "string" -> IF Next1(p).k = "string" THEN Took(p, Next1(p).s) ELSE Bad(p, "message")
      [] item.i = "foreign" ->
           IF Next1(p).k = "identifier" /\ Next1(p).s \in {"defined", "foreign"}
           THEN Took(p, Next1(p).s) ELSE Bad(p, "message")
      [] item.i = "label" ->
           IF Next1(p).k = "label" /\ Next1(p).s \in DOMAIN blocks
           THEN Took(p, Next1(p).s) ELSE Bad(p, "message")
      [] item.i = "value" -> ParseValue(p)
      [] item.i = "type" -> ParseType(p)
      [] item.i \in {"values", "types"} -> ParseList(p, <<>>, item.i, item.k)
RECURSIVE Parse(_, _)
Parse(p, items) ==
    IF items = <<>> \/ p.bad # "" THEN p ELSE Parse(ParseItem(p, items[1]), Tail(items))

Shape(k) ==
    CASE k = "convert" -> <<Sym("("), Item("value"), Sym(","), Item("type"), Sym(")")>>
      [] k = "read" -> <<Sym("("), Item("value"), Sym(")")>>
      [] k = "call" -> <<Sym("("), Item("name"), Sym(","), Item("foreign"), Sym(","),
                         Until("values", ")"), Sym(")")>>
      [] k \in {"write"} \cup Arithmetic \cup Comparisons ->
           <<Sym("("), Item("type"), Sym(","), Item("value"), Sym(","), Item("value"), Sym(")")>>
      [] k = "branch" -> <<Sym("("), Item("label"), Sym(")")>>
      [] k = "condbranch" -> <<Sym("("), Item("value"), Sym(","), Item("label"), Noted(","),
                               Item("label"), Sym(")")>>
      [] k = "return" -> <<Sym("("), Item("value"), Sym(")")>>
      [] k = "global" -> <<Sym("("), Item("name"), Sym(","), Item("string"), Sym(")")>>
      [] k \in {"typedef", "uniondef"} -> <<Sym("("), Until("types", ")"), Sym(")")>>
      [] k \in {"fndef", "fndecl"} ->
           <<Sym("("), Item("name"), Sym(";"), Until("types", ";"), Sym(";"), Item("type"), Sym(")")>>

\* The tokens that may start an instruction, and those that may follow "$x =".
Assignable == {"convert", "read", "call"} \cup Arithmetic \cup Comparisons
Outer == {"global", "typedef", "uniondef"}

----------------------------------------------------------------------------
(* How the parser stops.  It is accepted when it has posted no message,    *)
(* wherever it stopped; the function it was in is taken away.              *)
Verdict(how, messages) ==
    CASE how = "dead" -> "dead"
      [] how = "message" \/ messages -> "refused"
      [] OTHER -> "accepted"
Stop(how, messages) ==
    /\ place' = "stopped"
    /\ posted' = (messages \/ how = "message")
    /\ ended' = Verdict(how, messages)
    /\ functions' = IF place = "outer" THEN functions ELSE Front(functions)
    /\ UNCHANGED <<text, current, names, blocks, label, typedefs>>

StartParser(tokens) ==
    /\ place = "idle"
    /\ text' = tokens
    /\ place' = "outer"
    /\ UNCHANGED <<at, current, names, functions, blocks, label, typedefs, posted, ended>>

Going1 == <<text, posted, ended>>

(* "$x = ..." needs three tokens; the third one tells what is assigned.    *)
IsAssignment(i) == Peek(i + 1).k = "=" /\ Peek(i + 2).k # "end"
AfterName(i) == IF IsAssignment(i) THEN i + 2 ELSE i

(* The new functions and names of a function's header: the arguments are   *)
(* added to the map in use before the function is the current one.         *)
ParsedArgs(types) == IF types = <<NilType>> THEN <<>> ELSE types
ArgumentNames(name, types) ==
    [id \in {VarName(i - 1) : i \in DOMAIN types} |->
        Var(id, types[CHOOSE i \in DOMAIN types : VarName(i - 1) = id], name)]
\* A mutation of SlotNames: the number after the slot's.
SlotNamesLate(name, types, returns) ==
    IF IsElem(returns, "nil") THEN NoNames
    ELSE VarName(Len(types) + 1) :> Var(VarName(Len(types) + 1), FromOther(returns, TRUE), name)
SlotNames(name, types, returns) ==
    IF IsElem(returns, "nil") THEN NoNames
    ELSE VarName(Len(types)) :> Var(VarName(Len(types)), FromOther(returns, TRUE), name)
Clash(map, new) == DOMAIN map \cap DOMAIN new # {}

(* The labels of all tokens up to the first '}' or the end.                *)
LabelsFrom(i) ==
    LET close == {j \in i..Len(text) : text[j].k = "}"}
        last == IF close = {} THEN Len(text) ELSE CHOOSE j \in close : \A m \in close : j <= m
    IN  {text[j].s : j \in {m \in i..last : text[m].k = "label"}}

HeaderOf(i) == Parse(From(i + 1), Shape(text[i].k))
HeaderArgs(p) == ParsedArgs(p.got[2])
NameClash(p) == Clash(names[current], ArgumentNames(p.got[1], HeaderArgs(p)))

ParseFndecl ==
    /\ place = "outer" /\ Peek(at).k = "fndecl"
    /\ \E p \in {HeaderOf(at)} :
        /\ at' = p.at
        /\ \/ p.bad # "" /\ Stop(p.bad, posted)
           \/ /\ p.bad = ""
              /\ functions' = Append(functions, Function(p.got[1], TRUE, HeaderArgs(p), p.got[3], <<>>))
              /\ UNCHANGED <<place, current, names, blocks, label, typedefs, Going1>>

EnterFunction(p, name, args, returns) ==
    /\ Peek(p.at).k = "{"
    /\ at' = p.at + 1
    /\ names' = (name :> SlotNames(name, args, returns))
                @@ [names EXCEPT ![current] = ArgumentNames(name, args) @@ @]
    /\ current' = name
    /\ functions' = Append(functions, Function(name, FALSE, args, returns, <<>>))
    /\ blocks' = [l \in LabelsFrom(p.at + 1) |-> Block(l)]
    /\ place' = "blocks"
    /\ UNCHANGED <<label, typedefs, Going1>>
ParseFndef ==
    /\ place = "outer" /\ Peek(at).k = "fndef"
    /\ \E p \in {HeaderOf(at)} :
        \/ p.bad # "" /\ at' = p.at /\ Stop(p.bad, posted)
        \/ p.bad = "" /\ NameClash(p) /\ at' = p.at /\ Stop("dead", posted)
        \/ p.bad = "" /\ ~NameClash(p) /\ EnterFunction(p, p.got[1], HeaderArgs(p), p.got[3])
        \/ /\ p.bad = "" /\ ~NameClash(p) /\ Peek(p.at).k # "{"
           /\ at' = p.at /\ Stop("message", posted)

(* A literal must have the name that its text gives it and is made before  *)
(* the last parenthesis is read; the name of a type keeps its '$'.         *)
GlobalVerdict(p, id) ==
    CASE Len(p.got) < 2 -> p.bad
      [] p.got[1] # "string" \/ id # Literal(p.got[2]).id -> "message"
      [] id \in DOMAIN names[""] -> "dead"
      [] OTHER -> p.bad
ParseGlobal(id) ==
    \E p \in {Parse(From(at + 3), Shape("global"))} :
        /\ at' = p.at
        /\ \/ GlobalVerdict(p, id) # "" /\ Stop(GlobalVerdict(p, id), posted)
           \/ /\ GlobalVerdict(p, id) = ""
              /\ names' = [names EXCEPT ![""] = (id :> Literal(p.got[2])) @@ @]
              /\ UNCHANGED <<place, current, functions, blocks, label, typedefs, Going1>>
ParseTypedef(id) ==
    \E p \in {Parse(From(at + 3), Shape("typedef"))} :
        /\ at' = p.at
        /\ \/ p.bad # "" /\ Stop(p.bad, posted)
           \/ /\ p.bad = ""
              /\ typedefs' = typedefs \cup {id}
              /\ UNCHANGED <<place, current, names, functions, blocks, label, Going1>>
ParseOuterAssignment ==
    /\ place = "outer" /\ Peek(at).k = "variable"
    /\ \/ IsAssignment(at) /\ Peek(at + 2).k = "global" /\ ParseGlobal(Peek(at).s)
       \/ IsAssignment(at) /\ Peek(at + 2).k \in {"typedef", "uniondef"} /\ ParseTypedef(Peek(at).s)
       \/ /\ ~(IsAssignment(at) /\ Peek(at + 2).k \in Outer)
          /\ at' = AfterName(at) /\ Stop("message", posted)

ParseOuterOther ==
    /\ place = "outer" /\ Peek(at).k \notin {"variable", "fndef", "fndecl"}
    /\ at' = at
    /\ Stop(IF Peek(at).k = "end" THEN "silence" ELSE "message", posted)

----------------------------------------------------------------------------
(* Blocks *)
ParseBlock ==
    /\ place = "blocks" /\ Peek(at).k = "label"
    /\ label' = Peek(at).s
    /\ at' = at + 1
    /\ place' = "block"
    /\ UNCHANGED <<current, names, functions, blocks, typedefs, Going1>>

ParseBlocksEnd ==
    /\ place = "blocks" /\ Peek(at).k # "label"
    /\ \/ /\ Peek(at).k = "}"
          /\ at' = at + 1
          /\ place' = "outer"
          /\ UNCHANGED <<current, names, functions, blocks, label, typedefs, Going1>>
       \/ Peek(at).k # "}" /\ at' = at /\ Stop("message", posted)

\* A label may come twice: it stands for the same block both times.
AddToFunction(b) ==
    functions' = [functions EXCEPT ![Len(functions)].blocks =
                      Append([i \in DOMAIN @ |-> IF @[i].label = b.label THEN b ELSE @[i]], b)]

(* What the checks after the items of an instruction say; a repeated name  *)
(* is an assertion.                                                        *)
TypesAgree(k, got) ==
    CASE k = "write" -> Identical(got[1], got[2].t) /\ Identical(FromOther(got[1], FALSE), got[3].t)
      [] k \in Arithmetic \cup Comparisons -> Identical(got[1], got[2].t) /\ Identical(got[1], got[3].t)
      [] OTHER -> TRUE
FunctionNamed(n) == {i \in DOMAIN functions : functions[i].name = n}
ParsedArguments(k, got) ==
    CASE k = "call" -> got[3]
      [] k \in {"convert", "read"} -> <<got[1]>>
      [] OTHER -> <<got[2], got[3]>>
ParsedType(k, got) == IF k = "convert" THEN got[2] ELSE IF k = "read" THEN got[1].t ELSE NilType
Creation(k, id, got) ==
    CASE ~TypesAgree(k, got) -> "message"
      [] k = "write" /\ ~got[2].t.ptr -> "silence"
      [] k = "convert" /\ IsElem(got[2], "string") -> "dead"
      [] k = "read" /\ ~got[1].t.ptr -> "silence"
      [] k = "call" /\ FunctionNamed(got[1]) = {} -> "dead"
      [] k \in Arithmetic /\ got[2].t.c # "elem" -> "dead"
      [] k # "write" /\ id \in DOMAIN names[current] -> "dead"
      [] OTHER -> ""
CallReturns(k, got) ==
    IF k # "call" THEN NilType
    ELSE functions[CHOOSE i \in FunctionNamed(got[1]) :
                       \A j \in FunctionNamed(got[1]) : i <= j].returns
Created(k, id, got) ==
    IF k = "write" THEN Instr(k, Nil, got[1], <<got[2], got[3]>>, "", 0)
    ELSE Instr(k, Var(id, ValueType(k, ParsedType(k, got), ParsedArguments(k, got), 0,
                                    CallReturns(k, got)), current),
               ParsedType(k, got), ParsedArguments(k, got),
               IF k = "call" THEN got[1] ELSE "",
               IF k = "call" /\ got[2] = "foreign" THEN 1 ELSE 0)

(* An expression of a block.  One after an exit is dropped: the block has  *)
(* ended before.                                                           *)
AddExpression(i) ==
    IF blocks[label].exit # NoExit
    THEN /\ AddToFunction(blocks[label])
         /\ place' = "blocks"
         /\ UNCHANGED blocks
    ELSE /\ blocks' = [blocks EXCEPT ![label].code = Append(@, i)]
         /\ UNCHANGED <<functions, place>>
FinishExpression(p, k, id) ==
    /\ at' = p.at
    /\ \/ p.bad # "" /\ Stop(p.bad, posted)
       \/ p.bad = "" /\ Creation(k, id, p.got) # "" /\ Stop(Creation(k, id, p.got), posted)
       \/ /\ p.bad = "" /\ Creation(k, id, p.got) = ""
          /\ AddExpression(Created(k, id, p.got))
          /\ names' = IF k = "write" THEN names
                      ELSE [names EXCEPT ![current] = (id :> Created(k, id, p.got).val) @@ @]
          /\ UNCHANGED <<current, label, typedefs, Going1>>
ParseAssignment ==
    /\ place = "block" /\ Peek(at).k = "variable"
    /\ \/ /\ IsAssignment(at) /\ Peek(at + 2).k \in Assignable
          /\ \E p \in {Parse(From(at + 3), Shape(Peek(at + 2).k))} :
                FinishExpression(p, Peek(at + 2).k, Peek(at).s)
       \/ /\ ~(IsAssignment(at) /\ Peek(at + 2).k \in Assignable)
          /\ at' = AfterName(at) /\ Stop("message", posted)
ParseWrite ==
    /\ place = "block" /\ Peek(at).k = "write"
    /\ \E p \in {Parse(From(at + 1), Shape("write"))} : FinishExpression(p, "write", "")

(* An exit ends the block.                                                 *)
EndBlockWith(p, exit) ==
    /\ at' = p.at
    /\ blocks' = [blocks EXCEPT ![label].exit = exit]
    /\ AddToFunction([blocks[label] EXCEPT !.exit = exit])
    /\ posted' = (posted \/ p.posted)
    /\ place' = "blocks"
    /\ UNCHANGED <<text, current, names, label, typedefs, ended>>
ReturnItems == IF Peek(at + 2).k = ")" THEN <<Sym("("), Sym(")")>> ELSE Shape("return")
ParsedExit(k) ==
    CASE k # "return" -> Parse(From(at + 1), Shape(k))
      [] Peek(at + 1).k = "(" /\ Peek(at + 2).k = "end" -> Bad(From(at + 2), "dead")
      [] OTHER -> Parse(From(at + 1), ReturnItems)
\* A mutation of ExitOf: the two labels of a condbranch are swapped.
ExitOfSwapped(k, got) ==
    CASE k = "branch" -> Branch(got[1])
      [] k = "condbranch" -> CondBranch(got[1], got[3], got[2])
      [] k = "return" -> Return(IF got = <<>> THEN Nil ELSE got[1])
ExitOf(k, got) ==
    CASE k = "branch" -> Branch(got[1])
      [] k = "condbranch" -> CondBranch(got[1], got[2], got[3])
      [] k = "return" -> Return(IF got = <<>> THEN Nil ELSE got[1])
ParseExit ==
    /\ place = "block" /\ Peek(at).k \in {"branch", "condbranch", "return"}
    /\ \E p \in {ParsedExit(Peek(at).k)} :
        \/ p.bad # "" /\ at' = p.at /\ Stop(p.bad, posted \/ p.posted)
        \/ p.bad = "" /\ EndBlockWith(p, ExitOf(Peek(at).k, p.got))

ParseBlockOther ==
    /\ place = "block"
    /\ Peek(at).k \notin {"variable", "write", "branch", "condbranch", "return"}
    /\ at' = at
    /\ Stop(IF Peek(at).k = "end" THEN "silence" ELSE "message", posted)

ParseStep ==
    \/ ParseFndecl \/ ParseFndef \/ ParseOuterAssignment \/ ParseOuterOther
    \/ ParseBlock \/ ParseBlocksEnd
    \/ ParseAssignment \/ ParseWrite \/ ParseExit \/ ParseBlockOther
=============================================================================
