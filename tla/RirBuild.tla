------------------------------- MODULE RirBuild -------------------------------
(***************************************************************************)
(* How a function of the syntax tree becomes one of the RIR, statement by  *)
(* statement (rir_process.c, rir_binaryop.c, rir_unaryop.c, rir_convert.c, *)
(* rir_call.c, rir_array.c, rir_utils.c and the creation in rir_function.c *)
(* and rir_block.c).                                                       *)
(*                                                                         *)
(* The code threads one rir_ctx through every call; here each operator     *)
(* takes such a context and gives the next one, with the object the code   *)
(* leaves in returned_obj.  if, for and match are those of ControlFlow and *)
(* MatchCases.  The symbols of a block are met in the order of their       *)
(* declarations, that of the code's hash table being any fixed one.        *)
(***************************************************************************)
EXTENDS RirValues

(* The syntax tree after the analysis.  A constant carries the elementary  *)
(* type the RIR gives its kind.                                            *)
Constant(text, e) == [a |-> "const", text |-> text, e |-> e]
String(text) == [a |-> "str", text |-> text]
Name(n) == [a |-> "id", n |-> n]              \* also a declaration of n
Binary(op, l, r) == [a |-> "bin", op |-> op, l |-> l, r |-> r]
Assign(l, r) == [a |-> "asg", l |-> l, r |-> r]
Index(l, r) == [a |-> "idx", l |-> l, r |-> r]
Member(n, m) == [a |-> "mem", n |-> n, m |-> m]
Unary(op, e) == [a |-> "un", op |-> op, e |-> e]
Call(n, ps, args) == [a |-> "call", n |-> n, ps |-> ps, args |-> args]  \* ps: the
                                              \* declared types of the parameters
SumCall(n, s, ps, args) ==  \* s: the parameter, ps: the types of the arguments
    [a |-> "sumcall", n |-> n, s |-> s, ps |-> ps, args |-> args]
Construct(n, ps, args) == [a |-> "ctor", n |-> n, ps |-> ps, args |-> args]
Convert(t, e) == [a |-> "conv", t |-> t, e |-> e]
List(t, es) == [a |-> "list", t |-> t, es |-> es]  \* t: the type of the first member
Returns(e) == [a |-> "ret", e |-> e]

(* A function: args and locals are sequences of [n, t]; the code gives no  *)
(* body to a foreign one.                                                  *)
FunctionNode(name, foreign, args, returns, locals, body) ==
    [name |-> name, foreign |-> foreign, args |-> args, returns |-> returns,
     locals |-> locals, body |-> body]
NoReturn == [s |-> "none"]

----------------------------------------------------------------------------
(* Objects: an expression, an alloca with the type of its memory, a        *)
(* variable (an argument) or a global.                                     *)
NoObject == [cat |-> "none", val |-> Nil]
Object(cat, val) == [cat |-> cat, val |-> val]

(* rir_ctx with the parts of the module that change with it.  state is     *)
(* "ok", "failed" (false up to the top) or "dead" (an assertion or a       *)
(* critical failure).                                                      *)
Context(declared, literals, assign) ==
    [declared |-> declared, literals |-> literals, assign |-> assign, obj |-> NoObject,
     fn |-> "", idx |-> 0, label |-> 0, st |-> [n \in {} |-> NoObject], slot |-> Nil,
     cur |-> "", blocks |-> <<>>, open |-> {}, state |-> "ok"]

Give(c, obj) == [c EXCEPT !.obj = obj]
Fail(c) == [c EXCEPT !.state = "failed", !.obj = NoObject]
Die(c) == [c EXCEPT !.state = "dead", !.obj = NoObject]
Going(c) == c.state = "ok"

(* The blocks of the function that exist: those added to it, in blocks, in *)
(* order, and those created but not added yet, in open.                    *)
OpenBlock(c, label) == CHOOSE b \in c.open : b.label = label
ChangeBlock(c, b) ==
    [c EXCEPT !.blocks = [i \in DOMAIN @ |-> IF @[i].label = b.label THEN b ELSE @[i]],
              !.open = {IF o.label = b.label THEN b ELSE o : o \in @}]
BlockNamed(c, label) ==
    IF \E i \in DOMAIN c.blocks : c.blocks[i].label = label
    THEN c.blocks[CHOOSE i \in DOMAIN c.blocks : c.blocks[i].label = label]
    ELSE OpenBlock(c, label)
CreateBlock(c, label) == [c EXCEPT !.open = @ \cup {Block(label)}, !.cur = label]
AddBlock(c, label) ==
    [c EXCEPT !.blocks = Append(@, OpenBlock(c, label)), !.open = @ \ {OpenBlock(c, label)}]
NewLabel(c) == [CreateBlock(c, LabelName(c.label)) EXCEPT !.label = @ + 1]
SetExit(c, label, exit) == ChangeBlock(c, [BlockNamed(c, label) EXCEPT !.exit = exit])

AddInstr(c, i) == ChangeBlock(c, [BlockNamed(c, c.cur) EXCEPT !.code = Append(@, i)])

(* Which function of the module a call means, its return type and the      *)
(* names of those declared so far: own ones, then those of the first       *)
(* dependency.                                                             *)
IsDeclared(c, n) == \E i \in DOMAIN c.declared : c.declared[i].name = n
Declared(c, n) == c.declared[CHOOSE i \in DOMAIN c.declared :
    c.declared[i].name = n /\ \A j \in 1..(i - 1) : c.declared[j].name # n]

(* An instruction with its value, which takes the next number, added to    *)
(* the current block.                                                      *)
Valued(c, val, op, t, args, name, n) ==
    Give([AddInstr(c, Instr(op, val, t, args, name, n)) EXCEPT !.idx = @ + 1],
         Object(IF op = "alloca" THEN "alloca" ELSE "expr", val))
EmitNumbered(c, op, t, args, name, n) ==
    CASE ~Going(c) -> c
      [] ~HasValue(op) -> Give(AddInstr(c, Instr(op, Nil, t, args, name, n)), Object("expr", Nil))
      [] ~OperandsFit(op, args, n) -> Die(c)
      [] ~ReadsMemory(op, args) -> Fail(c)
      [] OTHER -> Valued(c, Var(VarName(c.idx), ValueType(op, t, args, n, NilType), c.fn),
                         op, t, args, name, n)
Emit(c, op, t, args) == EmitNumbered(c, op, t, args, "", 0)
EmitCall(c, name, args) ==
    CASE ~Going(c) -> c
      [] ~IsDeclared(c, name) -> Die(c)
      [] OTHER -> Valued(c, Var(VarName(c.idx), Declared(c, name).returns, c.fn),
                         "call", NilType, args, name, IF Declared(c, name).plain THEN 1 ELSE 0)
EmitRead(c, val) == Emit(c, "read", val.t, <<val>>)

(* Strings and composites are passed by pointer.                           *)
NoReadRequired(t) == IsElem(t, "string") \/ t.c = "comp"
GetReadValue(c, val) ==
    IF ~Going(c) \/ ~val.t.ptr \/ NoReadRequired(val.t) THEN Give(c, Object("expr", val))
    ELSE EmitRead(c, val)
(* Only an alloca is read; having no object is an assertion.               *)
GetReadObject(c) ==
    CASE ~Going(c) \/ c.obj = NoObject -> Die(c)
      [] c.obj.cat = "alloca" /\ ~NoReadRequired(c.obj.val.t) -> EmitRead(c, c.obj.val)
      [] OTHER -> c

----------------------------------------------------------------------------
(* Conversions.  Only that of a boolean to a string needs blocks: the      *)
(* string is allocated and written in one of two of them.                  *)
AddLiteral(c, text) ==
    Give([c EXCEPT !.literals = IF text \in ToSet(@) THEN @ ELSE Append(@, text)],
         Object("glob", Literal(text)))
RawWrite(c, mem, val) == Emit(c, "write", mem.t, <<mem, val>>)

\* A mutation of WriteIn: the block goes to itself, not to the one after.
WriteInLoop(c, label, mem, text, after) ==
    AddBlock(SetExit(RawWrite(AddLiteral([c EXCEPT !.cur = label], text), mem, Literal(text)),
                     label, Branch(label)), label)
WriteIn(c, label, mem, text, after) ==
    AddBlock(SetExit(RawWrite(AddLiteral([c EXCEPT !.cur = label], text), mem, Literal(text)),
                     label, Branch(after)), label)
BoolBranches(c, from, cond, mem, taken, fallthrough, after) ==
    Give([AddBlock(WriteIn(WriteIn(SetExit(c, from, CondBranch(cond, taken, fallthrough)),
                                   taken, mem, "true", after),
                           fallthrough, mem, "false", after), after) EXCEPT !.cur = after],
         Object("alloca", mem))
BoolToString(c, cond) ==
    BoolBranches(NewLabel(NewLabel(NewLabel(c))), c.cur, cond, c.obj.val,
                 LabelName(c.label), LabelName(c.label + 1), LabelName(c.label + 2))

ConvertTo(c, val, t) ==
    CASE ~Going(c) -> c
      [] ~IsElem(t, "string") -> Emit(c, "convert", t, <<val>>)
      [] val.k = "const" -> AddLiteral(c, val.id)
      [] IsElem(val.t, "bool") ->
           BoolToString(Emit(c, "alloca", Elem("string", FALSE), <<>>), val)
      [] OTHER -> Die(c)
\* A mutation of MaybeConvert: a value of any elementary type fits any other.
MaybeConvertLoose(c, val, t) ==
    IF ~Going(c) \/ val.t.c = t.c THEN Give(c, Object("expr", val))
    ELSE ConvertTo(c, val, FromOther(t, FALSE))
MaybeConvert(c, val, t) ==
    IF ~Going(c) \/ Equal(val.t, t) THEN Give(c, Object("expr", val))
    ELSE ConvertTo(c, val, FromOther(t, FALSE))

(* A write: a value in memory is read first, strings excepted, and         *)
(* converted when its type is not that of the memory.                      *)
FinishWrite(c, mem) == IF Going(c) THEN RawWrite(c, mem, c.obj.val) ELSE c
ConvertAndWrite(c, mem) ==
    CASE ~Going(c) -> c
      [] ~mem.t.ptr -> Fail(c)
      [] OTHER -> FinishWrite(MaybeConvert(c, c.obj.val, mem.t), mem)
Write(c, mem, val) ==
    CASE ~Going(c) -> c
      [] ~IsElem(val.t, "string") /\ val.t.ptr -> ConvertAndWrite(EmitRead(c, val), mem)
      [] OTHER -> ConvertAndWrite(Give(c, Object("expr", val)), mem)

----------------------------------------------------------------------------
(* Binary operations read pointers and convert the larger operand to the   *)
(* type of the smaller one.                                                *)
ReadPointer(c, val) == IF val.t.ptr THEN EmitRead(c, val) ELSE Give(c, Object("expr", val))
Operation(c, op, a, b) == IF Going(c) THEN Emit(c, op, a.t, <<a, b>>) ELSE c
SameTypes(c, op, a, b) ==
    CASE ~Going(c) -> c
      [] Equal(a.t, b.t) -> Operation(c, op, a, b)
      [] ByteSize(a.t) >= ByteSize(b.t) ->
           LET d == ConvertTo(c, a, b.t) IN Operation(d, op, d.obj.val, b)
      [] OTHER -> LET d == ConvertTo(c, b, a.t) IN Operation(d, op, a, d.obj.val)
SecondOperand(c, op, a, b) ==
    IF ~Going(c) THEN c ELSE LET d == ReadPointer(c, b) IN SameTypes(d, op, a, d.obj.val)
BinaryOf(c, op, a, b) ==
    IF ~Going(c) THEN c ELSE LET d == ReadPointer(c, a) IN SecondOperand(d, op, d.obj.val, b)

(* ++ and -- give the new value and write nothing back.                    *)
UnaryOf(c, op) ==
    CASE ~Going(c) -> c
      [] op = "++" -> BinaryOf(c, "add", c.obj.val, Const("1", "i32"))
      [] op = "--" -> BinaryOf(c, "add", c.obj.val, Const("-1", "i32"))
      [] op = "-" -> BinaryOf(c, "mul", c.obj.val, Const("-1", "i32"))

(* The alternative of a sum that the arguments of a constructor or of a    *)
(* call matched: 0 when none does.                                         *)
TypesOf(ps) == [i \in DOMAIN ps |-> FromType(ps[i], "typedesc")]
MatchesMember(t, ts) ==
    CASE t.c = "elem" -> Len(ts) = 1 /\ Equal(t, ts[1])
      [] t.c = "comp" -> IdenticalArrays(ts, MemberTypes(t.n))
MatchedMember(n, ps) ==
    LET matching == {i \in DOMAIN MemberTypes(n) : MatchesMember(MemberTypes(n)[i], TypesOf(ps))}
    IN  IF matching = {} THEN 0 ELSE CHOOSE i \in matching : \A j \in matching : i <= j

MemberIndex(n, m) ==
    CHOOSE i \in DOMAIN Typedefs[n].members : Typedefs[n].members[i].name = m

Lookup(c, n) == IF n \in DOMAIN c.st THEN Give(c, c.st[n]) ELSE Fail(c)

RECURSIVE Process(_, _)
RECURSIVE Arguments(_, _, _, _, _)
RECURSIVE Members(_, _, _, _)
RECURSIVE ListMembers(_, _, _, _)

ProcessRead(c, n) == GetReadObject(Process(c, n))

(* A call converts each argument to the type of its parameter.             *)
TakeArgument(c, name, args, ps, done) ==
    IF ~Going(c) THEN Fail(c)
    ELSE Arguments(c, name, Tail(args), IF Len(ps) = 1 THEN ps ELSE Tail(ps), Append(done, c.obj.val))
ConvertArgument(c, name, args, ps, done) ==
    IF ~Going(c) THEN c
    ELSE TakeArgument(MaybeConvert(c, c.obj.val, FromType(ps[1], "fncall")), name, args, ps, done)
Arguments(c, name, args, ps, done) ==
    IF args = <<>> THEN EmitCall(c, name, done)
    ELSE ConvertArgument(ProcessRead(c, args[1]), name, args, ps, done)

ListMembers(c, t, es, done) ==
    CASE ~Going(c) -> c
      [] es = <<>> -> Emit(c, "fixedarr", t, done)
      [] OTHER ->
           LET d == ProcessRead(c, es[1])
               e == IF Going(d) THEN MaybeConvert(d, d.obj.val, t) ELSE d
           IN  ListMembers(e, t, Tail(es), Append(done, e.obj.val))

(* A constructor writes its arguments to the members of the memory.        *)
WriteArgument(c, mem, val, i) ==
    IF mem.t.c = "comp"
    THEN LET d == EmitNumbered(c, "objmemberat", mem.t, <<mem>>, "", i) IN Write(d, d.obj.val, val)
    ELSE IF i = 1 THEN Write(c, mem, val) ELSE Die(c)
Members(c, mem, args, i) ==
    IF ~Going(c) \/ i > Len(args) THEN c
    ELSE LET d == ProcessRead(c, args[i])
         IN  Members(IF Going(d) THEN WriteArgument(d, mem, d.obj.val, i) ELSE d, mem, args, i + 1)

SetUnion(c, mem, k) ==
    EmitNumbered(EmitNumbered(c, "setunionidx", mem.t, <<mem>>, "", k),
                 "unionmemberat", mem.t, <<mem>>, "", k)
Populate(c, mem, n, ps, args) ==
    CASE ~Going(c) -> c
      [] ~Typedefs[n].union -> Members(c, mem, args, 1)
      [] mem.t.c # "comp" -> Die(c)
      [] MatchedMember(mem.t.n, ps) = 0 -> Fail(c)
      [] OTHER -> LET d == SetUnion(c, mem, MatchedMember(mem.t.n, ps))
                  IN  Members(d, d.obj.val, args, 1)

(* The memory is that of the last assignment, if there is one, and else    *)
(* its own.  The object given back is then the last one made before.       *)
Constructed(c, obj) == IF Going(c) THEN Give(c, obj) ELSE c
ConstructAt(c, mem, obj, n) == Constructed(Populate(c, mem, n.n, n.ps, n.args), obj)
ConstructorCall(c, n) ==
    IF c.assign # NoObject THEN ConstructAt(c, c.assign.val, c.obj, n)
    ELSE LET d == Emit(c, "alloca", FromType(Defined(n.n), "alloca"), <<>>)
         IN  ConstructAt(d, d.obj.val, d.obj, n)

(* A call with a sum parameter passes memory with the matched alternative. *)
SumArgument(c, mem, n) ==
    LET d == Populate(c, mem, n.s.n, n.ps, n.args)
    IN  IF Going(d) THEN EmitCall(d, n.n, <<mem>>) ELSE d
SumCallOf(c, n) ==
    LET d == Emit(c, "alloca", FromType(n.s, "sumcall"), <<>>) IN SumArgument(d, d.obj.val, n)

(* An assignment from a constructor ends before last_assign_obj is reset.  *)
EndAssign(c) == [c EXCEPT !.assign = NoObject]
Preprocessed(n) == n.a = "ctor"
Store(c, mem) == IF Going(c) THEN Write(c, mem, c.obj.val) ELSE c
AssignFrom(c, mem, n) ==
    CASE ~Going(c) \/ c.obj = NoObject -> EndAssign(IF Going(c) THEN Fail(c) ELSE c)
      [] Preprocessed(n.r) -> Give(c, NoObject)
      [] OTHER -> EndAssign(Store(GetReadValue(c, c.obj.val), mem))
AssignTo(c, n) ==
    IF ~Going(c) THEN EndAssign(c)
    ELSE AssignFrom(Process([c EXCEPT !.assign = c.obj], n.r), c.obj.val, n)

Operands(c, a, n) ==
    CASE ~Going(c) \/ c.obj = NoObject -> EndAssign(IF Going(c) THEN Fail(c) ELSE c)
      [] n.a = "idx" -> EndAssign(Emit(c, "objidx", a.t, <<a, c.obj.val>>))
      [] OTHER -> EndAssign(BinaryOf(c, n.op, a, c.obj.val))
TwoOperands(c, n) ==
    IF ~Going(c) \/ c.obj = NoObject THEN EndAssign(IF Going(c) THEN Fail(c) ELSE c)
    ELSE Operands(Process(c, n.r), c.obj.val, n)

MemberAccess(c, n) ==
    IF ~Going(c) THEN c
    ELSE EmitNumbered(c, "objmemberat", c.obj.val.t, <<c.obj.val>>, "",
                      MemberIndex(c.obj.val.t.n, n.m))

(* A return writes the slot and leaves for the end of the function.        *)
LeaveFunction(c) ==
    IF Going(c) THEN Give(SetExit(c, c.cur, Branch("function_end")), NoObject) ELSE c
ReturnValue(c) ==
    CASE ~Going(c) -> c
      [] c.obj = NoObject -> Die(c)
      [] c.slot = Nil -> Fail(c)
      [] OTHER -> LeaveFunction(Write(c, c.slot, c.obj.val))

Process(c, n) ==
    CASE ~Going(c) -> c
      [] n.a = "const" -> Give(c, Object("expr", Const(n.text, n.e)))
      [] n.a = "str" -> Give(c, Object("glob", Literal(n.text)))
      [] n.a = "id" -> Lookup(c, n.n)
      [] n.a = "asg" -> AssignTo(Process(c, n.l), n)
      [] n.a \in {"bin", "idx"} -> TwoOperands(Process(c, n.l), n)
      [] n.a = "mem" -> MemberAccess(Lookup(c, n.n), n)
      [] n.a = "un" -> UnaryOf(ProcessRead(c, n.e), n.op)
      [] n.a = "call" -> Arguments(c, n.n, n.args, n.ps, <<>>)
      [] n.a = "sumcall" -> SumCallOf(c, n)
      [] n.a = "ctor" -> ConstructorCall(c, n)
      [] n.a = "conv" ->
           LET d == ProcessRead(c, n.e)
           IN  IF Going(d) THEN ConvertTo(d, d.obj.val, FromType(n.t, "conversion")) ELSE d
      [] n.a = "list" -> ListMembers(c, FromType(n.t, "fixedarr"), n.es, <<>>)
      [] n.a = "ret" -> ReturnValue(Process(c, n.e))

----------------------------------------------------------------------------
(* A function: its arguments take the first numbers, its return slot the   *)
(* next one.  The block that ends it is made before its body and added     *)
(* after it.                                                               *)
AddArgument(c, arg, t) ==
    [c EXCEPT !.idx = @ + 1, !.st = (arg.n :> Object("var", Var(VarName(c.idx), t, c.fn))) @@ @]
ArgumentType(arg) == IF arg.t.s = "op" THEN Comp(arg.t.n, TRUE) ELSE FromType(arg.t, "arguments")
ArgumentTypes(node) == [i \in DOMAIN node.args |-> ArgumentType(node.args[i])]
ReturnType(node) == IF node.returns = NoReturn THEN NilType ELSE FromType(node.returns, "returns")

Enter(c, node) ==
    FoldLeft(LAMBDA d, arg : AddArgument(d, arg, ArgumentType(arg)),
             [c EXCEPT !.fn = node.name, !.idx = 0, !.label = 0, !.slot = Nil,
                       !.st = [n \in {} |-> NoObject], !.blocks = <<>>, !.open = {}],
             node.args)

ReturnSlot(c, node) ==
    IF node.returns = NoReturn THEN c
    ELSE [c EXCEPT !.idx = @ + 1,
                   !.slot = Var(VarName(c.idx), FromOther(ReturnType(node), TRUE), c.fn)]

EndBlock(c) ==
    CASE c.slot = Nil -> SetExit(c, c.cur, Return(Nil))
      [] c.slot.t.c = "comp" -> SetExit(c, c.cur, Return(c.slot))
      [] OTHER -> LET d == EmitRead(c, c.slot) IN SetExit(d, d.cur, Return(d.obj.val))

AddLocal(c, local) ==
    LET d == Emit(c, "alloca", FromType(local.t, "alloca"), <<>>)
    IN  [Give(d, c.obj) EXCEPT !.st = (local.n :> d.obj) @@ @]
StartBody(c, node) ==
    FoldLeft(AddLocal, AddBlock(CreateBlock(c, "function_start"), "function_start"), node.locals)
Body(c, node) == FoldLeft(Process, StartBody(c, node), node.body)

ConnectFirst(c) ==
    IF BlockNamed(c, "function_start").exit = NoExit
    THEN SetExit(c, "function_start", Branch("function_end")) ELSE c
Leave(c, node) ==
    IF ~Going(c) THEN c
    ELSE LET d == AddBlock(ConnectFirst(c), "function_end")
         IN  [d EXCEPT !.declared = Append(@, Function(node.name, FALSE, ArgumentTypes(node),
                                                       ReturnType(node), d.blocks))]

Create(c, node) ==
    IF node.foreign
    THEN [c EXCEPT !.declared = Append(@, Function(node.name, TRUE, ArgumentTypes(node),
                                                   ReturnType(node), <<>>))]
    ELSE Leave(Body(EndBlock(CreateBlock(ReturnSlot(Enter(c, node), node), "function_end")),
                    node), node)
=============================================================================
