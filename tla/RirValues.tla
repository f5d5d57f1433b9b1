------------------------------ MODULE RirValues ------------------------------
(***************************************************************************)
(* The data of the intermediate representation (RIR): its types and what   *)
(* makes two of them equal (rir_type.c, rir_typedef.c), values             *)
(* (rir_value.c), instructions (rir_expression.c), blocks with their exits *)
(* (rir_block.c, rir_branch.c) and functions (rir_function.c).             *)
(*                                                                         *)
(* A value is named as the text of the RIR names it.  A variable also      *)
(* carries the function whose map it was added to, which no text shows but *)
(* every pointer to a value means.                                         *)
(***************************************************************************)
EXTENDS Integers, Sequences, SequencesExt

CONSTANT Typedefs  \* name -> [union, members]: the defined and the sum types of
                   \* the module; a member has a name and a source type

----------------------------------------------------------------------------
(* Source types: elementary, a defined type, a sum type and an array.      *)
Elementary(e) == [s |-> "elem", e |-> e]
Defined(n) == [s |-> "def", n |-> n]
Operator(n) == [s |-> "op", n |-> n]
ArrayOf(t, size) == [s |-> "arr", of |-> t, size |-> size]

(* RIR types *)
Elem(e, ptr) == [c |-> "elem", e |-> e, ptr |-> ptr]
Comp(n, ptr) == [c |-> "comp", n |-> n, ptr |-> ptr]
Arr(t, size, ptr) == [c |-> "arr", of |-> t, size |-> size, ptr |-> ptr]

NilType == Elem("nil", FALSE)

IsElem(t, e) == t.c = "elem" /\ t.e = e
FromOther(t, ptr) == [t EXCEPT !.ptr = ptr]

(* A string is a pointer unless it is memory to allocate or a member; a    *)
(* defined type is one unless it is memory to allocate.                    *)
RECURSIVE FromType(_, _)
FromType(t, loc) ==
    CASE t.s = "elem" -> Elem(t.e, t.e = "string" /\ loc \notin {"alloca", "typedesc"})
      [] t.s = "def" -> Comp(t.n, loc # "alloca")
      [] t.s = "op" -> Comp(t.n, FALSE)
      [] t.s = "arr" -> Arr(FromType(t.of, "fixedarr"), t.size, FALSE)

MemberTypes(n) ==
    [i \in DOMAIN Typedefs[n].members |-> FromType(Typedefs[n].members[i].type, "typedesc")]

IsUnion(t) == t.c = "comp" /\ Typedefs[t.n].union

(* Equal types may differ in being pointers.  Typedefs are equal by name.  *)
RECURSIVE Equal(_, _)
Equal(t, u) ==
    /\ t.c = u.c
    /\ CASE t.c = "elem" -> t.e = u.e
         [] t.c = "comp" -> t.n = u.n
         [] t.c = "arr" -> Equal(t.of, u.of) /\ t.size = u.size

Identical(t, u) == t.ptr = u.ptr /\ Equal(t, u)

IdenticalArrays(ts, us) ==
    Len(ts) = Len(us) /\ \A i \in DOMAIN ts : Identical(ts[i], us[i])

(* The size two operands of an operation are compared by.  A string has no *)
(* size: the -1 it gets is the largest of the unsigned ones.  Operands of  *)
(* another category never reach an operation.                              *)
ByteSize(t) ==
    CASE t.e \in {"i8", "u8", "bool"} -> 1
      [] t.e \in {"i32", "u32", "f32"} -> 4
      [] t.e \in {"i64", "u64", "f64"} -> 8
      [] t.e = "nil" -> 0
      [] t.e = "string" -> 2^30

----------------------------------------------------------------------------
(* Values.  Two literals with the same text are the same global.           *)
Nil == [k |-> "nil"]
Const(text, e) == [k |-> "const", id |-> text, t |-> Elem(e, FALSE)]
Literal(text) == [k |-> "lit", id |-> "$gstr_" \o text, t |-> Elem("string", FALSE), text |-> text]
Var(id, t, fn) == [k |-> "var", id |-> id, t |-> t, fn |-> fn]

VarName(n) == "$" \o ToString(n)
LabelName(n) == "label_" \o ToString(n)

(* Instructions: the operation, its value, the type it names, its          *)
(* operands, the function it calls and a number: the index of a member, or *)
(* 1 when the called function is foreign.                                  *)
Instr(op, val, t, args, name, n) ==
    [op |-> op, val |-> val, t |-> t, args |-> args, name |-> name, n |-> n]

Arithmetic == {"add", "sub", "mul", "div"}
Comparisons == {"cmpeq", "cmpne", "cmpgt", "cmpge", "cmplt", "cmple"}

(* The type of the value an instruction makes; returns is that of a called *)
(* function.                                                               *)
ValueType(op, t, args, n, returns) ==
    CASE op = "convert" -> FromOther(t, FALSE)
      [] op = "alloca" -> FromOther(t, TRUE)
      [] op \in Comparisons -> Elem("bool", FALSE)
      [] op = "getunionidx" -> Elem("i64", FALSE)
      [] op = "read" -> FromOther(args[1].t, FALSE)
      [] op = "call" -> returns
      [] op = "fixedarr" -> Arr(t, Len(args), FALSE)
      [] op \in Arithmetic -> Elem(args[1].t.e, FALSE)
      [] op \in {"objmemberat", "unionmemberat"} ->
           FromOther(MemberTypes(args[1].t.n)[n], TRUE)
      [] op = "objidx" -> FromOther(args[1].t.of, FALSE)

(* What the value's initialisation demands of the operands: "read" of a    *)
(* location not in memory fails, the others are assertions.                *)
ReadsMemory(op, args) == op = "read" => args[1].t.ptr
OperandsFit(op, args, n) ==
    /\ op \in Arithmetic => args[1].t.c = "elem"
    /\ op \in {"objmemberat", "unionmemberat"} =>
          args[1].t.c = "comp" /\ n \in DOMAIN Typedefs[args[1].t.n].members
    /\ op = "objidx" => args[1].t.c = "arr"

HasValue(op) == op \notin {"write", "setunionidx"}

(* Blocks and their exits; an exit no one initialised is "invalid".        *)
NoExit == [x |-> "invalid", val |-> Nil, to |-> <<>>]
Branch(label) == [x |-> "branch", val |-> Nil, to |-> <<label>>]
CondBranch(val, taken, fallthrough) ==
    [x |-> "condbranch", val |-> val, to |-> <<taken, fallthrough>>]
Return(val) == [x |-> "return", val |-> val, to |-> <<>>]

Block(label) == [label |-> label, code |-> <<>>, exit |-> NoExit]

(* Functions; a plain declaration has no blocks.                           *)
Function(name, plain, args, returns, blocks) ==
    [name |-> name, plain |-> plain, args |-> args, returns |-> returns, blocks |-> blocks]
=============================================================================
