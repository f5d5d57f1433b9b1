----------------------------- MODULE RirRoundTrip -----------------------------
(***************************************************************************)
(* A module on its way through the RIR: its functions are created one      *)
(* after the other (rir_process_do), its text is printed (rir_print) and,  *)
(* as a file given with --rir, parsed again (rir_parse).  The file may     *)
(* also have been written by hand, and any one of its tokens may be        *)
(* missing.                                                                *)
(***************************************************************************)
EXTENDS RirBuild, RirParser

(* A program is the work of the compiler on a syntax tree, a sequence of   *)
(* function nodes, or a file written by hand, a sequence of functions of   *)
(* the RIR.  Both come with the texts of their literals and the names of   *)
(* the types to define.                                                    *)
CONSTANT Programs  \* a sequence of [written, literals, typedefs, functions]

VARIABLES
    program,   \* the one at hand
    context,   \* what the creation of the RIR has got to
    missing    \* the index of the token the file lacks, 0 when none

rvars == <<program, context, missing, pvars>>

TheProgram == Programs[program]

(* rir_process_do makes the literals "true" and "false" first.             *)
FirstContext(p) ==
    Context(IF p.written THEN p.functions ELSE <<>>,
            IF p.written THEN p.literals ELSE <<"true", "false">> \o p.literals, NoObject)

RirInit ==
    /\ program \in DOMAIN Programs
    /\ context = FirstContext(TheProgram)
    /\ missing = 0
    /\ IdleParser

ToCreate == Len(context.declared) < Len(TheProgram.functions)

CreateFunction ==
    /\ place = "idle" /\ Going(context) /\ ToCreate
    /\ context' = Create(context, TheProgram.functions[Len(context.declared) + 1])
    /\ UNCHANGED <<program, missing, pvars>>

Printed == ModuleTokens(context.literals, TheProgram.typedefs, context.declared)

PrintModule ==
    /\ place = "idle" /\ Going(context) /\ ~ToCreate
    /\ \/ /\ ~Printable(context.declared)
          /\ context' = Die(context)
          /\ UNCHANGED <<program, missing, pvars>>
       \/ /\ Printable(context.declared)
          /\ \E tokens \in {Printed} :
                /\ missing' \in 0..Len(tokens)
                /\ StartParser(IF missing' = 0 THEN tokens ELSE RemoveAt(tokens, missing'))
          /\ UNCHANGED <<program, context>>

ParseFile == ParseStep /\ UNCHANGED <<program, context, missing>>

Done ==
    /\ ended # "" \/ ~Going(context)
    /\ UNCHANGED rvars

RirNext == CreateFunction \/ PrintModule \/ ParseFile \/ Done

RirSpec == RirInit /\ [][RirNext]_rvars

----------------------------------------------------------------------------
(* Properties *)

\* The types of the state.
RirTypeOK ==
    /\ program \in DOMAIN Programs
    /\ context.state \in {"ok", "failed", "dead"}
    /\ place \in {"idle", "outer", "blocks", "block", "stopped"}
    /\ at \in 1..(Len(text) + 1)
    /\ ended \in {"", "accepted", "refused", "dead"}
    /\ place = "stopped" <=> ended # ""
    /\ current \in DOMAIN names
    /\ \A i \in DOMAIN functions : functions[i].plain => functions[i].blocks = <<>>

Built == IF TheProgram.written THEN <<>> ELSE context.declared
AllCode(f) == Concat([j \in DOMAIN f.blocks |-> f.blocks[j].code])
Callee(i) == context.declared[CHOOSE j \in DOMAIN context.declared :
                                 context.declared[j].name = i.name]

(* Whatever conversions an expression needs have been made: a write stores *)
(* a value of the memory's type, the operands of an operation agree, a     *)
(* call passes what the function declares (rir_call.c, rir_binaryop.c,     *)
(* rir_utils.c) and a function returns what it says.                       *)
WellTyped(i) ==
    /\ i.op = "write" => i.args[1].t.ptr /\ Equal(i.args[1].t, i.args[2].t)
    /\ i.op \in Arithmetic \cup Comparisons => Equal(i.args[1].t, i.args[2].t)
    /\ i.op = "call" =>
          /\ Len(i.args) = Len(Callee(i).args)
          /\ \A j \in DOMAIN i.args : Equal(i.args[j].t, Callee(i).args[j])
    /\ i.op \in {"setunionidx", "unionmemberat"} => IsUnion(i.args[1].t)
ExitFits(f, e) ==
    CASE e.x = "condbranch" -> IsElem(e.val.t, "bool")
      [] e.x = "return" /\ e.val # Nil -> Equal(e.val.t, f.returns)
      [] e.x = "return" -> f.returns = NilType
      [] OTHER -> TRUE
BuiltIsWellTyped ==
    place = "idle" =>
        \A k \in DOMAIN Built :
            /\ \A i \in ToSet(AllCode(Built[k])) : WellTyped(i)
            /\ \A j \in DOMAIN Built[k].blocks : ExitFits(Built[k], Built[k].blocks[j].exit)

(* The numbers a function gives its values as it is built, the end of the  *)
(* function first, fit the order its blocks are printed in: each value is  *)
(* defined once, and used only after its definition and in its own         *)
(* function (rir_function.c, rir_ctx's expression_idx).                    *)
Header(f) ==
    {VarName(j - 1) : j \in 1..(Len(f.args) + IF f.returns = NilType THEN 0 ELSE 1)}
Defines(i) == IF i.val = Nil THEN {} ELSE {i.val.id}
Uses(vals) == {x \in ToSet(vals) : x.k = "var"}
UsesAre(f, vals, known) == \A x \in Uses(vals) : x.fn = f.name /\ x.id \in known
DefinedBefore(f, code, n) == Header(f) \cup UNION {Defines(code[m]) : m \in 1..(n - 1)}
BuiltIsInOrder ==
    place = "idle" =>
        \A k \in DOMAIN Built :
            \E code \in {AllCode(Built[k])} :
                /\ \A n \in DOMAIN code :
                      /\ UsesAre(Built[k], code[n].args, DefinedBefore(Built[k], code, n))
                      /\ Defines(code[n]) \cap DefinedBefore(Built[k], code, n) = {}
                /\ \A j \in DOMAIN Built[k].blocks :
                      UsesAre(Built[k], <<Built[k].blocks[j].exit.val>>,
                              DefinedBefore(Built[k], code, Len(code) + 1))

(* In a module that can be printed, the labels that an exit names are      *)
(* those of blocks of the function, and every block but the first is       *)
(* reached from another (rir_block.c, rir_convert.c).                      *)
Labels(f) == {f.blocks[j].label : j \in DOMAIN f.blocks}
BuiltIsConnected ==
    place = "idle" /\ Printable(context.declared) =>
        \A k \in DOMAIN Built :
            \E f \in {Built[k]} :
                /\ \A j \in DOMAIN f.blocks : ToSet(f.blocks[j].exit.to) \subseteq Labels(f)
                /\ \A j \in DOMAIN f.blocks \ {1} :
                      \E m \in DOMAIN f.blocks : f.blocks[j].label \in ToSet(f.blocks[m].exit.to)

(* The functions that are built can be run: each value is there before it  *)
(* is used and each block leads on to one of the same function.            *)
BuiltInv == RirTypeOK /\ BuiltIsInOrder /\ BuiltIsConnected

(* What the parser accepts to the end of the file it has understood: the   *)
(* module it made prints as the text it read, but for an empty list of     *)
(* arguments without its "nil" and a comma before a call's parenthesis.    *)
(* A label that comes twice is not told from one block.                    *)
FunctionPart(tokens) ==
    LET first == SelectInSeq(tokens, LAMBDA t : t.k \in {"fndef", "fndecl"})
    IN  IF first = 0 THEN <<>> ELSE SubSeq(tokens, first, Len(tokens))
Same(back, given) ==
    \/ back = given
    \/ \E i \in DOMAIN back : back[i] = Word("nil") /\ RemoveAt(back, i) = given
    \/ \E i \in DOMAIN given : given[i] = Key(",") /\ RemoveAt(given, i) = back
ReadFunctions == Concat([i \in DOMAIN functions |-> FunctionTokens(functions[i])])
LabelsDiffer(f) == Cardinality(Labels(f)) = Len(f.blocks)
AcceptedReadsBack ==
    ended = "accepted" /\ at > Len(text) /\ (\A i \in DOMAIN functions : LabelsDiffer(functions[i])) =>
        Same(ReadFunctions, FunctionPart(text))

(* A module of nothing but what the parser knows, whose first function is  *)
(* the only one with arguments, is accepted as it was printed.             *)
Parsed(i) ==
    /\ i.op \in Assignable \cup {"write"}
    /\ i.op = "call" => i.args # <<>>
    /\ \A x \in ToSet(i.args) : x.k = "const" => x.t.e = "i64"
IsFirstBody(k) == \A j \in 1..(k - 1) : context.declared[j].plain
PlainIsAccepted ==
    (/\ ended # "" /\ missing = 0 /\ ~TheProgram.written
     /\ \A k \in DOMAIN context.declared :
           /\ \A i \in ToSet(AllCode(context.declared[k])) : Parsed(i)
           /\ context.declared[k].plain \/ context.declared[k].args = <<>> \/ IsFirstBody(k))
    => ended = "accepted" /\ at > Len(text)

(* Whatever a function that was read uses is a value of that function: the *)
(* first N arguments are its own $0, $1, ... $N-1 (rir_function.c).        *)
ParsedValuesAreOwn ==
    \A i \in DOMAIN functions : \A e \in ToSet(AllCode(functions[i])) :
        \A x \in Uses(e.args) : x.fn = functions[i].name

=============================================================================
