------------------------------ MODULE Compiler ------------------------------
(***************************************************************************)
(* compiler_pass_args() and compiler_process() of src/compiler.c: one run  *)
(* of the refu compiler over the files of a command line, from the list of *)
(* fronts to the module that is written out.  The import walk is that of   *)
(* ModuleSort; the other phases walk a list with the index `at'.           *)
(*                                                                         *)
(* A source file is the sequence of its outermost statements and how it    *)
(* ends.  Of a statement the model keeps what the phases look at: the name *)
(* and body of a module, the names of an import, and of a function its     *)
(* name, whether it is a foreign declaration, the calls it makes, and      *)
(* whether it passes or returns the empty list, which has no type.         *)
(***************************************************************************)
EXTENDS ModuleSort, SequencesExt

CONSTANTS
    CommandLines,  \* the command lines: inputs, in order, and the print flag
    Stdlib         \* the file stdlib/io.rf

VARIABLES
    job,        \* the command line of this run
    added,      \* how many of its inputs have a front already
    fronts,     \* compiler.front_ctxs, the head of the list first
    phase,      \* the call compiler_process() is in, or its result
    at,         \* the position in the list that the phase walks over
    msgs,       \* the fronts whose info_ctx holds an error message
    modules,    \* compiler.modules: the front and the statement of each, 0
                \* for a module that is a whole file
    mainFront,  \* compiler.main_front, 0 for none
    scopes,     \* per front, the module names in the root symbol table
    passed,     \* the statements that went through the first pass
    symbols,    \* per module, the functions found through its symbol table
    rirs,       \* per module: "none", "created" or "processed"
    linkSource, \* the module LLVM links into the others, 0 for none
    emitted,    \* the module generated last, whose LLVM code is written out
    fault       \* the assertion that failed, "none" if none did

compVars == <<job, added, fronts, phase, at, msgs, modules, mainFront, scopes,
              passed, symbols, rirs, linkSource, emitted, fault>>
allVars == <<sortVars, compVars>>

Main == "main"
StdlibName == "stdlib"

IsSeq(s) == s \in Seq(Range(s))

IsStatement(s) ==
    /\ s.is \in {"import", "fn"}
    /\ s.is = "import" => IsSeq(s.names)

(* What the parser hands over.  The statements of RIR input are not kept.  *)
IsFile(file) ==
    /\ file.lang \in {"ast", "rir"}
    /\ IsSeq(file.items)
    /\ file.lang = "rir" => file.items = <<>>
    /\ \A i \in DOMAIN file.items :
           \/ IsStatement(file.items[i])
           \/ /\ file.items[i].is = "module"
              /\ IsSeq(file.items[i].body)
              /\ \A s \in Range(file.items[i].body) : IsStatement(s)

ASSUME InputsAreFiles ==
    \A line \in CommandLines :
        /\ IsSeq(line.inputs)
        /\ \A file \in Range(line.inputs) : IsFile(file)

(* stdlib/io.rf holds one module.                                          *)
ASSUME StdlibIsOneModule ==
    /\ IsFile(Stdlib) /\ Stdlib.tail = "eof"
    /\ Len(Stdlib.items) = 1
    /\ Stdlib.items[1].is = "module"
    /\ Stdlib.items[1].name = StdlibName

(* The fields of a module of compiler.modules.                             *)
FileOf(m) == fronts[modules[m].front]
FromRir(m) == FileOf(m).lang = "rir"
IsRoot(m) == modules[m].item = 0
Name(m) == IF IsRoot(m) THEN Main ELSE FileOf(m).items[modules[m].item].name

ModuleItems(file) ==
    {i \in DOMAIN file.items : file.items[i].is = "module"}

(* The statements of a file in the order of a pre-order traversal.         *)
Flat(file) ==
    FlattenSeq([i \in DOMAIN file.items |->
        IF file.items[i].is = "module" THEN file.items[i].body
                                       ELSE <<file.items[i]>>])

(* The statements a traversal of the module's node comes by, and those     *)
(* that are children of the node.                                          *)
Nodes(m) == IF IsRoot(m) THEN Flat(FileOf(m))
                         ELSE FileOf(m).items[modules[m].item].body
Children(m) == IF IsRoot(m) THEN FileOf(m).items ELSE Nodes(m)

(* The positions of the functions among the statements.                    *)
FnsOf(stmts) == {k \in DOMAIN stmts : stmts[k].is = "fn"}
FnNames(stmts) == {stmts[k].name : k \in FnsOf(stmts)}

ToFailed == phase' = "failed" /\ UNCHANGED at
ToAborted(assertion) ==
    phase' = "aborted" /\ fault' = assertion /\ UNCHANGED at

(* The walk over a list of n goes on, or the phase `next' begins.          *)
Step(n, next) ==
    IF at < n THEN at' = at + 1 /\ UNCHANGED phase
              ELSE at' = 1 /\ phase' = next

-----------------------------------------------------------------------------
(* The fronts.                                                             *)

(* A mutation of Listed: the list grows at its tail.                       *)
ListedLast(file) == Append(fronts, file)

(* rf_ilist_add of a new front.                                            *)
Listed(file) == <<file>> \o fronts

(* compiler_pass_args() adds the input files one by one.                   *)
AddInput ==
    /\ phase = "args" /\ added < Len(job.inputs)
    /\ fronts' = Listed(job.inputs[added + 1])
    /\ added' = added + 1
    /\ UNCHANGED <<sortVars, job, phase, at, msgs, modules, mainFront, scopes,
                   passed, symbols, rirs, linkSource, emitted, fault>>

(* compiler_process() adds the standard library after them.                *)
AddStdlib ==
    /\ phase = "args" /\ added = Len(job.inputs)
    /\ fronts' = Listed(Stdlib)
    /\ scopes' = [f \in 1..(added + 1) |-> {}]
    /\ phase' = "parse" /\ at' = 1
    /\ UNCHANGED <<sortVars, job, added, msgs, modules, mainFront, passed,
                   symbols, rirs, linkSource, emitted, fault>>

-----------------------------------------------------------------------------
(* Parsing.                                                                *)

HasMain(file) ==
    file.lang = "rir" \/ Main \in FnNames(Flat(file))

(* The k-th module statement of a file.                                    *)
ModuleAt(file, k) ==
    CHOOSE i \in ModuleItems(file) :
        Cardinality({j \in ModuleItems(file) : j < i}) = k - 1

NewModules(f) ==
    [k \in 1..Cardinality(ModuleItems(fronts[f])) |->
        [front |-> f, item |-> ModuleAt(fronts[f], k)]]
RootModule(f) == <<[front |-> f, item |-> 0]>>

(* The modules grow by these; a RIR module has its RIR from the parser.    *)
Create(new) ==
    /\ modules' = modules \o new
    /\ deps' = deps \o [k \in DOMAIN new |-> <<>>]
    /\ symbols' = symbols \o [k \in DOMAIN new |-> {}]
    /\ rirs' = rirs \o [k \in DOMAIN new |->
                  IF fronts[new[k].front].lang = "rir" THEN "created"
                                                       ELSE "none"]

ParseUnchanged ==
    UNCHANGED <<sortpc, marks, scan, found, stack, sorted, offender, job, added,
                fronts, scopes, passed, linkSource, emitted, fault>>

(* The statements that parse are taken, their modules created on the way,  *)
(* and what is left over is reported.                                      *)
ParseJunk ==
    /\ phase = "parse" /\ fronts[at].tail = "junk"
    /\ Create(NewModules(at))
    /\ msgs' = msgs \cup {at}
    /\ ToFailed
    /\ ParseUnchanged /\ UNCHANGED mainFront

(* The word `module' alone at the end of a file is consumed: its error is  *)
(* recorded, but nothing is left over.                                     *)
LoneMessage == IF fronts[at].tail = "lone" THEN {at} ELSE {}

ParseLibrary ==
    /\ phase = "parse" /\ fronts[at].tail # "junk"
    /\ ~HasMain(fronts[at])
    /\ Create(NewModules(at))
    /\ msgs' = msgs \cup LoneMessage
    /\ Step(Len(fronts), "names")
    /\ ParseUnchanged /\ UNCHANGED mainFront

(* ast_parser_finalize_parsing() found main(): the file becomes the main   *)
(* module, after the modules inside it.                                    *)
ParseMain ==
    /\ phase = "parse" /\ fronts[at].tail # "junk"
    /\ HasMain(fronts[at]) /\ mainFront = 0
    /\ Create(NewModules(at) \o RootModule(at))
    /\ mainFront' = at
    /\ msgs' = msgs \cup LoneMessage
    /\ Step(Len(fronts), "names")
    /\ ParseUnchanged

(* compiler_set_main() has a main front already.                           *)
ParseSecondMain ==
    /\ phase = "parse" /\ fronts[at].tail # "junk"
    /\ HasMain(fronts[at]) /\ mainFront # 0
    /\ Create(NewModules(at))
    /\ msgs' = msgs \cup {at}
    /\ ToFailed
    /\ ParseUnchanged /\ UNCHANGED mainFront

ParseFront == ParseJunk \/ ParseLibrary \/ ParseMain \/ ParseSecondMain

-----------------------------------------------------------------------------
(* Names and imports, module by module in the order of their creation.     *)

(* The name is in the set of names already.                                *)
NameTaken == \E k \in 1..(at - 1) : Name(k) = Name(at)

ImportNames(m) ==
    IF FromRir(m) THEN <<>>
    ELSE FlattenSeq([k \in DOMAIN Nodes(m) |->
            IF Nodes(m)[k].is = "import" THEN Nodes(m)[k].names ELSE <<>>])

(* compiler_module_get: the first module of the name.                      *)
Known(name) == \E k \in Mods : Name(k) = name
ModuleGet(name) ==
    CHOOSE k \in Mods :
        Name(k) = name /\ \A j \in 1..(k - 1) : Name(j) # name

(* The main module gets the standard library as its last dependency.       *)
StdlibImport(m) == IF Name(m) = Main THEN <<StdlibName>> ELSE <<>>

Dependencies(m) ==
    [k \in 1..Len(ImportNames(m) \o StdlibImport(m)) |->
        ModuleGet((ImportNames(m) \o StdlibImport(m))[k])]

MissingImport(m) == \E k \in DOMAIN ImportNames(m) : ~Known(ImportNames(m)[k])

NamesUnchanged ==
    UNCHANGED <<sortpc, marks, scan, found, stack, sorted, offender, job, added,
                fronts, modules, mainFront, scopes, passed, symbols, rirs,
                linkSource, emitted, fault>>

(* The module is refused, for its name or for an import nobody declares.   *)
RefuseName ==
    /\ phase = "names"
    /\ NameTaken \/ MissingImport(at)
    /\ msgs' = msgs \cup {modules[at].front}
    /\ ToFailed
    /\ NamesUnchanged /\ UNCHANGED deps

ResolveName ==
    /\ phase = "names"
    /\ ~NameTaken /\ ~MissingImport(at)
    /\ deps' = [deps EXCEPT ![at] = Dependencies(at)]
    /\ Step(N, "resolve")
    /\ NamesUnchanged /\ UNCHANGED msgs

(* compiler_resolve_dependencies(), one step of the walk of ModuleSort.    *)
ResolveImports ==
    /\ phase = "resolve"
    /\ BeginResolve \/ Resolve
    /\ phase' = CASE sortpc' = "sorted" -> "analyze"
                  [] sortpc' = "cyclic" -> "failed"
                  [] OTHER -> phase
    /\ msgs' = msgs \cup (IF sortpc' = "cyclic" THEN {modules[offender'].front}
                                                ELSE {})
    /\ UNCHANGED <<job, added, fronts, at, modules, mainFront, scopes, passed,
                   symbols, rirs, linkSource, emitted, fault>>

-----------------------------------------------------------------------------
(* Analysis, in the order of the sorted list.                              *)

Current == sorted[at]

(* The module statements in the subtree of m, and all its statements.      *)
Subtree(m) == IF IsRoot(m) THEN DOMAIN FileOf(m).items ELSE {modules[m].item}
ModulesIn(m) == Subtree(m) \cap ModuleItems(FileOf(m))
NamesIn(m) == {FileOf(m).items[i].name : i \in ModulesIn(m)}

(* analyzer_populate_symbol_module: the name is in the root symbol table.  *)
ModuleNameClash(m) == NamesIn(m) \cap scopes[modules[m].front] # {}

(* Functions found through the dependencies of a module.                   *)
Imported(m) == UNION {symbols[d] : d \in Imports(m)}

(* A mutation of Redeclares: the dependencies are not asked.               *)
RedeclaresOwn(m) ==
    \E j, k \in FnsOf(Children(m)) :
        j # k /\ Children(m)[j].name = Children(m)[k].name

(* analyzer_symbol_table_add_fndecl: the function is declared already.  A  *)
(* lookup from the root symbol table goes to no dependencies.              *)
Redeclares(m) ==
    \/ \E j, k \in FnsOf(Children(m)) :
           j # k /\ Children(m)[j].name = Children(m)[k].name
    \/ ~IsRoot(m) /\ FnNames(Children(m)) \cap Imported(m) # {}

(* typecheck_function_call finds no function of the name.                  *)
UndefinedCall(m) ==
    \E k \in FnsOf(Nodes(m)) :
        \E c \in Range(Nodes(m)[k].calls) :
            c \notin FnNames(Nodes(m)) \cup Imported(m)

(* What the passes refuse with a message of their own.                     *)
Refused(m) == ModuleNameClash(m) \/ Redeclares(m) \/ UndefinedCall(m)

(* The type check fails at the argument of a call, or the value of a       *)
(* return, that has no type, and takes it that this was said already.      *)
UsesUntyped(m) == \E k \in FnsOf(Nodes(m)) : Nodes(m)[k].untyped

AnalyzeUnchanged ==
    UNCHANGED <<sortVars, job, added, fronts, modules, mainFront, linkSource,
                emitted>>

(* RIR input needs no analysis.                                            *)
SkipRirInput ==
    /\ phase = "analyze" /\ FromRir(Current)
    /\ Step(Len(sorted), "rir")
    /\ AnalyzeUnchanged
    /\ UNCHANGED <<msgs, scopes, passed, symbols, rirs, fault>>

AnalysisError ==
    /\ phase = "analyze" /\ ~FromRir(Current)
    /\ Refused(Current) \/ UsesUntyped(Current)
    /\ msgs' = msgs \cup (IF Refused(Current) THEN {modules[Current].front}
                                              ELSE {})
    /\ ToFailed
    /\ AnalyzeUnchanged
    /\ UNCHANGED <<scopes, passed, symbols, rirs, fault>>

(* The first pass asserts that it comes by an identifier only once.        *)
PassTwice(m) == \E i \in Subtree(m) : <<modules[m].front, i>> \in passed

AnalyzeModule ==
    /\ phase = "analyze" /\ ~FromRir(Current)
    /\ ~Refused(Current) /\ ~UsesUntyped(Current)
    /\ IF PassTwice(Current)
       THEN /\ ToAborted("identifier passed twice")
            /\ UNCHANGED <<scopes, passed, symbols, rirs>>
       ELSE LET f == modules[Current].front IN
            /\ Step(Len(sorted), "rir")
            /\ scopes' = [scopes EXCEPT ![f] = @ \cup NamesIn(Current)]
            /\ passed' = passed \cup {<<f, i>> : i \in Subtree(Current)}
            /\ symbols' = [symbols EXCEPT ![Current] =
                   FnNames(Children(Current)) \cup
                   IF IsRoot(Current) THEN {} ELSE Imported(Current)]
            /\ rirs' = [rirs EXCEPT ![Current] = "created"]
            /\ UNCHANGED fault
    /\ AnalyzeUnchanged /\ UNCHANGED msgs

-----------------------------------------------------------------------------
(* The intermediate representation, in the order of the sorted list.       *)

(* The functions of m that are in rir.functions while the body of the one  *)
(* at k is translated: all foreign ones and the ones defined before.       *)
InRir(m, k) ==
    {Children(m)[j].name :
        j \in {i \in FnsOf(Children(m)) : Children(m)[i].foreign \/ i < k}}

(* rir_fndecl_byname looks into the first dependency.                      *)
DepFns(m) ==
    IF deps[m] = <<>> THEN {} ELSE FnNames(Children(deps[m][1]))

(* The calls of m whose function is not in its own RIR yet.                *)
CallsOut(m) ==
    UNION {Range(Children(m)[k].calls) \ InRir(m, k) : k \in FnsOf(Children(m))}

(* A mutation of FirstIsStdlib: it is not asserted.                        *)
FirstIsAny(m) == TRUE

(* The assertion of rir_fndecl_byname.                                     *)
FirstIsStdlib(m) == deps[m] # <<>> => Name(deps[m][1]) = StdlibName

RirUnchanged ==
    UNCHANGED <<sortVars, job, added, fronts, msgs, modules, mainFront, scopes,
                passed, symbols, linkSource, emitted>>

SkipParsedRir ==
    /\ phase = "rir" /\ FromRir(Current)
    /\ Step(Len(sorted), "own")
    /\ RirUnchanged /\ UNCHANGED <<rirs, fault>>

(* An assertion about a call that is translated fails.                     *)
RirAborts ==
    /\ phase = "rir" /\ ~FromRir(Current)
    /\ \/ /\ CallsOut(Current) # {} /\ ~FirstIsStdlib(Current)
          /\ ToAborted("first dependency is stdlib")
       \/ /\ FirstIsStdlib(Current)
          /\ ~(CallsOut(Current) \subseteq DepFns(Current))
          /\ ToAborted("function declaration found")
    /\ RirUnchanged /\ UNCHANGED rirs

CreateRir ==
    /\ phase = "rir" /\ ~FromRir(Current)
    /\ CallsOut(Current) # {} => FirstIsStdlib(Current)
    /\ CallsOut(Current) \subseteq DepFns(Current)
    /\ rirs' = [rirs EXCEPT ![Current] = "processed"]
    /\ Step(Len(sorted), "own")
    /\ RirUnchanged /\ UNCHANGED fault

(* ownership_pass() builds and drops its graphs module by module; it ends  *)
(* with the print of the RIR or goes on to the backend.                    *)
OwnershipPass ==
    /\ phase = "own"
    /\ phase' = IF job.print THEN "done" ELSE "emit"
    /\ UNCHANGED <<sortVars, job, added, fronts, at, msgs, modules, mainFront,
                   scopes, passed, symbols, rirs, linkSource, emitted, fault>>

-----------------------------------------------------------------------------
(* bllvm_ir_generate(), over the modules in the order of their creation.   *)

EmitUnchanged ==
    UNCHANGED <<sortVars, job, added, fronts, msgs, modules, mainFront, scopes,
                passed, symbols, rirs>>

(* The module that llvm_module stands for.  It is the only one written     *)
(* out, when the loop is over.                                             *)
Generated == at

GenerateStdlib ==
    /\ phase = "emit" /\ Name(at) = StdlibName
    /\ IF linkSource # 0
       THEN ToAborted("one stdlib") /\ UNCHANGED <<linkSource, emitted>>
       ELSE /\ linkSource' = at
            /\ emitted' = Generated
            /\ Step(N, "tools")
            /\ UNCHANGED fault
    /\ EmitUnchanged

(* Every other module has a copy of the standard library linked into it.   *)
GenerateModule ==
    /\ phase = "emit" /\ Name(at) # StdlibName
    /\ IF linkSource = 0
       THEN ToAborted("link source") /\ UNCHANGED emitted
       ELSE /\ emitted' = Generated
            /\ Step(N, "tools")
            /\ UNCHANGED fault
    /\ EmitUnchanged /\ UNCHANGED linkSource

(* llc and gcc make an executable of what is written out.  Either may fail *)
(* for reasons of its own, and gcc does when there is no main() to start.  *)
ToolsSucceed ==
    /\ phase = "tools"
    /\ modules[emitted].front = mainFront /\ IsRoot(emitted)
    /\ phase' = "done"
    /\ EmitUnchanged /\ UNCHANGED <<at, linkSource, emitted, fault>>

ToolsFail ==
    /\ phase = "tools"
    /\ phase' = "unlinked"
    /\ EmitUnchanged /\ UNCHANGED <<at, linkSource, emitted, fault>>

-----------------------------------------------------------------------------
Ended == phase \in {"done", "failed", "unlinked", "aborted"}

CompInit ==
    /\ deps = <<>> /\ NotStarted
    /\ job \in CommandLines
    /\ added = 0 /\ fronts = <<>>
    /\ phase = "args" /\ at = 1
    /\ msgs = {}
    /\ modules = <<>> /\ mainFront = 0
    /\ scopes = <<>> /\ passed = {} /\ symbols = <<>> /\ rirs = <<>>
    /\ linkSource = 0 /\ emitted = 0 /\ fault = "none"

Work ==
    \/ AddInput \/ AddStdlib
    \/ ParseFront
    \/ RefuseName \/ ResolveName \/ ResolveImports
    \/ SkipRirInput \/ AnalysisError \/ AnalyzeModule
    \/ SkipParsedRir \/ RirAborts \/ CreateRir
    \/ OwnershipPass
    \/ GenerateStdlib \/ GenerateModule \/ ToolsSucceed \/ ToolsFail

CompNext == Work \/ (Ended /\ UNCHANGED allVars)

(* The compiler is one thread that runs until it returns or aborts.        *)
CompSpec == CompInit /\ [][CompNext]_allVars /\ WF_allVars(Work)

-----------------------------------------------------------------------------
CompTypeOK ==
    /\ added \in 0..Len(job.inputs)
    /\ phase \in {"args", "parse", "names", "resolve", "analyze", "rir", "own",
                  "emit", "tools", "done", "failed", "unlinked", "aborted"}
    /\ msgs \subseteq DOMAIN fronts
    /\ mainFront \in 0..Len(fronts)
    /\ Len(deps) = Len(modules)
    /\ Len(symbols) = Len(modules)
    /\ rirs \in Seq({"none", "created", "processed"})
    /\ Len(rirs) = Len(modules)
    /\ \A m \in DOMAIN modules : modules[m].front \in DOMAIN fronts
    /\ linkSource \in 0..N /\ emitted \in 0..N
    /\ fault # "none" <=> phase = "aborted"
    /\ phase = "analyze" => at \in DOMAIN sorted

(* Imports, the symbol tables of dependencies and the linker all go by the *)
(* name of a module: once the imports are resolved no two modules have the *)
(* same name, though files may declare any and every main file is "main".  *)
UniqueNames ==
    phase \in {"resolve", "analyze", "rir", "own", "emit", "tools", "done"} =>
        \A j, k \in Mods : Name(j) = Name(k) => j = k

(* The first pass runs over a statement once, even when a module and the   *)
(* main module share a file and so share subtrees (the assertion at        *)
(* analyzer_pass1.c:293).                                                  *)
PassedOnce == fault # "identifier passed twice"

(* Whatever the order of the inputs, the backend comes by the standard     *)
(* library, and by one only, before any module that is to be linked with   *)
(* it (the assertions at llvm_ast.c:396 and llvm.c:107).                   *)
LinkSourceReady == fault \notin {"link source", "one stdlib"}

(* The modules of a compilation are what its order needs them to be: one   *)
(* of each name, passed once, and the library at the backend before all    *)
(* that it is linked with.                                                 *)
CompInv == CompTypeOK /\ UniqueNames /\ PassedOnce /\ LinkSourceReady

(* The code written out is that of the last module declared in the first   *)
(* input file, its main module if it has one: the list of fronts runs      *)
(* backwards and the modules are generated in its order.                   *)
FirstInputIsEmitted ==
    LET first == Len(fronts) IN
    phase = "tools" /\ job.inputs # <<>> /\
    (HasMain(fronts[first]) \/ ModuleItems(fronts[first]) # {}) =>
        /\ modules[emitted].front = first /\ FileOf(emitted) = job.inputs[1]
        /\ HasMain(fronts[first]) => IsRoot(emitted)

(* Only one module is written, with the standard library linked into it:   *)
(* each function it calls has its code in the one or the other.            *)
EmittedIsLinkable ==
    phase = "tools" =>
        \A k \in FnsOf(Children(emitted)) :
            Range(Children(emitted)[k].calls) \subseteq
                FnNames(Children(emitted)) \cup FnNames(Stdlib.items[1].body)

(* The call a module makes to a function that it defines itself is not     *)
(* translated as a call to the function of that name in the library: the   *)
(* analysis looks into the module first, the translation knows only the    *)
(* functions before the call.  (A main file may define a function of the   *)
(* library, and then it is.)                                               *)
OwnFunctionsAreCalled ==
    \A m \in DOMAIN rirs :
        rirs[m] = "processed" /\ ~IsRoot(m) =>
            CallsOut(m) \cap FnNames(Children(m)) = {}

(* What a compilation leaves behind: the module of the first input, with   *)
(* all the code it calls.                                                  *)
OutcomeIsRight == FirstInputIsEmitted /\ EmittedIsLinkable

(* Every compilation ends, whatever the files import.                      *)
CompilationEnds == <>Ended

(* The assertion of rir_call_return_type: "At this point in the RIR the    *)
(* function declaration should have been found".                           *)
CalledFunctionIsFound == fault # "function declaration found"

(* The phases of the driver keep the order of StagedBuild.                 *)
StageOf(m) ==
    IF FromRir(m) \/ rirs[m] = "processed" THEN 2
    ELSE IF rirs[m] = "created" THEN 1 ELSE 0

Staged == INSTANCE StagedBuild WITH
    imports <- deps,
    stage <- [m \in DOMAIN modules |-> StageOf(m)],
    outcome <- CASE phase = "done" -> "built"
                 [] phase \in {"failed", "unlinked", "aborted"} -> "refused"
                 [] OTHER -> "open"

ImplementsStages == Staged!BuildSpec
=============================================================================
