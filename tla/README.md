# The refu compiler in TLA+

refu is a small language with sum types, pattern matching and modules; this
repository is its compiler, about 25,000 lines of C. A compilation is one
sequential process: it reads the files of a command line, parses each, sorts
the modules by their imports, type checks them, lowers them to a register
form (RIR), and writes LLVM code. There are no threads and nothing persists.
What makes it hard is its *protocols*: shared contexts that one phase leaves
for the next, marks pushed in one function and popped in another, orders that
a later stage silently relies on, types that many nodes share and one changes,
and single slots for things that nest.

This directory holds TLA+ modules for these protocols, TLC configurations that
check them on small instances, and TLAPS proofs.

## 1. The system

| Part | State it keeps | Operations | Talks to |
|---|---|---|---|
| driver (`compiler.c`, `module.c`) | fronts, modules, sorted modules, main front | add inputs, parse, collect and sort modules, analyze, make RIR, generate | all |
| fronts (`front_ctx.c`) | one file, its lexer, parser, messages, AST | create, parse | lexer, parser |
| lexer (`lexer/`, `inp*.c`) | the text and its lines; tokens, cursor, stack of marks | scan; lookahead, advance, push, pop, rollback | parser, RIR parser |
| parser (`parser/recursive_descent/`) | the C call stack, error flag, nodes in the making | about 40 accept functions | lexer, messages, AST |
| messages (`info/`) | messages, marks among them | post, push, rollback, look for errors | every stage |
| AST (`ast/`) | nodes, state of a node, who owns it | create, give to a parent, walk | all |
| analyzer, first pass (`analyzer_pass1.c`, `symbol_table.c`) | symbol tables, current table, parent nodes | open a scope, declare, look up, close | types, AST |
| analyzer, type check (`typecheck*.c`) | type of each node and of the last one, matching context | one callback per kind of node | types, symbol tables |
| types (`types/`, `type_set.c`) | the module's set of types, the context of comparisons | create, share, append to, compare, convert | analyzer, RIR |
| RIR creation (`ir/`) | current function, block, next block, loop variables, last value, names | one handler per kind of node | AST, symbol tables, backend |
| RIR text and parser (`rir_common.c`, `ir/parser/`) | names of the module and of the current function | print; parse functions, blocks, expressions | lexer, RIR |
| ownership (`ownership/`) | a graph per argument or allocation | walk the RIR, check values, dump | RIR |
| backend (`backend/`) | LLVM module, map from RIR values | create blocks, connect, compile expressions, link | RIR, tools |
| serializer, arguments, utilities | buffers | print, parse options | driver |

What makes each correct:

* **driver**: a module is processed after everything it imports and once; a
  ring of imports is refused and nothing else is; what is written out is the
  module of the first input, with all it calls.
* **lexer**: the tokens are the file, each as long as it can be.
* **parser**: every accept function leaves the marks of its callers alone,
  consumes what it accepts and gives each node to exactly one owner; a file is
  refused with a message, and only then.
* **first pass**: a scope that was entered is left, lookup finds the innermost
  declaration, both walks of the analyzer agree, no name is declared twice.
* **type check**: a conversion is accepted when it fits and with a warning when
  it loses something, whatever was compared before; a member keeps its type.
* **match expressions**: accepted exactly when every value has a case and no
  case is useless; the case that runs is the first that matches.
* **RIR creation**: each block is added once and has an exit; running the
  blocks is running the source; values have the types of their uses and are
  defined before them.
* **RIR text**: what the RIR parser accepts is what the text says.
* **backend** (partly): what it links and emits is what the files ask for.

Hazards are listed with their lines in `PROJECT.json`.

## 2. The modules

```
DependencyOrder  <--refines--  ModuleSort  <--extends--  Compiler  --refines-->  StagedBuild
                                   ^                        ^
                         ModuleSortProofs  <--  CompilerProofs, MCCompiler
Scanner  <--  ScannerProofs, MCScanner
AcceptFunctions  <--extends--  AstParser  <--  MCAstParser
AcceptFunctionsProofs  <--  AstParserProofs
ScopeRules  <--extends--  Scopes  <--  MCScopes
ScopesProofs  <--  ScopeNamesProofs
TypeObjects <-- TypeCompare <-- TypeCreation <-- TypeCheck <-- TypeRules <-- MCTypeCheck
PatternTypes  <--extends--  MatchCases  <--  MCMatchCases
FunctionBlocks, ControlFlow  <--extends--  FunctionRuns  <--  MCFunctionRuns
FunctionBlocksProofs
RirValues  <-- RirBuild, RirText  <-- RirParser, RirRoundTrip  <--  MCRir
```

**ModuleSort** is the walk of `compiler_resolve_dependencies()` and
`compiler_visit_unmarked_module()`. The recursion is a stack of frames; each
action is one comparison of the C code (`ScanStep`, opening a visit, the next
import, closing a visit). `deps` is the array of dependencies of every module,
`marks`, `scan`, `found`, `sorted` are the C variables of those names, and
`offender` is the module the cycle message is posted at. **DependencyOrder** is
what the rest of the compiler may rely on: modules come out after what they
import, or some ring of imports is refused.

**Compiler** is `compiler_pass_args()` and `compiler_process()`: fronts are
added at the head of a list and the standard library last, so it is parsed
first; files are parsed; modules collected and named; imports resolved (and the
standard library imported by all); modules sorted (the actions of ModuleSort);
analyzed; lowered; emitted and linked. A file is the sequence of its outermost
statements, each with what the driver looks at. An assertion of the code ends a
run in phase `aborted` with its name in `fault`. **StagedBuild** abstracts it:
no module climbs a stage before all it imports are a stage further, whatever
the phases are.

**Scanner** is `lexer_scan()`: a step is one round of its loop, and its actions
are the branches of that round (white space, comment, string literal, constant,
word, symbol, end, failure), for the language and for the RIR. The conversions
of digits are those of the absent rfbase library and external: what counts here
is how many bytes each takes and whether it is asked at all.

**AcceptFunctions** gives every `ast_parser_acc_*()` function as a small
program of steps (push, pop, rollback, expect a token, call another function,
post an error) and **AstParser** runs these programs on the tokens of a file
with the lexer's cursor and marks, the sticky error flag, the messages and the
owner of each value node. A recursive call is a frame of `stack`.

**ScopeRules** says what a program means before any compiler: which scopes are
around a place and which declarations a name may stand for there. **Scopes** is
the walk of `ast_traverse_tree_nostop_post_cb()` with the callbacks of the first
pass on the way down and up, then the second walk, over all modules in order.
State: the tables with their parents, the current table, the list of parent
nodes, the records, what each use found, the errors. A callback that fails keeps
the walk going as the code does.

**TypeObjects** is the module's store of types: objects with an identity, so
that appending to one is seen by all that hold it. **TypeCompare** is
`type_compare()` with its context `g_typecmp_ctx`, which each comparison reads
and writes and which outlives it. **TypeCreation** is `type_lookup_or_create()`
and `type_create_from_operation()`: what a description of a type becomes and
which objects it takes or changes. **TypeCheck** gives the declarations of a
program their types and then every node of a body, in the order in which the
walk leaves them, one action per callback. **TypeRules** says when two types
fit as values, without a store or a context, and states the properties.

**PatternTypes** is the algebra of `typecheck_matchexpr.c`: what a pattern says
of a type and which operands it marks. **MatchCases** runs `typecheck_matchexpr`
over programs with several match expressions, one in a case of another
included, with the one `pattern_matching_ctx` all of them share, and then
`ast_matchexpr_cases_indices_set()` of the RIR stage.

**FunctionBlocks** lowers the body of a function: `rir_process_ifexpr()`,
`rir_process_forexpr()`, `rir_process_matchexpr()`, `rir_process_return()` and
`rir_fndef_init_from_ast()` with the context's current block, its one
`next_block` and its loop variables. `work` is the C call stack: what the open
handlers have left to do. Then the backend maps and connects the blocks
(`bllvm_create_fndef()`), and the blocks are run. A body is a tree of statements;
`InnerLists` are the lists of statements that lie in it at any depth. What the
blocks promise by themselves is stated here. **ControlFlow** says what the
statements mean, and **FunctionRuns** states the properties that relate both.

**RirValues** are the types and values of the RIR. **RirBuild** creates a
function of straight code: every operator takes the `rir_ctx` and gives the next
one, so that numbering, the last object, the last assignment and the new blocks
a conversion makes are threaded as in the code. **RirText** prints a module as
tokens. **RirParser** reads them, an action per outer item, block, instruction
and exit, with the maps of names as the code keeps them. **RirRoundTrip**
composes: create the functions one after the other, print, lose any one token
or none, parse.

## 3. The runs

| Run | Instance | States | Shows |
|---|---|---|---|
| `module_sort` | every import graph of up to 3 modules with up to 2 imports each | 12,334 | order, rings found; termination; refinement of DependencyOrder |
| `compiler` | every command line of up to two files of 31 small source files, every one of three of the nine that import each other, RIR input | 51,242 | stage order (refinement of StagedBuild), one pass over each statement, names, link source, emitted module and what it calls; the compilation ends |
| `parser` | 20 small files, a few of each construct, and all files one edit away | 831,435 | marks, messages, owners, completeness of what is accepted, where assertions fail; the parser stops |
| `match_cases` | all match expressions of up to 3 cases of 8 patterns over 17 types; pairs in sequence and nested | 111,310 | verdict against a reference definition by values, of outer and inner ones; refusals and crashes explained; RIR indices usable, the case each value runs into |
| `function_blocks` | 3,354 bodies of up to 3 statements, nested once; headless ones of up to 4 cases; 2 turns of loops | 117,765 | plain bodies are generated, generated bodies run like their source, exits are set once, runs end |
| `scopes` | all bodies of up to 3 of 16 statements, all heads of up to 3 of 13 declarations, programs of two and three modules in one file or several | 557,701 | the current table, what a name and a return find, what both walks find alike, names declared once, the list of parents, verdicts |
| `typecheck` | every statement over 17 operands of each category; all pairs of 18 and triples of 9 statements that share types or the context | 50,529 | assignments, conversions and calls against TypeRules; warnings; types of members and blocks |
| `scanner` | all texts of up to five bytes of two alphabets, and of up to four of three; a few words of the RIR | 168,390 | tokens are the text, longest, at their lines; failures explained; constants |
| `rir` | 13 modules, built or written by hand, printed and read with every one token missing or none | 9,043 | types, order and connection of what is built; what is accepted reads back |

Most invariants of a run are named parts joined under one name, so that a run
states a few things: `SortInv` (types, order of the list, each module once),
`CompInv` (types, unique names, one pass over each
statement, the link source), `OutcomeIsRight` (which input is emitted, that that it
can be linked), `ParserInv` (types, callers' marks,
where assertions fail), `MessagesAreRight`, `MatchInv`, `BlocksInv`,
`ScopesInv`, `AnalysisVerdictIsRight`, `TypeCheckInv`,
`ConversionsAreRight` (three action properties), `ScanInv`, `BuiltInv`. The type
invariant of a module is a part of its group.

Why the bounds are enough. *module_sort*: a ring of length 1, 2 and 3, a
diamond cut short, a double import and unreachable modules all fit in three
modules; the theorems cover all sizes. *compiler*: every interaction of files
is between a file and one that it imports, that shares a name with it, or that
is the standard library; three files give a chain and a ring. *parser*: each
construct occurs, and an edit puts a wrong token at every position of it, which
reaches each failure exit of each function. *match_cases*: three cases are a
useful one, one made useless by it, and a rest; the types have up to three
operands, with a product, a defined type and a sum inside. *function_blocks*:
three statements are one before, one that makes blocks and one after; nesting
twice fails for the reason that nesting once does. *scopes*: a name has one
declaration before its use, one after and one around it; of statements each
opens at most two scopes; three modules are a chain of uses, a choice between
two, a used module with others in its file, and one that is analyzed after main. *typecheck*: what one comparison leaves behind needs one that leaves it,
one that reads it and one between them; integer widths are cut at TLC's 2^31,
constants `Int8Max` to `Int32Max`. *scanner*: each alphabet holds the bytes one
branch of the scan tells apart (numbers, symbols, strings and comments, bases),
and no decision looks more than one byte past the text that is already fixed,
but for the float test, which needs number, separator, number and point: five.
*rir*: between them the modules hold every kind of expression, every
instruction and every exit, and the parser looks at one token at a time.

Runs expected to find a violation check one sentence of a comment or an
assertion that the code does not keep:

| Run | What is said | What happens |
|---|---|---|
| `called_function` | `rir_call.c:337`: the declaration "should have been found" | not for a function that calls itself or one further down in the file |
| `return_ends` | `rir_process.c:51`: jump to the return | a return in a loop goes on with the loop |
| `parsed_arguments` | `rir_function.c:148`: the arguments get the names `$0`, `$1`, ... | in the map of the function before: the second function reads the first one's argument |

**Fairness.** ModuleSort, Compiler, AstParser and FunctionBlocks have weak
fairness of their steps and no more: the compiler is one process that takes its
next step whenever it has one. In FunctionRuns the outcome of a condition is
free, so a loop could turn forever; `MaxTurns` bounds the turns of a run (the
loops of the source are over arrays and ranges and end by themselves). The other
specifications state no liveness: their walks follow a finite tree or text, one
place a step.

**Assumptions of the models.** Allocations succeed. `RF_ASSERT` comes from the
rfbase submodule, whose directory is empty here: the models use the build in
which a failed assertion stops the compiler, and the stages `aborted`,
`crashed`, `misused`, `asserted` and `dead` say where it does.
`RF_CRITICAL_FAIL` ends the compilation.

## 4. The theorems

Proved with TLAPS, for every value of the constants. The theorems are at the
end of their modules, the inductive invariants and what they mean near the top,
the lemmas in between, one per action and conjunct where it takes more than a
few steps.

| Module | Theorem | States |
|---|---|---|
| `ModuleSortProofs` | `SortedInOrder` | `SortInv` |
| | `VerdictIsRight` | `SortedIsComplete`, `NoCycleOverlooked`, `CycleIsReal` |
| | `WalkImplementsPromise` | `ImplementsPromise`: refinement of DependencyOrder |
| `CompilerProofs` | `CompilerIsSound` | `CompInv` |
| | `OwnFunctionsWin` | `OwnFunctionsAreCalled` |
| | `OutcomesAreRight` | `OutcomeIsRight` |
| | `CompilerIsStaged` | `ImplementsStages`: refinement of StagedBuild |
| `AcceptFunctionsProofs` | `ProgramsAreDisciplined` | what the text of each accept function shows |
| `AstParserProofs` | `MarksAlwaysAscend` | `MarksAscend` |
| | `ParserIsSound` | `ParserInv` |
| | `NodesHaveOneOwner` | `OneOwner` |
| | `FailuresArePosted` | `FailureIsPosted`, a part of `MessagesAreRight` |
| `ScopesProofs` | `ParentsAreRight` | `ParentsFollowPath` |
| | `VerdictIsSound` | `AnalysisVerdictIsRight` |
| | `TablesFollowScopes` | `ScopesInv` |
| `ScopeNamesProofs` | `NamesAreOnce` | `NamesAreUnique` |
| | `NamesMeanWhatTheyShould` | `UseFindsInnermost` |
| `ScannerProofs` | `ScanIsRight` | `ScanInv` |
| | `TokensStayLongest` | `TokensAreLongest` |
| | `ConstantsStayRight` | `ConstantsAreRead` |
| `FunctionBlocksProofs` | `ExitsLeadToBlocks` | `BlocksInv` |
| | `ExitsAreSetOnce` | `ExitSetOnce` |

**Module sort.** The inductive invariant `SortIInv` has the usual parts of a
depth first search. The stack holds distinct modules and exactly those marked
temporary; each frame's module imports the one above it at the position the
frame is at; a marked module is in the sorted list and everything it imports is
in front of it; in a frame all imports before the position are marked.
`ImportsFirst` alone is not inductive: closing a visit appends the module, and
only the last part says that its imports are there. That a refusal is real needs
the second part: the frames from the module found open up to the top are a set
each of whose members imports a member. `SortedIsComplete` needs what the flag
`found` means: while it is unset, everything below `scan` is marked.
`SortedIsComplete` and `CycleIsReal` are in no run: the refinement
that `module_sort` checks implies them on its instance.

**Compiler.** `CompIInv` is `SortIInv` and one part for each thing a phase
leaves for later ones: the fronts are the library and the inputs in the order of
the list (`FrontsInv`); modules stand in the order of their fronts, the file
itself after the modules in it (`ModulesInv`); the arrays run in parallel
(`TablesInv`); where the sort and `at` may be in each phase (`OrderInv`); names
compared so far differ (`NamesInv`); how far each module is (`ProgressInv`);
what was passed, declared and translated so far (`PassedInv`, `SymbolsInv`,
`TranslatedInv`); what was linked and emitted (`EmitInv`); messages
(`ReportInv`). That each statement is passed once is not a matter of one phase:
a statement in two modules is in a module and in the file around it, and the
second pass over the file stops at names that the first one has put in the
root's table (`SharedStatement`, `NoneIsPassedTwice`). That no assertion but the
two named ones fails needs the order in which the sort handed the modules over,
which `SortIInv` gives. The refinement maps `rirs` and the position of the phase
to the stages of StagedBuild, step by step. Sums over lists of files are
reasoned about with the least element of a set of numbers (`LeastNumber`), which
the library's theorems on well-founded sets give without an induction over an
operator.

**Parser.** The argument is in three layers. (1) The text of an accept function
says at each of its steps what it relies on: how many marks it has set, whether
its token was tested, whether a message was posted (`Holds`, `Saw`, `CallSaid`
and the like are read off the program, not off a state).
`ProgramsAreDisciplined` states that each of the 53 programs keeps its own book:
wherever a step can go on, what the next one relies on holds. (2) A call of the
stack *fits* when the state agrees with the book at its step (`Fits`); the calls of the stack are `Frames` when each fits, starts
where its caller stands and has its marks above those of its caller. Each kind
of step, a call and a return keep this. (3) `ParserIInv` joins the frames, the
marks (`MarksInv`) and who owns value nodes. `CallersMarksSurvive` is not
inductive, since it says nothing of how many marks a function in progress has
set; the book does. `LoudInv` adds the messages of the functions that promise
one.

**Scopes.** `ScopesIInv`: the walk is at a node of the tree (`PlaceInv`); what
failed lies behind it (`LostInv`); the parents are the way to the node and one
more for each that failed (`ParentsInv`); the errors of modules before this one
ended their analysis (`ErrorsInv`); every name that lies behind was looked at
(`SeenInv`). *Behind* is the order of a depth first walk over paths (`LeftOf`,
`Within`), and the lemma on `NextPlace` says that it is left with nothing
between. `AcceptedIsChecked` speaks of the end only, and is the case of
`SeenInv` at which everything is behind.

**Symbol tables.** `TablesIInv` adds what the tables are. `Outer(n, p)` is the
table that should be current where the walk comes to a place, `Inner(n, p)` where
it leaves it: both are read off the path to the place, the first as the table of
the longest beginning of it that *holds* the next step (a function and a case
hold theirs for all children but the first, since they borrow the table of that
one). `CurInv` says that the current table is these; `HungInv` that the table of
every place entered so far hangs under its `Outer` and belongs to the function
of the path; `StoreInv` that the tables of files and modules are there, the
former with nothing above, and that records have the names of their
declarations; `PatternInv` that a pattern finds its case in the list of parents,
although that list has nodes too many behind a failure; `ReturnInv` what the
return statements found. `CurrentIsEnclosing` is not inductive: it speaks of
statements only and says nothing of the tables that the walk comes back to, nor
of heads and patterns, whose table stays the current one behind them. That
`Restored` is `Outer` of the next place (`RestoredIs`, `OnKeeps`) is the core of
the argument; the second walk relies on the same tables without making them, so
`Entered` is all of the module there. That `Outer` and `Inner` are the tables of
`ScopeAround`, the rule of ScopeRules that knows of no walk, holds at every node
that is not in a head or a pattern (`OuterIsScopeAround`, `InnerIsScopeAround`).
What adds arguments and names to a table goes over the children one by one;
`ArgumentsAreAlike` and `LeavesAreAlike` say that they change records and nothing
else.

**Names.** `NamesIInv` adds what the tables list. `Enters(s, n, q, t, p)` reads
off the tree alone what the callback of the walk `s` at the node `q` should enter
where: a function, a type or a variable into the `Outer` of `q`, the names of a
description into its own table and, if they are arguments of a function that is
no foreign one, into that of the function as well, and the variable of a loop,
by the second walk, into that of the loop. `LedgerInv` says that, errors or not, a
table lists *exactly* what is due by now, and it takes both
directions: that nothing is left out is what makes a second declaration of a name
meet the first one, and that nothing else is listed is why the record that an
assertion stumbles on is a declaration of the same scope (`TakenIsTwice`). It
needs `FreshInv`, that a node has no table before the walk comes to it, since the
walk replaces the table of a node without a look at what it had, and for the
variable of a loop, which is added without a look too, that nothing but the loop
enters anything into its table (`LoopIsEmpty`). What is entered in a table is then
compared with ScopeRules: every declaration is entered in the table of each scope
that sees it (`VisibleIsEntered`), what is entered is seen by a scope of that
table (`EntryIsVisible`), and a table belongs to one scope (`TableIsOne`). Two
declarations of one name that one scope sees would be two records under one name.
A failure in the first walk ends the analysis; one in the second does not, and the
loop at which it happens is left out of the ledger with all that is in it
(`Missed`), so that the ledger also holds where later names are looked up.

**Lookups.** `NamesMeanWhatTheyShould` rests on the ledger: as it lists exactly
what is due, a table has a record of a name if and only if its scope declares it,
and the record is of one of these declarations (`EnteredIsRecord`,
`RecordIsEntered`). Two parts are added: `TopsInv`, that the table of every
module analyzed before this one hangs under that of its file, since a lookup goes
through those tables too; and `FoundInv`, that all that was found so far is right,
which no later step changes, because the source does not change. The argument
follows `symbol_table_lookup_record()` in three stretches. (1) The parents of the
current table: what the chain from `Inner(n, p)` shows is what the scopes around
`p` say, and then the file (`ShowsHere`). This is an induction along the path,
whose step says what one more node adds (`InnerStep`): nothing, if it is no scope
or its table is that of the node above; its own names, before those around it,
otherwise; a head and a pattern are the cases in which the table and the scope are
not of one node. `Climbs` counts the tables of the chain, so that `MaxDepth` is
enough for it. (2) The file: its table lists its modules by name and the names at
the top of its main module, of all modules so far (`FileShows`). (3) The modules
that are used: `LookupFromDeps` and `Inherited` are recursive functions over
modules, of which the prover first needs that they exist (`FromExists`,
`PassedOnExists`), by induction on the number of the module: a module uses only
earlier ones. That they agree at each module is the same induction
(`FromIsBound`). Where the lookup begins in the table of a file and not of a
module, stretch (3) is left out by the code; `AtTop` names these places.

The proof changed the model: what a module passes on to those that use it was
first given as its own names and those of the modules it uses, and the lemma on
one step of (3) was false. The lookup also finds, for a module that is used, what
all of its file shows at that time, the modules there by name and the top of its
main module, and a main module passes on nothing it gets from others. `AtFile` and
`Inherited` say so now, and `InOneFile` and `AfterMain` in MCScopes are the
programs that tell the difference.

**Scanner.** The text says by itself what each byte is part of: `Inside` is a
run over the bytes with no lexer. `ScanIInv` says that the scan stands only where
the text is outside of literals and comments (`SyncInv`); that each byte behind it is in
a token exactly if it is text of a token (`CoverInv`); that the tokens are in
order and right as they stand (`TokensInv`); and where the two cursors and the
counted lines are (`PlaceInv`). `SyncInv` is what makes coverage inductive, and
it has an exception: a file that ends in a comment (section 5).

**Blocks.** `BlocksIInv` has three parts. `TypesInv` is for all functions: the
blocks a task of `work` is about were created, a list of statements that is open
is the rest of a list of the function, and a task that uses the next block comes
after one was made. `PlainInv` is about plain functions: an if or a for that is
open lies on the rest of the body and the end, and there is one of them only
(`ShapeInv`); every block is in the function once, but the end and, while an if
or a for is open, the next one (`AddedInv`); a block without an exit is one that
an open task waits for or the one in use, and then something in the body gives it
one or it is the first or the next block, which the end of the function connects
(`UnsetInv`, `WaitsInv`); a loop's variables are in use only while its step is to
come (`LoopInv`). `PlainIsGenerated` says only that nothing has failed; that
nothing will fail is `UnsetInv`. It also gives why the exceptions are ones: behind a match
that nothing follows the block in use is neither the first nor the next one.
`KeptInv` is for plain functions that are sound: the block a task sets an exit of
without a question has none (`SetsInv`), no other open task gives it one, nor
does the code in use, as long as it stands in another block (`CurInv`), and the
block in use has none while there are statements left (`OpenInv`). The last is
where code after a return matters, and `InLoopInv` where a return in a loop does: the
loop's body ends in the block that `EndFor` sets. A step is either one in the
body of the function or one that replaces the first task and leaves all others
(`InsideStep`, `OnceStep`).

**Assumptions** on the constants, which TLC evaluates in the runs:

* `BoundsAssumption` (ModuleSort): the bounds are numbers.
* `InputsAreFiles`, `StdlibIsOneModule` (Compiler): a file is a sequence of
  statements; the library file is one module without a `main`, as `stdlib.rf` is.
* `NullIsNoKind`, `FilesAreTokens` (AcceptFunctions, AstParser): no kind of token
  is called `NULL`, which the model uses for the absent token; a file is a
  sequence of kinds.
* `ProgramsAreTrees` (ScopeRules, Scopes): programs have a module, and trees are
  less deep than some number `MaxDepth`, any one; it is 10 in the run and bounds
  a recursion, not the trees. `IsSource` says which trees the parser makes, as far
  as scopes depend on it: a declaration with a body is the first child of its
  function and nowhere else (`ast_parser_acc_fnimpl`), a pattern is the first
  child of its case, leaves are in type descriptions and variable declarations and
  a declaration has one, a function's head holds descriptions and names, and a
  loop holds its variable, what it is over and a block (`ast_forexpr_create`).
  Without the first of these the walk would indeed leave the table of a function
  current behind it. Each file has one root, which `ast_parser_parse_file()` of
  `recursive_descent/core.c` makes.
  A module comes after those it uses, which is what `ModuleSortProofs` shows of the
  order in which `compiler_analyze()` takes them.
* `FunctionsAssumption` (FunctionBlocks): statements are as the parser makes
  them: `elif` and `else` are only in the else of an if, which has at most one of
  them (`ast_parser_acc_ifexpr`), a match has a case, and the body of a headless
  function is one match. `MaxDepth` bounds how deep lists lie in each other, so
  that `InnerLists` has all of them; any number will do, it is 6 in the runs.
* `TextsAreFinite`, `LexemesByBytes` (Scanner): a text has a length; a lexeme of
  several bytes is a word of letters or a symbol of two bytes. The second is read
  off the table in `tokens_htable.gperf`; the prover cannot look into a string.

**Only model-checked.** All liveness (`ParserStops`, `CompilationEnds`,
`ResolveTerminates`, `RunEnds`): fairness is out of the prover's reach. Of the
parser, that a file is refused only with a message when its function does not
promise one itself (the rest of `MessagesAreRight`), and `AcceptedIsComplete`:
both are about what a whole file derives, an induction over the calls. Of Scopes,
`WalksAgree`, which compares what the first walk looked up with what the second
one finds at the same node. It needs what every later entry does to every earlier
lookup, along the parents and through the modules that are used, and no theorem
says that yet. Working out its invariant showed that its list of exceptions was too
short: a function is entered after its arguments were looked up, and the variable
of a loop by the second walk only. Two programs that meet them are in the run now.
Of FunctionRuns, `RunFollowsSource`: what a body means (ControlFlow) is a recursion
over its statements. MatchCases, the type modules and the RIR modules are built from
recursive operators, which the prover cannot use.

## 5. What the models show beside the properties

The properties hold of the code as it is; where it does otherwise than one
would expect, a property names the exception. These are the exceptions, and
what was met on the way to them. They are grouped by module.

*Driver.* The first dependency of a module need not be the standard library
(`rir.c:510`, phase `aborted`). A file with both a `module` and a `main` never
compiles. Outermost functions of a file without `main` are ignored.
`refu lib.rf main.rf` emits the library and fails at link. The analysis can fail
without any message: the type check of a call whose argument is the empty list,
or of a return of it, finds no type and says nothing (`typecheck_arr.c:24`,
`typecheck_functions.c:59`, `typecheck.c:595`); `module_analyze()` only logs it.
`UsesUntyped` stands for these, and no property says that a failure has a message.

*Scanner.* A comment on the last line without a newline leaves that line's last
byte to be scanned as a token, against the intent of `test_lexer.c:314`. A
constant is a float when any digit before a point follows before the next white
space, as in `f(1,a1.x)`. `089` is `0` and `89`; `12abc` is two tokens; `a-1`
has a negative constant. `"a\\"` is not terminated.

*Parser.* `{ return }` and a lone `module` at the end of a file are accepted
with an error message recorded. `f(a < b, 1)` is refused since `generics.c`
posts an error while it tries a generic call. A function header that ends a file
is dropped and the file accepted. An empty block leaves its mark behind, a later
rollback goes too far, and an open bracket can be accepted (`block.c:131`,
`block.h:14`; `LeavesMark`). Assertions fail where a file ends too early, and at
an index that is not a name and not closed (`CrashIsExplained`).
`info_ctx_rollback()` does not adjust the number of messages.

*Scopes.* A name used before its declaration in a scope is accepted. At the top
of the main module the names of dependencies are not found
(`symbol_table.c:341`), so `import lib` and then `fn f(a:T)` fails. Each callback
that fails on the way into a for-expression leaves one node in the list of
parents. `type foo` and `fn foo`, or a function named like a module of its file,
fail the assertion in `symbol_table.c:213`. The lookup through dependencies
skips names that are those of the dependency. The type of a declaration may not be
what its name means where the second walk comes to it (`EnteredLater`): in
`fn T(a:T)` the argument has the type `T` of a module that is used in the table of
the function, and the function's own type in that of its description.

*Types.* The context of comparisons is not reset after the first comparison of
an expression (`type_comparisons.h:119` says it is): after any call, `return u`
with `u` a sum is accepted in a function that returns one of its alternatives,
though it was refused before; warnings of a comparison can be reported at the
next assignment. A sum declared after a product of the same operands is that
product. `f(a,b,c)` is accepted for a function of two arguments when the third
operand was appended to the type of the function itself; `(s,(a,b))` changes the
members of a defined type; `(a,b),(a,b)` makes a cyclic type. A return is
compared from the declared to the found type. A sum variable cannot be assigned
one of its alternatives. A range `0:2:5` has 2 elements and not 3. A list that
holds a name without a type, or an empty list, stops the compiler; so does a
for-body that ends in one. `f([])` and `return []` fail without a message.

*Match expressions.* A match inside a match makes the outer one be refused as
useless (`typecheck_matchexpr.c:270`; `reference.rst:433` allows it), unless the inner one
ends in an error of a case, and what follows in the outer one is not looked at
(`ExpectedAround`); the inner one gets the verdict it would get alone. `_`, or
any pattern that matches several operands, stands for the last of them only
(`:317`; `reference.rst:450`), and does not cover a product. A case that adds
nothing keeps the matched type of the one before it and fails on its index in
the RIR (`ast/matchexpr.c:142`). A sum inside an operand counts as covered by
one of its alternatives. A pattern that is a sum of fewer operands is read past
its end. A match of one case never runs it: the branch to a case is made with the
next one (`ir/rir_process_match.c:158`; `NoCase`, `OnlyLoneCasesAreDead`;
`reference.rst:463` says that "the `_` at the end matches all other cases").
`ValueReachesItsCase` says of every value of a plain match which case it runs
into: the first that takes it, but for the operands a case has no room for, whose
values run into the last case.

*Blocks.* An if or for inside an if: the inner one's next block is added twice
and the backend fails (`rir_process_cond.c:129`). The value of a last expression
is not returned (`rir_process.c:39`; `reference.rst:519`). A match that nothing
follows leaves a block without an exit (`rir_block.c:107`). A loop in a loop
fails the assertion in `rir.h:152`. A match of one case has a
block that nothing leads to: the block before it is joined to the end of the
function, or keeps no exit (`OneCase`).

*RIR.* After an assignment of a constructor the assigned object stays the last
one, and a later nested constructor writes into it (`rir_binaryop.c:253`). A
member that is an argument of a call is not read from memory. A conversion of a
boolean to a string with no return after it leaves a block that cannot be
printed. `++` and `--` do not write back. A function that calls itself or a later
one fails the assertion in `rir_call_return_type()`.

*RIR text.* The parser knows `convert`, `read`, `call`, arithmetic and
comparisons after `$x =`, and `write`, `return`, `branch`, `condbranch`; other
instructions that are printed are refused. A call without arguments is printed
without the comma the parser wants. Type names keep their `$` and composite
types are not recognised. Constants are 64 bit integers. Errors that are only
logged end in acceptance of a part of the file. A function with arguments after
one with only a return slot meets its name and fails an assertion.

## 6. Left out, and why

Text: the wording of messages, indentation of what is printed, columns.
`typeclass.c` of the parser: no accept function calls it. Generics in the type
check: the code does not check them. Values inside of loops and match
expressions in the RIR: RirBuild covers straight code and FunctionBlocks control,
and a handler of one does not read what the other writes but for the current
block. The LLVM instructions of an expression: each is one call of the LLVM
library after a switch on the kind, with no state but the map of values.
Ownership: its graphs are dumped and not used. The command line and argtable3:
options are read once by a vendored library. The rfbase submodule is absent from
the repository. The RIR run states no liveness: its steps read a token or end.

## 7. Plan

1. `ModuleSort`, `DependencyOrder`, proofs (done).
2. `Compiler`, `StagedBuild`, proofs (done).
3. `AcceptFunctions`, `AstParser`, proofs (done but for `MessagesAreRight` in
   full and `AcceptedIsComplete`, see section 4).
4. `PatternTypes`, `MatchCases` (done; TLC only).
5. `FunctionBlocks`, `ControlFlow`, `FunctionRuns`, proofs of the blocks and
   their exits (done).
6. `ScopeRules`, `Scopes`, proofs of the walk, the tables and the names (done
   but for `WalksAgree`).
7. `TypeObjects` to `TypeRules` (done; TLC only).
8. `Scanner`, proofs (done).
9. `RirValues` to `RirRoundTrip` (done; TLC only).
10. Not begun: `Ownership`, graphs over the RIR of several modules; `ValueMap`,
    the backend's map from RIR values across functions and modules.
