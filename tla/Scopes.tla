------------------------------- MODULE Scopes -------------------------------
(***************************************************************************)
(* The symbol tables of a program and the two walks of the analyzer that   *)
(* build and read them.  The first walk makes a table for each scope,      *)
(* hangs it under the current one and records what is declared; it stops   *)
(* at the first failure.  The second one sets the current table at each    *)
(* scope, looks up what is used and goes on after an error.  Both restore  *)
(* the parent of a table on the way up.  The modules are analyzed one      *)
(* after the other, those that others depend on first.                     *)
(***************************************************************************)
EXTENDS ScopeRules

CONSTANT Programs

(* What the parser hands over: each file has one tree.  The modules were   *)
(* sorted: a module comes after those it depends on.                       *)
ASSUME ProgramsAreTrees ==
    /\ MaxDepth \in Nat
    /\ \A p \in Programs :
        /\ p # <<>> /\ IsSeq(p)
        /\ \A n \in DOMAIN p : IsTree(p[n].tree) /\ IsSource(p[n].tree)
        /\ \A n \in DOMAIN p : p[n].deps \in Seq(1..(n - 1))
        /\ \A n, k \in DOMAIN p :
            p[n].tree.k = "root" /\ p[k].tree.k = "root" /\ p[n].file = p[k].file
                => n = k

VARIABLES
    stage,      \* "declare", "check", or how the analysis ended
    m,          \* the module being analyzed
    at, dir,    \* where the walk is: a path, on the way "down" or "up"
    cur,        \* analyzer_traversal_ctx.current_st
    parents,    \* analyzer_traversal_ctx.parent_nodes
    tables,     \* per id, symbol_table: [parent, mod, fndecl, recs]
    errors,     \* analyzer_err(): the nodes and what was said of them
    found,      \* per use or return, what the second walk found for it
    lost        \* the nodes at which a callback failed on the way down

svars == <<prog, stage, m, at, dir, cur, parents, tables, errors, found, lost>>

-----------------------------------------------------------------------------
(* Tables.  A table is named by the node it belongs to.  The root of a     *)
(* file has one too, which belongs to no module.                           *)

NoTable == <<>>

FileTable(n) == <<0, prog[n].file>>
TableOf(n, p) ==
    IF Kind(n, p) = "root" THEN FileTable(n)
    ELSE IF Kind(n, p) \in {"fnimpl", "case"} THEN <<n, Append(p, 1)>>
    ELSE <<n, p>>
ModuleTable(n) == TableOf(n, <<>>)

(* A function with one more value, or another one.                         *)
Extended(f, x, value) ==
    [y \in DOMAIN f \cup {x} |-> IF y = x THEN value ELSE f[y]]

NoRecords == [x \in {} |-> {}]
NewTable(n) == [parent |-> NoTable, mod |-> n, fndecl |-> NoWhere,
                recs |-> NoRecords]
NoRecord == [by |-> NoWhere, node |-> NoWhere,
             data |-> [is |-> "none", where |-> NoWhere]]
Has(ts, t, name) == name \in DOMAIN ts[t].recs

(* The table and those above it.                                           *)
Upwards(ts, t) ==
    LET chain[n \in 0..(MaxDepth + 2)] ==
            IF n = 0 THEN <<t>>
            ELSE LET below == chain[n - 1]
                     above == ts[Last(below)].parent
                 IN  IF above = NoTable THEN below ELSE Append(below, above)
    IN  chain[MaxDepth + 2]

(* The tables at and above one that know a name.                           *)
Knowing(ts, t, name) == {i \in DOMAIN Upwards(ts, t) : Has(ts, Upwards(ts, t)[i], name)}

(* A mutation of LookupChain: from the outside in.                         *)
LookupChainOutermost(ts, t, name) ==
    LET with == Knowing(ts, t, name)
    IN  IF with = {} THEN NoRecord ELSE ts[Upwards(ts, t)[Max(with)]].recs[name]

LookupChain(ts, t, name) ==
    LET with == Knowing(ts, t, name)
    IN  IF with = {} THEN NoRecord ELSE ts[Upwards(ts, t)[Min(with)]].recs[name]

(* The dependencies are those of the module of the table that was asked.   *)
(* The table of a file has no module.                                      *)
Depends(n) == IF n = 0 THEN <<>> ELSE prog[n].deps
LookupFromDeps(ts, n, name) ==
    LET own(e) == LookupChain(ts, ModuleTable(e), name)
        from[d \in 0..Len(prog)] ==
            LET deps == Depends(d)
                asked == [i \in DOMAIN deps |->
                            IF own(deps[i]) # NoRecord THEN own(deps[i])
                            ELSE from[ts[ModuleTable(deps[i])].mod]]
                knowing == {i \in DOMAIN deps : asked[i] # NoRecord
                                                /\ name # ModuleName(deps[i])}
            IN  IF knowing = {} THEN NoRecord ELSE asked[Min(knowing)]
    IN  from[n]

Lookup(ts, t, name) ==
    LET own == LookupChain(ts, t, name)
    IN  IF own # NoRecord THEN own ELSE LookupFromDeps(ts, ts[t].mod, name)

(* The type a name stands for.  Any record has one: that of a variable or  *)
(* of a function is found too.                                             *)
NoType == NoRecord.data
Type(is, where) == [is |-> is, where |-> where]
TypeNamed(ts, t, name) ==
    IF name = "i32[]" THEN Type("array", NoWhere)
    ELSE IF name \in Elementary THEN Type("elementary", NoWhere)
    ELSE Lookup(ts, t, name).data

(* The record of a variable of a defined type gets the node of what that   *)
(* type's name means where the record is made.                             *)
RecordOf(ts, t, where, data) ==
    LET defined == Node(data.where[1], data.where[2]).name
    IN  [by |-> where, data |-> data,
         node |-> IF data.is = "defined" /\ data.where # where
                  THEN Lookup(ts, t, defined).node ELSE where]
Recorded(ts, t, name, record) ==
    [ts EXCEPT ![t].recs = Extended(@, name, record)]

-----------------------------------------------------------------------------
(* The walk.                                                               *)

SInit ==
    /\ prog \in Programs
    /\ stage = "declare" /\ m = 1 /\ at = <<>> /\ dir = "down"
    /\ cur = FileTable(1) /\ parents = <<>>
    /\ tables = [t \in {FileTable(n) : n \in DOMAIN prog} \cup
                       {ModuleTable(n) : n \in DOMAIN prog} |-> NewTable(t[1])]
    /\ errors = {} /\ found = [x \in {} |-> {}] /\ lost = {}

Here == Node(m, at)
Where == <<m, at>>
Walking == stage \in {"declare", "check"}

Descend ==
    IF Here.ch = <<>> THEN dir' = "up" /\ UNCHANGED at
    ELSE dir' = "down" /\ at' = Append(at, 1)

(* A mutation of NextPlace: siblings are missed.                           *)
NextPlaceUp == IF at = <<>> THEN at ELSE Above(at)

NextPlace ==
    IF at = <<>> THEN at
    ELSE IF Last(at) < Len(Children(m, Above(at)))
         THEN Append(Above(at), Last(at) + 1)
         ELSE Above(at)

(* After the last node: the second walk, the next module or the end.       *)
Restart(s, n) ==
    /\ stage' = s /\ m' = n /\ at' = <<>> /\ dir' = "down" /\ parents' = <<>>

FinishWalk(errs) ==
    IF stage = "declare"
    THEN /\ Restart("check", m)
         /\ cur' = NoTable
    ELSE IF \E e \in errs : e.node[1] = m
    THEN /\ Restart("failed", m)
         /\ UNCHANGED cur
    ELSE IF m < Len(prog)
    THEN /\ Restart("declare", m + 1)
         /\ cur' = FileTable(m + 1)
    ELSE /\ Restart("analyzed", m)
         /\ UNCHANGED cur

GoOn(errs, restored) ==
    IF at = <<>> THEN FinishWalk(errs)
    ELSE /\ at' = NextPlace
         /\ dir' = IF NextPlace = Above(at) THEN "up" ELSE "down"
         /\ cur' = restored
         /\ UNCHANGED <<stage, m>>

Fail(how, errs) ==
    /\ stage' = how
    /\ errors' = errors \cup errs
    /\ UNCHANGED <<prog, m, at, dir, cur, tables, found, lost>>
Said(what) == {[node |-> Where, what |-> what]}

-----------------------------------------------------------------------------
(* The first walk, on the way down.                                        *)

Declaring(kinds) ==
    /\ stage = "declare" /\ dir = "down" /\ Here.k \in kinds
    /\ parents' = Append(parents, at)

(* A table is hung under the current one and knows its function.           *)
SwapTo(ts, t, decl) ==
    [ts EXCEPT ![t].parent = cur,
               ![t].fndecl = IF decl = NoWhere THEN ts[cur].fndecl ELSE decl]

DeclareScope ==
    /\ Declaring({"block", "for"})
    /\ tables' = SwapTo(Extended(tables, Where, NewTable(m)), Where, NoWhere)
    /\ cur' = Where
    /\ Descend
    /\ UNCHANGED <<prog, stage, m, errors, found, lost>>

DeclareModule ==
    /\ Declaring({"module"})
    /\ IF Has(tables, cur, Here.name)
       THEN Fail("failed", Said("used"))
       ELSE /\ \E record \in {RecordOf(tables, cur, Where,
                                       Type("module", Where))} :
                tables' = SwapTo(Recorded(tables, cur, Here.name, record),
                                 Where, NoWhere)
            /\ cur' = Where
            /\ Descend
            /\ UNCHANGED <<prog, stage, m, errors, found, lost>>

(* The arguments of a function get their types where the function is       *)
(* declared and are added to its own table, which has no parent yet.       *)
Arguments == Children(m, Append(at, 1))

(* A mutation of ArgumentTypes: the types are taken from the back.         *)
ArgumentTypesReversed ==
    [i \in DOMAIN Arguments |->
        TypeNamed(tables, cur, Arguments[Len(Arguments) + 1 - i].ty)]

ArgumentTypes ==
    [i \in DOMAIN Arguments |-> TypeNamed(tables, cur, Arguments[i].ty)]
ReturnType ==
    IF Len(Here.ch) = 2 THEN TypeNamed(tables, cur, Here.ch[2].name)
    ELSE Type("elementary", NoWhere)

(* A mutation of Clash: nothing clashes.                                   *)
ClashNever(ts, t, name) == FALSE

Clash(ts, t, name) == Has(ts, t, name)

ArgumentAt(i) == <<m, at \o <<1, i>>>>
AddArgument(r, i) ==
    IF ~r.ok \/ Here.ty = "foreign" THEN r
    ELSE IF Clash(r.ts, Where, Arguments[i].name) THEN [r EXCEPT !.ok = FALSE]
    ELSE [r EXCEPT !.ts = Recorded(@, Where, Arguments[i].name,
            [by |-> ArgumentAt(i), data |-> ArgumentTypes[i],
             node |-> IF ArgumentTypes[i].is = "defined"
                      THEN Lookup(r.ts, cur, Arguments[i].ty).node
                      ELSE ArgumentAt(i)])]
AddArguments(ts) ==
    LET added[i \in 0..Len(Arguments)] ==
            IF i = 0 THEN [ts |-> ts, ok |-> TRUE]
            ELSE AddArgument(added[i - 1], i)
    IN  added[Len(Arguments)]

DeclareFunction ==
    /\ Declaring({"fndecl"})
    /\ \E added \in {AddArguments(Extended(tables, Where, NewTable(m)))} :
       \E known \in {Lookup(tables, cur, Here.name)} :
       \E types \in {Range(ArgumentTypes) \cup {ReturnType}} :
            IF known.data.is = "function"
            THEN Fail("failed", Said("function exists"))
            ELSE IF Has(tables, cur, Here.name)
            THEN Fail("asserted", {})
            ELSE IF NoType \in types \/ ~added.ok
            THEN Fail("failed", Said("no type, or an argument twice"))
            ELSE /\ tables' =
                        SwapTo(Recorded(added.ts, cur, Here.name,
                                  RecordOf(added.ts, cur, Where,
                                           Type("function", Where))),
                               Where, Where)
                 /\ cur' = Where
                 /\ Descend
                 /\ UNCHANGED <<prog, stage, m, errors, found, lost>>

(* A name that is not taken in the own table, of a type that is known.     *)
AddLeaf(r, t, p) ==
    LET leaf == Node(m, p)
        data == TypeNamed(r.ts, t, leaf.ty)
    IN  IF r.said # "nothing" THEN r
        ELSE IF Clash(r.ts, t, leaf.name) THEN [r EXCEPT !.said = "used"]
        ELSE IF data = NoType THEN [r EXCEPT !.said = "no type"]
        ELSE [r EXCEPT !.ts = Recorded(@, t, leaf.name,
                                       RecordOf(@, t, <<m, p>>, data))]

AddLeaves(ts) ==
    LET added[i \in 0..Len(Here.ch)] ==
            IF i = 0 THEN [ts |-> ts, said |-> "nothing"]
            ELSE AddLeaf(added[i - 1], Where, Append(at, i))
    IN  added[Len(Here.ch)]

DeclareDescription ==
    /\ Declaring({"typedesc"})
    /\ \E swapped \in {SwapTo(Extended(tables, Where, NewTable(m)),
                             Where, NoWhere)} :
       \E filled \in {AddLeaves(swapped)} :
            IF filled.said # "nothing" THEN Fail("failed", Said(filled.said))
            ELSE /\ tables' = filled.ts
                 /\ cur' = Where
                 /\ Descend
                 /\ UNCHANGED <<prog, stage, m, errors, found, lost>>

DeclareVariable ==
    /\ Declaring({"vardecl"})
    /\ \E added \in {AddLeaf([ts |-> tables, said |-> "nothing"], cur, Append(at, 1))} :
           IF added.said # "nothing" THEN Fail("failed", Said(added.said))
           ELSE /\ tables' = added.ts
                /\ Descend
                /\ UNCHANGED <<prog, stage, m, cur, errors, found, lost>>

(* The types inside a declared one are looked up around the declaration.   *)
DeclareType ==
    /\ Declaring({"typedecl"})
    /\ IF Clash(tables, cur, Here.name) THEN Fail("failed", Said("used"))
       ELSE IF \E i \in DOMAIN Arguments : ArgumentTypes[i] = NoType
       THEN Fail("failed", Said("no type"))
       ELSE /\ tables' = Recorded(tables, cur, Here.name,
                            RecordOf(tables, cur, Where,
                                     Type("defined", Where)))
            /\ Descend
            /\ UNCHANGED <<prog, stage, m, cur, errors, found, lost>>

DeclareOther ==
    /\ Declaring({"root", "fnimpl", "case", "leaf", "loopvar", "iter", "match",
                  "use", "return", "import", "xid"})
    /\ Descend
    /\ UNCHANGED <<prog, stage, m, cur, tables, errors, found, lost>>

-----------------------------------------------------------------------------
(* On the way up, in both walks.                                           *)

NthParent(n) == parents[Len(parents) - 1 - n]

(* The head of a function and the pattern of a case keep their table for   *)
(* what follows them.                                                      *)
KeepsTable ==
    \/ Here.k = "fndecl" /\ Here.ty = "impl"
    \/ Here.k = "typedesc" /\ Kind(m, NthParent(0)) = "case"

(* A mutation of Restored: the table of a pattern is left with it.         *)
RestoredAlways ==
    IF IsScope(m, at) \/ Here.k = "fndecl"
    THEN IF Here.k = "root" THEN cur ELSE tables[TableOf(m, at)].parent
    ELSE cur

Restored ==
    IF (IsScope(m, at) \/ Here.k = "fndecl") /\ Here.k # "root" /\ ~KeepsTable
    THEN tables[TableOf(m, at)].parent ELSE cur

(* A mutation of Popped: only what opens a scope is taken from the list.   *)
PoppedScope == IF IsScope(m, at) THEN Front(parents) ELSE parents

Popped == IF at = <<>> THEN <<>> ELSE Front(parents)

LeaveDeclared ==
    /\ stage = "declare" /\ dir = "up"
    /\ GoOn(errors, Restored)
    /\ parents' = Popped
    /\ UNCHANGED <<prog, tables, errors, found, lost>>

-----------------------------------------------------------------------------
(* The second walk.                                                        *)

Checking(kinds) ==
    /\ stage = "check" /\ dir = "down" /\ Here.k \in kinds
    /\ parents' = Append(parents, at)

CheckScope ==
    /\ Checking((OpensScope \cup {"fndecl"}) \ {"for"})
    /\ cur' = TableOf(m, at)
    /\ Descend
    /\ UNCHANGED <<prog, stage, m, tables, errors, found, lost>>

CheckOther ==
    /\ Checking({"vardecl", "typedecl", "leaf", "loopvar", "iter", "use",
                 "return", "import", "xid"})
    /\ Descend
    /\ UNCHANGED <<prog, stage, m, cur, tables, errors, found, lost>>

(* The walk leaves out what is below a node whose callback failed, and its *)
(* callback on the way up.                                                 *)
GiveUp(what) ==
    /\ errors' = errors \cup Said(what)
    /\ lost' = lost \cup {Where}
    /\ GoOn(errors', cur)
    /\ UNCHANGED <<prog, tables, found>>

(* What a match expression matches is looked up on the way down.           *)
CheckMatch ==
    /\ Checking({"match"})
    /\ IF TypeNamed(tables, cur, Here.name) = NoType
       THEN Fail("crashed", {})
       ELSE /\ Descend
            /\ UNCHANGED <<prog, stage, m, cur, tables, errors, found, lost>>

(* The type of a loop variable: i64 over a range, else that of a member    *)
(* of the collection, which is looked up outside of the loop.              *)
Iterated == Here.ch[2].name
CheckFor ==
    /\ Checking({"for"})
    /\ \E data \in {TypeNamed(tables, cur, Iterated)} :
           IF Iterated # NoName /\ data = NoType
           THEN GiveUp("undeclared")
           ELSE IF Iterated # NoName /\ data.is # "array"
           THEN GiveUp("not iterable")
           ELSE /\ tables' =
                    Recorded(tables, Where, Here.ch[1].name,
                             RecordOf(tables, Where, <<m, Append(at, 1)>>,
                                      Type("elementary", NoWhere)))
                /\ cur' = Where
                /\ Descend
                /\ UNCHANGED <<prog, stage, m, errors, found, lost>>

Finding(what) == found' = Extended(found, Where, what)
LeaveChecked(kinds, errs) ==
    /\ stage = "check" /\ dir = "up" /\ Here.k \in kinds
    /\ errors' = errors \cup errs
    /\ GoOn(errors', Restored)
    /\ parents' = Popped
    /\ UNCHANGED <<prog, tables, lost>>

(* An identifier, also one that names a type or a collection.              *)
Mentions(n, p) == IF Kind(n, p) = "leaf" THEN Node(n, p).ty ELSE Node(n, p).name
Mentioned == Mentions(m, at)
CheckUse ==
    /\ stage = "check" /\ dir = "up"
    /\ Mentioned \notin Elementary \cup {NoName}
    /\ \E record \in {Lookup(tables, cur, Mentioned)} :
        /\ LeaveChecked({"use", "iter", "leaf", "xid"},
                IF record = NoRecord THEN Said("undeclared") ELSE {})
        /\ Finding(record)

CheckReturn ==
    /\ LeaveChecked({"return"},
            IF tables[cur].fndecl = NoWhere THEN Said("no function") ELSE {})
    /\ Finding([NoRecord EXCEPT !.by = tables[cur].fndecl])

LeaveOther ==
    /\ Here.k # "return"
    /\ Here.k \in {"use", "iter", "leaf", "xid"}
            => Mentioned \in Elementary \cup {NoName}
    /\ LeaveChecked({Here.k}, {})
    /\ UNCHANGED found

Done == ~Walking /\ UNCHANGED svars

SNext ==
    \/ DeclareScope \/ DeclareModule \/ DeclareFunction \/ DeclareDescription
    \/ DeclareVariable \/ DeclareType \/ DeclareOther \/ LeaveDeclared
    \/ CheckScope \/ CheckOther \/ CheckMatch \/ CheckFor
    \/ CheckUse \/ CheckReturn \/ LeaveOther \/ Done

SSpec == SInit /\ [][SNext]_svars

-----------------------------------------------------------------------------
(* Properties.                                                             *)

WayTo(p) == [i \in 1..(Len(p) + 1) |-> SubSeq(p, 1, i - 1)]

(* Every record is of a declaration of the program, under its name.        *)
ScopesTypeOK ==
    /\ stage \in {"declare", "check", "analyzed", "failed", "asserted",
                  "crashed"}
    /\ dir \in {"down", "up"}
    /\ m \in DOMAIN prog /\ at \in Paths(m)
    /\ cur \in DOMAIN tables \cup {NoTable}
    /\ \A t \in DOMAIN tables : \A name \in DOMAIN tables[t].recs :
        LET by == tables[t].recs[name].by
        IN  Node(by[1], by[2]).name = name

(* At every statement the current table is that of the scope around it,    *)
(* and the tables of the scopes around that hang under each other from the *)
(* inside out, the outermost one under that of the file: what a nested     *)
(* scope did to the current table was undone on every way out of it.       *)
CurrentIsEnclosing ==
    Walking /\ Here.k \in {"use", "vardecl", "typedecl", "return", "for",
                           "match", "block"} =>
        LET from == IF dir = "up" THEN at ELSE Above(at)
        IN  /\ cur = TableOf(m, ScopeAround(m, from))
            /\ \A q \in ScopesAround(m, from) \ {<<>>} :
                tables[TableOf(m, q)].parent = TableOf(m, ScopeAround(m, Above(q)))
            /\ Kind(m, <<>>) = "module" =>
                tables[ModuleTable(m)].parent = FileTable(m)
            /\ tables[FileTable(m)].parent = NoTable

(* A name is bound to what the scopes of the source say, whatever was      *)
(* declared in other scopes or modules, before or after it.  At the top of *)
(* the main module a name may stay unbound: the lookup asks the module of  *)
(* the table it began in, and the root has none.                           *)
AtTop(w) ==
    /\ Kind(w[1], <<>>) = "root"
    /\ ScopesAround(w[1], Above(w[2])) = {<<>>}
MeaningsOf(w) == Meanings(w[1], w[2], Mentions(w[1], w[2]))
Names == {w \in DOMAIN found : ~Walking /\ Kind(w[1], w[2]) # "return"}
UseFindsInnermost ==
    \A w \in Names :
        IF found[w] = NoRecord THEN MeaningsOf(w) = {} \/ AtTop(w)
        ELSE found[w].by \in MeaningsOf(w)

(* A return statement is checked against the function it is in, through    *)
(* all the scopes between them.                                            *)
ReturnFindsItsFunction ==
    \A w \in DOMAIN found :
        ~Walking /\ Kind(w[1], w[2]) = "return" =>
            found[w].by = FunctionAround(w[1], w[2])

(* The current table and the function of a table follow the walk through   *)
(* all the scopes: none is left behind, none is taken for another.         *)
ScopesInv == ScopesTypeOK /\ CurrentIsEnclosing /\ ReturnFindsItsFunction

(* What is accepted declares no name twice in a scope, and the assertion   *)
(* in the tables stops only what does: a function that has the name of a   *)
(* type or a variable of its scope, or of a module of its file.            *)
Twice(n, p) ==
    \E q \in Declarations(n, Node(n, p).name) \ {p} :
        VisibleIn(n, p) \cap VisibleIn(n, q) # {}
NamesAreUnique ==
    /\ stage = "analyzed" =>
        \A n \in DOMAIN prog : \A p \in Paths(n) :
            Kind(n, p) \in Declarators => ~Twice(n, p)
    /\ stage = "asserted" =>
        Twice(m, at) \/ (Kind(m, <<>>) = "root" /\ InFile(m, Here.name) # {})

(* The type of a name that was recorded when it was declared is the one    *)
(* that the second walk finds, unless what that one finds was not there    *)
(* when the type was looked up: it is declared further down, it is the     *)
(* function of which this is an argument, or another argument of it, or it *)
(* is the variable of a loop.                                              *)
After(p, q) ==
    LET first == CHOOSE i \in 1..(Len(p) + 1) :
                    /\ \A j \in 1..(i - 1) : j <= Len(q) /\ p[j] = q[j]
                    /\ i > Len(p) \/ i > Len(q) \/ p[i] # q[i]
    IN  first <= Len(q) /\ (first > Len(p) \/ q[first] > p[first])
EnteredLater(w, by) ==
    LET owner == Above(Above(w[2]))
    IN  /\ by[1] = w[1]
        /\ \/ After(w[2], by[2]) \/ Kind(by[1], by[2]) = "loopvar"
           \/ Kind(w[1], owner) = "fndecl"
              /\ (by[2] = owner \/ Above(by[2]) = Above(w[2]))
WalksAgree ==
    stage = "analyzed" =>
        \A t \in DOMAIN tables : \A name \in DOMAIN tables[t].recs :
            LET record == tables[t].recs[name]
            IN  record.by \in DOMAIN found =>
                    \/ found[record.by].data = record.data
                    \/ EnteredLater(record.by, found[record.by].by)

(* The walk does not miss a node: in a program that was accepted all that  *)
(* names something, and every return statement, was looked at.             *)
IsLookedAt(n, p) ==
    \/ Kind(n, p) = "return"
    \/ /\ Kind(n, p) \in {"use", "iter", "leaf", "xid"}
       /\ Mentions(n, p) \notin Elementary \cup {NoName}
AcceptedIsChecked ==
    stage = "analyzed" =>
        \A n \in DOMAIN prog : \A p \in Paths(n) :
            IsLookedAt(n, p) => <<n, p>> \in DOMAIN found

(* An analysis that fails for a name has said so, and one that succeeds    *)
(* had nothing to say.                                                     *)
AnalysisFailureIsReported ==
    /\ stage = "failed" => \E e \in errors : e.node[1] = m
    /\ stage = "analyzed" => errors = {}

(* An accepted program was looked at in full, and a refused one was told.  *)
AnalysisVerdictIsRight == AcceptedIsChecked /\ AnalysisFailureIsReported

(* The list of parents is the way to the node, with one node too many for  *)
(* each callback that failed on the way down: then, and only then, a case  *)
(* may find something else than its match expression.                      *)
ParentsFollowPath ==
    Walking =>
        LET way == IF dir = "up" THEN WayTo(at) ELSE Front(WayTo(at))
        IN  /\ Len(parents) = Len(way)
                    + Cardinality({w \in lost : w[1] = m /\ stage = "check"})
            /\ lost = {} => parents = way

=============================================================================
