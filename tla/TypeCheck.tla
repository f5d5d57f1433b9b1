------------------------------ MODULE TypeCheck ------------------------------
(***************************************************************************)
(* The type checker on one body of code: the declarations get their types, *)
(* then each node of the body gets its own after those below it.  A node   *)
(* that is refused is reported and the walk goes on.  The context of the   *)
(* comparisons and the types of the module are shared by all nodes.  Names *)
(* are resolved by one table for the body and one per loop around it.      *)
(***************************************************************************)
EXTENDS TypeCreation

CONSTANTS
    Programs,       \* the declarations: [decls, within, newestFirst]
    Bodies,         \* of the function, or of none: [within, steps]
    Int8Max, Int16Max, Int32Max     \* the last one within TLC's integers

ASSUME Bounds == Int8Max < Int16Max /\ Int16Max < Int32Max

VARIABLES
    prog,       \* the declarations, and the function the body is that of
    steps,      \* the nodes of the body in the order the walk leaves them in
                \* (a "forin" is where it enters one)
    stage,      \* "declare", "check", or how it ended
    pos,        \* the declaration or node that is next
    store,      \* the types of the module
    names,      \* the types of what is declared, by name
    loops,      \* the tables of the loops the walk is in
    types,      \* expression_type of each node
    last,       \* analyzer_traversal_ctx.last_node_type
    ctx,        \* g_typecmp_ctx
    reports,    \* analyzer_err() and analyzer_warn()
    failed,     \* a node was refused, with or without a report
    params      \* of each call that was accepted: [declared, found, taken]

tvars == <<prog, steps, stage, pos, store, names, loops, types, last, ctx,
           reports, failed, params>>

fixed == <<prog, steps>>
Node == steps[pos]
KidType(i) == types[Node.kids[i]]
Kid(i) == steps[Node.kids[i]]
Heap == store.heap

TypeCheckInit ==
    /\ prog \in Programs
    /\ stage = "declare" /\ pos = 1
    /\ store = [NewStore EXCEPT !.newestFirst = prog.newestFirst]
    /\ names = [x \in {} |-> NoType]
    /\ loops = <<>>
    /\ steps = <<>>
    /\ types = <<>>
    /\ last = NoType
    /\ ctx = NewContext
    /\ reports = <<>>
    /\ failed = FALSE
    /\ params = [x \in {} |-> <<>>]

-----------------------------------------------------------------------------
(* Declarations, in the order of the source.                               *)

With(map, name, t) == [x \in DOMAIN map \cup {name} |->
                        IF x = name THEN t ELSE map[x]]
WithArguments(map, h, t, d) ==
    IF d = NoDesc THEN map
    ELSE FoldLeft(LAMBDA m, hit : With(m, hit.name, hit.type), map,
                  ForeachLeaf(h, t, d).hits)

Created(d) ==
    CASE d.is = "type" -> CreateDefined(store, names, d.name, d.desc)
      [] d.is = "fn" -> CreateFunction(store, names, d.desc, d.ret)
      [] OTHER -> LookupOrCreate(store, names, Leaf(d.name, d.desc))

Declare ==
    /\ stage = "declare" /\ pos <= Len(prog.decls)
    /\ \E d \in {prog.decls[pos]} : \E r \in {Created(d)} :
        /\ r.type # NoType
        /\ store' = r.store
        /\ names' =
            LET all == With(names, d.name, r.type)
            IN  IF d.is # "fn" \/ d.name # prog.within THEN all
                ELSE WithArguments(all, r.store.heap,
                        ArgumentType(r.store.heap, r.type), d.desc)
    /\ pos' = pos + 1
    /\ UNCHANGED <<fixed, stage, loops, types, last, ctx, reports, failed,
                   params>>

Undeclared ==
    /\ stage = "declare" /\ pos <= Len(prog.decls)
    /\ \E r \in {Created(prog.decls[pos])} :
        r.type = NoType /\ store' = r.store
    /\ stage' = "refused" /\ failed' = TRUE
    /\ reports' = Append(reports, <<"error", 0>>)
    /\ UNCHANGED <<fixed, pos, names, loops, types, last, ctx, params>>

StartCheck ==
    /\ stage = "declare" /\ pos > Len(prog.decls)
    /\ \E body \in Bodies : body.within = prog.within /\ steps' = body.steps
    /\ types' = [i \in DOMAIN steps' |-> NoType]
    /\ stage' = "check" /\ pos' = 1
    /\ UNCHANGED <<prog, store, names, loops, last, ctx, reports, failed, params>>

-----------------------------------------------------------------------------
(* What becomes of a node.                                                 *)

AtNode(kinds) == stage = "check" /\ pos <= Len(steps) /\ Node.k \in kinds

Settles(t) ==
    /\ types' = [types EXCEPT ![pos] = t]
    /\ last' = t
    /\ pos' = pos + 1
    /\ UNCHANGED <<fixed, stage, names>>
Accepts(t) ==
    Settles(t) /\ UNCHANGED <<store, loops, ctx, reports, failed, params>>
Reported(c) ==
    /\ reports' = Append(reports, <<"error", pos>>)
    /\ failed' = TRUE
    /\ ctx' = c
Refuses(c) ==
    /\ Reported(c)
    /\ pos' = pos + 1
    /\ UNCHANGED <<fixed, stage, store, names, loops, types, last, params>>
Crashes ==
    /\ stage' = "crashed"
    /\ UNCHANGED <<fixed, pos, store, names, loops, types, last, ctx, reports,
                   failed, params>>

StorageType(n) ==
    Const(IF n > Int32Max THEN "u64" ELSE IF n > Int16Max THEN "u32"
          ELSE IF n > Int8Max THEN "u16" ELSE "u8")

CheckConstant ==
    AtNode({"int", "const"})
    /\ Accepts(IF Node.k = "int" THEN StorageType(Node.v) ELSE Const(Node.name))

NamesHere == IF loops = <<>> THEN names ELSE Last(loops)

(* The member of a member access is not a name of this scope, and may as   *)
(* well be one.  A wildcard is for the patterns of a match.                *)
CheckIdentifier ==
    /\ AtNode({"id", "member"})
    /\ \E t \in {TypeOfName(NamesHere, Node.name)} :
          IF t = Wild THEN Refuses(ctx)
          ELSE IF t # NoType \/ Node.k = "member" THEN Accepts(t)
          ELSE /\ Settles(NoType) /\ Reported(ctx)
               /\ UNCHANGED <<store, loops, params>>

Declaration(name) == CHOOSE d \in Range(prog.decls) : d.name = name

(* The leaf of the declaration is looked for or made a second time.        *)
CheckVariable ==
    /\ AtNode({"vardecl"})
    /\ \E r \in {GetOrCreate(store, NamesHere, Declaration(Node.name).desc)} :
          Settles(r.type) /\ store' = r.store
    /\ UNCHANGED <<loops, ctx, reports, failed, params>>

-----------------------------------------------------------------------------
(* Operators.                                                              *)

Plain(t) == IF t.cat = "elementary" THEN Elem(t.e) ELSE t

(* typecheck_do_type_conversion(): of two elementary types the one that    *)
(* comes later in their order is tried first.                              *)
CommonType(h, c, l, r) ==
    LET elementary == l.cat = "elementary" /\ r.cat = "elementary"
        rightward == Compare(h, c, l, r, "implicit")
        tried == ~elementary \/ Rank(r.e) >= Rank(l.e)
        before == IF tried THEN rightward.c ELSE c
        leftward == Compare(h, before, r, l, "implicit")
        Of(t) == IF elementary THEN Plain(t) ELSE t
    IN  IF tried /\ rightward.ok THEN [type |-> Of(r), c |-> rightward.c]
        ELSE IF leftward.ok THEN [type |-> Of(l), c |-> leftward.c]
        ELSE [type |-> NoType, c |-> leftward.c]

CheckOperator ==
    /\ AtNode({"arith", "logic"})
    /\ IF NoType \in {KidType(1), KidType(2)} THEN Refuses(ctx)
       ELSE \E r \in {CommonType(Heap, ctx, KidType(1), KidType(2))} :
             IF r.type = NoType THEN Refuses(r.c)
             ELSE /\ Settles(IF Node.k = "logic" THEN Elem("bool") ELSE r.type)
                  /\ ctx' = r.c
                  /\ UNCHANGED <<store, loops, reports, failed, params>>

CheckUnary ==
    /\ AtNode({"unary"})
    /\ \E t \in {KidType(1)} :
          IF t.cat = "elementary" /\ Rank(t.e) <= Rank("f64") THEN Accepts(t)
          ELSE Refuses(ctx)

(* The warnings that are waiting are reported, the last one first.         *)
Assigned(c, reps) ==
    IF ~c.warned THEN [c |-> c, reports |-> reps]
    ELSE [c |-> [c EXCEPT !.warnings = <<>>],
          reports |-> reps \o [i \in DOMAIN c.warnings |->
                                <<"warning", pos, Reverse(c.warnings)[i]>>]]

(* A literal array of constants takes on the type it is assigned to.       *)
Adjusted(ts, l, r) ==
    LET here == Node.kids[2]
        members == Kid(2).kids
    IN  IF \/ Kid(2).k # "list" \/ ~IsElementaryArray(Heap, r)
           \/ Deref(Heap, r).of.e = Deref(Heap, l).of.e
           \/ steps[members[1]].k \notin {"int", "const"}
        THEN ts
        ELSE [i \in DOMAIN ts |->
                IF i = here THEN l
                ELSE IF i \in Range(members) THEN Deref(Heap, l).of
                ELSE ts[i]]

CheckAssignment ==
    /\ AtNode({"assign"})
    /\ \E l \in {KidType(1)}, r \in {KidType(2)} :
         IF \/ Kid(1).k \notin {"id", "vardecl", "access"}
            \/ NoType \in {l, r} THEN Refuses(ctx)
         ELSE \E v \in {Compare(Heap, WithFlag(ctx, FALSE), r, l, "implicit")} :
               IF ~v.ok THEN Refuses(v.c)
               ELSE /\ types' = [Adjusted(types, l, r) EXCEPT ![pos] = l]
                    /\ last' = l
                    /\ pos' = pos + 1
                    /\ ctx' = Assigned(v.c, reports).c
                    /\ reports' = Assigned(v.c, reports).reports
                    /\ UNCHANGED <<fixed, stage, names, store, loops, failed,
                                   params>>

CheckComma ==
    /\ AtNode({"comma"})
    /\ IF NoType \in {KidType(1), KidType(2)} THEN Refuses(ctx)
       ELSE \E r \in {FromOperation(store, ",", KidType(1), KidType(2))} :
             Settles(r.type) /\ store' = r.store
             /\ UNCHANGED <<loops, ctx, reports, failed, params>>

(* The member of a defined type, by the names of its declaration.          *)
Member(h, t, name) ==
    LET decl == Declaration(h[t.i].name)
        hits == ForeachLeaf(h, h[t.i].type, decl.desc).hits
        named == SelectSeq(hits, LAMBDA x : x.name = name)
    IN  IF named = <<>> THEN NoType ELSE named[1].type

(* The table is asked for the name on the left, which only an identifier    *)
(* has; so is the report of one with no type.                              *)
CheckAccess ==
    /\ AtNode({"access"})
    /\ \E l \in {KidType(1)} :
         IF l = NoType /\ Kid(1).k # "id" THEN Crashes
         ELSE IF \/ l = NoType \/ Deref(Heap, l).cat # "defined"
                 \/ Kid(2).k # "member"
         THEN Refuses(ctx)
         ELSE IF Kid(1).k # "id" THEN Crashes
         ELSE \E t \in {Member(Heap, l, Kid(2).name)} :
               IF t = NoType THEN Refuses(ctx)
               ELSE /\ types' = [types EXCEPT ![pos] = t, ![Node.kids[2]] = t]
                    /\ last' = t
                    /\ pos' = pos + 1
                    /\ UNCHANGED <<fixed, stage, names, store, loops, ctx,
                                   reports, failed, params>>

FirstSize(t) == Deref(Heap, t).dims[1]

OutOfBounds(t, n) == FirstSize(t) # -1 /\ n >= FirstSize(t)

CheckIndex ==
    /\ AtNode({"index"})
    /\ \E l \in {KidType(1)}, r \in {KidType(2)} :
         IF l = NoType /\ Kid(1).k # "id" THEN Crashes
         ELSE IF \/ l = NoType \/ Deref(Heap, l).cat # "array"
                 \/ r.cat # "elementary" \/ ~IsInt(r.e)
                 \/ Kid(2).k = "int" /\ OutOfBounds(l, Kid(2).v)
         THEN Refuses(ctx)
         ELSE Accepts(Deref(Heap, l).of)

(* The members of a list are compared with the first, itself included.     *)
ListVerdict(c, first, others) ==
    FoldLeft(LAMBDA v, t : IF ~v.ok THEN v
                           ELSE Compare(Heap, v.c, first, t, "implicit"),
             [ok |-> TRUE, c |-> c], others)

CheckList ==
    /\ AtNode({"list"}) /\ Node.kids # <<>>
    /\ \E ts \in {[i \in DOMAIN Node.kids |-> KidType(i)]} :
       \E untyped \in {SelectInSeq(ts, LAMBDA t : t = NoType)} :
       \E v \in {ListVerdict(ctx, ts[1],
                  IF untyped = 0 THEN ts ELSE SubSeq(ts, 1, untyped - 1))} :
         IF untyped = 1 THEN Refuses(ctx)
         ELSE IF ~v.ok THEN Refuses(v.c)
         ELSE IF untyped # 0 THEN Crashes
         ELSE \E r \in {ArrayType(store, ts[1], <<Len(ts)>>)} :
               /\ Settles(r.type) /\ store' = r.store /\ ctx' = v.c
               /\ UNCHANGED <<loops, reports, failed, params>>

-----------------------------------------------------------------------------
(* Calls, and what ends a function or makes a block.                       *)

(* The first child is the name, the second the arguments if there are any. *)
CallVerdict(f, found) ==
    IF f.cat = "elementary"
    THEN IF Len(Node.kids) = 1 \/ Deref(Heap, found).cat = "operator"
         THEN [ok |-> FALSE, c |-> ctx]
         ELSE Compare(Heap, ctx, found, f, "explicit")
    ELSE LET declared == ArgumentType(Heap, f)
         IN  Compare(Heap, WithFlag(ctx, TRUE), found, declared,
                     IF IsOperation(Heap, declared, "|") THEN "pattern"
                     ELSE "implicit")

CheckCall ==
    /\ AtNode({"call"})
    /\ \E f \in {TypeOfName(NamesHere, Node.name)},
          found \in {IF Len(Node.kids) = 1 THEN Elem("nil") ELSE KidType(2)} :
         \E v \in {IF f = NoType \/ found = NoType \/ ~IsCallable(Heap, f)
                   THEN [ok |-> FALSE, c |-> ctx] ELSE CallVerdict(f, found)} :
            /\ Settles(IF v.ok THEN ResultType(Heap, f) ELSE NoType)
            /\ ctx' = v.c
            /\ failed' = (failed \/ ~v.ok)
            /\ reports' = IF \/ v.ok
                             \/ /\ found = NoType
                                /\ f # NoType /\ IsCallable(Heap, f)
                          THEN reports
                          ELSE Append(reports, <<"error", pos>>)
            /\ params' = IF ~v.ok \/ f.cat = "elementary" THEN params
                         ELSE With(params, pos,
                                [declared |-> ArgumentType(Heap, f),
                                 found |-> found,
                                 taken |-> IF v.c.matched = NoType THEN found
                                           ELSE v.c.matched])
    /\ UNCHANGED <<store, loops>>

(* The type of the function is compared to that of the value.  A value     *)
(* without a type fails with no report of its own.                         *)
CheckReturn ==
    /\ AtNode({"return"})
    /\ IF prog.within = "" THEN Refuses(ctx)
       ELSE IF KidType(1) = NoType
       THEN /\ failed' = TRUE
            /\ pos' = pos + 1
            /\ UNCHANGED <<fixed, stage, store, names, loops, types, last, ctx,
                           reports, params>>
       ELSE \E v \in {Compare(Heap, ctx, ResultType(Heap, names[prog.within]),
                              KidType(1), "implicit")} :
             IF ~v.ok THEN Refuses(v.c)
             ELSE /\ Settles(KidType(1)) /\ ctx' = v.c
                  /\ UNCHANGED <<store, loops, reports, failed, params>>

(* A mutation of BlockType: that of the block that ended before.           *)
BlockTypeFirst(t) == IF Node.kids = <<>> THEN t ELSE KidType(1)

(* That of the node before it, whatever that was.                          *)
BlockType(t) == t

CheckBlock ==
    /\ AtNode({"block"})
    /\ types' = [types EXCEPT ![pos] = BlockType(last)]
    /\ pos' = pos + 1
    /\ UNCHANGED <<fixed, stage, store, names, loops, last, ctx, reports,
                   failed, params>>

(* An if, its branches and a list of nothing get no type.                  *)
CheckOther ==
    /\ AtNode({"if", "list"}) /\ (Node.k = "list" => Node.kids = <<>>)
    /\ pos' = pos + 1
    /\ UNCHANGED <<fixed, stage, store, names, loops, types, last, ctx, reports,
                   failed, params>>

-----------------------------------------------------------------------------
(* Loops.  On the way in the loop variable gets its type.                  *)

IsRange == Node.range # <<>>

EnterLoop ==
    /\ AtNode({"forin"})
    /\ \E over \in {IF IsRange THEN Elem("i64")
                    ELSE TypeOfName(NamesHere, Node.over)} :
         IF IsRange \/ Deref(Heap, over).cat = "array"
         THEN \E t \in {IF IsRange THEN over ELSE Deref(Heap, over).of} :
               /\ Settles(t)
               /\ loops' = Append(loops, With(NamesHere, Node.name, t))
               /\ UNCHANGED <<store, ctx, reports, failed, params>>
         ELSE /\ Reported(ctx)
              /\ pos' = Node.skip
              /\ UNCHANGED <<fixed, stage, store, names, loops, types, last,
                             params>>

Unknown == -99      \* a part of a range that is not a constant
Computable(r) == Unknown \notin Range(r)
IsEmptyRange(start, step, end) ==
    \/ step = 0
    \/ end <= start /\ step > 0
    \/ start <= end /\ step < 0

CheckIterable ==
    /\ AtNode({"iter"})
    /\ IF ~IsRange THEN Accepts(KidType(1))
       ELSE IF /\ Computable(Node.range)
               /\ IsEmptyRange(Node.range[1], Node.range[2], Node.range[3])
       THEN Refuses(ctx)
       ELSE Accepts(Elem("i64"))

Distance(a, b) == IF a < b THEN b - a ELSE a - b
NumberOfLoops(r) ==
    IF ~Computable(r) THEN -1
    ELSE IF r[2] = 0 THEN Distance(r[1], r[3])
    ELSE Distance(r[1], r[3]) \div Distance(0, r[2])

LeaveLoop ==
    /\ AtNode({"for"})
    /\ \E over \in {KidType(1)}, body \in {KidType(2)} :
         IF \/ body = NoType
            \/ Kid(1).range = <<>> /\ Deref(Heap, over).cat # "array"
         THEN Crashes
         ELSE \E r \in {LET g == Kid(1).range IN
                        IF g = <<>>
                        THEN ArrayType(store, body, <<FirstSize(over)>>)
                        ELSE ArrayType(store, Elem("i64"),
                                       <<NumberOfLoops(g)>>)} :
               /\ Settles(r.type) /\ store' = r.store
               /\ loops' = Front(loops)
               /\ UNCHANGED <<ctx, reports, failed, params>>

FinishCheck ==
    /\ stage = "check" /\ pos > Len(steps)
    /\ stage' = IF failed THEN "refused" ELSE "accepted"
    /\ UNCHANGED <<fixed, pos, store, names, loops, types, last, ctx, reports,
                   failed, params>>

TypeCheckDone ==
    stage \in {"refused", "accepted", "crashed"} /\ UNCHANGED tvars

TypeCheckNext ==
    \/ Declare \/ Undeclared \/ StartCheck
    \/ CheckConstant \/ CheckIdentifier \/ CheckVariable
    \/ CheckOperator \/ CheckUnary \/ CheckAssignment \/ CheckComma
    \/ CheckAccess \/ CheckIndex \/ CheckList
    \/ CheckCall \/ CheckReturn \/ CheckBlock \/ CheckOther
    \/ EnterLoop \/ CheckIterable \/ LeaveLoop
    \/ FinishCheck \/ TypeCheckDone

TypeCheckSpec == TypeCheckInit /\ [][TypeCheckNext]_tvars
=============================================================================
