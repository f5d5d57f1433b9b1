---------------------------- MODULE TypeCreation ----------------------------
(***************************************************************************)
(* Making the type of a description.  A description is an identifier with  *)
(* or without a specifier of an array, a leaf that names one, or an        *)
(* operator of two descriptions.  Types are looked for in the set of the   *)
(* module before they are made, and operators of the same kind inside of   *)
(* each other become one.                                                  *)
(***************************************************************************)
EXTENDS TypeCompare

NoDesc == [is |-> "none"]
Xid(name, dims) == [is |-> "xid", name |-> name, dims |-> dims]
Leaf(name, right) == [is |-> "leaf", name |-> name, right |-> right]
TypeOp(op, l, r) == [is |-> "op", op |-> op, left |-> l, right |-> r]

(* What a name is, in the names that are visible.                          *)
TypeOfName(names, name) ==
    IF name = "_" THEN Wild
    ELSE IF name \in Range(ETypes) THEN Elem(name)
    ELSE IF name \in DOMAIN names THEN names[name]
    ELSE NoType

TypeOfXid(s, names, x) ==
    LET t == TypeOfName(names, x.name)
    IN  IF t = NoType \/ x.dims = <<>> THEN Gives(t, s)
        ELSE ArrayType(s, t, x.dims)

-----------------------------------------------------------------------------
(* The walk over a description and a type side by side.  It keeps a stack  *)
(* of types and, for each, the operand it is at: -1 before the first.      *)

CurrentType(h, w) ==
    LET o == Deref(h, Last(w.types))
        i == Last(w.indices)
    IN  IF i = -1 THEN Last(w.types)
        ELSE IF o.cat # "operator" \/ i >= Len(o.args) THEN NoType
        ELSE o.args[i + 1]
NextIndex(w) == [w EXCEPT !.indices[Len(w.indices)] = @ + 1]
Failed(w) == [w EXCEPT !.ok = FALSE]

Enter(h, w, d) ==
    LET t == CurrentType(h, w)
        down == [w EXCEPT !.op = d.op]
    IN  IF t = NoType THEN Failed(w)
        ELSE IF w.op = d.op THEN w
        ELSE IF w.op = ""
        THEN IF Deref(h, t).cat # "operator" THEN Failed(down)
             ELSE NextIndex(down)
        ELSE [down EXCEPT !.types = Append(@, t),
                          !.indices = Append(@, 0)]

GoUp(w, d) ==
    IF d.op = w.op THEN w
    ELSE NextIndex([w EXCEPT !.op = d.op, !.types = Front(@),
                             !.indices = Front(@)])

RECURSIVE WalkLeaves(_, _, _)

WalkRight(h, w, d) ==
    IF ~w.ok THEN w ELSE WalkLeaves(h, Enter(h, GoUp(w, d), d), d.right)
WalkedUp(w, d) == IF ~w.ok THEN w ELSE GoUp(w, d)

WalkLeaves(h, w, d) ==
    IF ~w.ok THEN w
    ELSE CASE d.is = "leaf" ->
                WalkLeaves(h, [w EXCEPT !.name = d.name], d.right)
           [] d.is = "op" ->
                WalkedUp(WalkRight(h, WalkLeaves(h, Enter(h, w, d), d.left), d),
                         d)
           [] OTHER ->
                IF CurrentType(h, w) = NoType THEN Failed(w)
                ELSE NextIndex([w EXCEPT !.hits = Append(@,
                        [name |-> w.name, xid |-> d,
                         type |-> CurrentType(h, w)])])

(* ast_type_foreach_leaf_arg(): what the callback is called with.          *)
ForeachLeaf(h, t, d) ==
    WalkLeaves(h, [ok |-> TRUE, op |-> "", types |-> <<t>>,
                   indices |-> <<-1>>, name |-> "", hits |-> <<>>], d)

SameType(t, r) ==
    /\ r.type # NoType
    /\ Compare(r.store.heap, NewContext, t, r.type, "identical").ok
SameLeaves(s, names, w) ==
    /\ w.ok
    /\ \A i \in DOMAIN w.hits :
          SameType(w.hits[i].type, TypeOfXid(s, names, w.hits[i].xid))
DescriptionEquals(s, names, t, d) ==
    SameLeaves(s, names, ForeachLeaf(s.heap, t, d))

-----------------------------------------------------------------------------
(* Creation.  The operators being made are a stack: what is found or made  *)
(* becomes an operand of the innermost one.                                *)

(* A mutation of AddToCurrent: the wrong way round.                        *)
AddToCurrentFirst(s, t) ==
    IF s.ops = <<>> \/ t = Last(s.ops) THEN s
    ELSE LET now == Last(s.ops).i
         IN  IF IsOperation(s.heap, t, s.heap[now].op)
             THEN [s EXCEPT !.heap[now].args = s.heap[t.i].args \o @]
             ELSE [s EXCEPT !.heap[now].args = <<t>> \o @]

AddToCurrent(s, t) ==
    IF s.ops = <<>> \/ t = Last(s.ops) THEN s
    ELSE LET now == Last(s.ops).i
         IN  IF IsOperation(s.heap, t, s.heap[now].op)
             THEN [s EXCEPT !.heap[now].args = @ \o s.heap[t.i].args]
             ELSE [s EXCEPT !.heap[now].args = Append(@, t)]

RECURSIVE LookupOrCreate(_, _, _), GetOrCreate(_, _, _)

Then(l, names, d) == IF l.type = NoType THEN l
                     ELSE LookupOrCreate(l.store, names, d)
Both(s, names, d) == Then(LookupOrCreate(s, names, d.left), names, d.right)

(* The object is opened for its operands, closed, and added to the set.    *)
Opened(s, d) == Allocated([s EXCEPT !.ops = Append(@, Unused(s))],
                          Operation(d.op, <<>>))
Closed(r) ==
    LET s == [r.store EXCEPT !.ops = Front(@)]
    IN  IF r.type = NoType THEN Gives(NoType, s)
        ELSE AddedToSet(Gives(Last(r.store.ops), s))
CreateOperation(s, names, d) == Closed(Both(Opened(s, d), names, d))

FirstOrNew(same, s, names, d) ==
    IF same # <<>> THEN Gives(same[1].type, s) ELSE CreateOperation(s, names, d)
GetOrCreate(s, names, desc) ==
    LET d == IF desc.is = "leaf" THEN desc.right ELSE desc
        set == IF s.newestFirst THEN Reverse(s.set) ELSE s.set
    IN  IF d.is = "xid" THEN TypeOfXid(s, names, d)
        ELSE FirstOrNew(
                SelectSeq(set, LAMBDA x : DescriptionEquals(s, names, x.type, d)),
                s, names, d)

IntoCurrent(r) == IF r.type = NoType THEN r ELSE Gives(Last(r.store.ops), r.store)
AsOperand(r) == IF r.type = NoType THEN r
                ELSE Gives(r.type, AddToCurrent(r.store, r.type))
LookupOrCreate(s, names, d) ==
    AsOperand(
        CASE d.is = "xid" -> TypeOfXid(s, names, d)
          [] d.is = "op" /\ s.ops # <<>> /\ IsOperation(s.heap, Last(s.ops), d.op) ->
                IntoCurrent(Both(s, names, d))
          [] OTHER -> GetOrCreate(s, names, d))

(* type_create_from_typedecl()                                             *)
CreateDefined(s, names, name, d) ==
    LET Named(r) == IF r.type = NoType THEN r
                    ELSE AddedNew(r.store, Defined(name, r.type))
    IN  Named(LookupOrCreate(s, names, d))

(* type_create_from_fndecl(); what is left out is nil.                     *)
CreateFunction(s, names, args, ret) ==
    LET Part(st, d) == IF d = NoDesc THEN Gives(Elem("nil"), st)
                       ELSE LookupOrCreate(st, names, d)
        Made(a, r) == IF r.type = NoType THEN r
                      ELSE AddedNew(r.store, Operation("->", <<a.type, r.type>>))
        WithArgument(a) == IF a.type = NoType THEN a
                           ELSE Made(a, Part(a.store, ret))
    IN  WithArgument(Part(s, args))

(* type_create_from_operation(): an operator of the kind wanted takes the  *)
(* other side in as one more operand, whoever else holds it.               *)
FromOperation(s, op, l, r) ==
    IF IsOperation(s.heap, l, op)
    THEN Gives(l, [s EXCEPT !.heap[l.i].args = Append(@, r)])
    ELSE IF IsOperation(s.heap, r, op)
    THEN Gives(r, [s EXCEPT !.heap[r.i].args = <<l>> \o @])
    ELSE FoundOrNew(FoundByText(s, Text(s.heap, l) \o <<op>> \o Text(s.heap, r)),
                    s, Operation(op, <<l, r>>))
=============================================================================
