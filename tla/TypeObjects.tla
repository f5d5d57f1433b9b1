---------------------------- MODULE TypeObjects ----------------------------
(***************************************************************************)
(* The type objects of a module.  Elementary types and the wildcard are    *)
(* single objects shared by all; the others live in the pool of types of   *)
(* the module, here the heap, where a reference is a place and an object   *)
(* may still be changed by whoever holds it.                               *)
(***************************************************************************)
EXTENDS Integers, Sequences, SequencesExt

(* Preserve the order: the type checker compares the positions.            *)
ETypes == <<"i8", "u8", "i16", "u16", "i32", "u32", "i64", "u64", "int",
            "uint", "f32", "f64", "string", "bool", "nil">>
Rank(e) == CHOOSE i \in DOMAIN ETypes : ETypes[i] = e
IsInt(e) == Rank(e) <= Rank("uint")
IsFloat(e) == e \in {"f32", "f64"}
IsUnsigned(e) == Rank(e) % 2 = 0
ByteSize(e) ==
    CASE e \in {"i8", "u8", "bool"} -> 1
      [] e \in {"i16", "u16"} -> 2
      [] e \in {"i32", "u32", "f32"} -> 4
      [] e \in {"i64", "u64", "int", "uint", "f64"} -> 8
      [] e = "nil" -> 0
      [] OTHER -> -1
Convertable(e) == Rank(e) <= Rank("bool")

NoType == [cat |-> "none"]
Wild == [cat |-> "wildcard"]
Elem(e) == [cat |-> "elementary", e |-> e, const |-> FALSE]
Const(e) == [cat |-> "elementary", e |-> e, const |-> TRUE]
At(i) == [cat |-> "object", i |-> i]

(* The object a reference stands for.                                      *)
Deref(h, t) == IF t.cat = "object" THEN h[t.i] ELSE t

Operation(op, args) == [cat |-> "operator", op |-> op, args |-> args]
Defined(name, t) == [cat |-> "defined", name |-> name, type |-> t]
ArrayOf(t, dims) == [cat |-> "array", of |-> t, dims |-> dims]

IsOperation(h, t, op) ==
    /\ Deref(h, t).cat = "operator"
    /\ Deref(h, t).op = op
IsElementaryArray(h, t) ==
    /\ Deref(h, t).cat = "array"
    /\ Deref(h, t).of.cat = "elementary"

(* What a type can be called as, what with, and what that gives.           *)
IsCallable(h, t) ==
    \/ IsOperation(h, t, "->")
    \/ Deref(h, t).cat = "defined"
    \/ t.cat = "elementary" /\ Convertable(t.e)
ArgumentType(h, t) == IF IsOperation(h, t, "->") THEN h[t.i].args[1] ELSE t
ResultType(h, t) == IF IsOperation(h, t, "->") THEN h[t.i].args[2] ELSE t

-----------------------------------------------------------------------------
(* The text of a type, as the tokens it is made of.  Nothing separates an  *)
(* operator from one inside of it, and a constant reads like any other.    *)

Specifier(dims) ==
    [i \in DOMAIN dims |->
        IF dims[i] = -1 THEN "[]" ELSE "[" \o ToString(dims[i]) \o "]"]

RECURSIVE Text(_, _)
Text(h, t) ==
    LET o == Deref(h, t) IN
    CASE o.cat = "elementary" -> <<o.e>>
      [] o.cat = "wildcard" -> <<"_">>
      [] o.cat = "defined" -> <<o.name>>
      [] o.cat = "array" -> Text(h, o.of) \o Specifier(o.dims)
      [] OTHER -> FlattenSeq([i \in DOMAIN o.args |->
                     IF i = 1 THEN Text(h, o.args[1])
                     ELSE <<o.op>> \o Text(h, o.args[i])])
TextWithContents(h, t) ==
    IF Deref(h, t).cat = "defined"
    THEN Text(h, t) \o <<"{">> \o Text(h, Deref(h, t).type)
    ELSE Text(h, t)

(* The types of a module, in the order they were added in.  The set is a   *)
(* hash table: an object stays under the text it had when it was added,    *)
(* and the order a walk meets them in is one of two here.                  *)
NewStore == [heap |-> <<>>, set |-> <<>>, ops |-> <<>>, newestFirst |-> FALSE]
Allocated(s, o) == [s EXCEPT !.heap = Append(@, o)]
Unused(s) == At(Len(s.heap) + 1)
Listed(s, t) ==
    [s EXCEPT !.set = Append(@,
        [under |-> TextWithContents(s.heap, t), type |-> t])]
FirstType(named) == IF named = <<>> THEN NoType ELSE named[1].type
FoundByText(s, text) ==
    FirstType(SelectSeq(s.set, LAMBDA x :
                /\ x.under = text
                /\ TextWithContents(s.heap, x.type) = text))

(* What a lookup or a creation gives: the type, and the types after it.    *)
Gives(t, s) == [type |-> t, store |-> s]
AddedToSet(r) == Gives(r.type, Listed(r.store, r.type))
AddedNew(s, o) == AddedToSet(Gives(Unused(s), Allocated(s, o)))
FoundOrNew(old, s, o) == IF old # NoType THEN Gives(old, s) ELSE AddedNew(s, o)

(* module_getorcreate_type_as_arr()                                        *)
ArrayType(s, t, dims) ==
    FoundOrNew(FoundByText(s, Text(s.heap, t) \o Specifier(dims)), s,
               ArrayOf(t, dims))
=============================================================================
