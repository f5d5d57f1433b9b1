------------------------------ MODULE TypeRules ------------------------------
(***************************************************************************)
(* What the type checker is to say, of the types as values and with no     *)
(* context, and the properties of TypeCheck.                               *)
(***************************************************************************)
EXTENDS TypeCheck, FiniteSets

(* A type without references: what it looks like at this moment.           *)
RECURSIVE Value(_, _)
Value(h, t) ==
    LET o == Deref(h, t)
    IN  CASE o.cat = "defined" -> [o EXCEPT !.type = Value(h, @)]
          [] o.cat = "array" -> [o EXCEPT !.of = Value(h, @)]
          [] o.cat = "operator" ->
                [o EXCEPT !.args = [i \in DOMAIN @ |-> Value(h, @[i])]]
          [] OTHER -> o

Family(e) == IF IsInt(e) THEN "integer" ELSE IF IsFloat(e) THEN "real"
             ELSE IF e = "bool" THEN "truth" ELSE e

(* Between the families, by why it is asked.                               *)
Crossings ==
    LET always == {<<"real", "real">>}
        nested == always \cup {<<"integer", "real">>, <<"integer", "truth">>}
        implicit == nested \cup {<<"truth", "integer">>}
    IN  [pattern |-> always, after_implicit |-> nested, implicit |-> implicit,
         explicit |-> implicit \cup {<<"real", "integer">>, <<"truth", "string">>}]

Loses(f, t) == Narrower(f, t) \/ DropsSign(f, t)
ElementaryFits(f, t, why) ==
    \/ f.e = t.e
    \/ /\ IsInt(f.e) /\ IsInt(t.e)
       /\ f.const => ~Loses(f, t)
       /\ why = "pattern" => ~DropsSign(f, t)
    \/ <<Family(f.e), Family(t.e)>> \in Crossings[why]
    \/ /\ why = "explicit" /\ f.const /\ t.e = "string"
       /\ Family(f.e) \in {"integer", "real"}

(* Whether a value of type f can stand for one of type t.  A sum takes     *)
(* what one of its alternatives takes, but only as the argument of a call. *)
RECURSIVE Fits(_, _, _, _)
Fits(f, t, why, sums) ==
    LET IsSum(x) == x.cat = "operator" /\ x.op = "|"
        inner == IF why = "pattern" THEN why ELSE "after_implicit"
    IN  \/ f = t
        \/ f.cat = "elementary" /\ t.cat = "elementary"
           /\ ElementaryFits(f, t, why)
        \/ f.cat = "defined" /\ t.cat = "defined" /\ f.name = t.name
        \/ f.cat = "defined" /\ Fits(f.type, t, why, sums)
        \/ /\ t.cat = "defined" /\ (f.cat = "defined" => why = "pattern")
           /\ Fits(f, t.type, why, sums)
        \/ /\ IsSum(t) /\ (sums \/ why = "pattern")
           /\ \E i \in DOMAIN t.args : Fits(f, t.args[i], inner, sums)
        \/ /\ f.cat = "array" /\ t.cat = "array"
           /\ Fits(f.of, t.of, why, sums) /\ SameDimensions(f.dims, t.dims)
        \/ /\ f.cat = "operator" /\ t.cat = "operator"
           /\ f.op = t.op /\ Len(f.args) = Len(t.args)
           /\ \A i \in DOMAIN f.args : Fits(f.args[i], t.args[i], why, sums)

-----------------------------------------------------------------------------
(* The types that are held are objects of the module or elementary ones,   *)
(* no operator is left open, and every table of a loop extends the one it  *)
(* is in.                                                                  *)
TypeCheckTypeOK ==
    LET IsType(t) == \/ t \in {NoType, Wild} \/ t.cat = "elementary"
                     \/ t.cat = "object" /\ t.i \in DOMAIN Heap
    IN  /\ stage \in {"declare", "check", "refused", "accepted", "crashed"}
        /\ \A i \in DOMAIN types : IsType(types[i])
        /\ \A x \in DOMAIN names : IsType(names[x])
        /\ \A i \in DOMAIN store.set : IsType(store.set[i].type)
        /\ store.ops = <<>> /\ IsType(last) /\ IsType(ctx.matched)
        /\ \A i \in DOMAIN loops :
              DOMAIN (IF i = 1 THEN names ELSE loops[i - 1])
                \subseteq DOMAIN loops[i]

V(t) == Value(Heap, t)
Checks(kinds) == AtNode(kinds) /\ stage' = "check"

(* An assignment, an explicit conversion and an elementary list are taken  *)
(* exactly when the types as they stand fit, whatever was compared before  *)
(* them and whatever that left in the context.                             *)
VerdictIsRight ==
    [][/\ Checks({"assign"}) /\ NoType \notin {KidType(1), KidType(2)}
          /\ Kid(1).k \in {"id", "vardecl", "access"}
          => (types'[pos] # NoType
                <=> Fits(V(KidType(2)), V(KidType(1)), "implicit", FALSE))
       /\ Checks({"call"}) /\ Node.name \in {"u16", "string", "bool"}
          /\ Len(Node.kids) = 2 /\ KidType(2) # NoType
          => (types'[pos] # NoType
                <=> /\ Deref(Heap, KidType(2)).cat # "operator"
                    /\ Fits(V(KidType(2)), Elem(Node.name), "explicit", FALSE))
       /\ Checks({"list"}) /\ Node.kids # <<>>
          /\ {KidType(i).cat : i \in DOMAIN Node.kids} = {"elementary"}
          => (types'[pos] # NoType
                <=> \A i \in DOMAIN Node.kids :
                      Fits(V(KidType(1)), V(KidType(i)), "implicit", FALSE))]_tvars

(* The leaves of two types that are assigned to each other.                *)
RECURSIVE Pairs(_, _)
Pairs(f, t) ==
    IF f = t THEN {}
    ELSE IF f.cat = "elementary" /\ t.cat = "elementary" THEN {<<f, t>>}
    ELSE IF f.cat = "defined" THEN Pairs(f.type, t)
    ELSE IF t.cat = "defined" THEN Pairs(f, t.type)
    ELSE IF f.cat = "array" THEN Pairs(f.of, t.of)
    ELSE UNION {Pairs(f.args[n], t.args[n]) : n \in DOMAIN f.args}

(* No assignment that is accepted loses size or sign in silence, at        *)
(* whatever depth of the types the loss is.                                *)
LossIsWarned ==
    [][Checks({"assign"}) /\ types'[pos] # NoType
        => \A p \in Pairs(V(KidType(2)), V(KidType(1))) :
              IsInt(p[1].e) /\ IsInt(p[2].e) =>
                \A kind \in (IF Narrower(p[1], p[2]) THEN {"size"} ELSE {})
                        \cup (IF DropsSign(p[1], p[2]) THEN {"sign"} ELSE {}) :
                   \E n \in (Len(reports) + 1)..Len(reports') :
                      reports'[n] = <<"warning", pos,
                                      <<kind, p[1].e, p[2].e>>>>]_tvars

(* A call of a function that takes a sum of elementary types is made with  *)
(* an alternative that its argument fits, and with that of its own type if *)
(* there is one, whatever the order they were declared in.                 *)
MatchedIsBest ==
    \A i \in DOMAIN params :
        LET d == V(params[i].declared)
            f == V(params[i].found)
            taken == params[i].taken
            Same == {t \in Range(d.args) : t.e = f.e}
        IN  d.cat = "operator" /\ d.op = "|" /\ f.cat = "elementary"
            => /\ taken \in Range(d.args)
               /\ ElementaryFits(f, taken, "pattern")
               /\ Same # {} => taken \in Same

(* The member of a defined type has the type it was declared with, as long *)
(* as nothing was added to the object that holds the members.              *)
RECURSIVE LeavesOf(_)
LeavesOf(d) ==
    IF d.is = "op" THEN LeavesOf(d.left) \o LeavesOf(d.right) ELSE <<d>>
MemberIsAsDeclared ==
    [][Checks({"access"}) /\ types'[pos] # NoType
        => LET t == Deref(Heap, KidType(1))
               leaves == LeavesOf(Declaration(t.name).desc)
           IN  Len(Deref(Heap, t.type).args) = Len(leaves)
               => \E i \in DOMAIN leaves :
                     /\ leaves[i].name = Kid(2).name
                     /\ types'[pos] = TypeOfXid(store, names, leaves[i].right).type
      ]_tvars

(* It does not matter which of two elementary operands is on the left: the *)
(* other order is accepted as well, and gives the same type.               *)
OperandsCommute ==
    [][Checks({"arith", "logic"}) /\ NoType \notin {KidType(1), KidType(2)}
       /\ KidType(1).cat = "elementary" /\ KidType(2).cat = "elementary"
        => LET swapped == CommonType(Heap, ctx, KidType(2), KidType(1)).type
           IN  /\ (types'[pos] = NoType) = (swapped = NoType)
               /\ Node.k = "arith" => types'[pos] = swapped]_tvars

(* Conversions between two types: accepted when they fit, with a warning   *)
(* for each loss, and whichever of two operands is on the left.            *)
ConversionsAreRight == VerdictIsRight /\ LossIsWarned /\ OperandsCommute

(* A block that ends in a node of a type of its own has that type.         *)
BlockTypeIsLast ==
    [][Checks({"block"}) /\ Node.kids # <<>>
       /\ Kid(Len(Node.kids)).k \notin {"if", "block"}
       /\ KidType(Len(Node.kids)) # NoType
        => types'[pos] = KidType(Len(Node.kids))]_tvars

(* A program that is refused was told why, unless it has a list of nothing *)
(* in it; and one that was told of an error is not accepted.               *)
CheckFailureIsExplained ==
    LET errors == {i \in DOMAIN reports : reports[i][1] = "error"}
    IN  /\ stage = "refused" =>
            \/ errors # {}
            \/ \E i \in DOMAIN steps : steps[i].k = "list" /\ steps[i].kids = <<>>
        /\ stage = "accepted" => errors = {}

(* No sequence of comparisons leaves anything in the context that changes  *)
(* which alternative a call takes or what a refusal says.                  *)
TypeCheckInv == TypeCheckTypeOK /\ MatchedIsBest /\ CheckFailureIsExplained
=============================================================================
