---------------------------- MODULE PatternTypes ----------------------------
(***************************************************************************)
(* The types a match expression and its patterns have, and the two walks   *)
(* over them: the parts a matched type is broken into and the pattern      *)
(* matching that marks parts as matched.  Arrays and function types are    *)
(* left out: the first are no matched types and the second have two        *)
(* operands like a product.                                                *)
(***************************************************************************)
EXTENDS Integers, SequencesExt

Elementary(name) == [cat |-> "elem", name |-> name, of |-> <<>>]
Wildcard == [cat |-> "wild", name |-> "_", of |-> <<>>]
Sum(operands) == [cat |-> "sum", name |-> "", of |-> operands]
Product(operands) == [cat |-> "prod", name |-> "", of |-> operands]
Defined(name, t) == [cat |-> "defined", name |-> name, of |-> <<t>>]

(* type_get_subtype() beyond the last operand, and the type of a name that *)
(* is not declared: a NULL pointer.                                        *)
Null == [cat |-> "null", name |-> "", of |-> <<>>]

IsSum(t) == t.cat = "sum"

(* The operands of the sums in a type; a defined type is a part of its own *)
(* and products have no parts but those of the sums inside them.           *)
RECURSIVE Parts(_)
Parts(t) ==
    CASE t.cat = "sum" ->
            UNION {IF IsSum(t.of[i]) THEN Parts(t.of[i]) ELSE {t.of[i]} :
                   i \in DOMAIN t.of}
      [] t.cat \in {"defined", "prod"} ->
            UNION {Parts(t.of[i]) : i \in DOMAIN t.of}
      [] OTHER -> {}

Subtype(t, i) == IF i \in DOMAIN t.of THEN t.of[i] ELSE Null

SameShape(pattern, t) ==
    pattern.cat = "prod" /\ Len(pattern.of) = Len(t.of)

(* What operand i of a sum is compared with: if the pattern is a sum too,  *)
(* the operand at the same place, else the whole pattern.                  *)
SumOperand(pattern, i) ==
    IF IsSum(pattern) THEN Subtype(pattern, i) ELSE pattern

(* pattern_match_types(): whether the pattern matches the type, or "null"  *)
(* when the walk reads a NULL pattern.                                     *)
RECURSIVE Says(_, _)
SaysOfProduct(pattern, t) ==
    LET bad == {i \in DOMAIN t.of : Says(pattern.of[i], t.of[i]) # "yes"}
    IN  CASE ~SameShape(pattern, t) -> "no"
          [] SameShape(pattern, t) /\ bad = {} -> "yes"
          [] OTHER -> LET i == Min(bad) IN Says(pattern.of[i], t.of[i])
SaysOfSum(pattern, t) ==
    LET says == {Says(SumOperand(pattern, i), t.of[i]) : i \in DOMAIN t.of}
    IN  IF "null" \in says THEN "null"
        ELSE IF "yes" \in says THEN "yes" ELSE "no"
Says(pattern, t) ==
    IF t.cat = "defined" THEN Says(pattern, t.of[1])
    ELSE IF pattern = Null THEN "null"
    ELSE CASE t.cat = "prod" -> SaysOfProduct(pattern, t)
           [] t.cat = "sum" -> SaysOfSum(pattern, t)
           [] OTHER -> IF pattern \in {Wildcard, t} THEN "yes" ELSE "no"

(* The calls of pattern_matching_ctx_set_matched() on the way, in order: a *)
(* sum marks each operand that the pattern matches, after what is inside   *)
(* it, also when a product around the sum does not match in the end.       *)
RECURSIVE Marks(_, _)
MarksOfProduct(pattern, t) ==
    LET tried(i) == \A j \in 1..(i - 1) :
                        Says(pattern.of[j], t.of[j]) = "yes"
    IN  IF SameShape(pattern, t)
        THEN FlattenSeq([i \in DOMAIN t.of |->
                IF tried(i) THEN Marks(pattern.of[i], t.of[i]) ELSE <<>>])
        ELSE <<>>
MarksOfSum(pattern, t) ==
    FlattenSeq([i \in DOMAIN t.of |->
        Marks(SumOperand(pattern, i), t.of[i]) \o
        IF Says(SumOperand(pattern, i), t.of[i]) = "yes"
        THEN <<[type |-> t.of[i], pattern |-> pattern]>> ELSE <<>>])
Marks(pattern, t) ==
    IF t.cat = "defined" THEN Marks(pattern, t.of[1])
    ELSE IF pattern # Null /\ t.cat = "prod" THEN MarksOfProduct(pattern, t)
    ELSE IF pattern # Null /\ t.cat = "sum" THEN MarksOfSum(pattern, t)
    ELSE <<>>

(* A mutation of MatchedAs: the pattern stands for what it matched.        *)
MatchedAsPattern(mark) == mark.pattern

(* What last_matched_case becomes when the type of a mark is new.          *)
MatchedAs(mark) ==
    IF mark.pattern.cat \in {"wild", "sum", "prod"} THEN mark.type
    ELSE mark.pattern

(* The context after all marks: no sum is added to the matched types, and  *)
(* a type that is there already leaves last_matched_case alone.            *)
Marked(ctx, marks) ==
    LET new == {j \in DOMAIN marks :
                    /\ ~IsSum(marks[j].type)
                    /\ marks[j].type \notin ctx.matched
                    /\ \A k \in 1..(j - 1) : marks[k].type # marks[j].type}
    IN  [ctx EXCEPT
            !.matched = @ \cup {marks[j].type : j \in new},
            !.last = IF new = {} THEN @ ELSE MatchedAs(marks[Max(new)])]

(* A mutation of ChildOf: the index of the last operand that is equal.     *)
ChildOfFromEnd(t, parent) ==
    LET p == IF parent.cat = "defined" THEN parent.of[1] ELSE parent
        equal == {i \in DOMAIN p.of : p.of[i] = t}
    IN  IF equal = {} THEN -1
        ELSE Len(p.of) - (CHOOSE i \in equal : \A j \in equal : i >= j)

(* type_is_childof(): an index from 0, -1 if there is none, and `false',   *)
(* which is 0, when the parent has no operands at all.                     *)
ChildOf(t, parent) ==
    LET p == IF parent.cat = "defined" THEN parent.of[1] ELSE parent
        equal == {i \in DOMAIN p.of : p.of[i] = t}
    IN  IF p.cat \notin {"sum", "prod"} THEN 0
        ELSE IF equal = {} THEN -1
        ELSE (CHOOSE i \in equal : \A j \in equal : i <= j) - 1
=============================================================================
