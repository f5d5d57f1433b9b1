---------------------------- MODULE MCMatchCases ----------------------------
(***************************************************************************)
(* MatchCases on every match expression of up to three cases over a list   *)
(* of matched types and patterns, and on pairs of match expressions, one   *)
(* after the other and one inside the other.                               *)
(***************************************************************************)
EXTENDS MatchCases

A == Elementary("i32")
B == Elementary("string")
C == Elementary("bool")
W == Wildcard
Num == Defined("num", A)

(* Sums of elementary types, products and defined types.                   *)
FlatTypes == {
    Sum(<<A, B>>), Defined("foo", Sum(<<A, B>>)),
    Sum(<<A, Product(<<A, B>>)>>),
    Sum(<<A, B, Product(<<A, B>>)>>),
    Sum(<<Product(<<A, B>>), Product(<<B, A>>)>>),
    Sum(<<Num, B>>), Sum(<<Num, A>>),
    Sum(<<Product(<<A, B>>), Product(<<B, A>>), B>>)}

(* Types that are no sum, or hold sums inside.                             *)
AorB == Sum(<<A, B>>)
OtherTypes == {
    A, Product(<<A, B>>), Num, Product(<<A, AorB>>),
    Sum(<<A, Sum(<<B, Product(<<A, B>>)>>)>>),
    Sum(<<Defined("foo", AorB), Product(<<A, B>>)>>),
    Sum(<<A, Product(<<A, AorB>>)>>),
    Defined("bar", Defined("foo", AorB)),
    Sum(<<A, B, C>>)}

Patterns == {A, B, W, Product(<<W, W>>), Product(<<A, W>>),
             Product(<<A, B>>), Product(<<B, A>>), AorB}

Matches(types, n) ==
    [type : types, cases : UNION {[1..k -> Patterns] : k \in 1..n}]
Alone(m) == [type |-> m.type, cases |-> m.cases,
             inner |-> [k \in DOMAIN m.cases |-> {}]]
Around(m, j) == [Alone(m) EXCEPT !.inner[j] = {2}]

SmallTypes == {AorB, Sum(<<A, Product(<<A, B>>)>>)}
Smaller == {m \in Matches(SmallTypes, 2) :
            \A k \in DOMAIN m.cases :
                m.cases[k] \in {A, B, W, Product(<<W, W>>)}}

Singles == {<<Alone(m)>> : m \in Matches(FlatTypes \cup OtherTypes, 3)}
Undeclared == {<<Alone([type |-> Null, cases |-> <<A>>])>>}
Pairs == {<<Alone(m), Alone(n)>> : m \in Smaller, n \in Smaller}
Nestings == UNION {{<<Around(m, k), Alone(n)>> : k \in DOMAIN m.cases} :
                   m \in Smaller, n \in Smaller}

MCPrograms == Singles \cup Undeclared \cup Pairs \cup Nestings
=============================================================================
