--------------------------- MODULE MCFunctionRuns ---------------------------
(***************************************************************************)
(* FunctionRuns on bodies of up to three statements, flat and nested once, *)
(* and on headless functions of up to four cases.                          *)
(***************************************************************************)
EXTENDS FunctionRuns

Do(i) == [is |-> "do", id |-> i]
Ret(i) == [is |-> "return", id |-> i]
If(i, then, else) == [is |-> "if", id |-> i, then |-> then, else |-> else]
Elif(i, then, else) == <<[If(i, then, else) EXCEPT !.is = "elif"]>>
Else(then) == <<[is |-> "else", then |-> then]>>
For(i, body) == [is |-> "for", id |-> i, body |-> body]
Match(i, n) == [is |-> "match", id |-> i, cases |-> n]

(* Every statement has an id from i on; Ends are the bodies of one.        *)
Ends(i) == {<<Do(i)>>, <<Ret(i)>>}
Elses(i) == {<<>>} \cup {Else(b) : b \in Ends(i)}
Falls(i) ==
    Elses(i) \cup {Elif(i, b, e) : b \in Ends(i + 1), e \in Elses(i + 2)}
    \cup {Elif(i, <<Do(i + 1)>>, Elif(i + 2, <<Do(i + 3)>>, e)) :
            e \in Elses(i + 4)}

Simple(i) == {
    Do(i), Ret(i), For(i, <<Do(i + 1)>>), Match(i, 2),
    If(i, <<Do(i + 1)>>, <<>>), If(i, <<Do(i + 1)>>, Else(<<Do(i + 2)>>))}
Flat(i) ==
    Simple(i) \cup {For(i, <<Ret(i + 1)>>), For(i, <<>>), If(i, <<>>, <<>>)}
    \cup {Match(i, n) : n \in {1, 3}}
    \cup {If(i, b, e) : b \in Ends(i + 1), e \in Falls(i + 2)}

Inner(i) ==
    {<<s>> : s \in Simple(i)}
    \cup {<<s, t>> : s \in Simple(i),
                     t \in {Do(i + 4), Ret(i + 4), Match(i + 4, 2)}}
Deep(i) ==
    {For(i, b) : b \in Inner(i + 1)}
    \cup {If(i, b, <<>>) : b \in Inner(i + 1)}
    \cup {If(i, <<Do(i + 1)>>, Else(b)) : b \in Inner(i + 2)}
    \cup {If(i, <<Do(i + 1)>>, Elif(i + 2, b, e)) :
            b \in Inner(i + 3), e \in Elses(i + 9)}

Bodies ==
    {<<>>} \cup {<<s>> : s \in Flat(1) \cup Deep(1)}
    \cup {<<s, t>> : s \in Flat(1) \cup Deep(1), t \in Simple(21)}
    \cup {<<s, t>> : s \in Simple(1), t \in Flat(21) \cup Deep(21)}
    \cup {<<s, t, u>> : s \in Simple(1), t \in Flat(21), u \in Simple(41)}
Headless == {<<Match(1, n)>> : n \in 1..4}

MCFunctions ==
    {[headless |-> FALSE, body |-> b] : b \in Bodies}
    \cup {[headless |-> TRUE, body |-> b] : b \in Headless}
=============================================================================
