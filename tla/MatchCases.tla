----------------------------- MODULE MatchCases -----------------------------
(***************************************************************************)
(* The match expressions of one function, from the type checker to the     *)
(* chain of comparisons in the RIR.  Checking walks the tree depth first:  *)
(* a match expression resets the matching context on the way down, each of *)
(* its cases uses it on the way up, and the expression compares at the end *)
(* what was matched.  There is one context for the whole module.  Errors   *)
(* do not stop the walk.  If there are none, each match expression gets    *)
(* the indices of its cases and is turned into comparisons.                *)
(***************************************************************************)
EXTENDS PatternTypes, FiniteSets

CONSTANT Programs   \* functions: sequences of match expressions

(* A match expression is [type, cases, inner]: the type it matches, the    *)
(* patterns of its cases, and for each case the match expressions inside   *)
(* the expression of that case, at most one.  An inner one is given by its *)
(* place in the program, after the outer one.                              *)
ASSUME ProgramsAssumption ==
    \A p \in Programs : \A m \in DOMAIN p :
        /\ DOMAIN p[m].inner = DOMAIN p[m].cases
        /\ p[m].cases # <<>>
        /\ \A k \in DOMAIN p[m].inner :
            /\ p[m].inner[k] \subseteq (m + 1)..Len(p)
            /\ Cardinality(p[m].inner[k]) <= 1

VARIABLES
    prog,       \* the function
    todo,       \* its outermost match expressions still to be walked
    stack,      \* the open ones: [match, next, below], the innermost last
    ctx,        \* analyzer_traversal_ctx.matching_ctx
    caseTypes,  \* per match expression, ast_matchcase.matched_type
    errors,     \* analyzer_err(): [kind, match, at]
    failing,    \* the match expressions at which the walk met an error
    stage,      \* "typecheck", "rir", or how it ended
    indices     \* per match expression, ast_matchcase.match_idx

mvars == <<prog, todo, stack, ctx, caseTypes, errors, failing,
          stage, indices>>

Outermost(p) ==
    SetToSortSeq({m \in DOMAIN p : \A o \in DOMAIN p :
                    \A k \in DOMAIN p[o].inner : m \notin p[o].inner[k]}, <)

EmptyCtx == [parts |-> {}, matched |-> {}, last |-> Null, over |-> FALSE]

MInit ==
    /\ prog \in Programs
    /\ todo = Outermost(prog)
    /\ stack = <<>>
    /\ ctx = EmptyCtx
    /\ caseTypes = [m \in DOMAIN prog |-> <<>>]
    /\ errors = {}
    /\ failing = {}
    /\ stage = "typecheck"
    /\ indices = [m \in DOMAIN prog |-> <<>>]

-----------------------------------------------------------------------------
(* The type checker.                                                       *)

Frame == Last(stack)
AtEnd == Frame.next > Len(prog[Frame.match].cases)
Below == IF AtEnd \/ Frame.below THEN {}
         ELSE prog[Frame.match].inner[Frame.next]

(* A mutation of FreshCtx: the end of the previous match stays.            *)
FreshCtxStillOver(t) ==
    [parts |-> Parts(t), matched |-> {}, last |-> Null, over |-> ctx.over]

FreshCtx(t) ==
    [parts |-> Parts(t), matched |-> {}, last |-> Null, over |-> FALSE]

Open(m) ==
    IF prog[m].type = Null
    THEN /\ stage' = "crashed"
         /\ UNCHANGED <<stack, ctx>>
    ELSE /\ ctx' = FreshCtx(prog[m].type)
         /\ stack' = Append(stack, [match |-> m, next |-> 1, below |-> FALSE])
         /\ UNCHANGED stage

EnterOutermost ==
    /\ stage = "typecheck" /\ stack = <<>> /\ todo # <<>>
    /\ Open(Head(todo))
    /\ todo' = Tail(todo)
    /\ UNCHANGED <<prog, caseTypes, errors, failing, indices>>

EnterInner ==
    /\ stage = "typecheck" /\ stack # <<>>
    /\ \E m \in Below : Open(m)
    /\ UNCHANGED <<prog, todo, caseTypes, errors, failing, indices>>

NextCase == [Frame EXCEPT !.next = @ + 1, !.below = FALSE]

Useless == ctx.matched = ctx.parts

CaseError(kind, matched) ==
    /\ errors' = errors \cup
            {[kind |-> kind, match |-> Frame.match, at |-> Frame.next]}
    /\ ctx' = [matched EXCEPT !.over = TRUE]
    /\ failing' = failing \cup {Frame.match}
    /\ UNCHANGED <<caseTypes, stage>>

CaseResult(says) ==
    IF says = "yes" /\ Useless THEN "useless" ELSE says

(* A case after an error of the same match is not looked at.               *)
SkipCase ==
    /\ failing' = failing \cup {Frame.match}
    /\ UNCHANGED <<ctx, caseTypes, errors, stage>>

ReadNull ==
    /\ stage' = "crashed"
    /\ UNCHANGED <<ctx, caseTypes, errors, failing>>

KeepCase(matched) ==
    /\ ctx' = matched
    /\ caseTypes' =
            [caseTypes EXCEPT ![Frame.match] = Append(@, matched.last)]
    /\ UNCHANGED <<errors, failing, stage>>

CheckCase ==
    /\ stage = "typecheck" /\ stack # <<>> /\ ~AtEnd /\ Below = {}
    /\ \E case \in {[pattern |-> prog[Frame.match].cases[Frame.next],
                     type |-> prog[Frame.match].type]} :
       \E says \in {Says(case.pattern, case.type)},
          marks \in {Marks(case.pattern, case.type)} :
       \E marked \in {Marked(ctx, marks)} :
            CASE ctx.over -> SkipCase
              [] ~ctx.over /\ says = "null" -> ReadNull
              [] ~ctx.over /\ CaseResult(says) \in {"no", "useless"} ->
                    CaseError(CaseResult(says), marked)
              [] ~ctx.over /\ CaseResult(says) = "yes" ->
                    KeepCase(marked)
    /\ stack' = [stack EXCEPT ![Len(stack)] = NextCase]
    /\ UNCHANGED <<prog, todo, indices>>

Uncovered == ctx.parts \ ctx.matched

LeaveMatch ==
    /\ stage = "typecheck" /\ stack # <<>> /\ AtEnd
    /\ errors' = errors \cup
            {[kind |-> "not covered", match |-> Frame.match, at |-> part] :
             part \in Uncovered}
    /\ failing' = IF Uncovered = {} THEN failing
                  ELSE failing \cup {Frame.match}
    /\ ctx' = [ctx EXCEPT !.parts = {}, !.matched = {}]
    /\ stack' = IF Len(stack) = 1 THEN <<>>
                ELSE [Front(stack) EXCEPT ![Len(stack) - 1].below = TRUE]
    /\ UNCHANGED <<prog, todo, caseTypes, stage, indices>>

EndOfTypecheck ==
    /\ stage = "typecheck" /\ stack = <<>> /\ todo = <<>>
    /\ stage' = IF failing # {} THEN "refused" ELSE "rir"
    /\ todo' = Outermost(prog)
    /\ UNCHANGED <<prog, stack, ctx, caseTypes, errors, failing, indices>>

-----------------------------------------------------------------------------
(* The RIR.                                                                *)

IndicesOf(m) ==
    [k \in DOMAIN prog[m].cases |-> ChildOf(caseTypes[m][k], prog[m].type)]

(* A mutation of IndicesUsable: the visited indices are forgotten.         *)
IndicesUsableTwice(is) == -1 \notin Range(is)

IndicesUsable(is) == -1 \notin Range(is) /\ IsInjective(is)

(* rir_process_matchexpr(): without usable indices no RIR is created; the  *)
(* reason is logged, and no message goes to the user.                      *)
LowerMatch ==
    /\ stage = "rir" /\ todo # <<>>
    /\ IF IndicesUsable(IndicesOf(Head(todo)))
       THEN /\ indices' = [indices EXCEPT ![Head(todo)] =
                            IndicesOf(Head(todo))]
            /\ UNCHANGED stage
       ELSE /\ stage' = "no rir"
            /\ UNCHANGED indices
    /\ todo' = Tail(todo)
    /\ UNCHANGED <<prog, stack, ctx, caseTypes, errors, failing>>

NoCase == 0

(* The case a value with the union index i runs into, when the match is    *)
(* reached: each case but the last compares, the last takes what is left.  *)
(* An only case compares too, but the branch on it is made only together   *)
(* with a next case: no block leads to it.                                 *)
TakenCase(m, i) ==
    LET n == Len(indices[m])
        equal == {k \in 1..(n - 1) : indices[m][k] = i}
    IN  IF n = 1 THEN NoCase
        ELSE IF equal = {} THEN n ELSE Min(equal)

EndOfRir ==
    /\ stage = "rir" /\ todo = <<>>
    /\ stage' = "lowered"
    /\ UNCHANGED <<prog, todo, stack, ctx, caseTypes, errors, failing,
                   indices>>

Ends == {"refused", "crashed", "no rir", "lowered"}
Done == stage \in Ends /\ UNCHANGED mvars

MStep ==
    \/ EnterOutermost \/ EnterInner \/ CheckCase \/ LeaveMatch
    \/ EndOfTypecheck \/ LowerMatch \/ EndOfRir
MNext == MStep \/ Done
MSpec == MInit /\ [][MNext]_mvars

-----------------------------------------------------------------------------
(* What should hold.                                                       *)

(* The type invariant.                                                     *)
MatchTypeOK ==
    /\ \A j \in DOMAIN stack :
        /\ stack[j].match \in DOMAIN prog
        /\ stack[j].next \in 1..(Len(prog[stack[j].match].cases) + 1)
    /\ \A j \in 1..(Len(stack) - 1) :
        stack[j + 1].match \in
            prog[stack[j].match].inner[stack[j].next]
    /\ \A m \in DOMAIN prog : Len(caseTypes[m]) <= Len(prog[m].cases)
    /\ failing \subseteq DOMAIN prog
    /\ \A e \in errors : e.match \in DOMAIN prog
    /\ ~ IsSum(ctx.last)
    /\ stage \in Ends \cup {"typecheck", "rir"}

(* The operands of the type a match expression takes apart.                *)
Contents(t) == IF t.cat = "defined" THEN t.of[1] ELSE t
Operands(m) == Contents(prog[m].type).of
Flat(m) ==
    /\ IsSum(Contents(prog[m].type))
    /\ \A i \in DOMAIN Operands(m) :
        /\ Parts(Operands(m)[i]) = {}
        /\ ~ IsSum(Operands(m)[i])
    /\ \A k \in DOMAIN prog[m].cases : ~ IsSum(prog[m].cases[k])
Inner(m) == UNION Range(prog[m].inner)
HasInner(m) == {k \in DOMAIN prog[m].cases : prog[m].inner[k] # {}}

(* The values of a type, and the values a pattern stands for: as many      *)
(* operands as it has, each of the named type or, for `_', of any.         *)
RECURSIVE Values(_)
Values(t) ==
    CASE t.cat = "elem" -> {[leaf |-> t, of |-> <<>>]}
      [] t.cat = "prod" ->
            LET all == UNION {Values(t.of[i]) : i \in DOMAIN t.of}
            IN  {[leaf |-> Null, of |-> v] :
                 v \in {w \in [DOMAIN t.of -> all] :
                        \A i \in DOMAIN w : w[i] \in Values(t.of[i])}}
      [] OTHER -> UNION {Values(t.of[i]) : i \in DOMAIN t.of}
RECURSIVE Takes(_, _)
Takes(pattern, v) ==
    CASE pattern = Wildcard -> v.of = <<>>
      [] pattern.cat = "prod" ->
            /\ Len(pattern.of) = Len(v.of)
            /\ \A i \in DOMAIN v.of : Takes(pattern.of[i], v.of[i])
      [] pattern.cat = "sum" ->
            \E i \in DOMAIN pattern.of : Takes(pattern.of[i], v)
      [] OTHER -> v.leaf = pattern
TakesSome(m, k, i) ==
    \E v \in Values(Operands(m)[i]) : Takes(prog[m].cases[k], v)

(* The operands that case k is the first to take something of.             *)
NewOperands(m, k) ==
    {i \in DOMAIN Operands(m) :
        TakesSome(m, k, i) /\ \A j \in 1..(k - 1) : ~ TakesSome(m, j, i)}
TakenBefore(m, k) == UNION {NewOperands(m, j) : j \in 1..(k - 1)}
CaseFits(m, k) == \E i \in DOMAIN Operands(m) : TakesSome(m, k, i)
CaseAdds(m, k) == TakenBefore(m, k) # DOMAIN Operands(m)

(* What should be said of a match expression, from its type and cases      *)
(* alone: the first case that takes no value or comes when nothing is      *)
(* left, and each operand that no case before it takes.                    *)
Expected(m) ==
    LET n == Len(prog[m].cases)
        bad == {k \in 1..n : ~ (CaseFits(m, k) /\ CaseAdds(m, k))}
        k1 == IF bad = {} THEN n + 1 ELSE Min(bad)
    IN  {[kind |-> IF CaseFits(m, k) THEN "useless" ELSE "no",
          match |-> m, at |-> k] : k \in bad \cap {k1}}
        \cup {[kind |-> "not covered", match |-> m, at |-> Operands(m)[i]] :
              i \in DOMAIN Operands(m) \ TakenBefore(m, k1)}

(* An inner match expression empties the context of the outer one: the     *)
(* case that holds it is refused, unless the inner one ended with an error *)
(* in a case itself, and nothing is reported after that.                   *)
CaseErrors(m) == {e \in Expected(m) : e.kind # "not covered"}
EndsOver(m) == HasInner(m) # {} \/ CaseErrors(m) # {}
ExpectedAround(m) ==
    {e \in CaseErrors(m) : e.at < Min(HasInner(m))}
    \cup {[kind |-> IF CaseFits(m, k) THEN "useless" ELSE "no",
           match |-> m, at |-> k] :
          k \in {j \in HasInner(m) : \A n \in prog[m].inner[j] : ~EndsOver(n)}}

(* The checker keeps two sets of types in a context it shares between      *)
(* match expressions; what it reports of a match expression over a sum of  *)
(* types without sums inside is what the values say, whatever was checked  *)
(* before it and whatever it stands in.  Only one that has another one     *)
(* inside is refused at the case that holds it, though it may cover its    *)
(* type.                                                                   *)
VerdictIsRight ==
    stage \in Ends \ {"crashed"} =>
        \A m \in DOMAIN prog :
            (\A n \in {m} \cup Inner(m) : Flat(n)) =>
                {e \in errors : e.match = m} =
                    (IF HasInner(m) = {} THEN Expected(m) ELSE ExpectedAround(m))

(* A match expression is refused with a message about itself or about one  *)
(* inside it: no error goes only to the end of the walk.                   *)
RefusalsAreExplained ==
    \A m \in failing : \E e \in errors :
        e.match = m \/ e.match \in Inner(m)

(* Nothing that is not there is read but for two match expressions: one of *)
(* a name without a type, and one with a sum as a pattern, or in it, that  *)
(* has fewer operands than a sum of the type.                              *)
RECURSIVE SumSizes(_)
SumSizes(t) ==
    UNION {SumSizes(t.of[i]) : i \in DOMAIN t.of}
    \cup (IF IsSum(t) THEN {Len(t.of)} ELSE {})
ShortPattern(p, t) ==
    \E n \in SumSizes(p), m \in SumSizes(t) : n < m
CrashIsExplained ==
    stage = "crashed" =>
        \E m \in DOMAIN prog :
            \/ prog[m].type = Null
            \/ \E k \in DOMAIN prog[m].cases :
                ShortPattern(prog[m].cases[k], prog[m].type)

(* The one context all match expressions share never makes one of them     *)
(* answer for another: verdicts and messages are its own.                  *)
MatchInv ==
    MatchTypeOK /\ VerdictIsRight /\ RefusalsAreExplained /\ CrashIsExplained

(* Cases that each take the next operands in full have indices: the RIR    *)
(* fails without a message only when a case adds nothing, when a defined   *)
(* operand is matched by what it holds, or when the type is no plain sum.  *)
Plain(m) ==
    /\ Flat(m)
    /\ \A i \in DOMAIN Operands(m) : Operands(m)[i].cat # "defined"
    /\ \A k \in DOMAIN prog[m].cases : NewOperands(m, k) # {}
AcceptedIsLowered ==
    stage = "no rir" => \E m \in DOMAIN prog : ~ Plain(m)

(* The case a value of the i-th operand should run into: the first case    *)
(* that takes it.  But a case has room for one operand, the last that it   *)
(* is the first to take, and the others run into the last case; and an     *)
(* only case is not run at all.                                            *)
FirstCaseFor(m, i) ==
    Min({k \in DOMAIN prog[m].cases : TakesSome(m, k, i)})
ExpectedCase(m, i) ==
    LET k == FirstCaseFor(m, i)
        n == Len(prog[m].cases)
    IN  IF n = 1 THEN NoCase
        ELSE IF i = Max(NewOperands(m, k)) THEN k ELSE n

(* Every value of a plain match expression runs into the case that its     *)
(* type and the patterns alone say: the index a case got in the checker,   *)
(* through what was matched last, is that of its operand in the union.     *)
ValueReachesItsCase ==
    stage = "lowered" =>
        \A m \in DOMAIN prog : Plain(m) =>
            \A i \in DOMAIN Operands(m) :
                TakenCase(m, i - 1) = ExpectedCase(m, i)

(* No case of a program that compiles is dead, but the only case of a      *)
(* match expression, which always is.                                      *)
OnlyLoneCasesAreDead ==
    stage = "lowered" =>
        \A m \in DOMAIN prog : \A k \in DOMAIN prog[m].cases :
            (\E i \in DOMAIN Operands(m) : TakenCase(m, i - 1) = k)
                <=> Len(prog[m].cases) > 1

=============================================================================
