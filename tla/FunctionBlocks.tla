--------------------------- MODULE FunctionBlocks ---------------------------
(***************************************************************************)
(* How the body of a function becomes RIR blocks, and what the blocks do   *)
(* when they run.  The tree is walked depth first; `if', `for' and `match' *)
(* end the current block and make others, and all handlers share the       *)
(* current block and one slot for the block that comes next.  Then the     *)
(* backend creates every block of the function and connects them.          *)
(*                                                                         *)
(* A statement is a record [is, id, ...] with an id of its own:            *)
(*   do      some expressions without blocks of their own                  *)
(*   return                                                                *)
(*   if      then, and else: a sequence of no branch, or one: an "else"    *)
(*           with statements in its then, or an "elif" that is as an if    *)
(*   for     body                                                          *)
(*   match   cases: how many; their expressions make no blocks             *)
(* The function returns a value.  The build is the one with assertions.    *)
(***************************************************************************)
EXTENDS Integers, SequencesExt, FiniteSets

CONSTANTS
    Functions,  \* [headless, body]; the body of a headless one is a match
    MaxTurns,   \* bound on the turns of all loops of a run
    MaxDepth    \* how deep lists of statements lie in each other, at most

(* The lists of statements in a statement, and all that lie in the body of *)
(* a function and in some lists, at any depth.                             *)
Sublists(s) ==
    CASE s.is \in {"if", "elif"} -> {s.then, s.else}
      [] s.is = "else" -> {s.then}
      [] s.is = "for" -> {s.body}
      [] OTHER -> {}
Below(lists) ==
    UNION {UNION {Sublists(s) : s \in ToSet(list)} : list \in lists}
Within(lists) ==
    LET within[k \in 0..MaxDepth] ==
            IF k = 0 THEN lists
            ELSE LET upper == within[k - 1] IN upper \cup Below(upper)
    IN  within[MaxDepth]
InnerLists(f) == Within(Below({f.body}))
Lists(f) == {f.body} \cup InnerLists(f)

(* What the parser hands over: an elif or an else is in no list of other   *)
(* statements, and a match expression has cases.                           *)
IsSeq(list) == list \in Seq(ToSet(list))
HasBlocks(s) == s.is \in {"if", "for", "match"}
IsCode(list) ==
    IsSeq(list) /\ \A s \in ToSet(list) : HasBlocks(s) \/ s.is \in {"do", "return"}
IsStatement(s) ==
    /\ s.is # "else" => s.id \in Nat \ {0}
    /\ s.is \in {"if", "elif", "else"} => IsCode(s.then)
    /\ s.is \in {"if", "elif"} =>
        \/ s.else = <<>>
        \/ s.else = <<s.else[1]>> /\ s.else[1].is \in {"elif", "else"}
    /\ s.is = "for" => IsCode(s.body)
    /\ s.is = "match" => s.cases \in Nat \ {0}

ASSUME FunctionsAssumption ==
    /\ MaxTurns \in Nat /\ MaxDepth \in Nat
    /\ \A f \in Functions :
        /\ f.headless \in BOOLEAN
        /\ f.headless => Len(f.body) = 1 /\ f.body[1].is = "match"
        /\ IsCode(f.body)
        /\ Below(InnerLists(f)) \subseteq InnerLists(f)
        /\ \A list \in Lists(f) : \A s \in ToSet(list) : IsStatement(s)

VARIABLES
    fun,        \* the function
    work,       \* what is left to do of the handlers that are open
    blocks,     \* every rir_block created, by number: [code, exit]
    added,      \* rir_fndef.blocks, in order
    cur,        \* rir_common.current_block
    next,       \* rir_ctx.next_block
    loopVar,    \* rir_ctx.loops: the loop whose body is open, if any
    stage,      \* "lower", "backend", "run", or how it ended
    pc,         \* the block that runs
    trace       \* what has run so far
bvars == <<fun, work, blocks, added, cur, next, loopVar, stage, pc, trace>>

NoBlock == -1
NoLoop == 0
EndBlock == 0
FirstBlock == 1

NoExit == [is |-> "invalid"]
Branch(to) == [is |-> "branch", to |-> to]
CondBranch(on, taken, other) ==
    [is |-> "cond", on |-> on, taken |-> taken, other |-> other]
Return == [is |-> "return"]

Fresh == Cardinality(DOMAIN blocks)
NewBlock(code) == [code |-> code, exit |-> NoExit]
Initialized(bs, b) == bs[b].exit.is # "invalid"
SetExit(bs, b, exit) == [bs EXCEPT ![b].exit = exit]
IfUnset(bs, b, exit) == IF Initialized(bs, b) THEN bs ELSE SetExit(bs, b, exit)
AddExpr(bs, b, expr) == [bs EXCEPT ![b].code = Append(@, expr)]
With(bs, new) == [b \in 0..(Cardinality(DOMAIN bs) + Len(new) - 1) |->
    IF b \in DOMAIN bs THEN bs[b] ELSE new[b - Cardinality(DOMAIN bs) + 1]]

BInit ==
    /\ fun \in Functions
    /\ blocks = [b \in {EndBlock, FirstBlock} |->
                    IF b = EndBlock THEN [code |-> <<>>, exit |-> Return]
                                    ELSE NewBlock(<<>>)]
    /\ added = <<FirstBlock>>
    /\ cur = FirstBlock /\ next = NoBlock /\ loopVar = NoLoop
    /\ work = <<[do |-> "body", list |-> fun.body], [do |-> "end"]>>
    /\ stage = "lower"
    /\ pc = NoBlock /\ trace = <<>>

-----------------------------------------------------------------------------
(* The handlers.                                                           *)

Task == Head(work)
Doing(task) == stage = "lower" /\ work # <<>> /\ Task.do = task
InBody == Doing("body") /\ Task.list # <<>>
Stmt == Head(Task.list)
At(kind) == InBody /\ Stmt.is = kind
Then(tasks) ==
    work' = tasks \o <<[Task EXCEPT !.list = Tail(@)]>> \o Tail(work)
Body(list) == [do |-> "body", list |-> list]

LeaveBody ==
    /\ Doing("body") /\ Task.list = <<>>
    /\ work' = Tail(work)
    /\ UNCHANGED <<fun, blocks, added, cur, next, loopVar, stage, pc, trace>>

LowerExpr ==
    /\ At("do")
    /\ blocks' = AddExpr(blocks, cur, <<"do", Stmt.id>>)
    /\ Then(<<>>)
    /\ UNCHANGED <<fun, added, cur, next, loopVar, stage, pc, trace>>

LowerReturn ==
    /\ At("return")
    /\ blocks' = SetExit(AddExpr(blocks, cur, <<"return", Stmt.id>>), cur,
                         Branch(EndBlock))
    /\ Then(<<>>)
    /\ UNCHANGED <<fun, added, cur, next, loopVar, stage, pc, trace>>

(* The condition goes into the old block and the taken block is opened.    *)
Conditional(s, old) ==
    <<Body(s.then), [do |-> "fallthrough", if |-> s, old |-> old,
                     taken |-> cur']>>

BeginIf ==
    /\ At("if")
    /\ blocks' = With(blocks, <<NewBlock(<<>>), NewBlock(<<>>)>>)
    /\ next' = Fresh
    /\ cur' = Fresh + 1
    /\ added' = Append(added, cur')
    /\ Then(Conditional(Stmt, cur) \o <<[do |-> "endif"]>>)
    /\ UNCHANGED <<fun, loopVar, stage, pc, trace>>

Join(other, elseBlock) ==
    [do |-> "join", if |-> Task.if.id, old |-> Task.old,
     taken |-> Task.taken, other |-> other, else |-> elseBlock]

NoFallthrough ==
    /\ Doing("fallthrough") /\ Task.if.else = <<>>
    /\ work' = <<Join(next, NoBlock)>> \o Tail(work)
    /\ UNCHANGED <<fun, blocks, added, cur, next, loopVar, stage, pc, trace>>

BeginElif ==
    /\ Doing("fallthrough") /\ Task.if.else # <<>>
    /\ Task.if.else[1].is = "elif"
    /\ blocks' = With(blocks, <<NewBlock(<<>>), NewBlock(<<>>)>>)
    /\ cur' = Fresh + 1
    /\ added' = added \o <<Fresh, Fresh + 1>>
    /\ work' = Conditional(Task.if.else[1], Fresh)
                \o <<Join(Fresh, NoBlock)>> \o Tail(work)
    /\ UNCHANGED <<fun, next, loopVar, stage, pc, trace>>

BeginElse ==
    /\ Doing("fallthrough") /\ Task.if.else # <<>>
    /\ Task.if.else[1].is = "else"
    /\ blocks' = With(blocks, <<NewBlock(<<>>)>>)
    /\ cur' = Fresh
    /\ added' = Append(added, Fresh)
    /\ work' = <<Body(Task.if.else[1].then), Join(Fresh, Fresh)>> \o Tail(work)
    /\ UNCHANGED <<fun, next, loopVar, stage, pc, trace>>

(* Mutations of Joined: the taken block is always connected; the else      *)
(* block is left alone.                                                    *)
JoinedAlways(bs, j) ==
    LET old == SetExit(bs, j.old, CondBranch(<<"if", j.if>>, j.taken, j.other))
        taken == SetExit(old, j.taken, Branch(next))
    IN  IF j.else = NoBlock THEN taken
        ELSE IfUnset(taken, j.else, Branch(next))
JoinedWithoutElse(bs, j) ==
    LET old == SetExit(bs, j.old, CondBranch(<<"if", j.if>>, j.taken, j.other))
    IN  IfUnset(old, j.taken, Branch(next))

Joined(bs, j) ==
    LET old == SetExit(bs, j.old, CondBranch(<<"if", j.if>>, j.taken, j.other))
        taken == IfUnset(old, j.taken, Branch(next))
    IN  IF j.else = NoBlock THEN taken
        ELSE IfUnset(taken, j.else, Branch(next))

JoinIf ==
    /\ Doing("join")
    /\ blocks' = Joined(blocks, Task)
    /\ work' = Tail(work)
    /\ UNCHANGED <<fun, added, cur, next, loopVar, stage, pc, trace>>

EndIf ==
    /\ Doing("endif")
    /\ cur' = next
    /\ added' = Append(added, next)
    /\ work' = Tail(work)
    /\ UNCHANGED <<fun, blocks, next, loopVar, stage, pc, trace>>

(* The index is set in the old block and compared in a block of its own.   *)
(* rir_ctx_set_loopvars() asserts that no other loop is open.              *)
BeginFor ==
    /\ At("for")
    /\ LET cmp == Fresh
           body == Fresh + 2
           bs == SetExit(AddExpr(blocks, cur, <<"init", Stmt.id>>), cur,
                         Branch(cmp))
       IN  /\ blocks' = With(bs, <<NewBlock(<<>>), NewBlock(<<>>),
                                   NewBlock(<<>>)>>)
           /\ added' = added \o <<cmp, body>>
           /\ next' = Fresh + 1
           /\ cur' = body
           /\ Then(<<Body(Stmt.body), [do |-> "step", for |-> Stmt.id],
                     [do |-> "endfor", for |-> Stmt.id, cmp |-> cmp,
                      body |-> body]>>)
    /\ IF loopVar = NoLoop
       THEN loopVar' = Stmt.id /\ UNCHANGED stage
       ELSE stage' = "asserted" /\ UNCHANGED loopVar
    /\ UNCHANGED <<fun, pc, trace>>

StepFor ==
    /\ Doing("step")
    /\ blocks' = AddExpr(blocks, cur, <<"step", Task.for>>)
    /\ loopVar' = NoLoop
    /\ work' = Tail(work)
    /\ UNCHANGED <<fun, added, cur, next, stage, pc, trace>>

(* A mutation of EndOfLoop: the comparison's exits are swapped.            *)
EndOfLoopSwapped(bs, f) ==
    SetExit(SetExit(bs, f.body, Branch(f.cmp)), f.cmp,
            CondBranch(<<"for", f.for>>, f.body, next))

EndOfLoop(bs, f) ==
    SetExit(SetExit(bs, f.body, Branch(f.cmp)), f.cmp,
            CondBranch(<<"for", f.for>>, next, f.body))

EndFor ==
    /\ Doing("endfor")
    /\ blocks' = EndOfLoop(blocks, Task)
    /\ cur' = next
    /\ added' = Append(added, next)
    /\ work' = Tail(work)
    /\ UNCHANGED <<fun, next, loopVar, stage, pc, trace>>

(* The blocks of a match expression with n cases, numbered from base: one  *)
(* for each case, and before each but the first and the last one that      *)
(* compares.  The first comparison is made in the block before, the last   *)
(* case is not compared.                                                   *)
CaseBlock(base, n, k) == base + IF k < n THEN 2 * k - 2 ELSE 2 * n - 3
CaseEntry(base, n, k) ==
    IF k < n THEN CaseBlock(base, n, k) - 1 ELSE CaseBlock(base, n, k)
Compare(m, base, k) ==
    CondBranch(<<"is", m.id, k>>, CaseBlock(base, m.cases, k),
               CaseEntry(base, m.cases, k + 1))
MatchBlocks(m, base, after) ==
    [j \in 1..(IF m.cases = 1 THEN 1 ELSE 2 * m.cases - 2) |->
        IF \E k \in 2..(m.cases - 1) : base + j - 1 = CaseEntry(base, m.cases, k)
        THEN [code |-> <<>>, exit |-> Compare(m, base, j \div 2 + 1)]
        ELSE [code |-> <<<<"case", m.id, (j + 2) \div 2>>>>,
              exit |-> Branch(after)]]

Before(bs, m, base) ==
    IF m.cases = 1 THEN bs ELSE SetExit(bs, cur, Compare(m, base, 1))

(* The body of a headless function goes on at the end of the function.     *)
LowerMatch ==
    /\ At("match")
    /\ LET base == IF fun.headless THEN Fresh ELSE Fresh + 1
           after == IF fun.headless THEN EndBlock ELSE Fresh
           cases == MatchBlocks(Stmt, base, after)
           ids == [j \in DOMAIN cases |-> base + j - 1]
           bs == Before(blocks, Stmt, base)
       IN  IF fun.headless
           THEN /\ blocks' = With(bs, cases)
                /\ added' = added \o ids
                /\ cur' = base + Len(cases) - 1
           ELSE /\ blocks' = With(bs, <<NewBlock(<<>>)>> \o cases)
                /\ added' = added \o ids \o <<after>>
                /\ cur' = after
    /\ Then(<<>>)
    /\ UNCHANGED <<fun, next, loopVar, stage, pc, trace>>

(* A mutation of Finished: the block after the last statement is left.     *)
FinishedFirstOnly(bs) == IfUnset(bs, FirstBlock, Branch(EndBlock))

(* At the end of the body the next block is connected to the end, if one   *)
(* was ever made, and so is the first block.                               *)
Finished(bs) ==
    IfUnset(IF next = NoBlock THEN bs ELSE IfUnset(bs, next, Branch(EndBlock)),
            FirstBlock, Branch(EndBlock))

EndFunction ==
    /\ Doing("end")
    /\ blocks' = Finished(blocks)
    /\ added' = Append(added, EndBlock)
    /\ stage' = "backend"
    /\ work' = <<>>
    /\ UNCHANGED <<fun, cur, next, loopVar, pc, trace>>

Handlers ==
    LeaveBody \/ LowerExpr \/ LowerReturn \/ BeginIf \/ NoFallthrough
    \/ BeginElif \/ BeginElse \/ JoinIf \/ EndIf \/ BeginFor \/ StepFor
    \/ EndFor \/ LowerMatch \/ EndFunction

-----------------------------------------------------------------------------
(* The backend: a block is mapped by its label, once; then the blocks are  *)
(* connected in the same order, and the first bad exit ends it.            *)

Targets(exit) ==
    CASE exit.is = "branch" -> {exit.to}
      [] exit.is = "cond" -> {exit.taken, exit.other}
      [] OTHER -> {}
Connects(b) == Initialized(blocks, b)
                /\ Targets(blocks[b].exit) \subseteq ToSet(added)
Verdict ==
    IF ~IsInjective(added) THEN "unmapped"
    ELSE LET bad == SelectInSeq(added, LAMBDA b : ~Connects(b))
         IN  IF bad = 0 THEN "run"
             ELSE IF Initialized(blocks, added[bad]) THEN "unmapped"
             ELSE "critical"

Generate ==
    /\ stage = "backend"
    /\ stage' = Verdict
    /\ pc' = IF Verdict = "run" THEN FirstBlock ELSE NoBlock
    /\ UNCHANGED <<fun, work, blocks, added, cur, next, loopVar, trace>>

-----------------------------------------------------------------------------
(* The run: the code of a block, then its exit.  How a condition turns out *)
(* is an event of its own; MaxTurns cuts the loops.                        *)

Turns(events) == Len(SelectSeq(events, LAMBDA e : e[1] = "for" /\ ~e[3]))
Events == trace \o blocks[pc].code
Holds(on) == IF on[1] = "for" /\ Turns(Events) >= MaxTurns
             THEN {TRUE} ELSE BOOLEAN

RunBlock ==
    /\ stage = "run"
    /\ LET exit == blocks[pc].exit IN
        \/ /\ exit.is = "branch"
           /\ pc' = exit.to
           /\ trace' = Events
           /\ UNCHANGED stage
        \/ /\ exit.is = "cond"
           /\ \E holds \in Holds(exit.on) :
                /\ pc' = IF holds THEN exit.taken ELSE exit.other
                /\ trace' = Events \o <<Append(exit.on, holds)>>
           /\ UNCHANGED stage
        \/ /\ exit.is = "return"
           /\ stage' = "returned"
           /\ trace' = Events
           /\ UNCHANGED pc
    /\ UNCHANGED <<fun, work, blocks, added, cur, next, loopVar>>

Failures == {"unmapped", "critical", "asserted"}
Done == stage \in Failures \cup {"returned"} /\ UNCHANGED bvars

BNext == Handlers \/ Generate \/ RunBlock \/ Done
BSpec == BInit /\ [][BNext]_bvars /\ WF_bvars(BNext)

-----------------------------------------------------------------------------
(* What the blocks of a function promise by themselves.                    *)

(* A block in a block: the context has one slot for the next one.          *)
Nested(f) == \E list \in InnerLists(f) : \E s \in ToSet(list) : HasBlocks(s)

(* A match expression without a return, an if or a for after it.           *)
EndsInMatch(f) == ~f.headless /\ \E i \in DOMAIN f.body :
    /\ f.body[i].is = "match"
    /\ \A j \in (i + 1)..Len(f.body) : f.body[j].is = "do"

OneCase(f) == \E s \in ToSet(f.body) : s.is = "match" /\ s.cases = 1
ReturnsInLoop(f) == \E s \in ToSet(f.body) : s.is = "for" /\
    \E list \in Within({s.body}) : \E r \in ToSet(list) : r.is = "return"
GoesOnAfterReturn(f) == \E list \in Lists(f) :
    \E r \in ToSet(Front(list)) : r.is = "return"

Plain(f) == ~Nested(f) /\ ~EndsInMatch(f) /\ ~OneCase(f)
Sound(f) == ~ReturnsInLoop(f) /\ ~GoesOnAfterReturn(f) /\ ~OneCase(f)

(* The types of the state: every exit leads to a block that exists.        *)
BlocksTypeOK ==
    /\ fun \in Functions
    /\ DOMAIN blocks = 0..(Fresh - 1)
    /\ \A b \in DOMAIN blocks : Targets(blocks[b].exit) \subseteq DOMAIN blocks
    /\ ToSet(added) \subseteq DOMAIN blocks
    /\ cur \in DOMAIN blocks /\ next \in DOMAIN blocks \cup {NoBlock}
    /\ loopVar \in Nat
    /\ stage \in Failures \cup {"lower", "backend", "run", "returned"}
    /\ stage \in {"run", "returned"} => pc \in DOMAIN blocks

(* A function without an if, a for or a match inside of another, with a    *)
(* second case in each match, and with a return or another if or for after *)
(* the last one, is always generated: rir_process_cond.c, rir_loops.c,     *)
(* rir_process_match.c, rir_fndef_init_from_ast() and bllvm_create_fndef() *)
(* together leave no block unconnected and none added twice.               *)
PlainIsGenerated == Plain(fun) => stage \notin Failures

(* Exits lead to blocks of the function, and those of a plain one reach    *)
(* the backend.                                                            *)
BlocksInv == BlocksTypeOK /\ PlainIsGenerated

(* The functions rir_block_exit_init_branch() and ..._condbranch()         *)
(* overwrite an exit without a question: nothing but a return in a loop or *)
(* code after a return makes them do it in a function that is generated.   *)
ExitIsKept ==
    Plain(fun) /\ Sound(fun) =>
        \A b \in DOMAIN blocks :
            Initialized(blocks, b) => blocks'[b].exit = blocks[b].exit
ExitSetOnce == [][ExitIsKept]_bvars
=============================================================================
