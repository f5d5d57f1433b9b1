-------------------------- MODULE AstParserProofs --------------------------
(***************************************************************************)
(* The parser, for every file: the marks of the lexer ascend, no accept    *)
(* function takes away what belongs to its callers, a value token has one  *)
(* owner, an assertion fails only for the reasons that are known, and a    *)
(* function that promises a message posts it.                              *)
(*                                                                         *)
(* The first part is about one stack of accept functions in progress over  *)
(* one file: what a call of the stack knows of the tokens and the marks    *)
(* from the place where it is in its program, and why it still knows it    *)
(* after a step, a call and a return.  The second has the parser.          *)
(***************************************************************************)
EXTENDS AstParser, AcceptFunctionsProofs

-----------------------------------------------------------------------------
(* The accept functions in progress, over the tokens t.                    *)

\* Kind and NextIndex, for the tokens t.
KindOf(t, i) == IF i \in DOMAIN t THEN t[i] ELSE "NULL"
Next(t, i) == IF i \in DOMAIN t THEN i + 1 ELSE i

\* The steps of the label a call is at, and the one it is at.
Text(call) == Body(Program(call.f, call.lvl), call.label)
At(call) == Text(call)[call.at]

\* What is known at the place where the call is.
CallHolds(call) == Holds(call.f, call.label, Text(call), call.at)
CallSaw(call, j) == Saw(Text(call), call.at, j)
CallPassed(call) == Passed(Text(call), call.at)
CallEats(call) == Eats(call.label, Text(call), call.at)
CallWide(call) == Wide(call.label, Text(call), call.at)
CallArrow(call) == Arrow(call.label, Text(call), call.at)

\* A record of the parser's stack,
IsCall(call) ==
    /\ call = [f |-> call.f, lvl |-> call.lvl, label |-> call.label,
               at |-> call.at, tok |-> call.tok, got |-> call.got,
               base |-> call.base, from |-> call.from]
    /\ call.at \in Nat \ {0} /\ call.tok \in Nat
    /\ call.base \in Nat /\ call.from \in Nat

\* at a step of its program that the function can be at,
InProgram(call) ==
    /\ Callable(call.f, call.lvl)
    /\ call.label \in Labels(Program(call.f, call.lvl))
    /\ call.label \in DOMAIN Exits => call.f # "parse_file"
    /\ call.f = "matchcase" => call.label # "ok"
    /\ call.at \in DOMAIN Text(call)

\* and tok what the tests of it found it to be.
TokIsKnown(t, call) ==
    /\ \A j \in 1..call.at-1 :
        CallSaw(call, j) =>
            call.tok \in DOMAIN t /\ t[call.tok] \in Text(call)[j].kinds
    /\ call.label = "unnamed" /\ call.at = 1 => KindOf(t, call.tok) = "["

CallOK(t, call) ==
    /\ IsCall(call)
    /\ InProgram(call)
    /\ TokIsKnown(t, call)
    /\ call.got \subseteq DOMAIN t

\* Where the marks and the cursor can be that the call leaves to the rest:
\* with so many marks set and the cursor there, it has the mark and has read
\* the tokens that its program says, and holds no token that is still ahead.
Fits(t, call, marks, pos) ==
    /\ call.base <= marks
    /\ CallHolds(call) => call.base < marks
    /\ call.from <= call.tok /\ call.tok <= pos
    /\ CallPassed(call) => call.tok < pos \/ call.tok \notin DOMAIN t
    /\ \A i \in call.got :
        call.from <= i /\ i <= pos /\ (i = pos => At(call).do = "advance")
    /\ CallEats(call) => call.f \in Frugal \/ call.from < pos
    /\ CallWide(call) => call.tok + 1 < pos
    /\ CallArrow(call) => \E i \in 1..pos-1 : t[i] = "=>"

\* The step that a call is at keeps to the discipline.
LEMMA StepIsOK ==
    ASSUME NEW c, InProgram(c)
    PROVE  StepOK(c.f, DOMAIN Program(c.f, c.lvl), c.label, Text(c), c.at)
  BY StepsAreDisciplined DEF InProgram, Text

\* A call goes on to its next step.
LEMMA InProgramGoesOn ==
    ASSUME NEW c, InProgram(c), IsCall(c), At(c).do \in Tests \cup Calls \cup Plain,
           NEW d, d.f = c.f, d.lvl = c.lvl, d.label = c.label, d.at = c.at + 1
    PROVE  InProgram(d) /\ Text(d) = Text(c)
  <1>1. StepOK(c.f, DOMAIN Program(c.f, c.lvl), c.label, Text(c), c.at)
    BY StepIsOK
  <1>2. c.at + 1 \in DOMAIN Text(c)
    BY <1>1 DEF StepOK, At
  <1>3. Text(d) = Text(c)
    BY DEF Text
  <1> QED
    BY <1>2, <1>3 DEF InProgram

\* With its next step, a call fits what the step has done to the marks, the
\* cursor and tok.
LEMMA FitsOn ==
    ASSUME NEW K, NEW t \in Seq(K), "NULL" \notin K,
           NEW c, CallOK(t, c), NEW m \in Nat, NEW p \in Nat, Fits(t, c, m, p),
           At(c).do \in Tests \cup Calls \cup Plain,
           NEW d, IsCall(d), d.f = c.f, d.lvl = c.lvl, d.label = c.label,
           d.at = c.at + 1, d.base = c.base, d.from = c.from,
           NEW m1 \in Nat, NEW p1 \in Nat, p <= p1,
           At(c).do = "push" => m1 = m + 1,
           At(c).do = "pop" => m1 = m - 1,
           At(c).do \notin {"push", "pop"} => m1 >= m,
           d.tok = IF At(c).do \in SetsTok THEN p ELSE c.tok,
           At(c).do \in LooksAtTok => KindOf(t, d.tok) \in At(c).kinds,
           At(c).do \in {"advance", "expect", "take"} => p1 = Next(t, p),
           MustEat(At(c)) => p < p1,
           At(c).do = "call" /\ At(c).f = "matchcase" /\ At(c).fail # "next" =>
                \E i \in 1..p1-1 : t[i] = "=>",
           c.got \subseteq d.got, d.got \subseteq DOMAIN t,
           \A i \in d.got \ c.got :
                c.from <= i /\ i <= p1 /\ (i = p1 => At(d).do = "advance")
    PROVE  CallOK(t, d) /\ Fits(t, d, m1, p1)
  <1> DEFINE s == Text(c)
             k == c.at
  <1>1. StepOK(c.f, DOMAIN Program(c.f, c.lvl), c.label, s, k)
    BY StepIsOK DEF CallOK
  <1>2. InProgram(d) /\ Text(d) = s
    BY InProgramGoesOn DEF CallOK
  <1>3. k \in Nat \ {0}
    BY DEF CallOK, IsCall
  <1>3a. c.tok \in Nat /\ c.from \in Nat /\ c.base \in Nat
    BY DEF CallOK, IsCall
  <1>4. CallHolds(d) => s[k].do # "pop" /\ (s[k].do = "push" \/ CallHolds(c))
    BY <1>2, <1>3, MarkAfterStep DEF CallHolds
  <1>5. \A j \in 1..k : CallSaw(d, j) =>
                \/ j = k /\ s[k].do \in LooksAtTok
                \/ j # k /\ CallSaw(c, j) /\ s[k].do \notin SetsTok
    BY <1>2, <1>3, TokAfterStep DEF CallSaw
  <1>6. CallPassed(d) => \/ s[k].do \in {"advance", "expect", "take"}
                         \/ CallPassed(c) /\ s[k].do \notin SetsTok
    BY <1>2, <1>3, TokAfterStep DEF CallPassed
  <1>7. CallEats(d) =>
                \/ CallEats(c) \/ s[k].do \in {"expect", "take"} \/ MustEat(s[k])
                \/ s[k].do = "advance" /\ SawSome(s, k)
    BY <1>2, <1>3, ReadAfterStep DEF CallEats
  <1>8. CallWide(d) =>
                \/ CallWide(c) /\ s[k].do \notin SetsTok
                \/ MustEat(s[k]) /\ CallPassed(c) /\ SawSome(s, k)
    BY <1>2, <1>3, ReadAfterStep DEF CallWide, CallPassed
  <1>9. CallArrow(d) =>
                \/ CallArrow(c)
                \/ s[k].do = "expect" /\ s[k].kinds = {"=>"}
                \/ s[k].do = "call" /\ s[k].f = "matchcase" /\ s[k].fail # "next"
    BY <1>2, <1>3, ReadAfterStep DEF CallArrow
  <1>10. At(c) = s[k]
    BY DEF At
  <1> HIDE DEF s, k
  \* a test never finds NULL
  <1>11. s[k].do \in LooksAtTok => d.tok \in DOMAIN t
    BY <1>1, <1>10 DEF StepOK, KindOf
  <1>12. SawSome(s, k) => c.tok \in DOMAIN t
    BY DEF SawSome, Saw, CallOK, TokIsKnown, CallSaw, s, k
  <1>13. TokIsKnown(t, d)
    <2>1. ASSUME NEW j \in 1..d.at-1, CallSaw(d, j)
          PROVE  d.tok \in DOMAIN t /\ t[d.tok] \in s[j].kinds
      <3>1. j \in 1..k
        BY <1>3 DEF k
      <3>2. CASE j = k
        BY <2>1, <3>1, <3>2, <1>5, <1>10, <1>11, <1>1 DEF KindOf, StepOK
      <3>3. CASE j # k
        <4>1. CallSaw(c, j) /\ d.tok = c.tok /\ j \in 1..k-1
          BY <2>1, <3>1, <3>3, <1>3, <1>5, <1>10
        <4> QED
          BY <4>1 DEF CallOK, TokIsKnown, k, s
      <3> QED
        BY <3>2, <3>3
    <2>2. d.at # 1
      BY <1>3 DEF k
    <2> QED
      BY <1>2, <2>1, <2>2 DEF TokIsKnown
  <1>14. CallOK(t, d)
    BY <1>2, <1>13 DEF CallOK
  \* the cursor and the marks
  <1>15. DOMAIN t = 1..Len(t) /\ Len(t) \in Nat
    OBVIOUS
  <1>16. d.base <= m1 /\ (CallHolds(d) => d.base < m1)
    <2>1. c.base <= m /\ (CallHolds(c) => c.base < m)
      BY DEF Fits
    <2>2. s[k].do = "pop" => CallHolds(c)
      BY <1>1 DEF StepOK, CallHolds, s, k
    <2> QED
      BY <1>3a, <1>4, <1>10, <2>1, <2>2
  <1>17. d.from <= d.tok /\ d.tok <= p1 /\ c.from <= p
    BY <1>3a DEF Fits
  <1>18. s[k].do \in {"advance", "expect", "take"} => p < p1 \/ p \notin DOMAIN t
    BY <1>10 DEF Next
  <1>19. CallPassed(d) => d.tok < p1 \/ d.tok \notin DOMAIN t
    BY <1>3a, <1>6, <1>10, <1>18 DEF Fits, SetsTok
  <1>20. \A i \in d.got :
            d.from <= i /\ i <= p1 /\ (i = p1 => At(d).do = "advance")
    <2>1. ASSUME NEW i \in c.got
          PROVE  c.from <= i /\ i < p1
      <3>1. i \in DOMAIN t /\ c.from <= i /\ i <= p /\ (i = p => s[k].do = "advance")
        BY <1>10 DEF CallOK, Fits
      <3> QED
        BY <1>15, <1>18, <3>1
    <2> QED
      BY <1>3a, <2>1
  <1>21. CallEats(d) => d.f \in Frugal \/ d.from < p1
    <2>1. s[k].do \in {"expect", "take"} => p < p1
      BY <1>10, <1>11, <1>18 DEF LooksAtTok, SetsTok
    <2>2. s[k].do = "advance" /\ SawSome(s, k) => c.tok < p1
      BY <1>3a, <1>12, <1>15, <1>18 DEF Fits
    <2> QED
      BY <1>3a, <1>7, <1>10, <1>17, <2>1, <2>2 DEF Fits
  <1>22. CallWide(d) => d.tok + 1 < p1
    <2>1. s[k].do = "call" => s[k].do \notin SetsTok
      BY DEF SetsTok
    <2>2. MustEat(s[k]) => d.tok = c.tok /\ p < p1
      BY <1>10, <2>1 DEF MustEat
    <2> QED
      BY <1>3a, <1>8, <1>10, <1>12, <2>2 DEF Fits
  <1>23. CallArrow(d) => \E i \in 1..p1-1 : t[i] = "=>"
    <2>1. s[k].do = "expect" /\ s[k].kinds = {"=>"} => p \in 1..p1-1 /\ t[p] = "=>"
      BY <1>10, <1>11, <1>15, <1>18 DEF KindOf, LooksAtTok, SetsTok
    <2>2. CallArrow(c) => \E i \in 1..p1-1 : t[i] = "=>"
      BY DEF Fits
    <2> QED
      BY <1>9, <1>10, <2>1, <2>2
  <1> QED
    BY <1>14, <1>16, <1>17, <1>19, <1>20, <1>21, <1>22, <1>23 DEF Fits

\* A call goes to another label of its program, or to a way out.
LEMMA FitsThere ==
    ASSUME NEW t, DOMAIN t \subseteq Nat,
           NEW c, CallOK(t, c), NEW m \in Nat, NEW p \in Nat, Fits(t, c, m, p),
           NEW d, IsCall(d), d.f = c.f, d.lvl = c.lvl, d.at = 1,
           d.base = c.base, d.from = c.from,
           NEW m1 \in Nat, NEW p1 \in Nat, m <= m1, p <= p1,
           \/ Branches(At(c)) /\ d.label = At(c).fail /\ d.label # "next"
           \/ At(c).do \in {"when", "when2"} /\ d.label = "ok" /\ p < p1,
           d.tok = c.tok \/ (d.tok = p /\ At(c).do \in {"look", "take"}),
           c.got \subseteq d.got, d.got \subseteq DOMAIN t,
           \A i \in d.got \ c.got : c.from <= i /\ i < p1
    PROVE  CallOK(t, d) /\ Fits(t, d, m1, p1)
  <1> DEFINE s == Text(c)
             k == c.at
             labels == DOMAIN Program(c.f, c.lvl)
  <1>1. StepOK(c.f, labels, c.label, s, k) /\ At(c) = s[k]
    BY StepIsOK DEF CallOK, At
  <1>2. c.tok \in Nat /\ c.from \in Nat /\ c.base \in Nat /\ k \in Nat \ {0}
    BY DEF CallOK, IsCall
  <1> DEFINE Reached ==
                /\ InProgram(d)
                /\ d.label = "unnamed" =>
                    KindOf(t, d.tok) = "[" /\ d.tok = c.tok /\ d.tok + 1 < p
                /\ EntersHeld(d.f, d.label) => CallHolds(c)
                /\ d.label \in EatenLabels =>
                    CallEats(c) \/ c.f \in Frugal \/ p < p1
                /\ d.label = "one" => CallArrow(c)
                /\ s[k].do # "advance"
  <1>3. ASSUME Branches(s[k]), d.label = s[k].fail, d.label # "next"
        PROVE  Reached
    <2>1. CanGo(c.f, labels, c.label, s, k)
      BY <1>1, <1>3 DEF StepOK
    <2>2. InProgram(d)
      <3>1. d.label \in Labels(Program(d.f, d.lvl))
        BY <1>3, <2>1 DEF CanGo, Labels
      <3>2. d.label \in DOMAIN Exits => d.f # "parse_file"
        BY <1>3, <2>1 DEF CanGo
      <3>3. d.f = "matchcase" => d.label # "ok"
        BY <1>3, <2>1 DEF CanGo
      <3>4. Callable(d.f, d.lvl)
        BY DEF CallOK, InProgram
      <3> QED
        BY <3>1, <3>2, <3>3, <3>4, StepsAreDisciplined DEF InProgram, Text
    <2>3. d.label = "unnamed" => KindOf(t, d.tok) = "[" /\ d.tok = c.tok /\ d.tok + 1 < p
      <3> SUFFICES ASSUME d.label = "unnamed"
                   PROVE  KindOf(t, d.tok) = "[" /\ d.tok = c.tok /\ d.tok + 1 < p
        OBVIOUS
      <3>1. CallWide(c) /\ SawOf(s, k, {"["}) /\ s[k].do = "ahead"
        BY <1>3, <2>1 DEF CanGo, CallWide
      <3>2. d.tok = c.tok
        BY <1>1, <3>1
      <3>3. PICK j \in 1..k-1 : CallSaw(c, j) /\ s[j].kinds \subseteq {"["}
        BY <3>1 DEF SawOf, CallSaw
      <3>4. c.tok \in DOMAIN t /\ t[c.tok] \in s[j].kinds
        BY <3>3 DEF CallOK, TokIsKnown
      <3>5. c.tok + 1 < p
        BY <3>1 DEF Fits
      <3> QED
        BY <3>2, <3>3, <3>4, <3>5 DEF KindOf
    <2>4. EntersHeld(d.f, d.label) => CallHolds(c)
      BY <1>3, <2>1 DEF CanGo, CallHolds
    <2>5. d.label \in EatenLabels => CallEats(c) \/ c.f \in Frugal \/ p < p1
      BY <1>3, <2>1 DEF CanGo, CallEats
    <2>6. d.label = "one" => CallArrow(c)
      BY <1>3, <2>1 DEF CanGo, CallArrow
    <2>7. s[k].do # "advance"
      BY <1>3 DEF Branches, Tests, LooksAtTok, Calls
    <2> QED
      BY <2>2, <2>3, <2>4, <2>5, <2>6, <2>7
  <1>4. ASSUME s[k].do \in {"when", "when2"}, d.label = "ok", p < p1
        PROVE  Reached
    <2>1. CanCall(c.f, c.label, s, k)
      BY <1>1, <1>4 DEF StepOK, Calls
    <2>2. c.f # "parse_file" /\ c.f # "matchcase"
      BY <1>4, <2>1 DEF CanCall
    <2>3. "ok" \in Labels(Program(d.f, d.lvl))
      BY DEF Labels, Exits
    <2>4. Callable(d.f, d.lvl)
      BY DEF CallOK, InProgram
    <2>5. InProgram(d)
      BY <1>4, <2>2, <2>3, <2>4, StepsAreDisciplined DEF InProgram, Text
    <2>6. ~EntersHeld(d.f, d.label)
      BY <1>4 DEF EntersHeld
    <2> QED
      BY <1>4, <2>5, <2>6
  <1>5. Reached
    BY <1>1, <1>3, <1>4
  <1> HIDE DEF s, k
  <1>6. /\ CallHolds(d) => CallHolds(c)
        /\ ~CallPassed(d)
        /\ CallEats(d) => CallEats(c) \/ c.f \in Frugal \/ p < p1
        /\ CallWide(d) => d.tok + 1 < p
        /\ CallArrow(d) => CallArrow(c)
        /\ \A j : ~CallSaw(d, j)
    <2>1. CallHolds(d) => EntersHeld(d.f, d.label)
      BY MarkAtEntry DEF CallHolds
    <2>2. /\ ~CallPassed(d)
          /\ CallEats(d) => d.label \in EatenLabels
          /\ CallWide(d) => d.label = "unnamed"
          /\ CallArrow(d) => d.label = "one"
          /\ \A j : ~CallSaw(d, j)
      BY KnownAtEntry DEF CallPassed, CallEats, CallWide, CallArrow, CallSaw
    <2> QED
      BY <1>5, <2>1, <2>2
  <1>7. CallOK(t, d)
    BY <1>5, <1>6 DEF CallOK, TokIsKnown
  <1>8. c.base <= m /\ (CallHolds(c) => c.base < m) /\ c.from <= c.tok /\ c.tok <= p
    BY DEF Fits
  <1>9. \A i \in d.got :
            d.from <= i /\ i <= p1 /\ (i = p1 => At(d).do = "advance")
    <2>1. ASSUME NEW i \in c.got
          PROVE  i \in Nat /\ c.from <= i /\ i < p
      <3>1. i \in Nat /\ c.from <= i /\ i <= p /\ (i = p => s[k].do = "advance")
        BY <1>1 DEF CallOK, Fits
      <3> QED
        BY <1>5, <3>1
    <2>2. ASSUME NEW i \in d.got
          PROVE  i \in Nat /\ c.from <= i /\ i < p1
      BY <2>1
    <2> QED
      BY <1>2, <2>2
  <1>10. CallArrow(d) => \E i \in 1..p1-1 : t[i] = "=>"
    BY <1>6 DEF Fits
  <1>11. CallEats(d) => d.f \in Frugal \/ d.from < p1
    BY <1>2, <1>6, <1>8 DEF Fits
  <1> QED
    BY <1>2, <1>6, <1>7, <1>8, <1>9, <1>10, <1>11 DEF Fits

\* While it waits for the function that it calls, the marks and the tokens
\* that this one adds are no matter to it.
LEMMA FitsWhileCalling ==
    ASSUME NEW t, DOMAIN t \subseteq Nat,
           NEW c, CallOK(t, c), NEW m \in Nat, NEW p \in Nat, Fits(t, c, m, p),
           At(c).do \in Calls, NEW m1 \in Nat, NEW p1 \in Nat, m <= m1, p <= p1
    PROVE  Fits(t, c, m1, p1) /\ \A i \in c.got : i < p1
  <1>1. c.tok \in Nat /\ c.from \in Nat /\ c.base \in Nat
    BY DEF CallOK, IsCall
  <1>2. At(c).do # "advance"
    BY DEF Calls
  <1>3. \A i \in c.got : i \in Nat /\ c.from <= i /\ i < p
    <2> SUFFICES ASSUME NEW i \in c.got PROVE i \in Nat /\ c.from <= i /\ i < p
      OBVIOUS
    <2>1. i \in Nat /\ c.from <= i /\ i <= p /\ (i = p => At(c).do = "advance")
      BY DEF CallOK, Fits
    <2> QED
      BY <1>2, <2>1
  <1>4. CallArrow(c) => \E i \in 1..p1-1 : t[i] = "=>"
    BY DEF Fits
  <1> QED
    BY <1>1, <1>3, <1>4 DEF Fits

\* A function begins where its caller stands.
LEMMA FitsAtStart ==
    ASSUME NEW t, NEW f, NEW lvl, Callable(f, lvl),
           NEW m \in Nat, NEW p \in Nat
    PROVE  CallOK(t, Call(f, lvl, m, p)) /\ Fits(t, Call(f, lvl, m, p), m, p)
  <1> DEFINE d == Call(f, lvl, m, p)
  <1>1. /\ d.f = f /\ d.lvl = lvl /\ d.label = "start" /\ d.at = 1
        /\ d.tok = p /\ d.got = {} /\ d.base = m /\ d.from = p /\ IsCall(d)
    BY DEF Call, IsCall
  <1> HIDE DEF d
  <1>2. "start" \in Labels(Program(f, lvl)) /\ "start" \notin DOMAIN Exits
    BY ProgramsStart
  <1>3. InProgram(d)
    BY <1>1, <1>2, StepsAreDisciplined DEF InProgram, Text
  <1>4. ~CallHolds(d)
    <2>1. ~EntersHeld(f, "start")
      BY DEF EntersHeld
    <2> QED
      BY <1>1, <2>1, MarkAtEntry DEF CallHolds
  <1>5. ~CallPassed(d) /\ ~CallEats(d) /\ ~CallWide(d) /\ ~CallArrow(d) /\ \A j : ~CallSaw(d, j)
    <2>1. "start" \notin EatenLabels
      BY DEF EatenLabels
    <2> QED
      BY <1>1, <2>1, KnownAtEntry DEF CallPassed, CallEats, CallWide, CallArrow, CallSaw
  <1>6. CallOK(t, d)
    BY <1>1, <1>3, <1>5 DEF CallOK, TokIsKnown
  <1>7. Fits(t, d, m, p)
    BY <1>1, <1>4, <1>5 DEF Fits
  <1> QED
    BY <1>6, <1>7 DEF d

-----------------------------------------------------------------------------
(* The stack of calls, with m marks set and the cursor at p.               *)

Frames(stk, t, m, p) ==
    /\ \E S : stk \in Seq(S)
    /\ stk # <<>>
    /\ \A c \in 1..Len(stk) : CallOK(t, stk[c])
    /\ \A c \in 1..Len(stk) : stk[c].f = "parse_file" <=> c = 1
    /\ \A c \in 1..Len(stk)-1 :
        At(stk[c]).do \in Calls /\ At(stk[c]).f = stk[c + 1].f
    /\ \A c, d \in 1..Len(stk) :
        c < d => Fits(t, stk[c], stk[d].base, stk[d].from)
    /\ Fits(t, stk[Len(stk)], m, p)

\* What every call was given is not more than what is there now.
LEMMA CallersAreBehind ==
    ASSUME NEW t, NEW m \in Nat, NEW p \in Nat, NEW stk, Frames(stk, t, m, p),
           NEW c \in 1..Len(stk)
    PROVE  stk[c].base <= m /\ stk[c].from <= p
  <1>1. PICK S : stk \in Seq(S)
    BY DEF Frames
  <1>2. Len(stk) \in Nat
    BY <1>1
  <1>3. \A i \in 1..Len(stk) : stk[i].base \in Nat /\ stk[i].from \in Nat /\ stk[i].tok \in Nat
    BY DEF Frames, CallOK, IsCall
  <1>4. stk[Len(stk)].base <= m /\ stk[Len(stk)].from <= p
    BY <1>2, <1>3 DEF Frames, Fits
  <1>5. CASE c < Len(stk)
    <2>1. Fits(t, stk[c], stk[Len(stk)].base, stk[Len(stk)].from)
      BY <1>2, <1>5 DEF Frames
    <2>2. stk[c].base <= stk[Len(stk)].base /\ stk[c].from <= stk[Len(stk)].from
      BY <1>2, <1>3, <2>1 DEF Fits
    <2> QED
      BY <1>2, <1>3, <1>4, <2>2
  <1> QED
    BY <1>2, <1>4, <1>5

\* The innermost call goes on.
LEMMA FramesResume ==
    ASSUME NEW t, NEW m, NEW p, NEW stk, Frames(stk, t, m, p),
           NEW d, CallOK(t, d), NEW m1, NEW p1, Fits(t, d, m1, p1),
           d.f = stk[Len(stk)].f, d.base = stk[Len(stk)].base,
           d.from = stk[Len(stk)].from
    PROVE  Frames([stk EXCEPT ![Len(stk)] = d], t, m1, p1)
  <1> DEFINE n == Len(stk)
             new == [stk EXCEPT ![n] = d]
  <1>1. PICK S : stk \in Seq(S)
    BY DEF Frames
  <1>2. n \in Nat \ {0} /\ DOMAIN stk = 1..n
    BY <1>1 DEF Frames
  <1>3. new \in Seq(S \cup {d}) /\ Len(new) = n
    BY <1>1, <1>2
  <1>4. new[n] = d /\ \A c \in 1..n : c # n => new[c] = stk[c]
    <2>1. n \in DOMAIN stk
      BY <1>2
    <2> HIDE DEF n
    <2> QED
      BY <1>2, <2>1
  <1>5. new # <<>>
    BY <1>2, <1>3
  <1> HIDE DEF new, n
  <1>6. \A c \in 1..n : CallOK(t, new[c])
    BY <1>4 DEF Frames, n
  <1>7. \A c \in 1..n : new[c].f = "parse_file" <=> c = 1
    BY <1>2, <1>4 DEF Frames, n
  <1>8. \A c \in 1..n-1 : At(new[c]).do \in Calls /\ At(new[c]).f = new[c + 1].f
    <2>1. \A c \in 1..n : new[c].f = stk[c].f
      BY <1>4 DEF n
    <2>2. \A c \in 1..n-1 : c \in 1..n /\ c # n /\ c + 1 \in 1..n
      BY <1>2
    <2> QED
      BY <1>4, <2>1, <2>2 DEF Frames, n
  <1>9. \A c \in 1..n : \A e \in 1..n : c < e => Fits(t, new[c], new[e].base, new[e].from)
    <2> SUFFICES ASSUME NEW c \in 1..n, NEW e \in 1..n, c < e
                 PROVE  Fits(t, new[c], new[e].base, new[e].from)
      OBVIOUS
    <2>1. c # n /\ new[c] = stk[c]
      BY <1>2, <1>4
    <2>2. new[e].base = stk[e].base /\ new[e].from = stk[e].from
      BY <1>4 DEF n
    <2> QED
      BY <2>1, <2>2 DEF Frames, n
  <1>10. Fits(t, new[n], m1, p1)
    BY <1>4
  <1>11. Frames(new, t, m1, p1)
    BY <1>3, <1>5, <1>6, <1>7, <1>8, <1>9, <1>10 DEF Frames
  <1> QED
    BY <1>11 DEF new, n

\* It calls a function.
LEMMA FramesCall ==
    ASSUME NEW t, DOMAIN t \subseteq Nat, NEW m \in Nat, NEW p \in Nat,
           NEW stk, Frames(stk, t, m, p), At(stk[Len(stk)]).do \in Calls,
           NEW f, NEW lvl, Callable(f, lvl), f # "parse_file",
           f = At(stk[Len(stk)]).f
    PROVE  Frames(Append(stk, Call(f, lvl, m, p)), t, m, p)
  <1> DEFINE n == Len(stk)
             d == Call(f, lvl, m, p)
             new == Append(stk, d)
  <1>1. PICK S : stk \in Seq(S)
    BY DEF Frames
  <1>2. n \in Nat \ {0} /\ DOMAIN stk = 1..n
    BY <1>1 DEF Frames
  <1>3. new \in Seq(S \cup {d}) /\ Len(new) = n + 1
    BY <1>1, <1>2
  <1>4. new[n + 1] = d /\ \A c \in 1..n : new[c] = stk[c]
    BY <1>1, <1>2
  <1>5. new # <<>>
    BY <1>2, <1>3
  <1>6. d.f = f /\ d.base = m /\ d.from = p
    BY DEF Call
  <1>7. CallOK(t, d) /\ Fits(t, d, m, p)
    BY FitsAtStart
  <1> HIDE DEF new, n, d
  <1>8. \A c \in 1..n+1 : CallOK(t, new[c])
    BY <1>2, <1>4, <1>7 DEF Frames, n
  <1>9. \A c \in 1..n+1 : new[c].f = "parse_file" <=> c = 1
    BY <1>2, <1>4, <1>6 DEF Frames, n
  <1>10. \A c \in 1..n : At(new[c]).do \in Calls /\ At(new[c]).f = new[c + 1].f
    <2> SUFFICES ASSUME NEW c \in 1..n
                 PROVE  At(new[c]).do \in Calls /\ At(new[c]).f = new[c + 1].f
      OBVIOUS
    <2>1. CASE c = n
      BY <1>2, <1>4, <1>6, <2>1 DEF n
    <2>2. CASE c # n
      <3>1. c \in 1..n-1 /\ c + 1 \in 1..n
        BY <1>2, <2>2
      <3> QED
        BY <1>4, <3>1 DEF Frames, n
    <2> QED
      BY <2>1, <2>2
  <1>11. \A c \in 1..n : Fits(t, stk[c], m, p)
    <2> SUFFICES ASSUME NEW c \in 1..n, c # n PROVE Fits(t, stk[c], m, p)
      BY DEF Frames, n
    <2>1. c < n /\ c \in 1..n-1 /\ n \in 1..n
      BY <1>2
    <2>2. /\ CallOK(t, stk[c]) /\ CallOK(t, stk[n]) /\ At(stk[c]).do \in Calls
          /\ Fits(t, stk[c], stk[n].base, stk[n].from)
      BY <2>1 DEF Frames, n
    <2>3. stk[n].base <= m /\ stk[n].from <= p
      BY <2>1, CallersAreBehind DEF n
    <2>4. stk[n].base \in Nat /\ stk[n].from \in Nat
      BY <2>2 DEF CallOK, IsCall
    <2> QED
      BY <2>2, <2>3, <2>4, FitsWhileCalling
  <1>12. \A c, e \in 1..n+1 : c < e => Fits(t, new[c], new[e].base, new[e].from)
    <2> SUFFICES ASSUME NEW c \in 1..n+1, NEW e \in 1..n+1, c < e
                 PROVE  Fits(t, new[c], new[e].base, new[e].from)
      OBVIOUS
    <2>1. c \in 1..n
      BY <1>2
    <2>2. CASE e = n + 1
      BY <1>4, <1>6, <1>11, <2>1, <2>2
    <2>3. CASE e # n + 1
      <3>1. e \in 1..n
        BY <1>2, <2>3
      <3> QED
        BY <1>4, <2>1, <3>1 DEF Frames, n
    <2> QED
      BY <2>2, <2>3
  <1>13. Frames(new, t, m, p)
    <2>1. Len(new) = n + 1 /\ Len(new) - 1 = n /\ \E T : new \in Seq(T)
      BY <1>2, <1>3
    <2>2. Fits(t, new[n + 1], m, p)
      BY <1>4, <1>7
    <2> QED
      BY <1>5, <1>8, <1>9, <1>10, <1>12, <2>1, <2>2 DEF Frames
  <1> QED
    BY <1>13 DEF new, d

\* It returns: the caller is where it was when it called.
LEMMA FramesReturn ==
    ASSUME NEW t, NEW m, NEW p, NEW stk, Frames(stk, t, m, p),
           stk[Len(stk)].f # "parse_file"
    PROVE  /\ Frames(Front(stk), t, stk[Len(stk)].base, stk[Len(stk)].from)
           /\ Len(stk) \in Nat /\ Len(stk) > 1
           /\ Len(Front(stk)) = Len(stk) - 1
           /\ \A c \in 1..Len(stk)-1 : Front(stk)[c] = stk[c]
  <1> DEFINE n == Len(stk)
             new == Front(stk)
  <1>1. PICK S : stk \in Seq(S)
    BY DEF Frames
  <1>2. n \in Nat \ {0} /\ n # 1
    BY <1>1 DEF Frames
  <1>3. new = [c \in 1..n-1 |-> stk[c]]
    BY <1>2 DEF Front
  <1>4. new \in Seq(S) /\ Len(new) = n - 1
    <2>1. \A c \in 1..n-1 : stk[c] \in S
      BY <1>1, <1>2
    <2>2. n - 1 \in Nat
      BY <1>2
    <2> QED
      BY <1>3, <2>1, <2>2
  <1>5. \A c \in 1..n-1 : new[c] = stk[c]
    BY <1>3
  <1>6. new # <<>>
    BY <1>2, <1>4
  <1> HIDE DEF new, n
  <1>7. \A c \in 1..n-1 : CallOK(t, new[c]) /\ (new[c].f = "parse_file" <=> c = 1)
    BY <1>2, <1>5 DEF Frames, n
  <1>8. \A c \in 1..n-1-1 : At(new[c]).do \in Calls /\ At(new[c]).f = new[c + 1].f
    <2> SUFFICES ASSUME NEW c \in 1..n-1-1
                 PROVE  At(new[c]).do \in Calls /\ At(new[c]).f = new[c + 1].f
      OBVIOUS
    <2>1. c \in 1..n-1 /\ c + 1 \in 1..n-1
      BY <1>2
    <2> QED
      BY <1>5, <2>1 DEF Frames, n
  <1>9. \A c, e \in 1..n-1 : c < e => Fits(t, new[c], new[e].base, new[e].from)
    <2>1. \A c \in 1..n-1 : c \in 1..n
      BY <1>2
    <2> QED
      BY <1>5, <2>1 DEF Frames, n
  <1>10. Fits(t, new[n-1], stk[n].base, stk[n].from)
    BY <1>2, <1>5 DEF Frames, n
  <1>11. Frames(new, t, stk[n].base, stk[n].from)
    BY <1>2, <1>4, <1>6, <1>7, <1>8, <1>9, <1>10 DEF Frames
  <1> QED
    BY <1>2, <1>4, <1>5, <1>11 DEF new, n


-----------------------------------------------------------------------------
(* The marks of the lexer.                                                 *)

\* The inductive invariant.  MarksAscend alone is not inductive: that a mark
\* is a number, and the stack of marks a sequence, is needed for what stays
\* of it after a pop.
MarksInv ==
    /\ tok_index \in Nat
    /\ indices \in Seq(Nat)
    /\ MarksAscend

\* An action that leaves the marks alone and does not move the cursor back.
MovesOn ==
    /\ indices' = indices
    /\ tok_index' \in {tok_index, tok_index + 1}

-----------------------------------------------------------------------------
(* The operations of the cursor.                                           *)

\* A stack of marks that has one has a last one, and is a sequence without it.
LEMMA FrontOfMarks ==
    ASSUME NEW S, NEW s \in Seq(S), s # <<>>
    PROVE  /\ Len(s) \in Nat \ {0}
           /\ Last(s) = s[Len(s)]
           /\ Front(s) \in Seq(S)
           /\ DOMAIN Front(s) = 1..Len(s) - 1
           /\ \A m \in DOMAIN Front(s) : Front(s)[m] = s[m]
  <1>1. Len(s) \in Nat \ {0}
    BY SMT
  <1>2. Front(s) = [m \in 1..Len(s) - 1 |-> s[m]]
    BY <1>1, SMT DEF Front
  <1>3. Front(s) \in Seq(S)
    BY <1>1, SMT DEF Front
  <1> QED
    BY <1>1, <1>2, <1>3 DEF Last

\* lexer_push() keeps the invariant.
LEMMA PushKeepsMarks ==
    ASSUME MarksInv, indices' = Append(indices, tok_index), tok_index' = tok_index
    PROVE  MarksInv'
  <1>1. indices' \in Seq(Nat) /\ DOMAIN indices' = 1..Len(indices) + 1
    BY SMT DEF MarksInv
  <1>2. /\ \A m \in DOMAIN indices : indices'[m] = indices[m]
        /\ indices'[Len(indices) + 1] = tok_index
    BY SMT DEF MarksInv
  <1>3. \A m \in DOMAIN indices' : indices'[m] <= tok_index
    BY <1>1, <1>2, SMT DEF MarksInv, MarksAscend
  <1>4. \A m, n \in DOMAIN indices' : m <= n => indices'[m] <= indices'[n]
    BY <1>1, <1>2, <1>3, SMT DEF MarksInv, MarksAscend
  <1> QED
    BY <1>1, <1>3, <1>4 DEF MarksInv, MarksAscend

\* lexer_pop() keeps it.
LEMMA PopKeepsMarks ==
    ASSUME MarksInv, indices # <<>>, indices' = Front(indices),
           tok_index' = tok_index
    PROVE  MarksInv'
  <1>1. /\ Len(indices) \in Nat \ {0}
        /\ indices' \in Seq(Nat)
        /\ DOMAIN indices' = 1..Len(indices) - 1
        /\ \A m \in DOMAIN indices' : indices'[m] = indices[m]
    BY FrontOfMarks DEF MarksInv
  <1>2. DOMAIN indices = 1..Len(indices)
    BY DEF MarksInv
  <1> QED
    BY <1>1, <1>2, SMT DEF MarksInv, MarksAscend

\* lexer_rollback() keeps it: the mark it goes back to is the highest.
LEMMA RollbackKeepsMarks ==
    ASSUME MarksInv, indices # <<>>, indices' = Front(indices),
           tok_index' = Last(indices)
    PROVE  MarksInv'
  <1>1. /\ Len(indices) \in Nat \ {0}
        /\ Last(indices) = indices[Len(indices)]
        /\ indices' \in Seq(Nat)
        /\ DOMAIN indices' = 1..Len(indices) - 1
        /\ \A m \in DOMAIN indices' : indices'[m] = indices[m]
    BY FrontOfMarks DEF MarksInv
  <1>2. DOMAIN indices = 1..Len(indices)
    BY DEF MarksInv
  <1>3. tok_index' \in Nat
    BY <1>1, <1>2, SMT DEF MarksInv
  <1>4. \A m \in DOMAIN indices : indices[m] <= indices[Len(indices)]
    <2>1. \A m, n \in DOMAIN indices : m <= n => indices[m] <= indices[n]
      BY DEF MarksInv, MarksAscend
    <2> QED
      BY <1>1, <1>2, <2>1, SMT
  <1>5. \A m \in DOMAIN indices' : m \in DOMAIN indices
    BY <1>1, <1>2, SMT
  <1>6. \A m \in DOMAIN indices' : indices'[m] <= tok_index'
    BY <1>1, <1>4, <1>5
  <1>7. \A m, n \in DOMAIN indices' : m <= n => indices'[m] <= indices'[n]
    BY <1>1, <1>5 DEF MarksInv, MarksAscend
  <1> QED
    BY <1>1, <1>3, <1>6, <1>7 DEF MarksInv, MarksAscend

\* So does what moves the cursor forward, or not at all.
LEMMA MovingOnKeepsMarks ==
    ASSUME MarksInv, MovesOn
    PROVE  MarksInv'
  <1>1. DOMAIN indices = 1..Len(indices) /\ \A m \in DOMAIN indices : indices[m] \in Nat
    BY DEF MarksInv
  <1>2. tok_index' \in Nat /\ \A m \in DOMAIN indices : indices[m] <= tok_index'
    BY <1>1, SMT DEF MarksInv, MarksAscend, MovesOn
  <1> QED
    BY <1>2 DEF MarksInv, MarksAscend, MovesOn

-----------------------------------------------------------------------------
(* The steps of the parser.                                                *)

\* Every step but the push, the pop and the rollback moves on.
LEMMA OtherStepsMoveOn ==
    ASSUME ParseNext, ~LexerPush, ~LexerPop, ~LexerRollback
    PROVE  MovesOn
  <1>1. CASE AdvanceOver
    BY <1>1 DEF AdvanceOver, NextIndex, MovesOn
  <1>2. CASE TakeToken
    BY <1>2 DEF TakeToken, NextIndex, MovesOn
  <1>3. CASE ExpectToken
    BY <1>3 DEF ExpectToken, NextIndex, MovesOn
  <1>4. CASE LookAtToken
    BY <1>4 DEF LookAtToken, lexVars, MovesOn
  <1>5. CASE TokenGetValue
    BY <1>5 DEF TokenGetValue, MovesOn
  <1>6. CASE PostSyntaxError \/ HasSyntaxError \/ InfoCtxPush \/ InfoCtxPop
    BY <1>6 DEF PostSyntaxError, HasSyntaxError, InfoCtxPush, InfoCtxPop,
                lexVars, MovesOn
  <1>7. CASE CallAccept \/ ReturnNode \/ ReturnNull \/ AdoptStatement
    BY <1>7 DEF CallAccept, ReturnNode, ReturnNull, AdoptStatement, lexVars,
                MovesOn
  <1>8. CASE FinishFile \/ UseToken \/ NameOfNode \/ ReadUnsetLocal
    BY <1>8 DEF FinishFile, UseToken, NameOfNode, ReadUnsetLocal, Stop,
                lexVars, MovesOn
  <1>9. CASE UNCHANGED parseVars
    BY <1>9 DEF parseVars, lexVars, MovesOn
  <1> QED
    BY <1>1, <1>2, <1>3, <1>4, <1>5, <1>6, <1>7, <1>8, <1>9
    DEF ParseNext, ParseStep

\* No step of the parser breaks it.
LEMMA StepKeepsMarks ==
    ASSUME MarksInv, [ParseNext]_parseVars
    PROVE  MarksInv'
  <1>1. CASE UNCHANGED parseVars
    BY <1>1, MovingOnKeepsMarks DEF parseVars, lexVars, MovesOn
  <1>2. CASE LexerPush
    BY <1>2, PushKeepsMarks DEF LexerPush
  <1>3. CASE LexerPop
    <2>1. CASE indices = <<>>
      BY <1>3, <2>1, MovingOnKeepsMarks DEF LexerPop, Stop, lexVars, MovesOn
    <2>2. CASE indices # <<>>
      BY <1>3, <2>2, PopKeepsMarks DEF LexerPop
    <2> QED
      BY <2>1, <2>2
  <1>4. CASE LexerRollback
    <2>1. CASE indices = <<>> \/ Last(indices) > tok_index
      BY <1>4, <2>1, MovingOnKeepsMarks
      DEF LexerRollback, Stop, lexVars, MovesOn
    <2>2. CASE ~(indices = <<>> \/ Last(indices) > tok_index)
      BY <1>4, <2>2, RollbackKeepsMarks DEF LexerRollback
    <2> QED
      BY <2>1, <2>2
  <1>5. CASE ParseNext /\ ~LexerPush /\ ~LexerPop /\ ~LexerRollback
    BY <1>5, OtherStepsMoveOn, MovingOnKeepsMarks
  <1> QED
    BY <1>1, <1>2, <1>3, <1>4, <1>5

\* It is an invariant of the parser.
LEMMA MarksInvHolds == ParseSpec => []MarksInv
  <1>1. ParseInit => MarksInv
    <2> SUFFICES ASSUME ParseInit PROVE MarksInv
      OBVIOUS
    <2>1. tok_index = 1 /\ indices = <<>>
      BY DEF ParseInit
    <2>2. DOMAIN indices = {}
      BY <2>1, SMT
    <2> QED
      BY <2>1, <2>2, SMT DEF MarksInv, MarksAscend
  <1>2. MarksInv /\ [ParseNext]_parseVars => MarksInv'
    BY StepKeepsMarks
  <1> QED
    BY <1>1, <1>2, PTL DEF ParseSpec

-----------------------------------------------------------------------------
(* The marks ascend up to the cursor, whatever the file holds and whatever *)
(* the accept functions do: lexer_rollback() is never asked to go to a     *)
(* token ahead.                                                            *)
THEOREM MarksAlwaysAscend == ParseSpec => []MarksAscend
  <1>1. MarksInv => MarksAscend
    BY DEF MarksInv
  <1> QED
    BY <1>1, MarksInvHolds, PTL

-----------------------------------------------------------------------------
(* The inductive invariant.  That a function takes away no mark of its     *)
(* callers and gives back no token of theirs is not inductive: it rests on *)
(* where every call of the stack is in its program, and on its callers     *)
(* having stopped at a call that they may still return to (Frames), with   *)
(* the marks and the cursor no lower than they left them.                  *)

\* The variables are in their ranges.
FileOK ==
    /\ toks \in Seq(Kinds)
    /\ tok_index \in 1..Len(toks) + 1
    /\ \A m \in DOMAIN indices : indices[m] \in 1..Len(toks) + 1
    /\ owned \subseteq DOMAIN toks
    /\ have_syntax_err \in BOOLEAN
    /\ posted \in Nat
    /\ infoMarks \in Seq(Nat)
    /\ taken \in 0..Len(toks)
    /\ verdict \in {"parsing", "accepted", "rejected", "misused", "crashed"}

\* The marks that a call finds are those of its callers, the later ones are
\* not before it.
MarksAbove ==
    \A c \in 1..Len(stack) : \A m \in DOMAIN indices :
        m > stack[c].base => indices[m] >= stack[c].from

\* What a call holds the lexer does not.
NotOwned == \A c \in 1..Len(stack) : stack[c].got \cap owned = {}

\* A missing name of an index is looked for where the index is not closed.
NotClosed == Top.label = "unnamed" /\ Top.at = 1 => KindOf(toks, tok_index) # "]"

StackInv ==
    /\ Frames(stack, toks, Len(indices), tok_index)
    /\ MarksAbove
    /\ NotOwned
    /\ NotClosed

\* The lexer never asserts, and the parser only as it is explained.
ParserIInv ==
    /\ FileOK
    /\ MarksInv
    /\ StackInv
    /\ verdict # "misused"
    /\ CrashIsExplained

-----------------------------------------------------------------------------
(* What the actions see.                                                   *)

\* The call in progress is the last of the stack.
LEMMA TopIsLast == ASSUME StackInv PROVE Top = stack[Len(stack)]
  BY DEF Top, Last

\* The step that an action looks at is the one that the call at the top is at.
LEMMA StepIsAt ==
    ASSUME StackInv
    PROVE  /\ Step = At(Top)
           /\ CallOK(toks, Top)
           /\ Fits(toks, Top, Len(indices), tok_index)
           /\ StepOK(Top.f, DOMAIN Program(Top.f, Top.lvl), Top.label, Text(Top), Top.at)
           /\ Len(stack) \in 1..Len(stack)
  <1>1. PICK S : stack \in Seq(S)
    BY DEF StackInv, Frames
  <1>2. Len(stack) \in 1..Len(stack)
    BY <1>1 DEF StackInv, Frames
  <1>3. CallOK(toks, Top) /\ Fits(toks, Top, Len(indices), tok_index)
    BY <1>2, TopIsLast DEF StackInv, Frames
  <1>4. Step = At(Top)
    BY <1>3, StepsAreTheText DEF Step, At, Text, CallOK, InProgram
  <1> QED
    BY <1>2, <1>3, <1>4, StepIsOK DEF CallOK

\* lexer_lookahead() is a function of the tokens.
LEMMA KindIsKindOf == \A i : Kind(i) = KindOf(toks, i)
  BY DEF Kind, KindOf

\* What After, To and the two updates do to the fields of a call.
LEMMA AfterFields ==
    ASSUME NEW c, IsCall(c), NEW d, d = After(c)
    PROVE  /\ IsCall(d)
           /\ d.f = c.f /\ d.lvl = c.lvl /\ d.label = c.label /\ d.at = c.at + 1
           /\ d.tok = c.tok /\ d.got = c.got /\ d.base = c.base /\ d.from = c.from
  BY DEF IsCall, After

\* The same for the next of them.
LEMMA ToFields ==
    ASSUME NEW c, IsCall(c), NEW l, l # "next", NEW d, d = To(c, l)
    PROVE  /\ IsCall(d)
           /\ d.f = c.f /\ d.lvl = c.lvl /\ d.label = l /\ d.at = 1
           /\ d.tok = c.tok /\ d.got = c.got /\ d.base = c.base /\ d.from = c.from
  <1>1. d = [c EXCEPT !.label = l, !.at = 1]
    BY DEF To
  <1>2. d = [f |-> c.f, lvl |-> c.lvl, label |-> l, at |-> 1, tok |-> c.tok,
             got |-> c.got, base |-> c.base, from |-> c.from]
    BY <1>1 DEF IsCall
  <1> QED
    BY <1>2 DEF IsCall

\* The same for the next of them.
LEMMA TokFields ==
    ASSUME NEW c, IsCall(c), NEW i \in Nat, NEW d, d = [c EXCEPT !.tok = i]
    PROVE  /\ IsCall(d)
           /\ d.f = c.f /\ d.lvl = c.lvl /\ d.label = c.label /\ d.at = c.at
           /\ d.tok = i /\ d.got = c.got /\ d.base = c.base /\ d.from = c.from
  BY DEF IsCall

\* The same for the next of them.
LEMMA GotFields ==
    ASSUME NEW c, IsCall(c), NEW g, NEW d, d = [c EXCEPT !.got = c.got \cup g]
    PROVE  /\ IsCall(d)
           /\ d.f = c.f /\ d.lvl = c.lvl /\ d.label = c.label /\ d.at = c.at
           /\ d.tok = c.tok /\ d.got = c.got \cup g /\ d.base = c.base /\ d.from = c.from
  BY DEF IsCall

-----------------------------------------------------------------------------
(* The ways on for the innermost call.                                     *)

\* The call at the top is replaced by a later state of itself.
LEMMA ResumeKeepsStack ==
    ASSUME ParserIInv, toks' = toks, owned' \subseteq owned,
           NEW d, Resume(d), CallOK(toks, d),
           Fits(toks, d, Len(indices'), tok_index'),
           d.f = Top.f, d.base = Top.base, d.from = Top.from,
           d.got \cap owned' = {},
           d.label = "unnamed" /\ d.at = 1 => KindOf(toks, tok_index') # "]",
           \/ indices' = indices
           \/ indices' = Append(indices, tok_index)
           \/ indices # <<>> /\ indices' = Front(indices)
    PROVE  StackInv'
  <1> DEFINE n == Len(stack)
  <1>1. PICK S : stack \in Seq(S)
    BY DEF ParserIInv, StackInv, Frames
  <1>2. n \in 1..n /\ Top = stack[n]
    BY StepIsAt, TopIsLast DEF ParserIInv
  <1>3. stack' = [stack EXCEPT ![n] = d]
    BY DEF Resume
  <1>4. stack' \in Seq(S \cup {d}) /\ Len(stack') = n
    <2>1. DOMAIN stack = 1..n /\ n \in Nat \ {0}
      BY <1>1, <1>2
    <2> QED
      BY <1>1, <1>3, <2>1
  <1>5. stack'[n] = d /\ \A c \in 1..n : c # n => stack'[c] = stack[c]
    <2>1. DOMAIN stack = 1..n
      BY <1>1
    <2> HIDE DEF n
    <2> QED
      BY <1>1, <1>2, <1>3, <2>1
  <1>6. Frames(stack', toks', Len(indices'), tok_index')
    BY <1>2, <1>3, FramesResume DEF ParserIInv, StackInv
  <1>7. \A c \in 1..n : stack'[c].base = stack[c].base /\ stack'[c].from = stack[c].from
    BY <1>2, <1>5
  <1>8. MarksAbove'
    <2>1. MarksAbove
      BY DEF ParserIInv, StackInv
    <2>2. indices \in Seq(Nat) /\ tok_index \in Nat
      BY DEF ParserIInv, MarksInv
    <2>3. CASE indices' = indices
      BY <1>4, <1>7, <2>1, <2>3 DEF MarksAbove
    <2>4. CASE indices' = Append(indices, tok_index)
      <3>1. DOMAIN indices = 1..Len(indices) /\ DOMAIN indices' = 1..Len(indices) + 1
        BY <2>2, <2>4
      <3>2. /\ \A m \in DOMAIN indices : indices'[m] = indices[m]
            /\ indices'[Len(indices) + 1] = tok_index
        BY <2>2, <2>4
      <3>3. \A c \in 1..n : tok_index >= stack[c].from
        BY <2>2, Len(indices) \in Nat, CallersAreBehind DEF ParserIInv, StackInv
      <3>4. \A m \in DOMAIN indices' : m \in DOMAIN indices \/ m = Len(indices) + 1
        BY <2>2, <3>1
      <3> QED
        BY <1>4, <1>7, <2>1, <3>2, <3>3, <3>4 DEF MarksAbove
    <2>5. CASE indices # <<>> /\ indices' = Front(indices)
      <3>1. \A m \in DOMAIN indices' : m \in DOMAIN indices /\ indices'[m] = indices[m]
        BY <2>2, <2>5, FrontOfMarks
      <3> QED
        BY <1>4, <1>7, <2>1, <3>1 DEF MarksAbove
    <2> QED
      BY <2>3, <2>4, <2>5
  <1>9. NotOwned'
    BY <1>4, <1>5 DEF ParserIInv, StackInv, NotOwned
  <1>10. Top' = d
    BY <1>4, <1>5 DEF Top, Last
  <1>11. NotClosed'
    BY <1>10 DEF NotClosed
  <1> QED
    BY <1>6, <1>8, <1>9, <1>11 DEF StackInv

\* It goes on to its next step.
LEMMA GoingOnKeepsStack ==
    ASSUME ParserIInv, toks' = toks, owned' \subseteq owned,
           Step.do \in Tests \cup Plain \cup {"when", "when2"},
           NEW c, IsCall(c), Resume(After(c)),
           c.f = Top.f, c.lvl = Top.lvl, c.label = Top.label, c.at = Top.at,
           c.base = Top.base, c.from = Top.from,
           c.tok = IF Step.do \in SetsTok THEN tok_index ELSE Top.tok,
           Step.do \in LooksAtTok => Kind(c.tok) \in Step.kinds,
           Top.got \subseteq c.got, c.got \subseteq DOMAIN toks,
           c.got \cap owned' = {},
           \A i \in c.got \ Top.got :
                /\ Top.from <= i /\ i <= tok_index'
                /\ i = tok_index' => Text(Top)[Top.at + 1].do = "advance",
           indices' = IF Step.do = "push" THEN Append(indices, tok_index)
                      ELSE IF Step.do = "pop" THEN Front(indices)
                      ELSE indices,
           tok_index' = IF Step.do \in {"advance", "expect", "take"} THEN NextIndex
                        ELSE tok_index
    PROVE  StackInv'
  <1> DEFINE d == After(c)
             s == Text(Top)
             k == Top.at
             p == tok_index
             p1 == tok_index'
             m == Len(indices)
             m1 == Len(indices')
  <1>1. /\ Step = At(Top) /\ CallOK(toks, Top) /\ Fits(toks, Top, m, p)
        /\ StepOK(Top.f, DOMAIN Program(Top.f, Top.lvl), Top.label, s, k)
    BY StepIsAt DEF ParserIInv
  <1>2. /\ IsCall(d)
        /\ d.f = Top.f /\ d.lvl = Top.lvl /\ d.label = Top.label
        /\ d.at = Top.at + 1 /\ d.base = Top.base /\ d.from = Top.from
        /\ d.tok = c.tok /\ d.got = c.got
    BY AfterFields
  <1>3. /\ toks \in Seq(Kinds) /\ p \in Nat /\ indices \in Seq(Nat) /\ m \in Nat
        /\ "NULL" \notin Kinds
    BY NullIsNoKind DEF ParserIInv, FileOK, MarksInv
  <1>4. NextIndex = Next(toks, p)
    BY DEF NextIndex, Next
  <1>5. p <= p1 /\ p1 \in Nat
    BY <1>3, <1>4 DEF Next
  <1>6. Step.do = "pop" => indices # <<>>
    <2> SUFFICES ASSUME Step.do = "pop" PROVE m # 0
      BY <1>3
    <2>1. CallHolds(Top)
      BY <1>1 DEF StepOK, CallHolds, At
    <2>2. Top.base < m /\ Top.base \in Nat
      BY <1>1, <2>1 DEF Fits, CallOK, IsCall
    <2> QED
      BY <1>3, <2>2
  <1>7. /\ m1 \in Nat
        /\ At(Top).do = "push" => m1 = m + 1
        /\ At(Top).do = "pop" => m1 = m - 1
        /\ At(Top).do \notin {"push", "pop"} => m1 >= m
    <2>1. CASE Step.do = "push"
      BY <1>1, <1>3, <2>1
    <2>2. CASE Step.do = "pop"
      <3>1. Front(indices) \in Seq(Nat) /\ DOMAIN Front(indices) = 1..m - 1 /\ m \in Nat \ {0}
        BY <1>3, <1>6, <2>2, FrontOfMarks
      <3>2. Len(Front(indices)) = m - 1
        BY <3>1
      <3> QED
        BY <1>1, <1>3, <2>2, <3>1, <3>2
    <2>3. CASE Step.do \notin {"push", "pop"}
      BY <1>1, <1>3, <2>3
    <2> QED
      BY <2>1, <2>2, <2>3
  <1>8. ~MustEat(At(Top)) /\ At(Top).do # "call" /\ At(Top).do \in Tests \cup Calls \cup Plain
    BY <1>1 DEF MustEat, Tests, LooksAtTok, Plain, Calls
  <1>9. At(Top).do \in LooksAtTok => KindOf(toks, d.tok) \in At(Top).kinds
    BY <1>1, <1>2, KindIsKindOf
  <1>10. At(Top).do \in {"advance", "expect", "take"} => p1 = Next(toks, p)
    BY <1>1, <1>4
  <1>11. At(d) = s[k + 1]
    BY <1>2 DEF At, Text
  <1>12. \A i \in d.got \ Top.got :
                Top.from <= i /\ i <= p1 /\ (i = p1 => At(d).do = "advance")
    BY <1>2, <1>11
  <1>13. d.tok = IF At(Top).do \in SetsTok THEN p ELSE Top.tok
    BY <1>1, <1>2
  <1>14. Top.got \subseteq d.got /\ d.got \subseteq DOMAIN toks /\ d.got \cap owned' = {}
    BY <1>2
  <1>15. Resume(d)
    OBVIOUS
  <1>16. \/ indices' = indices
         \/ indices' = Append(indices, tok_index)
         \/ indices # <<>> /\ indices' = Front(indices)
    BY <1>6
  <1>17. d.at # 1
    BY <1>1, <1>2 DEF CallOK, IsCall
  <1> HIDE DEF d, p, p1, m, m1
  <1>18. CallOK(toks, d) /\ Fits(toks, d, m1, p1)
    BY <1>1, <1>2, <1>3, <1>5, <1>7, <1>8, <1>9, <1>10, <1>12, <1>13, <1>14, FitsOn
  <1> QED
    BY <1>2, <1>14, <1>15, <1>16, <1>17, <1>18, ResumeKeepsStack DEF p1, m1

\* It goes to another label.
LEMMA BranchingKeepsStack ==
    ASSUME ParserIInv, toks' = toks, owned' = owned, indices' = indices,
           Step.do \in Tests \cup {"goto"},
           NEW c, IsCall(c), Resume(To(c, Step.fail)),
           c.f = Top.f, c.lvl = Top.lvl, c.base = Top.base, c.from = Top.from,
           c.got = Top.got,
           c.tok = IF Step.do \in {"look", "take"} THEN tok_index ELSE Top.tok,
           Step.do = "ahead" => Kind(tok_index) \notin Step.kinds,
           tok_index' = IF Step.do = "take" THEN NextIndex ELSE tok_index
    PROVE  StackInv'
  <1> DEFINE d == To(c, Step.fail)
             p == tok_index
             p1 == tok_index'
             m == Len(indices)
  <1>1. /\ Step = At(Top) /\ CallOK(toks, Top) /\ Fits(toks, Top, m, p)
        /\ StepOK(Top.f, DOMAIN Program(Top.f, Top.lvl), Top.label, Text(Top), Top.at)
    BY StepIsAt DEF ParserIInv
  <1>2. /\ toks \in Seq(Kinds) /\ DOMAIN toks \subseteq Nat /\ p \in Nat
        /\ indices \in Seq(Nat) /\ m \in Nat
    BY DEF ParserIInv, FileOK, MarksInv
  <1>3. p <= p1 /\ p1 \in Nat
    BY <1>2 DEF NextIndex
  <1>4. Branches(At(Top)) /\ At(Top).do \notin Calls
    BY <1>1 DEF Branches, Tests, LooksAtTok, Calls
  <1>5. CanGo(Top.f, DOMAIN Program(Top.f, Top.lvl), Top.label, Text(Top), Top.at)
    BY <1>1, <1>4 DEF StepOK, At
  <1>6. Step.fail # "next"
    <2>1. Text(Top)[Top.at] = Step
      BY <1>1 DEF At
    <2> QED
      BY <1>5, <2>1 DEF CanGo
  <1>7. /\ IsCall(d)
        /\ d.f = Top.f /\ d.lvl = Top.lvl /\ d.label = Step.fail
        /\ d.at = 1 /\ d.base = Top.base /\ d.from = Top.from
        /\ d.tok = c.tok /\ d.got = Top.got
    BY <1>6, ToFields
  <1>8. d.label = "unnamed" => KindOf(toks, p1) # "]"
    <2> SUFFICES ASSUME d.label = "unnamed" PROVE KindOf(toks, p1) # "]"
      OBVIOUS
    <2>1. Step.do = "ahead" /\ Step.kinds = {"]"}
      BY <1>1, <1>5, <1>7 DEF CanGo, At
    <2> QED
      BY <2>1, KindIsKindOf
  <1>9. Resume(d)
    OBVIOUS
  <1>10. d.tok = Top.tok \/ (d.tok = p /\ At(Top).do \in {"look", "take"})
    <2>1. d.tok = c.tok
      BY <1>7
    <2> QED
      BY <1>1, <2>1
  <1>11. Branches(At(Top)) /\ d.label = At(Top).fail /\ d.label # "next"
    BY <1>1, <1>4, <1>6, <1>7
  <1>12. Top.got \subseteq DOMAIN toks /\ Top.got \cap owned' = {}
    BY StepIsAt, TopIsLast DEF ParserIInv, StackInv, NotOwned, CallOK
  <1> HIDE DEF d, p, p1, m
  <1>13. CallOK(toks, d) /\ Fits(toks, d, m, p1)
    BY <1>1, <1>2, <1>3, <1>7, <1>10, <1>11, <1>12, FitsThere
  <1> QED
    BY <1>7, <1>8, <1>9, <1>12, <1>13, ResumeKeepsStack DEF p1, m

\* A function is called.
LEMMA CallingKeepsStack ==
    ASSUME ParserIInv, toks' = toks, owned' = owned, indices' = indices,
           tok_index' = tok_index, Step.do \in Calls,
           stack' = Append(stack, Call(Step.f, Step.lvl, Len(indices), tok_index))
    PROVE  StackInv'
  <1> DEFINE n == Len(stack)
             m == Len(indices)
             d == Call(Step.f, Step.lvl, m, tok_index)
  <1>1. /\ Step = At(Top) /\ Top = stack[n] /\ n \in 1..n
        /\ StepOK(Top.f, DOMAIN Program(Top.f, Top.lvl), Top.label, Text(Top), Top.at)
    BY StepIsAt, TopIsLast DEF ParserIInv
  <1>2. /\ DOMAIN toks \subseteq Nat /\ tok_index \in Nat /\ m \in Nat
        /\ DOMAIN indices = 1..m
    <2>1. toks \in Seq(Kinds) /\ tok_index \in Nat /\ indices \in Seq(Nat)
      BY DEF ParserIInv, FileOK, MarksInv
    <2> QED
      BY <2>1
  <1>3. CanCall(Top.f, Top.label, Text(Top), Top.at) /\ Text(Top)[Top.at] = Step
    BY <1>1 DEF StepOK, At
  <1>4. Callable(Step.f, Step.lvl) /\ Step.f # "parse_file"
    BY <1>3 DEF CanCall
  <1>5. Frames(stack, toks, m, tok_index)
    BY DEF ParserIInv, StackInv
  <1>6. Frames(stack', toks', Len(indices'), tok_index')
    BY <1>1, <1>2, <1>4, <1>5, FramesCall
  <1>7. PICK S : stack \in Seq(S)
    BY <1>5 DEF Frames
  <1>8. Len(stack') = n + 1 /\ stack'[n + 1] = d /\ \A c \in 1..n : stack'[c] = stack[c]
    BY <1>1, <1>7
  <1>9. d.base = m /\ d.got = {} /\ d.label = "start"
    BY DEF Call
  <1> HIDE DEF n, m, d
  <1>10. \A c \in 1..n+1 : c \in 1..n \/ c = n + 1
    BY <1>1
  <1>11. MarksAbove'
    <2> SUFFICES ASSUME NEW c \in 1..n+1, NEW i \in DOMAIN indices, i > stack'[c].base
                 PROVE  indices[i] >= stack'[c].from
      BY <1>8 DEF MarksAbove
    <2>1. c # n + 1
      BY <1>2, <1>8, <1>9
    <2> QED
      BY <1>8, <1>10, <2>1 DEF ParserIInv, StackInv, MarksAbove, n
  <1>12. NotOwned'
    BY <1>8, <1>9, <1>10 DEF ParserIInv, StackInv, NotOwned, n
  <1>13. NotClosed'
    BY <1>8, <1>9 DEF NotClosed, Top, Last
  <1> QED
    BY <1>6, <1>11, <1>12, <1>13 DEF StackInv

\* What the calls of a function have in common with the function itself.
LEMMA CallersWait ==
    ASSUME StackInv, DOMAIN toks \subseteq Nat, Top.f # "parse_file"
    PROVE  /\ Len(stack) \in Nat /\ Len(stack) > 1
           /\ \A c \in 1..Len(stack)-1 : \A i \in stack[c].got : i < Top.from
  <1> DEFINE n == Len(stack)
  <1>1. /\ Len(stack) \in Nat /\ Len(stack) > 1 /\ Top = stack[n]
        /\ Frames(stack, toks, Len(indices), tok_index)
    BY FramesReturn, TopIsLast DEF StackInv
  <1> HIDE DEF n
  <1>2. ASSUME NEW c \in 1..n-1
        PROVE  \A i \in stack[c].got : i < Top.from
    <2>1. c \in 1..n /\ n \in 1..n /\ c < n
      BY <1>1 DEF n
    <2>2. /\ CallOK(toks, stack[c]) /\ At(stack[c]).do \in Calls
          /\ CallOK(toks, Top)
          /\ Fits(toks, stack[c], Top.base, Top.from)
      BY <1>1, <2>1 DEF Frames, n
    <2>3. Top.base \in Nat /\ Top.from \in Nat
      BY <2>2 DEF CallOK, IsCall
    <2> QED
      BY <2>2, <2>3, FitsWhileCalling
  <1> QED
    BY <1>1, <1>2 DEF n

\* A function returns: the caller goes on as d, from the marks and the cursor
\* that the function leaves.
LEMMA ReturningKeepsStack ==
    ASSUME ParserIInv, toks' = toks, Top.f # "parse_file",
           NEW caller, caller = Last(Front(stack)),
           NEW d, stack' = [Front(stack) EXCEPT ![Len(Front(stack))] = d],
           CallOK(toks, d), Fits(toks, d, Len(indices'), tok_index'),
           d.f = caller.f, d.base = caller.base, d.from = caller.from,
           d.got \subseteq caller.got \cup Top.got,
           owned' \subseteq owned \cup {i \in DOMAIN toks : Top.from <= i},
           owned' = owned \/ d.got = caller.got,
           \A m \in DOMAIN indices' : m \in DOMAIN indices /\ indices'[m] = indices[m],
           d.label # "unnamed" \/ d.at # 1
    PROVE  StackInv'
  <1> DEFINE n == Len(stack)
             calls == Front(stack)
  <1>1. /\ Frames(calls, toks, Top.base, Top.from)
        /\ n \in Nat /\ n > 1 /\ Len(calls) = n - 1
        /\ \A c \in 1..n-1 : calls[c] = stack[c]
        /\ Top = stack[n]
    BY TopIsLast, FramesReturn DEF ParserIInv, StackInv
  <1>2. caller = calls[n-1]
    BY <1>1 DEF Last
  <1>3. stack' = [calls EXCEPT ![n-1] = d]
    BY <1>1
  <1>4. Frames(stack', toks', Len(indices'), tok_index')
    BY <1>1, <1>2, FramesResume
  <1>5. PICK S : calls \in Seq(S)
    BY <1>1 DEF Frames
  <1> HIDE DEF n, calls
  <1>6. DOMAIN calls = 1..n-1 /\ n - 1 \in 1..n-1
    BY <1>1, <1>5
  <1>7. /\ DOMAIN stack' = 1..n-1 /\ stack'[n-1] = d
        /\ \A c \in 1..n-1 : c # n-1 => stack'[c] = stack[c]
    BY <1>1, <1>3, <1>6
  <1>8. Len(stack') = n - 1
    <2>1. PICK T : stack' \in Seq(T)
      BY <1>4 DEF Frames
    <2> QED
      BY <1>1, <1>7, <2>1
  <1>9. caller = stack[n-1]
    BY <1>1, <1>2, <1>6
  <1>10. \A c \in 1..n-1 : stack'[c].base = stack[c].base /\ stack'[c].from = stack[c].from
    BY <1>7, <1>9
  <1>11. \A c \in 1..n-1 : c \in 1..n
    BY <1>1
  <1>12. MarksAbove'
    BY <1>8, <1>10, <1>11 DEF ParserIInv, StackInv, MarksAbove, n
  <1>13. NotOwned'
    <2>1. \A c \in 1..n : stack[c].got \cap owned = {}
      BY DEF ParserIInv, StackInv, NotOwned, n
    <2>2. \A c \in 1..n-1 : \A i \in stack[c].got : i \in Nat /\ i < Top.from
      <3>1. DOMAIN toks \subseteq Nat
        <4>1. toks \in Seq(Kinds)
          BY DEF ParserIInv, FileOK
        <4> QED
          BY <4>1
      <3>2. \A c \in 1..n : stack[c].got \subseteq DOMAIN toks
        BY DEF ParserIInv, StackInv, Frames, CallOK, n
      <3> QED
        BY <1>11, <3>1, <3>2, CallersWait DEF ParserIInv, n
    <2>3. Top.from \in Nat
      BY StepIsAt DEF ParserIInv, CallOK, IsCall
    <2>4. \A c \in 1..n-1 : stack[c].got \cap owned' = {}
      BY <1>11, <2>1, <2>2, <2>3
    <2>5. d.got \cap owned' = {}
      <3>1. CASE owned' = owned
        <4>1. n \in 1..n
          BY <1>1
        <4> QED
          BY <1>1, <1>6, <1>9, <1>11, <2>1, <3>1, <4>1
      <3>2. CASE d.got = caller.got
        BY <1>6, <1>9, <2>4, <3>2
      <3> QED
        BY <3>1, <3>2
    <2> QED
      BY <1>7, <1>8, <2>4, <2>5 DEF NotOwned
  <1>14. Top' = d
    BY <1>7, <1>8 DEF Top, Last
  <1>15. NotClosed'
    BY <1>14 DEF NotClosed
  <1> QED
    BY <1>4, <1>12, <1>13, <1>15 DEF StackInv

\* The call below the top waits at the call of the one at the top, and still
\* fits what was there when it called.
LEMMA CallerIsAt ==
    ASSUME ParserIInv, Top.f # "parse_file",
           NEW caller, caller = Last(Front(stack))
    PROVE  /\ CallOK(toks, caller) /\ Fits(toks, caller, Top.base, Top.from)
           /\ At(caller).do \in Calls /\ At(caller).f = Top.f
           /\ Steps(caller.f, caller.lvl, caller.label)[caller.at] = At(caller)
           /\ StepOK(caller.f, DOMAIN Program(caller.f, caller.lvl), caller.label,
                     Text(caller), caller.at)
           /\ Top.base \in Nat /\ Top.from \in Nat
           /\ Top.base <= Len(indices) /\ Top.from <= tok_index
           /\ caller.from \in Nat /\ caller.from <= Top.from
           /\ IsCall(caller)
  <1> DEFINE n == Len(stack)
             calls == Front(stack)
  <1>1. /\ Frames(calls, toks, Top.base, Top.from)
        /\ n \in Nat /\ n > 1 /\ Len(calls) = n - 1
        /\ \A c \in 1..n-1 : calls[c] = stack[c]
        /\ Top = stack[n]
        /\ Frames(stack, toks, Len(indices), tok_index)
    BY TopIsLast, FramesReturn DEF ParserIInv, StackInv
  <1>2. caller = calls[n-1] /\ caller = stack[n-1]
    BY <1>1 DEF Last
  <1> HIDE DEF calls, n
  <1>3. n - 1 \in 1..n-1 /\ n \in 1..n /\ n - 1 + 1 = n
    BY <1>1
  <1>4. CallOK(toks, caller) /\ Fits(toks, caller, Top.base, Top.from)
    BY <1>1, <1>2, <1>3 DEF Frames
  <1>5. At(caller).do \in Calls /\ At(caller).f = Top.f
    BY <1>1, <1>2, <1>3 DEF Frames, n
  <1>6. Steps(caller.f, caller.lvl, caller.label)[caller.at] = At(caller)
    BY <1>4, StepsAreTheText DEF At, Text, CallOK, InProgram
  <1>7. /\ Top.base \in Nat /\ Top.from \in Nat
        /\ Top.base <= Len(indices) /\ Top.from <= tok_index
    <2>1. CallOK(toks, Top)
      BY StepIsAt DEF ParserIInv
    <2>2. indices \in Seq(Nat) /\ tok_index \in Nat
      BY DEF ParserIInv, MarksInv
    <2> QED
      BY <1>1, <1>3, <2>1, <2>2, Len(indices) \in Nat, CallersAreBehind DEF CallOK, IsCall, n
  <1>8. caller.from \in Nat /\ caller.from <= Top.from
    <2>1. caller.from <= caller.tok /\ caller.tok <= Top.from
      BY <1>4 DEF Fits
    <2>2. caller.from \in Nat /\ caller.tok \in Nat
      BY <1>4 DEF CallOK, IsCall
    <2> QED
      BY <1>7, <2>1, <2>2
  <1> QED
    BY <1>4, <1>5, <1>6, <1>7, <1>8, StepIsOK DEF CallOK

\* A function returns a node.
LEMMA FoundKeepsStack ==
    ASSUME ParserIInv, toks' = toks, owned' = owned, indices' = indices,
           tok_index' = tok_index, Step.do = "ok", Return(TRUE)
    PROVE  StackInv'
  <1> DEFINE caller == Last(Front(stack))
             s == Text(caller)
             k == caller.at
             m == Top.base
             p == Top.from
             m1 == Len(indices)
             p1 == tok_index
             g == [caller EXCEPT !.got = caller.got \cup Top.got]
             d == To(g, At(caller).ok)
  <1>1. /\ Step = At(Top) /\ CallOK(toks, Top) /\ Fits(toks, Top, m1, p1)
        /\ StepOK(Top.f, DOMAIN Program(Top.f, Top.lvl), Top.label, Text(Top), Top.at)
    BY StepIsAt DEF ParserIInv
  <1>2. At(Top) = Text(Top)[Top.at]
    BY DEF At
  <1>3. Top.f # "parse_file"
    BY <1>1, <1>2 DEF StepOK, Leaves
  <1>4. Top.f \in Frugal \/ CallEats(Top)
    BY <1>1, <1>2 DEF StepOK, CallEats
  <1>5. Top.f = "matchcase" => CallArrow(Top)
    BY <1>1, <1>2 DEF StepOK, CallArrow
  <1>6. /\ CallOK(toks, caller) /\ Fits(toks, caller, m, p)
        /\ At(caller).do \in Calls /\ At(caller).f = Top.f
        /\ Steps(caller.f, caller.lvl, caller.label)[caller.at] = At(caller)
        /\ StepOK(caller.f, DOMAIN Program(caller.f, caller.lvl), caller.label, s, k)
        /\ m \in Nat /\ p \in Nat /\ m <= m1 /\ p <= p1
        /\ caller.from \in Nat /\ caller.from <= p
        /\ IsCall(caller)
    BY <1>3, CallerIsAt
  <1>7. stack' = [Front(stack) EXCEPT ![Len(Front(stack))] = d]
    BY <1>6 DEF Return
  <1>8. /\ toks \in Seq(Kinds) /\ "NULL" \notin Kinds /\ DOMAIN toks \subseteq Nat
        /\ indices \in Seq(Nat) /\ m1 \in Nat /\ p1 \in Nat
    BY NullIsNoKind DEF ParserIInv, FileOK, MarksInv
  <1>9. /\ Top.f \notin Frugal => p < p1
        /\ Top.f = "matchcase" => \E i \in 1..p1-1 : toks[i] = "=>"
    BY <1>1, <1>4, <1>5 DEF Fits
  <1>10. /\ IsCall(g)
         /\ g.f = caller.f /\ g.lvl = caller.lvl /\ g.label = caller.label
         /\ g.at = caller.at /\ g.tok = caller.tok
         /\ g.got = caller.got \cup Top.got
         /\ g.base = caller.base /\ g.from = caller.from
    BY <1>6, GotFields
  <1>11. \A i \in Top.got : i \in DOMAIN toks /\ p <= i /\ i < p1
    <2> SUFFICES ASSUME NEW i \in Top.got
                 PROVE  i \in DOMAIN toks /\ p <= i /\ i < p1
      OBVIOUS
    <2>1. i \in DOMAIN toks /\ p <= i /\ i <= p1 /\ i # p1
      BY <1>1 DEF Fits, CallOK
    <2> QED
      BY <1>8, <2>1
  <1>12. caller.got \subseteq DOMAIN toks
    BY <1>6 DEF CallOK
  <1>13. CanCall(caller.f, caller.label, s, k) /\ s[k] = At(caller)
    BY <1>6 DEF StepOK, At
  <1> HIDE DEF caller, s, k, m, p, m1, p1, g
  <1>14. At(caller).do \notin SetsTok \cup LooksAtTok \cup {"push", "pop", "advance"}
    BY <1>6 DEF Calls, SetsTok, LooksAtTok
  <1>15. /\ d.f = caller.f /\ d.base = caller.base /\ d.from = caller.from
         /\ d.got = caller.got \cup Top.got
         /\ d.label # "unnamed" \/ d.at # 1
         /\ CallOK(toks, d) /\ Fits(toks, d, m1, p1)
    <2>1. CASE At(caller).do = "call"
      <3>1. d = After(g)
        BY <1>13, <2>1 DEF CanCall, To
      <3>2. /\ IsCall(d) /\ d.f = caller.f /\ d.lvl = caller.lvl
            /\ d.label = caller.label /\ d.at = caller.at + 1 /\ d.tok = caller.tok
            /\ d.got = caller.got \cup Top.got
            /\ d.base = caller.base /\ d.from = caller.from
        BY <1>10, <3>1, AfterFields
      <3>3. caller.at \in Nat \ {0}
        BY <1>6 DEF IsCall
      <3>4. d.at # 1
        BY <3>2, <3>3
      <3> HIDE DEF d
      <3>5. MustEat(At(caller)) => p < p1
        BY <1>6, <1>9 DEF MustEat
      <3>6. At(caller).do = "call" /\ At(caller).f = "matchcase" /\ At(caller).fail # "next" =>
                \E i \in 1..p1-1 : toks[i] = "=>"
        BY <1>6, <1>9
      <3>7. /\ At(caller).do # "push" /\ At(caller).do # "pop"
            /\ At(caller).do \notin SetsTok /\ At(caller).do \notin LooksAtTok
            /\ At(caller).do \notin {"advance", "expect", "take"}
            /\ At(caller).do \in Tests \cup Calls \cup Plain
        BY <1>6, <1>14 DEF SetsTok
      <3>8. caller.got \subseteq d.got /\ d.got \subseteq DOMAIN toks
        BY <1>11, <1>12, <3>2
      <3>9. \A i \in d.got \ caller.got :
                caller.from <= i /\ i <= p1 /\ (i = p1 => At(d).do = "advance")
        BY <1>6, <1>8, <1>11, <3>2
      <3>10. CallOK(toks, d) /\ Fits(toks, d, m1, p1)
        BY <1>6, <1>8, <3>2, <3>5, <3>6, <3>7, <3>8, <3>9, FitsOn
      <3> QED
        BY <3>2, <3>4, <3>10
    <2>2. CASE At(caller).do # "call"
      <3>1. At(caller).do \in {"when", "when2"} /\ At(caller).ok = "ok" /\ p < p1
        BY <1>6, <1>9, <1>13, <2>2 DEF CanCall, Calls
      <3>2. /\ IsCall(d) /\ d.f = caller.f /\ d.lvl = caller.lvl
            /\ d.label = "ok" /\ d.at = 1 /\ d.tok = caller.tok
            /\ d.got = caller.got \cup Top.got
            /\ d.base = caller.base /\ d.from = caller.from
        BY <1>10, <3>1, ToFields
      <3> HIDE DEF d
      <3>3. caller.got \subseteq d.got /\ d.got \subseteq DOMAIN toks
        BY <1>11, <1>12, <3>2
      <3>4. \A i \in d.got \ caller.got : caller.from <= i /\ i < p1
        BY <1>6, <1>8, <1>11, <3>2
      <3>5. CallOK(toks, d) /\ Fits(toks, d, m1, p1)
        BY <1>6, <1>8, <3>1, <3>2, <3>3, <3>4, FitsThere
      <3> QED
        BY <3>2, <3>5
    <2> QED
      BY <2>1, <2>2
  <1> HIDE DEF d
  <1>16. Fits(toks, d, Len(indices'), tok_index')
    BY <1>15 DEF m1, p1
  <1> QED
    BY <1>3, <1>7, <1>15, <1>16, ReturningKeepsStack DEF caller

\* A function returns NULL.
LEMMA NotFoundKeepsStack ==
    ASSUME ParserIInv, toks' = toks, Step.do \in {"fail", "undo"}, Return(FALSE),
           owned' \subseteq owned \cup {i \in DOMAIN toks : Top.from <= i},
           indices' \in Seq(Nat), tok_index' \in Nat,
           Top.base <= Len(indices'), Top.from <= tok_index',
           \A m \in DOMAIN indices' : m \in DOMAIN indices /\ indices'[m] = indices[m]
    PROVE  StackInv'
  <1> DEFINE caller == Last(Front(stack))
             s == Text(caller)
             k == caller.at
             m == Top.base
             p == Top.from
             m1 == Len(indices')
             p1 == tok_index'
             d == To(caller, At(caller).fail)
  <1>1. /\ Step = At(Top) /\ CallOK(toks, Top)
        /\ StepOK(Top.f, DOMAIN Program(Top.f, Top.lvl), Top.label, Text(Top), Top.at)
    BY StepIsAt DEF ParserIInv
  <1>2. At(Top) = Text(Top)[Top.at]
    BY DEF At
  <1>3. Top.f # "parse_file"
    BY <1>1, <1>2 DEF StepOK, Leaves
  <1>6. /\ CallOK(toks, caller) /\ Fits(toks, caller, m, p)
        /\ At(caller).do \in Calls
        /\ Steps(caller.f, caller.lvl, caller.label)[caller.at] = At(caller)
        /\ StepOK(caller.f, DOMAIN Program(caller.f, caller.lvl), caller.label, s, k)
        /\ m \in Nat /\ p \in Nat
        /\ IsCall(caller)
    BY <1>3, CallerIsAt
  <1>7. stack' = [Front(stack) EXCEPT ![Len(Front(stack))] = d]
    BY <1>6 DEF Return
  <1>8. /\ toks \in Seq(Kinds) /\ "NULL" \notin Kinds /\ DOMAIN toks \subseteq Nat
        /\ m1 \in Nat /\ p1 \in Nat /\ m <= m1 /\ p <= p1
    BY NullIsNoKind DEF ParserIInv, FileOK
  <1>12. caller.got \subseteq DOMAIN toks
    BY <1>6 DEF CallOK
  <1>13. s[k] = At(caller) /\ Branches(s[k])
    BY <1>6 DEF At, Branches
  <1> HIDE DEF caller, s, k, m, p, m1, p1
  <1>14. At(caller).do \notin SetsTok \cup LooksAtTok \cup {"push", "pop", "advance", "look", "take", "ahead"}
    BY <1>6 DEF Calls, SetsTok, LooksAtTok
  <1>15. /\ d.f = caller.f /\ d.base = caller.base /\ d.from = caller.from
         /\ d.got = caller.got
         /\ d.label # "unnamed" \/ d.at # 1
         /\ CallOK(toks, d) /\ Fits(toks, d, m1, p1)
    <2>1. CASE At(caller).fail = "next"
      <3>1. d = After(caller)
        BY <2>1 DEF To
      <3>2. /\ IsCall(d) /\ d.f = caller.f /\ d.lvl = caller.lvl
            /\ d.label = caller.label /\ d.at = caller.at + 1 /\ d.tok = caller.tok
            /\ d.got = caller.got
            /\ d.base = caller.base /\ d.from = caller.from
        BY <1>6, <3>1, AfterFields
      <3>3. caller.at \in Nat \ {0}
        BY <1>6 DEF IsCall
      <3>4. d.at # 1
        BY <3>2, <3>3
      <3> HIDE DEF d
      <3>5. ~MustEat(At(caller))
        BY <2>1 DEF MustEat
      <3>7. /\ At(caller).do # "push" /\ At(caller).do # "pop"
            /\ At(caller).do \notin SetsTok /\ At(caller).do \notin LooksAtTok
            /\ At(caller).do \notin {"advance", "expect", "take"}
            /\ At(caller).do \in Tests \cup Calls \cup Plain
        BY <1>6, <1>14 DEF SetsTok
      <3>8. /\ caller.got \subseteq d.got /\ d.got \subseteq DOMAIN toks
            /\ d.got \ caller.got = {}
        BY <1>12, <3>2
      <3>10. CallOK(toks, d) /\ Fits(toks, d, m1, p1)
        BY <1>6, <1>8, <2>1, <3>2, <3>5, <3>7, <3>8, FitsOn
      <3> QED
        BY <3>2, <3>4, <3>10
    <2>2. CASE At(caller).fail # "next"
      <3>1. CanGo(caller.f, DOMAIN Program(caller.f, caller.lvl), caller.label, s, k)
        BY <1>6, <1>13, <2>2 DEF StepOK
      <3>2. /\ IsCall(d) /\ d.f = caller.f /\ d.lvl = caller.lvl
            /\ d.label = At(caller).fail /\ d.at = 1 /\ d.tok = caller.tok
            /\ d.got = caller.got
            /\ d.base = caller.base /\ d.from = caller.from
        BY <1>6, <2>2, ToFields
      <3> HIDE DEF d
      <3>3. d.label # "unnamed"
        BY <1>13, <1>14, <3>1, <3>2 DEF CanGo
      <3>4. /\ caller.got \subseteq d.got /\ d.got \subseteq DOMAIN toks
            /\ d.got \ caller.got = {}
        BY <1>12, <3>2
      <3>5. CallOK(toks, d) /\ Fits(toks, d, m1, p1)
        BY <1>6, <1>8, <1>13, <2>2, <3>2, <3>4, FitsThere
      <3> QED
        BY <3>2, <3>3, <3>5
    <2> QED
      BY <2>1, <2>2
  <1> HIDE DEF d
  <1>16. Fits(toks, d, Len(indices'), tok_index')
    BY <1>15 DEF m1, p1
  <1> QED
    BY <1>3, <1>7, <1>15, <1>16, ReturningKeepsStack DEF caller

-----------------------------------------------------------------------------
(* The steps, and what they do to the calls.                               *)

\* A step that changes neither the calls nor the cursor.
LEMMA StillKeepsStack ==
    ASSUME StackInv, UNCHANGED <<stack, toks, indices, tok_index, owned>>
    PROVE  StackInv'
  BY DEF StackInv, MarksAbove, NotOwned, NotClosed, Top

\* lexer_pop() and lexer_rollback() find a mark that the function itself has
\* set, where it was called or after that, and not ahead of the cursor.
LEMMA OwnMark ==
    ASSUME ParserIInv, Step.do \in {"pop", "undo"}
    PROVE  /\ indices # <<>>
           /\ Last(indices) \in Nat
           /\ Last(indices) <= tok_index
           /\ Top.from <= Last(indices)
           /\ Top.base <= Len(indices) - 1
           /\ Last(indices) \in 1..Len(toks) + 1
  <1> DEFINE m == Len(indices)
  <1>1. /\ Step = At(Top) /\ CallOK(toks, Top) /\ Fits(toks, Top, m, tok_index)
        /\ StepOK(Top.f, DOMAIN Program(Top.f, Top.lvl), Top.label, Text(Top), Top.at)
        /\ Len(stack) \in 1..Len(stack) /\ Top = stack[Len(stack)]
    BY StepIsAt, TopIsLast DEF ParserIInv
  <1>2. indices \in Seq(Nat) /\ MarksAscend
    BY DEF ParserIInv, MarksInv
  <1>3. CallHolds(Top)
    BY <1>1 DEF StepOK, At, CallHolds
  <1>4. Top.base < m /\ Top.base \in Nat /\ Top.from \in Nat
    BY <1>1, <1>3 DEF Fits, CallOK, IsCall
  <1>5. m \in Nat \ {0} /\ indices # <<>> /\ DOMAIN indices = 1..m /\ m \in DOMAIN indices
    BY <1>2, <1>4
  <1>6. Last(indices) = indices[m]
    BY DEF Last
  <1> HIDE DEF m
  <1>7. indices[m] \in Nat /\ indices[m] <= tok_index
    BY <1>2, <1>5 DEF MarksAscend
  <1>8. indices[m] >= Top.from
    BY <1>1, <1>4, <1>5 DEF ParserIInv, StackInv, MarksAbove
  <1>9. indices[m] \in 1..Len(toks) + 1
    BY <1>5 DEF ParserIInv, FileOK
  <1> QED
    BY <1>4, <1>5, <1>6, <1>7, <1>8, <1>9 DEF m

\* The steps after which the function goes on with its next step, and which
\* neither test nor remember a token.
LEMMA PlainKeepsStack ==
    ASSUME ParserIInv, toks' = toks, owned' = owned, Resume(After(Top)),
           \/ /\ Step.do \in Plain \ {"mark", "value", "push", "pop", "advance"}
              /\ UNCHANGED <<indices, tok_index>>
           \/ /\ Step.do \in {"is2", "ahead", "if_error", "if_error_reset", "when", "when2"}
              /\ UNCHANGED <<indices, tok_index>>
           \/ /\ Step.do = "is" /\ Kind(Top.tok) \in Step.kinds
              /\ UNCHANGED <<indices, tok_index>>
           \/ /\ Step.do = "push"
              /\ indices' = Append(indices, tok_index) /\ tok_index' = tok_index
           \/ /\ Step.do = "pop"
              /\ indices' = Front(indices) /\ tok_index' = tok_index
           \/ Step.do = "advance" /\ indices' = indices /\ tok_index' = NextIndex
    PROVE  StackInv'
  <1>1. CallOK(toks, Top) /\ IsCall(Top)
    BY StepIsAt DEF ParserIInv, CallOK
  <1>2. Top.got \subseteq DOMAIN toks /\ Top.got \cap owned' = {}
    BY <1>1, StepIsAt, TopIsLast DEF ParserIInv, StackInv, NotOwned, CallOK
  <1>3. Step.do \in Tests \cup Plain \cup {"when", "when2"}
    BY DEF Tests, LooksAtTok, Plain
  <1>4. Step.do \notin SetsTok
    BY DEF SetsTok, Plain
  <1>5. Step.do \in LooksAtTok => Step.do = "is" /\ Kind(Top.tok) \in Step.kinds
    BY DEF LooksAtTok, Plain
  <1>6. indices' = IF Step.do = "push" THEN Append(indices, tok_index)
                   ELSE IF Step.do = "pop" THEN Front(indices)
                   ELSE indices
    OBVIOUS
  <1>7. tok_index' = IF Step.do \in {"advance", "expect", "take"} THEN NextIndex
                     ELSE tok_index
    BY DEF Plain
  <1> QED
    BY <1>1, <1>2, <1>3, <1>4, <1>5, <1>6, <1>7, GoingOnKeepsStack

\* The steps after which it goes on with tok being the next token.
LEMMA TokKeepsStack ==
    ASSUME ParserIInv, toks' = toks, owned' = owned, indices' = indices,
           Step.do \in SetsTok,
           Step.do # "mark" => Kind(tok_index) \in Step.kinds,
           Resume(After([Top EXCEPT !.tok = tok_index])),
           tok_index' = IF Step.do \in {"expect", "take"} THEN NextIndex ELSE tok_index
    PROVE  StackInv'
  <1> DEFINE c == [Top EXCEPT !.tok = tok_index]
  <1>1. CallOK(toks, Top) /\ IsCall(Top) /\ tok_index \in Nat
    BY StepIsAt DEF ParserIInv, CallOK, MarksInv
  <1>2. Top.got \subseteq DOMAIN toks /\ Top.got \cap owned' = {}
    BY <1>1, StepIsAt, TopIsLast DEF ParserIInv, StackInv, NotOwned, CallOK
  <1>3. /\ IsCall(c)
        /\ c.f = Top.f /\ c.lvl = Top.lvl /\ c.label = Top.label /\ c.at = Top.at
        /\ c.tok = tok_index /\ c.got = Top.got /\ c.base = Top.base /\ c.from = Top.from
    BY <1>1, TokFields
  <1>4. Resume(After(c))
    OBVIOUS
  <1> HIDE DEF c
  <1>5. Step.do \in Tests \cup Plain \cup {"when", "when2"}
    BY DEF Tests, LooksAtTok, Plain, SetsTok
  <1>6. Step.do \in LooksAtTok => Kind(c.tok) \in Step.kinds
    BY <1>3 DEF LooksAtTok
  <1>7. indices' = IF Step.do = "push" THEN Append(indices, tok_index)
                   ELSE IF Step.do = "pop" THEN Front(indices)
                   ELSE indices
    BY DEF SetsTok
  <1>8. tok_index' = IF Step.do \in {"advance", "expect", "take"} THEN NextIndex
                     ELSE tok_index
    BY DEF SetsTok
  <1>9. /\ Top.got \subseteq c.got /\ c.got \subseteq DOMAIN toks
        /\ c.got \cap owned' = {} /\ c.got \ Top.got = {}
    BY <1>2, <1>3
  <1> QED
    BY <1>3, <1>4, <1>5, <1>6, <1>7, <1>8, <1>9, GoingOnKeepsStack

\* A test that leaves tok alone fails.
LEMMA FailingKeepsStack ==
    ASSUME ParserIInv, toks' = toks, owned' = owned, indices' = indices,
           tok_index' = tok_index,
           Step.do \in {"is", "is2", "ahead", "if_error", "if_error_reset", "goto", "expect"},
           Step.do = "ahead" => Kind(tok_index) \notin Step.kinds,
           Resume(To(Top, Step.fail))
    PROVE  StackInv'
  <1>1. IsCall(Top)
    BY StepIsAt DEF ParserIInv, CallOK
  <1>2. Step.do \in Tests \cup {"goto"}
    BY DEF Tests, LooksAtTok
  <1> QED
    BY <1>1, <1>2, BranchingKeepsStack

\* One that remembers the next token as tok does.
LEMMA FailingTokKeepsStack ==
    ASSUME ParserIInv, toks' = toks, owned' = owned, indices' = indices,
           Step.do \in {"look", "take"},
           Resume(To([Top EXCEPT !.tok = tok_index], Step.fail)),
           tok_index' = IF Step.do = "take" THEN NextIndex ELSE tok_index
    PROVE  StackInv'
  <1> DEFINE c == [Top EXCEPT !.tok = tok_index]
  <1>1. IsCall(Top) /\ tok_index \in Nat
    BY StepIsAt DEF ParserIInv, CallOK, MarksInv
  <1>2. /\ IsCall(c)
        /\ c.f = Top.f /\ c.lvl = Top.lvl /\ c.label = Top.label /\ c.at = Top.at
        /\ c.tok = tok_index /\ c.got = Top.got /\ c.base = Top.base /\ c.from = Top.from
    BY <1>1, TokFields
  <1>3. Resume(To(c, Step.fail))
    OBVIOUS
  <1>4. Step.do \in Tests \cup {"goto"}
    BY DEF Tests, LooksAtTok
  <1> HIDE DEF c
  <1> QED
    BY <1>2, <1>3, <1>4, BranchingKeepsStack

\* lexer_token_get_value() takes the node of a token that has one, and that
\* was read since the function was called.
LEMMA ValueKeepsStack ==
    ASSUME ParserIInv, TokenGetValue
    PROVE  StackInv'
  <1> DEFINE c == [Top EXCEPT !.got = Top.got \cup {Top.tok}]
             s == Text(Top)
             k == Top.at
  <1>1. /\ Step = At(Top) /\ Step.do = "value" /\ At(Top) = s[k]
        /\ CallOK(toks, Top) /\ IsCall(Top)
        /\ Fits(toks, Top, Len(indices), tok_index)
        /\ StepOK(Top.f, DOMAIN Program(Top.f, Top.lvl), Top.label, s, k)
    BY StepIsAt DEF ParserIInv, CallOK, TokenGetValue, Does, At
  <1>2. Top.got \subseteq DOMAIN toks /\ Top.got \cap owned = {}
    BY <1>1, StepIsAt, TopIsLast DEF ParserIInv, StackInv, NotOwned, CallOK
  <1>3. /\ IsCall(c)
        /\ c.f = Top.f /\ c.lvl = Top.lvl /\ c.label = Top.label /\ c.at = Top.at
        /\ c.tok = Top.tok /\ c.got = Top.got \cup {Top.tok}
        /\ c.base = Top.base /\ c.from = Top.from
    BY <1>1, GotFields
  <1>4. Resume(After(c)) /\ toks' = toks /\ owned' = owned \ {Top.tok}
        /\ indices' = indices /\ tok_index' = tok_index
    BY DEF TokenGetValue
  <1>5. SawOf(s, k, ValueKinds) /\ (Passed(s, k) \/ s[k + 1].do = "advance")
    BY <1>1 DEF StepOK
  <1> HIDE DEF c
  <1>6. Top.tok \in DOMAIN toks
    <2>1. PICK j \in 1..k-1 : CallSaw(Top, j)
      BY <1>5 DEF SawOf, CallSaw
    <2> QED
      BY <1>1, <2>1 DEF CallOK, TokIsKnown
  <1>7. /\ Top.from <= Top.tok /\ Top.tok <= tok_index
        /\ Top.tok = tok_index => s[k + 1].do = "advance"
    <2>1. CallPassed(Top) => Top.tok < tok_index
      BY <1>1, <1>6 DEF Fits
    <2>2. Top.from <= Top.tok /\ Top.tok <= tok_index
      BY <1>1 DEF Fits
    <2>3. Top.tok \in Nat /\ tok_index \in Nat
      BY <1>1 DEF IsCall, ParserIInv, MarksInv
    <2> QED
      BY <1>5, <2>1, <2>2, <2>3 DEF CallPassed
  <1>8. /\ Top.got \subseteq c.got /\ c.got \subseteq DOMAIN toks
        /\ c.got \cap owned' = {} /\ owned' \subseteq owned
    BY <1>2, <1>3, <1>4, <1>6
  <1>9. \A i \in c.got \ Top.got :
            /\ Top.from <= i /\ i <= tok_index'
            /\ i = tok_index' => s[k + 1].do = "advance"
    BY <1>3, <1>4, <1>7
  <1>10. Step.do \in Tests \cup Plain \cup {"when", "when2"} /\ Step.do \notin LooksAtTok
         /\ Step.do \notin SetsTok
    BY <1>1 DEF Plain, LooksAtTok, SetsTok
  <1> QED
    BY <1>1, <1>3, <1>4, <1>8, <1>9, <1>10, GoingOnKeepsStack

\* The cursor's operations.
LEMMA CursorKeepsStack ==
    ASSUME ParserIInv,
           LexerPush \/ LexerPop \/ LexerRollback \/ AdvanceOver \/ TakeToken
              \/ ExpectToken \/ LookAtToken
    PROVE  StackInv' /\ verdict' = verdict
  <1>1. CASE LexerPush
    BY <1>1, PlainKeepsStack DEF LexerPush, Does
  <1>2. CASE LexerPop
    <2>1. Step.do = "pop" /\ indices # <<>>
      BY <1>2, OwnMark DEF LexerPop, Does
    <2> QED
      BY <1>2, <2>1, PlainKeepsStack DEF LexerPop
  <1>3. CASE LexerRollback
    <2>1. Step.do = "undo"
      BY <1>3 DEF LexerRollback, Does
    <2>2. /\ indices # <<>> /\ Last(indices) \in Nat /\ Last(indices) <= tok_index
          /\ Top.from <= Last(indices) /\ Top.base <= Len(indices) - 1
      BY <2>1, OwnMark
    <2>3. /\ tok_index' = Last(indices) /\ indices' = Front(indices)
          /\ owned' = owned \cup GivenBack(Last(indices))
          /\ Return(FALSE) /\ toks' = toks /\ verdict' = verdict
      <3>1. ~(Last(indices) > tok_index)
        BY <2>2 DEF ParserIInv, MarksInv
      <3> QED
        BY <1>3, <2>2, <3>1 DEF LexerRollback
    <2>4. /\ indices' \in Seq(Nat) /\ Len(indices') = Len(indices) - 1
          /\ \A m \in DOMAIN indices' : m \in DOMAIN indices /\ indices'[m] = indices[m]
      <3>1. indices \in Seq(Nat)
        BY DEF ParserIInv, MarksInv
      <3>2. /\ Len(indices) \in Nat \ {0} /\ indices' \in Seq(Nat)
            /\ DOMAIN indices' = 1..Len(indices) - 1
            /\ \A m \in DOMAIN indices' : indices'[m] = indices[m]
        BY <2>2, <2>3, <3>1, FrontOfMarks
      <3>3. DOMAIN indices = 1..Len(indices)
        BY <3>1
      <3>4. Len(indices') = Len(indices) - 1
        BY <3>2
      <3>5. \A m \in DOMAIN indices' : m \in DOMAIN indices
        BY <3>2, <3>3
      <3> QED
        BY <3>2, <3>4, <3>5
    <2>5. owned' \subseteq owned \cup {i \in DOMAIN toks : Top.from <= i}
      <3> SUFFICES ASSUME NEW i \in GivenBack(Last(indices))
                   PROVE  i \in DOMAIN toks /\ Top.from <= i
        BY <2>3
      <3>1. i \in Last(indices)..tok_index /\ Kind(i) \in ValueKinds
        BY DEF GivenBack
      <3>2. i \in DOMAIN toks
        BY <3>1 DEF Kind, ValueKinds
      <3>3. Top.from \in Nat /\ tok_index \in Nat
        BY StepIsAt DEF ParserIInv, CallOK, IsCall, MarksInv
      <3> QED
        BY <2>2, <3>1, <3>2, <3>3
    <2> QED
      BY <2>1, <2>2, <2>3, <2>4, <2>5, NotFoundKeepsStack
  <1>4. CASE AdvanceOver
    BY <1>4, PlainKeepsStack DEF AdvanceOver, Does
  <1>5. CASE TakeToken
    <2>1. Step.do = "take"
      BY <1>5 DEF TakeToken, Does
    <2>2. CASE Kind(tok_index) \in Step.kinds
      BY <1>5, <2>1, <2>2, TokKeepsStack DEF TakeToken, Branch, SetsTok
    <2>3. CASE Kind(tok_index) \notin Step.kinds
      BY <1>5, <2>1, <2>3, FailingTokKeepsStack DEF TakeToken, Branch
    <2> QED
      BY <1>5, <2>2, <2>3 DEF TakeToken
  <1>6. CASE ExpectToken
    <2>1. Step.do = "expect"
      BY <1>6 DEF ExpectToken, Does
    <2>2. CASE Kind(tok_index) \in Step.kinds
      BY <1>6, <2>1, <2>2, TokKeepsStack DEF ExpectToken, SetsTok
    <2>3. CASE Kind(tok_index) \notin Step.kinds
      BY <1>6, <2>1, <2>3, FailingKeepsStack DEF ExpectToken
    <2> QED
      BY <1>6, <2>2, <2>3 DEF ExpectToken
  <1>7. CASE LookAtToken
    <2>1. UNCHANGED <<toks, tok_index, indices, owned, verdict>>
      BY <1>7 DEF LookAtToken, lexVars
    <2>2. CASE Does("mark") /\ Resume(After([Top EXCEPT !.tok = tok_index]))
      BY <2>1, <2>2, TokKeepsStack DEF Does, SetsTok
    <2>3. CASE /\ Does("look")
               /\ Branch([Top EXCEPT !.tok = tok_index], Kind(tok_index) \in Step.kinds)
      <3>1. CASE Kind(tok_index) \in Step.kinds
        BY <2>1, <2>3, <3>1, TokKeepsStack DEF Does, SetsTok, Branch
      <3>2. CASE Kind(tok_index) \notin Step.kinds
        BY <2>1, <2>3, <3>2, FailingTokKeepsStack DEF Does, Branch
      <3> QED
        BY <2>1, <3>1, <3>2
    <2>4. CASE Does("ahead") /\ Branch(Top, Kind(tok_index) \in Step.kinds)
      <3>1. CASE Kind(tok_index) \in Step.kinds
        BY <2>1, <2>4, <3>1, PlainKeepsStack DEF Does, Branch
      <3>2. CASE Kind(tok_index) \notin Step.kinds
        BY <2>1, <2>4, <3>2, FailingKeepsStack DEF Does, Branch
      <3> QED
        BY <2>1, <3>1, <3>2
    <2>5. CASE Does("is") /\ Branch(Top, Kind(Top.tok) \in Step.kinds)
      <3>1. CASE Kind(Top.tok) \in Step.kinds
        BY <2>1, <2>5, <3>1, PlainKeepsStack DEF Does, Branch
      <3>2. CASE Kind(Top.tok) \notin Step.kinds
        BY <2>1, <2>5, <3>2, FailingKeepsStack DEF Does, Branch
      <3> QED
        BY <2>1, <3>1, <3>2
    <2>6. CASE Does("is2") /\ Branch(Top, Kind(Top.tok + 1) \in Step.kinds)
      <3>1. CASE Kind(Top.tok + 1) \in Step.kinds
        BY <2>1, <2>6, <3>1, PlainKeepsStack DEF Does, Branch
      <3>2. CASE Kind(Top.tok + 1) \notin Step.kinds
        BY <2>1, <2>6, <3>2, FailingKeepsStack DEF Does, Branch
      <3> QED
        BY <2>1, <3>1, <3>2
    <2>7. CASE Does("goto") /\ Resume(To(Top, Step.fail))
      BY <2>1, <2>7, FailingKeepsStack DEF Does
    <2> QED
      BY <1>7, <2>1, <2>2, <2>3, <2>4, <2>5, <2>6, <2>7 DEF LookAtToken
  <1> QED
    BY <1>1, <1>2, <1>3, <1>4, <1>5, <1>6, <1>7

\* The values, the messages, the calls and the returns.
LEMMA CallsKeepStack ==
    ASSUME ParserIInv,
           TokenGetValue \/ PostSyntaxError \/ HasSyntaxError \/ InfoCtxPush
              \/ InfoCtxPop \/ CallAccept \/ ReturnNode \/ ReturnNull
              \/ AdoptStatement
    PROVE  StackInv' /\ verdict' = verdict
  <1>1. CASE TokenGetValue
    BY <1>1, ValueKeepsStack DEF TokenGetValue
  <1>2. CASE PostSyntaxError
    <2>1. Step.do \in Plain \ {"mark", "value", "push", "pop", "advance"}
      BY <1>2 DEF PostSyntaxError, Does, Plain
    <2> QED
      BY <1>2, <2>1, PlainKeepsStack DEF PostSyntaxError, lexVars
  <1>3. CASE HasSyntaxError
    <2>1. Step.do \in {"if_error", "if_error_reset"}
      BY <1>3 DEF HasSyntaxError, Does
    <2>2. UNCHANGED <<toks, tok_index, indices, owned, verdict>>
      BY <1>3 DEF HasSyntaxError, lexVars
    <2>3. CASE have_syntax_err
      BY <1>3, <2>1, <2>2, <2>3, FailingKeepsStack DEF HasSyntaxError, Branch
    <2>4. CASE ~have_syntax_err
      BY <1>3, <2>1, <2>2, <2>4, PlainKeepsStack DEF HasSyntaxError, Branch
    <2> QED
      BY <2>2, <2>3, <2>4
  <1>4. CASE InfoCtxPush
    <2>1. Step.do \in Plain \ {"mark", "value", "push", "pop", "advance"}
      BY <1>4 DEF InfoCtxPush, Does, Plain
    <2> QED
      BY <1>4, <2>1, PlainKeepsStack DEF InfoCtxPush, lexVars
  <1>5. CASE InfoCtxPop
    <2>1. Step.do \in Plain \ {"mark", "value", "push", "pop", "advance"}
      BY <1>5 DEF InfoCtxPop, Does, Plain
    <2> QED
      BY <1>5, <2>1, PlainKeepsStack DEF InfoCtxPop, lexVars
  <1>6. CASE CallAccept
    <2>1. Step.do \in Calls
      BY <1>6 DEF CallAccept, Does, Calls
    <2>2. UNCHANGED <<toks, tok_index, indices, owned, verdict>>
      BY <1>6 DEF CallAccept, lexVars
    <2>3. CASE Chosen
      BY <1>6, <2>1, <2>2, <2>3, CallingKeepsStack DEF CallAccept
    <2>4. CASE ~Chosen
      <3>1. Step.do \in {"when", "when2"}
        BY <2>1, <2>4 DEF Chosen, Calls
      <3> QED
        BY <1>6, <2>2, <2>4, <3>1, PlainKeepsStack DEF CallAccept
    <2> QED
      BY <2>2, <2>3, <2>4
  <1>7. CASE ReturnNode
    BY <1>7, FoundKeepsStack DEF ReturnNode, Does, lexVars
  <1>8. CASE ReturnNull
    <2>1. /\ Step.do = "fail" /\ Return(FALSE)
          /\ UNCHANGED <<toks, tok_index, indices, owned, verdict>>
      BY <1>8 DEF ReturnNull, Does, lexVars
    <2>2. /\ indices \in Seq(Nat) /\ tok_index \in Nat
          /\ Top.base <= Len(indices) /\ Top.from <= tok_index
      <3>1. Top = stack[Len(stack)] /\ Len(stack) \in 1..Len(stack)
        BY StepIsAt, TopIsLast DEF ParserIInv
      <3>2. indices \in Seq(Nat) /\ tok_index \in Nat
        BY DEF ParserIInv, MarksInv
      <3> QED
        BY <3>1, <3>2, Len(indices) \in Nat, CallersAreBehind DEF ParserIInv, StackInv
    <2> QED
      BY <2>1, <2>2, NotFoundKeepsStack
  <1>9. CASE AdoptStatement
    <2>1. Step.do \in Plain \ {"mark", "value", "push", "pop", "advance"}
      BY <1>9 DEF AdoptStatement, Does, Plain
    <2> QED
      BY <1>9, <2>1, PlainKeepsStack DEF AdoptStatement, lexVars
  <1> QED
    BY <1>1, <1>2, <1>3, <1>4, <1>5, <1>6, <1>7, <1>8, <1>9

\* What may break the parser off.
LEMMA EndingKeepsStack ==
    ASSUME ParserIInv, FinishFile \/ UseToken \/ NameOfNode \/ ReadUnsetLocal
    PROVE  /\ StackInv'
           /\ \/ verdict' = verdict
              \/ verdict' \in {"accepted", "rejected"}
              \/ verdict' = "crashed" /\ CrashIsExplained'
  <1> DEFINE Goes == /\ Resume(After(Top))
                     /\ UNCHANGED <<toks, tok_index, indices, owned, verdict>>
  <1>1. /\ Step = At(Top) /\ At(Top) = Text(Top)[Top.at] /\ CallOK(toks, Top)
        /\ Fits(toks, Top, Len(indices), tok_index)
        /\ StepOK(Top.f, DOMAIN Program(Top.f, Top.lvl), Top.label, Text(Top), Top.at)
    BY StepIsAt DEF ParserIInv, At
  <1>2. ASSUME NEW v, Stop(v)
        PROVE  /\ StackInv' /\ verdict' = v
               /\ UNCHANGED <<toks, tok_index, indices, owned>>
    BY <1>2, StillKeepsStack DEF Stop, lexVars, ParserIInv
  <1>3. ASSUME Goes, Step.do \in {"must_exist", "name_of", "read_unset"}
        PROVE  StackInv'
    <2>1. Step.do \in Plain \ {"mark", "value", "push", "pop", "advance"}
      BY <1>3 DEF Plain
    <2> QED
      BY <1>3, <2>1, PlainKeepsStack
  <1>4. /\ tok_index \in 1..Len(toks) + 1 /\ DOMAIN toks = 1..Len(toks)
        /\ toks \in Seq(Kinds) /\ Len(toks) \in Nat
    BY DEF ParserIInv, FileOK
  <1>5. CASE FinishFile
    <2>1. Step.do = "finish" /\ Stop(Step.verdict)
      BY <1>5 DEF FinishFile, Does
    <2>2. Step.verdict \in {"accepted", "rejected"}
      BY <1>1, <2>1 DEF StepOK
    <2> QED
      BY <1>2, <2>1, <2>2
  <1>6. CASE UseToken
    <2>1. Step.do = "must_exist"
      BY <1>6 DEF UseToken, Does
    <2>2. CASE Kind(tok_index) = "NULL"
      <3>1. Stop("crashed")
        BY <1>6, <2>2 DEF UseToken
      <3>2. tok_index \notin DOMAIN toks
        BY <1>4, <2>2, NullIsNoKind DEF Kind
      <3>3. tok_index = Len(toks) + 1
        BY <1>4, <3>2
      <3> QED
        BY <1>2, <3>1, <3>3 DEF CrashIsExplained
    <2>3. CASE Kind(tok_index) # "NULL"
      <3>1. Goes
        BY <1>6, <2>3 DEF UseToken, lexVars
      <3> QED
        BY <1>3, <2>1, <3>1
    <2> QED
      BY <2>2, <2>3
  <1>7. CASE NameOfNode
    <2>1. Step.do = "name_of"
      BY <1>7 DEF NameOfNode, Does
    <2>2. CASE IsIdentifier(Top.tok + 1, tok_index - 1)
      <3>1. Goes
        BY <1>7, <2>2 DEF NameOfNode, lexVars
      <3> QED
        BY <1>3, <2>1, <3>1
    <2>3. CASE ~IsIdentifier(Top.tok + 1, tok_index - 1)
      <3>1. Stop("crashed")
        BY <1>7, <2>3 DEF NameOfNode
      <3>2. Top.label = "unnamed" /\ Top.at = 1
        BY <1>1, <2>1 DEF StepOK
      <3>3. KindOf(toks, Top.tok) = "["
        BY <1>1, <3>2 DEF CallOK, TokIsKnown
      <3>4. Top.tok \in DOMAIN toks /\ toks[Top.tok] = "["
        BY <3>3 DEF KindOf
      <3>5. CallWide(Top)
        BY <3>2 DEF CallWide, Wide, TokStays
      <3>6. Top.tok + 1 < tok_index
        BY <1>1, <3>5 DEF Fits
      <3>7. Kind(tok_index) # "]"
        BY <3>2, KindIsKindOf DEF ParserIInv, StackInv, NotClosed
      <3>8. Top.tok \in 1..tok_index - 2
        BY <1>4, <3>4, <3>6
      <3>9. /\ toks' = toks /\ tok_index' = tok_index
            /\ verdict' = "crashed" /\ StackInv'
        BY <1>2, <3>1
      <3>10. /\ Kind(tok_index) # "]"
             /\ \E i \in 1..tok_index - 2 :
                    toks[i] = "[" /\ ~IsIdentifier(i + 1, tok_index - 1)
        BY <2>3, <3>4, <3>7, <3>8
      <3>11. CrashIsExplained'
        BY <3>9, <3>10 DEF CrashIsExplained, Kind, IsIdentifier
      <3> QED
        BY <3>9, <3>11
    <2> QED
      BY <2>2, <2>3
  <1>8. CASE ReadUnsetLocal
    <2>1. Step.do = "read_unset"
      BY <1>8 DEF ReadUnsetLocal, Does
    <2>2. CASE Stop("crashed")
      <3>1. CallArrow(Top)
        BY <1>1, <2>1 DEF StepOK, CallArrow
      <3>2. \E i \in 1..tok_index-1 : toks[i] = "=>"
        BY <1>1, <3>1 DEF Fits
      <3> QED
        BY <1>2, <2>2, <3>2 DEF CrashIsExplained
    <2>3. CASE ~Stop("crashed")
      <3>1. Goes
        BY <1>8, <2>3 DEF ReadUnsetLocal, lexVars
      <3> QED
        BY <1>3, <2>1, <3>1
    <2> QED
      BY <2>2, <2>3
  <1> QED
    BY <1>5, <1>6, <1>7, <1>8

\* No step leaves the ranges of the variables.
LEMMA StepKeepsFile ==
    ASSUME ParserIInv, ParseStep
    PROVE  FileOK'
  <1>1. /\ FileOK /\ DOMAIN toks = 1..Len(toks) /\ Len(toks) \in Nat
        /\ toks \in Seq(Kinds) /\ indices \in Seq(Nat)
        /\ \A m \in DOMAIN indices : indices[m] \in 1..Len(toks) + 1
        /\ tok_index \in 1..Len(toks) + 1 /\ owned \subseteq DOMAIN toks
        /\ have_syntax_err \in BOOLEAN /\ posted \in Nat /\ infoMarks \in Seq(Nat)
        /\ taken \in 0..Len(toks)
    BY DEF ParserIInv, FileOK, MarksInv
  <1>2. NextIndex \in 1..Len(toks) + 1
    BY <1>1 DEF NextIndex
  <1>3. toks' = toks
    BY DEF ParseStep, LexerPush, LexerPop, LexerRollback, AdvanceOver, TakeToken,
           ExpectToken, LookAtToken, TokenGetValue, PostSyntaxError,
           HasSyntaxError, InfoCtxPush, InfoCtxPop, CallAccept, ReturnNode,
           ReturnNull, AdoptStatement, FinishFile, UseToken, NameOfNode,
           ReadUnsetLocal, Stop
  <1>4. tok_index' \in 1..Len(toks) + 1 /\ owned' \subseteq DOMAIN toks
    <2>1. CASE LexerRollback
      <3>1. \A i : i \in GivenBack(Last(indices)) => i \in DOMAIN toks
        BY DEF GivenBack, Kind, ValueKinds
      <3>2. Last(indices) \in 1..Len(toks) + 1
        BY <2>1, OwnMark DEF LexerRollback, Does
      <3> QED
        BY <1>1, <2>1, <3>1, <3>2 DEF LexerRollback, Stop, lexVars
    <2>2. CASE ~LexerRollback
      BY <1>1, <1>2, <2>2
      DEF ParseStep, LexerPush, LexerPop, AdvanceOver, TakeToken,
           ExpectToken, LookAtToken, TokenGetValue, PostSyntaxError,
           HasSyntaxError, InfoCtxPush, InfoCtxPop, CallAccept, ReturnNode,
           ReturnNull, AdoptStatement, FinishFile, UseToken, NameOfNode,
           ReadUnsetLocal, Stop, lexVars
    <2> QED
      BY <2>1, <2>2
  <1>5. \A m \in DOMAIN indices' : indices'[m] \in 1..Len(toks) + 1
    <2>1. CASE LexerPush
      <3>1. indices' = Append(indices, tok_index)
        BY <2>1 DEF LexerPush
      <3> QED
        BY <1>1, <3>1
    <2>2. CASE LexerPop \/ LexerRollback
      <3>1. Step.do \in {"pop", "undo"}
        BY <2>2 DEF LexerPop, LexerRollback, Does
      <3>2. indices # <<>>
        BY <3>1, OwnMark
      <3>3. indices' = Front(indices) \/ indices' = indices
        BY <2>2 DEF LexerPop, LexerRollback, Stop, lexVars
      <3>4. \A m \in DOMAIN Front(indices) :
                m \in DOMAIN indices /\ Front(indices)[m] = indices[m]
        <4>1. /\ Len(indices) \in Nat \ {0}
              /\ DOMAIN Front(indices) = 1..Len(indices) - 1
              /\ \A m \in DOMAIN Front(indices) : Front(indices)[m] = indices[m]
          BY <1>1, <3>2, FrontOfMarks
        <4>2. DOMAIN indices = 1..Len(indices)
          BY <1>1
        <4> QED
          BY <4>1, <4>2
      <3> QED
        BY <1>1, <3>3, <3>4
    <2>3. CASE ~LexerPush /\ ~LexerPop /\ ~LexerRollback
      <3>1. indices' = indices
        BY <2>3, OtherStepsMoveOn DEF ParseNext, MovesOn
      <3> QED
        BY <1>1, <3>1
    <2> QED
      BY <2>1, <2>2, <2>3
  <1>6. have_syntax_err' \in BOOLEAN
    BY <1>1
    DEF ParseStep, LexerPush, LexerPop, LexerRollback, AdvanceOver, TakeToken,
         ExpectToken, LookAtToken, TokenGetValue, PostSyntaxError,
         HasSyntaxError, InfoCtxPush, InfoCtxPop, CallAccept, ReturnNode,
         ReturnNull, AdoptStatement, FinishFile, UseToken, NameOfNode,
         ReadUnsetLocal, Stop, infoVars
  <1>7. posted' \in Nat /\ infoMarks' \in Seq(Nat)
    <2>1. CASE InfoCtxPop
      <3>1. /\ Len(infoMarks) \in Nat \ {0} /\ Last(infoMarks) = infoMarks[Len(infoMarks)]
            /\ Front(infoMarks) \in Seq(Nat)
        BY <1>1, <2>1, FrontOfMarks DEF InfoCtxPop
      <3>2. Last(infoMarks) \in Nat
        BY <1>1, <3>1
      <3> QED
        BY <1>1, <2>1, <3>1, <3>2 DEF InfoCtxPop
    <2>2. CASE InfoCtxPush
      BY <1>1, <2>2 DEF InfoCtxPush
    <2>3. CASE PostSyntaxError
      BY <1>1, <2>3 DEF PostSyntaxError
    <2>4. CASE ~InfoCtxPop /\ ~InfoCtxPush /\ ~PostSyntaxError
      <3>1. posted' = posted /\ infoMarks' = infoMarks
        BY <2>4
        DEF ParseStep, LexerPush, LexerPop, LexerRollback, AdvanceOver, TakeToken,
            ExpectToken, LookAtToken, TokenGetValue, HasSyntaxError, CallAccept,
            ReturnNode, ReturnNull, AdoptStatement, FinishFile, UseToken,
            NameOfNode, ReadUnsetLocal, Stop, infoVars
      <3> QED
        BY <1>1, <3>1
    <2> QED
      BY <2>1, <2>2, <2>3, <2>4
  <1>8. taken' \in 0..Len(toks)
    <2>1. CASE AdoptStatement
      BY <1>1, <2>1 DEF AdoptStatement
    <2>2. CASE ~AdoptStatement
      BY <1>1, <2>2
      DEF ParseStep, LexerPush, LexerPop, LexerRollback, AdvanceOver, TakeToken,
         ExpectToken, LookAtToken, TokenGetValue, PostSyntaxError,
         HasSyntaxError, InfoCtxPush, InfoCtxPop, CallAccept, ReturnNode,
         ReturnNull, FinishFile, UseToken, NameOfNode,
         ReadUnsetLocal, Stop, infoVars
    <2> QED
      BY <2>1, <2>2
  <1>9. verdict' \in {"parsing", "accepted", "rejected", "misused", "crashed"}
    <2>1. verdict \in {"parsing", "accepted", "rejected", "misused", "crashed"}
      BY DEF ParserIInv, FileOK
    <2> QED
      BY <2>1, CursorKeepsStack, CallsKeepStack, EndingKeepsStack DEF ParseStep
  <1> QED
    BY <1>1, <1>3, <1>4, <1>5, <1>6, <1>7, <1>8, <1>9 DEF FileOK

-----------------------------------------------------------------------------
(* The invariant.                                                          *)

\* A file is parsed from its first token, with no mark set.
LEMMA StartIsSound == ASSUME ParseInit PROVE ParserIInv
  <1> DEFINE d == Call("parse_file", 0, 0, 1)
  <1>1. /\ toks \in Seq(Kinds) /\ tok_index = 1 /\ indices = <<>> /\ stack = <<d>>
        /\ owned \subseteq DOMAIN toks /\ have_syntax_err = FALSE /\ posted = 0
        /\ infoMarks = <<>> /\ taken = 0 /\ verdict = "parsing"
    BY FilesAreTokens DEF ParseInit
  <1>2. Len(toks) \in Nat /\ Len(indices) = 0 /\ DOMAIN indices = {}
        /\ indices \in Seq(Nat) /\ infoMarks \in Seq(Nat)
    BY <1>1
  <1>3. FileOK
    <2>1. tok_index \in 1..Len(toks) + 1 /\ taken \in 0..Len(toks)
      BY <1>1, <1>2
    <2>2. \A m \in DOMAIN indices : indices[m] \in 1..Len(toks) + 1
      BY <1>2
    <2> QED
      BY <1>1, <1>2, <2>1, <2>2 DEF FileOK
  <1>4. MarksInv
    BY <1>1, <1>2 DEF MarksInv, MarksAscend
  <1>5. Callable("parse_file", 0)
    BY Named DEF Callable
  <1>6. CallOK(toks, d) /\ Fits(toks, d, 0, 1)
    BY <1>5, FitsAtStart
  <1>7. d.f = "parse_file" /\ d.label = "start" /\ d.got = {}
    BY DEF Call
  <1> HIDE DEF d
  <1>8. stack \in Seq({d}) /\ stack # <<>> /\ Len(stack) = 1 /\ stack[1] = d
    BY <1>1
  <1>9. Frames(stack, toks, 0, 1)
    BY <1>6, <1>7, <1>8 DEF Frames
  <1>10. MarksAbove /\ NotOwned /\ NotClosed
    BY <1>2, <1>7, <1>8 DEF MarksAbove, NotOwned, NotClosed, Top, Last
  <1> QED
    BY <1>1, <1>2, <1>3, <1>4, <1>9, <1>10 DEF ParserIInv, StackInv, CrashIsExplained

\* No step of the parser breaks the invariant.
LEMMA StepKeepsInvariant ==
    ASSUME ParserIInv, [ParseNext]_parseVars
    PROVE  ParserIInv'
  <1>1. MarksInv'
    BY StepKeepsMarks DEF ParserIInv
  <1>2. CASE UNCHANGED parseVars
    <2>1. /\ UNCHANGED <<toks, tok_index, indices, owned, have_syntax_err, posted>>
          /\ UNCHANGED <<infoMarks, stack, taken, verdict>>
      BY <1>2 DEF parseVars, lexVars, infoVars
    <2>2. FileOK'
      BY <2>1 DEF ParserIInv, FileOK
    <2>3. StackInv'
      BY <2>1, StillKeepsStack DEF ParserIInv
    <2>4. CrashIsExplained'
      BY <2>1 DEF ParserIInv, CrashIsExplained, Kind, IsIdentifier
    <2> QED
      BY <1>1, <2>1, <2>2, <2>3, <2>4 DEF ParserIInv
  <1>3. CASE ParseStep
    <2>1. FileOK'
      BY <1>3, StepKeepsFile
    <2>2. verdict = "parsing"
      BY <1>3
      DEF ParseStep, LexerPush, LexerPop, LexerRollback, AdvanceOver, TakeToken,
          ExpectToken, LookAtToken, TokenGetValue, PostSyntaxError,
          HasSyntaxError, InfoCtxPush, InfoCtxPop, CallAccept, ReturnNode,
          ReturnNull, AdoptStatement, FinishFile, UseToken, NameOfNode,
          ReadUnsetLocal, Does
    <2>3. /\ StackInv'
          /\ \/ verdict' = verdict
             \/ verdict' \in {"accepted", "rejected"}
             \/ verdict' = "crashed" /\ CrashIsExplained'
      BY <1>3, CursorKeepsStack, CallsKeepStack, EndingKeepsStack DEF ParseStep
    <2>4. verdict' # "misused" /\ CrashIsExplained'
      BY <2>2, <2>3 DEF CrashIsExplained
    <2> QED
      BY <1>1, <2>1, <2>3, <2>4 DEF ParserIInv
  <1> QED
    BY <1>2, <1>3 DEF ParseNext

\* It is an invariant of the parser.
LEMMA ParserIInvHolds == ParseSpec => []ParserIInv
  <1>1. ParseInit => ParserIInv
    BY StartIsSound
  <1>2. ParserIInv /\ [ParseNext]_parseVars => ParserIInv'
    BY StepKeepsInvariant
  <1> QED
    BY <1>1, <1>2, PTL DEF ParseSpec

-----------------------------------------------------------------------------
(* Whatever way an accept function takes through whatever file: the        *)
(* variables keep their ranges, no function pops or rolls back a mark of   *)
(* its callers, so that lexer_pop() and lexer_rollback() never assert, and *)
(* the assertions of the parser fail in the files that CrashIsExplained    *)
(* names only.                                                             *)
THEOREM ParserIsSound == ParseSpec => []ParserInv
  <1>1. ParserIInv => ParserInv
    <2> SUFFICES ASSUME ParserIInv PROVE ParserInv
      OBVIOUS
    <2>1. PICK S : stack \in Seq(S)
      BY DEF ParserIInv, StackInv, Frames
    <2>2. DOMAIN stack = 1..Len(stack)
      BY <2>1
    <2>3. ParseTypeOK
      BY <2>2 DEF ParserIInv, FileOK, StackInv, Frames, CallOK, ParseTypeOK
    <2>4. ASSUME NEW c \in DOMAIN stack
          PROVE  Len(indices) >= stack[c].base
      <3>1. stack[c].base <= Len(indices)
        <4>1. indices \in Seq(Nat) /\ tok_index \in Nat
          BY DEF ParserIInv, MarksInv
        <4> QED
          BY <2>2, <4>1, Len(indices) \in Nat, CallersAreBehind DEF ParserIInv, StackInv
      <3>2. stack[c].base \in Nat
        BY <2>2 DEF ParserIInv, StackInv, Frames, CallOK, IsCall
      <3>3. Len(indices) \in Nat
        BY DEF ParserIInv, MarksInv
      <3> QED
        BY <3>1, <3>2, <3>3
    <2>5. CallersMarksSurvive
      BY <2>2, <2>4 DEF ParserIInv, StackInv, MarksAbove, CallersMarksSurvive
    <2> QED
      BY <2>3, <2>5 DEF ParserIInv, ParserInv
  <1> QED
    BY <1>1, ParserIInvHolds, PTL

(***************************************************************************)
(* The node of a value token has one owner in every file: a call holds     *)
(* tokens it read since it was called, its callers only earlier ones, and  *)
(* lexer_rollback() gives back to the lexer those that the function that   *)
(* gives up has read.                                                      *)
(***************************************************************************)
THEOREM NodesHaveOneOwner == ParseSpec => []OneOwner
  <1>1. ParserIInv => OneOwner
    <2> SUFFICES ASSUME ParserIInv PROVE OneOwner
      OBVIOUS
    <2>1. PICK S : stack \in Seq(S)
      BY DEF ParserIInv, StackInv, Frames
    <2>2. DOMAIN stack = 1..Len(stack) /\ Len(stack) \in Nat
      BY <2>1
    <2>3. \A c \in DOMAIN stack : stack[c].got \cap owned = {}
      BY <2>2 DEF ParserIInv, StackInv, NotOwned
    <2>4. ASSUME NEW c \in DOMAIN stack, c < Len(stack)
          PROVE  stack[c].got \cap Top.got = {}
      <3>1. /\ CallOK(toks, Top) /\ Fits(toks, Top, Len(indices), tok_index)
            /\ Top = stack[Len(stack)] /\ Len(stack) \in 1..Len(stack)
        BY StepIsAt, TopIsLast DEF ParserIInv
      <3>2. Top.f # "parse_file"
        <4>1. Len(stack) # 1
          BY <2>2, <2>4
        <4> QED
          BY <3>1, <4>1 DEF ParserIInv, StackInv, Frames
      <3>3. DOMAIN toks \subseteq Nat
        <4>1. toks \in Seq(Kinds)
          BY DEF ParserIInv, FileOK
        <4> QED
          BY <4>1
      <3>4. c \in 1..Len(stack)-1
        BY <2>2, <2>4
      <3>5. \A i \in stack[c].got : i < Top.from
        BY <3>2, <3>3, <3>4, CallersWait DEF ParserIInv
      <3>6. \A i \in Top.got : i \in Nat /\ Top.from <= i
        BY <3>1, <3>3 DEF Fits, CallOK
      <3>7. Top.from \in Nat
        BY <3>1 DEF CallOK, IsCall
      <3> QED
        BY <3>5, <3>6, <3>7
    <2> QED
      BY <2>3, <2>4 DEF OneOwner
  <1> QED
    BY <1>1, ParserIInvHolds, PTL

-----------------------------------------------------------------------------
(* The messages of the functions that promise one.                         *)

CallSaid(call) == Said(call.label, Text(call), call.at)
CallFresh(call) == Fresh(call.label, Text(call), call.at)
Enters(call, f) == call.f = f /\ call.label = "start" /\ call.at = 1

\* A function that promises a message has posted it, and the flag is up, from
\* the step its program says; it never gives up without.  For the functions of
\* `if' and `elif', which could at their first step only, that needs that they
\* are called where there is one: where tok is still the next token.
LoudInv ==
    /\ \A c \in 1..Len(stack) : stack[c].f \in Loud => stack[c].label # "none"
    /\ Top.f \in Loud /\ CallSaid(Top) => have_syntax_err
    /\ CallFresh(Top) => Top.tok = tok_index
    /\ Enters(Top, "ifexpr") => Kind(tok_index) = "if"
    /\ Enters(Top, "elifexpr") => Kind(tok_index) = "elif"

\* Of the calls, it is only about the one at the top that the step changes.
LEMMA ResumeKeepsLoud ==
    ASSUME StackInv, LoudInv, NEW d, Resume(d), d.f = Top.f,
           d.f \in Loud => d.label # "none",
           d.f \in Loud /\ CallSaid(d) => have_syntax_err',
           CallFresh(d) => d.tok = tok_index',
           ~Enters(d, "ifexpr"), ~Enters(d, "elifexpr")
    PROVE  LoudInv'
  <1> DEFINE n == Len(stack)
  <1>1. PICK S : stack \in Seq(S)
    BY DEF StackInv, Frames
  <1>2. n \in 1..n /\ DOMAIN stack = 1..n /\ n \in Nat \ {0}
    BY <1>1, StepIsAt
  <1>3. stack' = [stack EXCEPT ![n] = d]
    BY DEF Resume
  <1>4. Len(stack') = n
    BY <1>1, <1>2, <1>3
  <1> HIDE DEF n
  <1>5. stack'[n] = d /\ \A c \in 1..n : c # n => stack'[c] = stack[c]
    BY <1>2, <1>3
  <1>6. Top' = d
    BY <1>4, <1>5 DEF Top, Last
  <1>7. \A c \in 1..n : stack'[c].f \in Loud => stack'[c].label # "none"
    BY <1>5 DEF LoudInv, n
  <1> QED
    BY <1>4, <1>6, <1>7 DEF LoudInv

\* The function goes on with its next step.
LEMMA GoingOnKeepsLoud ==
    ASSUME ParserIInv, LoudInv,
           Step.do \in Tests \cup Plain \cup {"when", "when2"},
           NEW c, IsCall(c), Resume(After(c)),
           c.f = Top.f, c.lvl = Top.lvl, c.label = Top.label, c.at = Top.at,
           c.tok = IF Step.do \in SetsTok THEN tok_index ELSE Top.tok,
           tok_index' = IF Step.do \in {"advance", "expect", "take"} THEN NextIndex
                        ELSE tok_index,
           Step.do = "post" => have_syntax_err' = TRUE,
           Step.do \notin {"post", "if_error_reset", "info_rollback"} =>
                have_syntax_err' = have_syntax_err
    PROVE  LoudInv'
  <1> DEFINE d == After(c)
             s == Text(Top)
             k == Top.at
  <1>1. /\ Step = s[k] /\ StackInv /\ CallOK(toks, Top)
        /\ StepOK(Top.f, DOMAIN Program(Top.f, Top.lvl), Top.label, s, k)
    BY StepIsAt DEF ParserIInv, At
  <1>2. k \in Nat \ {0}
    BY <1>1 DEF CallOK, IsCall
  <1>3. /\ d.f = Top.f /\ d.lvl = Top.lvl /\ d.label = Top.label
        /\ d.at = k + 1 /\ d.tok = c.tok
    BY AfterFields
  <1>4. Resume(d)
    OBVIOUS
  <1>5. Text(d) = s
    BY <1>3 DEF Text
  <1> HIDE DEF d, s, k
  <1>6. CallSaid(d) => CallSaid(Top) \/ s[k].do = "post"
    BY <1>2, <1>3, <1>5, SaidAfterStep DEF CallSaid, s, k
  <1>7. CallFresh(d) =>
            \/ s[k].do = "look"
            \/ /\ CallFresh(Top)
               /\ s[k].do \in {"is", "is2", "push", "pop", "ahead", "when", "when2"}
    BY <1>2, <1>3, <1>5, SaidAfterStep DEF CallFresh, s, k
  <1>8. d.f \in Loud => d.label # "none"
    BY <1>1, <1>3, TopIsLast, StepIsAt DEF LoudInv
  <1>9. d.f \in Loud /\ CallSaid(d) => have_syntax_err'
    <2>1. s[k].do \in {"if_error_reset", "info_rollback"} /\ Top.f \in Loud => ~CallSaid(Top)
      BY <1>1 DEF StepOK, CallSaid, s, k
    <2> QED
      BY <1>1, <1>3, <1>6, <2>1 DEF LoudInv
  <1>10. CallFresh(d) => d.tok = tok_index'
    BY <1>1, <1>3, <1>7 DEF LoudInv, SetsTok
  <1>11. d.at # 1
    BY <1>2, <1>3
  <1> QED
    BY <1>1, <1>3, <1>4, <1>8, <1>9, <1>10, <1>11, ResumeKeepsLoud DEF Enters

\* It goes to another label.
LEMMA BranchingKeepsLoud ==
    ASSUME ParserIInv, LoudInv, Step.do \in Tests \cup {"goto"},
           NEW c, IsCall(c), Resume(To(c, Step.fail)),
           c.f = Top.f, c.lvl = Top.lvl,
           Step.do = "is" => c.tok = Top.tok /\ tok_index' = tok_index,
           Step.do = "expect" => Kind(tok_index) \notin Step.kinds
    PROVE  LoudInv'
  <1> DEFINE d == To(c, Step.fail)
             s == Text(Top)
             k == Top.at
             labels == DOMAIN Program(Top.f, Top.lvl)
  <1>1. /\ Step = s[k] /\ StackInv
        /\ StepOK(Top.f, labels, Top.label, s, k)
    BY StepIsAt DEF ParserIInv, At
  <1>2. Branches(s[k]) /\ s[k].do \notin Calls
    BY <1>1 DEF Branches, Tests, LooksAtTok, Calls
  <1>3. CanGo(Top.f, labels, Top.label, s, k)
    BY <1>1, <1>2 DEF StepOK
  <1>4. Step.fail # "next"
    BY <1>1, <1>3 DEF CanGo
  <1>5. /\ d.f = Top.f /\ d.lvl = Top.lvl /\ d.label = Step.fail
        /\ d.at = 1 /\ d.tok = c.tok
    BY <1>4, ToFields
  <1>6. Resume(d)
    OBVIOUS
  <1> HIDE DEF d, s, k, labels
  <1>7. CallSaid(d) => Step.fail = "err"
    BY <1>5, KnownAtEntry DEF CallSaid
  <1>8. CallFresh(d) => Step.fail = "dispatch"
    BY <1>5, KnownAtEntry DEF CallFresh
  <1>9. Top.f \in Loud => Step.fail # "err" /\ Step.fail # "start"
    <2>1. Top.f \in Loud /\ Step.fail = "err" => s[k].do = "call"
      BY <1>1, <1>3 DEF CanGo
    <2>2. s[k].do # "call"
      BY <1>2 DEF Calls
    <2>3. Top.f \in Loud => Step.fail # "start"
      BY <1>1, <1>3 DEF CanGo
    <2> QED
      BY <2>1, <2>2, <2>3
  <1>10. Top.f \in Loud => Step.fail # "none"
    <2> SUFFICES ASSUME Top.f \in Loud, Step.fail = "none" PROVE FALSE
      OBVIOUS
    <2>1. Top.f \in {"ifexpr", "elifexpr"} /\ Top.label = "start" /\ k = 1
      BY <1>1, <1>3 DEF CanGo
    <2>2. /\ s[k].do = "expect"
          /\ s[k].kinds = {IF Top.f = "ifexpr" THEN "if" ELSE "elif"}
      BY <1>1, <2>1 DEF StepOK
    <2>3. Enters(Top, Top.f)
      BY <2>1 DEF Enters, k
    <2>4. Kind(tok_index) \in Step.kinds
      BY <1>1, <2>1, <2>2, <2>3 DEF LoudInv
    <2> QED
      BY <1>1, <2>2, <2>4
  <1>11. CallFresh(d) => d.tok = tok_index'
    <2> SUFFICES ASSUME CallFresh(d) PROVE d.tok = tok_index'
      OBVIOUS
    <2>1. CallFresh(Top) /\ s[k].do = "is"
      BY <1>1, <1>3, <1>8 DEF CanGo, CallFresh, s, k
    <2> QED
      BY <1>1, <1>5, <2>1 DEF LoudInv
  <1>12. Enters(d, "ifexpr") \/ Enters(d, "elifexpr") => Top.f \in Loud /\ Step.fail = "start"
    BY <1>5 DEF Enters, Loud
  <1> QED
    BY <1>1, <1>5, <1>6, <1>7, <1>9, <1>10, <1>11, <1>12, ResumeKeepsLoud

\* if and elif are called where the next token is theirs.
LEMMA CallingKeepsLoud ==
    ASSUME ParserIInv, LoudInv, Step.do \in Calls, Chosen,
           toks' = toks, tok_index' = tok_index,
           stack' = Append(stack, Call(Step.f, Step.lvl, Len(indices), tok_index))
    PROVE  LoudInv'
  <1> DEFINE n == Len(stack)
             d == Call(Step.f, Step.lvl, Len(indices), tok_index)
             s == Text(Top)
             k == Top.at
  <1>1. /\ Step = s[k] /\ n \in 1..n /\ CallOK(toks, Top)
        /\ StepOK(Top.f, DOMAIN Program(Top.f, Top.lvl), Top.label, s, k)
    BY StepIsAt DEF ParserIInv, At
  <1>2. PICK S : stack \in Seq(S)
    BY DEF ParserIInv, StackInv, Frames
  <1>3. Len(stack') = n + 1 /\ stack'[n + 1] = d /\ \A c \in 1..n : stack'[c] = stack[c]
    BY <1>1, <1>2
  <1>4. d.f = Step.f /\ d.label = "start" /\ d.at = 1
    BY DEF Call
  <1> HIDE DEF n, d, s, k
  <1>5. \A c \in 1..n+1 : c \in 1..n \/ c = n + 1
    BY <1>1
  <1>6. Top' = d
    BY <1>3 DEF Top, Last
  <1>7. ~CallSaid(d) /\ ~CallFresh(d)
    BY <1>4, KnownAtEntry DEF CallSaid, CallFresh
  <1>8. CanCall(Top.f, Top.label, s, k)
    BY <1>1 DEF StepOK
  <1>9. Step.f = "ifexpr" => Kind(tok_index) = "if"
    <2> SUFFICES ASSUME Step.f = "ifexpr" PROVE Kind(tok_index) = "if"
      OBVIOUS
    <2>1. CallFresh(Top) /\ Step.do = "when" /\ Step.kinds = {"if"}
      BY <1>1, <1>8 DEF CanCall, CallFresh, s, k
    <2>2. Kind(Top.tok) = "if"
      BY <2>1 DEF Chosen
    <2> QED
      BY <2>1, <2>2 DEF LoudInv
  <1>10. Step.f = "elifexpr" => Kind(tok_index) = "elif"
    <2> SUFFICES ASSUME Step.f = "elifexpr" PROVE Kind(tok_index) = "elif"
      OBVIOUS
    <2>1. CallFresh(Top) /\ SawOf(s, k, {"elif"})
      BY <1>1, <1>8 DEF CanCall, CallFresh, s, k
    <2>2. PICK j \in 1..k-1 : CallSaw(Top, j) /\ s[j].kinds \subseteq {"elif"}
      BY <2>1 DEF SawOf, CallSaw, s, k
    <2>3. Top.tok \in DOMAIN toks /\ toks[Top.tok] = "elif"
      BY <1>1, <2>2 DEF CallOK, TokIsKnown, s, k
    <2> QED
      BY <2>1, <2>3 DEF LoudInv, Kind
  <1>11. \A c \in 1..n+1 : stack'[c].f \in Loud => stack'[c].label # "none"
    BY <1>3, <1>4, <1>5 DEF LoudInv, n
  <1>12. Kind(tok_index)' = Kind(tok_index)
    BY DEF Kind
  <1> QED
    BY <1>3, <1>4, <1>6, <1>7, <1>9, <1>10, <1>11, <1>12 DEF LoudInv, Enters

\* A function returns: the one that called it is at none of the steps that
\* would have to have said something, unless it gives up for the same reason.
LEMMA ReturningKeepsLoud ==
    ASSUME ParserIInv, LoudInv, NEW found \in BOOLEAN, Return(found),
           found => Step.do = "ok", ~found => Step.do \in {"fail", "undo"},
           have_syntax_err' = have_syntax_err
    PROVE  LoudInv'
  <1> DEFINE n == Len(stack)
             calls == Front(stack)
             caller == Last(calls)
             s == Text(caller)
             k == caller.at
             g == IF found THEN [caller EXCEPT !.got = caller.got \cup Top.got] ELSE caller
             l == IF found THEN At(caller).ok ELSE At(caller).fail
             d == To(g, l)
  <1>1. /\ Step = At(Top) /\ At(Top) = Text(Top)[Top.at]
        /\ StepOK(Top.f, DOMAIN Program(Top.f, Top.lvl), Top.label, Text(Top), Top.at)
        /\ Top = stack[n] /\ n \in 1..n
    BY StepIsAt, TopIsLast DEF ParserIInv, At
  <1>2. Top.f # "parse_file"
    BY <1>1 DEF StepOK, Leaves
  <1>3. /\ At(caller).do \in Calls /\ At(caller).f = Top.f
        /\ Steps(caller.f, caller.lvl, caller.label)[caller.at] = At(caller)
        /\ StepOK(caller.f, DOMAIN Program(caller.f, caller.lvl), caller.label, s, k)
        /\ IsCall(caller) /\ At(caller) = s[k]
    BY <1>2, CallerIsAt DEF At
  <1>4. /\ Frames(calls, toks, Top.base, Top.from)
        /\ n \in Nat /\ n > 1 /\ Len(calls) = n - 1
        /\ \A c \in 1..n-1 : calls[c] = stack[c]
    BY <1>1, <1>2, FramesReturn DEF ParserIInv, StackInv
  <1>5. caller = stack[n-1] /\ n - 1 \in 1..n
    BY <1>4 DEF Last
  <1>6. stack' = [calls EXCEPT ![n-1] = d]
    BY <1>3, <1>4 DEF Return
  <1>7. PICK S : calls \in Seq(S)
    BY <1>4 DEF Frames
  <1>8. /\ IsCall(g) /\ g.f = caller.f /\ g.lvl = caller.lvl
        /\ g.label = caller.label /\ g.at = caller.at
    BY <1>3, GotFields
  \* what Top has said when it gives up
  <1>9. ~found /\ Top.f \in Loud => have_syntax_err
    <2> SUFFICES ASSUME ~found, Top.f \in Loud PROVE have_syntax_err
      OBVIOUS
    <2>1. Top.label # "none"
      BY <1>1 DEF LoudInv
    <2>2. CallSaid(Top)
      BY <1>1, <2>1 DEF StepOK, CallSaid
    <2> QED
      BY <2>2 DEF LoudInv
  <1> HIDE DEF calls, n, caller, s, k, g, l
  <1>10. DOMAIN calls = 1..n-1 /\ n - 1 \in 1..n-1
    BY <1>4, <1>7
  <1>11. /\ DOMAIN stack' = 1..n-1 /\ stack'[n-1] = d
         /\ \A c \in 1..n-1 : c # n-1 => stack'[c] = stack[c]
    BY <1>4, <1>6, <1>10
  <1>12. Len(stack') = n - 1
    <2>1. stack' \in Seq(S \cup {d})
      <3>1. calls \in Seq(S \cup {d})
        BY <1>7
      <3> HIDE DEF d
      <3> QED
        BY <1>6, <1>10, <3>1
    <2> QED
      BY <1>4, <1>11, <2>1
  <1>13. Top' = d
    BY <1>11, <1>12 DEF Top, Last
  <1>14. /\ d.f = caller.f
         /\ d.f \in Loud => d.label # "none"
         /\ d.f \in Loud /\ CallSaid(d) => have_syntax_err
         /\ ~CallFresh(d)
         /\ ~Enters(d, "ifexpr") /\ ~Enters(d, "elifexpr")
    <2>1. CanCall(caller.f, caller.label, s, k)
      BY <1>3 DEF StepOK
    <2>2. CASE l = "next"
      <3>1. d = After(g)
        BY <2>2 DEF To
      <3>2. /\ d.f = caller.f /\ d.lvl = caller.lvl /\ d.label = caller.label
            /\ d.at = caller.at + 1
        BY <1>8, <3>1, AfterFields
      <3>3. k \in Nat \ {0}
        BY <1>3 DEF IsCall, k
      <3>4. Text(d) = s
        BY <3>2 DEF Text, s
      <3> HIDE DEF d
      <3>5. ~CallFresh(d)
        <4>1. s[k].do = "call"
          BY <1>3, <2>1, <2>2 DEF CanCall, Calls, l
        <4> QED
          BY <3>2, <3>3, <3>4, <4>1, SaidAfterStep DEF CallFresh, k
      <3>6. d.f \in Loud => ~CallSaid(d)
        <4>1. caller.f \in Loud => ~CallSaid(caller)
          BY <1>3 DEF StepOK, CallSaid, s, k
        <4>2. CallSaid(d) => CallSaid(caller) \/ s[k].do = "post"
          BY <3>2, <3>3, <3>4, SaidAfterStep DEF CallSaid, s, k
        <4> QED
          BY <1>3, <3>2, <4>1, <4>2 DEF Calls
      <3>7. d.f \in Loud => d.label # "none"
        BY <1>5, <3>2 DEF LoudInv, n
      <3>8. d.at # 1
        BY <3>2, <3>3 DEF k
      <3> QED
        BY <3>2, <3>5, <3>6, <3>7, <3>8 DEF Enters
    <2>3. CASE l # "next"
      <3>1. /\ d.f = caller.f /\ d.lvl = caller.lvl /\ d.label = l /\ d.at = 1
        BY <1>8, <2>3, ToFields
      <3> HIDE DEF d
      <3>2. (CallSaid(d) => l = "err") /\ (CallFresh(d) => l = "dispatch")
        BY <3>1, KnownAtEntry DEF CallSaid, CallFresh
      <3>3. CASE found
        <4>1. l = "ok" /\ caller.f \notin Loud
          BY <1>3, <2>1, <2>3, <3>3 DEF CanCall, l
        <4> QED
          BY <3>1, <3>2, <4>1 DEF Enters
      <3>4. CASE ~found
        <4>1. l = s[k].fail /\ Branches(s[k]) /\ s[k].do \in Calls
          BY <1>3, <3>4 DEF l, Branches
        <4>2. CanGo(caller.f, DOMAIN Program(caller.f, caller.lvl), caller.label, s, k)
          BY <1>3, <2>3, <4>1 DEF StepOK
        <4>3. l # "dispatch"
          BY <4>1, <4>2 DEF CanGo, Calls
        <4>4. caller.f \in Loud /\ l = "err" => have_syntax_err
          BY <1>3, <1>9, <3>4, <4>1, <4>2 DEF CanGo
        <4>5. caller.f \in Loud => l # "none" /\ l # "start"
          <5> SUFFICES ASSUME caller.f \in Loud, l = "none" PROVE FALSE
            BY <4>1, <4>2 DEF CanGo
          <5>1. /\ caller.f \in {"ifexpr", "elifexpr"} /\ caller.label = "start" /\ k = 1
            BY <4>1, <4>2 DEF CanGo
          <5>2. s[k].do = "expect"
            BY <1>3, <5>1 DEF StepOK
          <5> QED
            BY <4>1, <5>2 DEF Calls
        <4> QED
          BY <3>1, <3>2, <4>3, <4>4, <4>5 DEF Enters, Loud
      <3> QED
        BY <3>3, <3>4
    <2> QED
      BY <2>2, <2>3
  <1> HIDE DEF d
  <1>15. \A c \in 1..n-1 : stack'[c].f \in Loud => stack'[c].label # "none"
    <2>1. \A c \in 1..n-1 : c \in 1..n
      BY <1>4
    <2> QED
      BY <1>11, <1>14, <2>1 DEF LoudInv, n
  <1> QED
    BY <1>12, <1>13, <1>14, <1>15 DEF LoudInv

\* A step that changes nothing it is about.
LEMMA StillKeepsLoud ==
    ASSUME LoudInv, UNCHANGED <<stack, toks, tok_index, have_syntax_err>>
    PROVE  LoudInv'
  BY DEF LoudInv, Top, Kind

\* The steps after which the function goes on as it is, or with tok.
LEMMA PlainKeepsLoud ==
    ASSUME ParserIInv, LoudInv,
           Step.do \in (Tests \cup Plain \cup {"when", "when2"}) \ SetsTok,
           Resume(After(Top)),
           tok_index' = IF Step.do = "advance" THEN NextIndex ELSE tok_index,
           Step.do = "post" => have_syntax_err' = TRUE,
           Step.do \notin {"post", "if_error_reset", "info_rollback"} =>
                have_syntax_err' = have_syntax_err
    PROVE  LoudInv'
  <1>1. IsCall(Top)
    BY StepIsAt DEF ParserIInv, CallOK
  <1>2. tok_index' = IF Step.do \in {"advance", "expect", "take"} THEN NextIndex
                     ELSE tok_index
    BY DEF SetsTok
  <1> QED
    BY <1>1, <1>2, GoingOnKeepsLoud

\* The same, with tok being the next token.
LEMMA TokKeepsLoud ==
    ASSUME ParserIInv, LoudInv, Step.do \in SetsTok,
           Resume(After([Top EXCEPT !.tok = tok_index])),
           tok_index' = IF Step.do \in {"expect", "take"} THEN NextIndex ELSE tok_index,
           have_syntax_err' = have_syntax_err
    PROVE  LoudInv'
  <1> DEFINE c == [Top EXCEPT !.tok = tok_index]
  <1>1. IsCall(Top) /\ tok_index \in Nat
    BY StepIsAt DEF ParserIInv, CallOK, MarksInv
  <1>2. /\ IsCall(c)
        /\ c.f = Top.f /\ c.lvl = Top.lvl /\ c.label = Top.label /\ c.at = Top.at
        /\ c.tok = tok_index
    BY <1>1, TokFields
  <1>3. Resume(After(c))
    OBVIOUS
  <1> HIDE DEF c
  <1>4. Step.do \in Tests \cup Plain \cup {"when", "when2"}
    BY DEF Tests, LooksAtTok, Plain, SetsTok
  <1>5. tok_index' = IF Step.do \in {"advance", "expect", "take"} THEN NextIndex
                     ELSE tok_index
    BY DEF SetsTok
  <1>6. Step.do # "post"
    BY DEF SetsTok
  <1> QED
    BY <1>2, <1>3, <1>4, <1>5, <1>6, GoingOnKeepsLoud

\* A test fails that leaves tok alone.
LEMMA FailingKeepsLoud ==
    ASSUME ParserIInv, LoudInv, Step.do \in Tests \cup {"goto"},
           Resume(To(Top, Step.fail)),
           Step.do = "is" => tok_index' = tok_index,
           Step.do = "expect" => Kind(tok_index) \notin Step.kinds
    PROVE  LoudInv'
  <1>1. IsCall(Top)
    BY StepIsAt DEF ParserIInv, CallOK
  <1> QED
    BY <1>1, BranchingKeepsLoud

\* One fails that remembers the next token as tok.
LEMMA FailingTokKeepsLoud ==
    ASSUME ParserIInv, LoudInv, Step.do \in {"look", "take"},
           Resume(To([Top EXCEPT !.tok = tok_index], Step.fail))
    PROVE  LoudInv'
  <1> DEFINE c == [Top EXCEPT !.tok = tok_index]
  <1>1. IsCall(Top) /\ tok_index \in Nat
    BY StepIsAt DEF ParserIInv, CallOK, MarksInv
  <1>2. IsCall(c) /\ c.f = Top.f /\ c.lvl = Top.lvl
    BY <1>1, TokFields
  <1>3. Resume(To(c, Step.fail))
    OBVIOUS
  <1> HIDE DEF c
  <1>4. Step.do \in Tests \cup {"goto"}
    BY DEF Tests, LooksAtTok
  <1> QED
    BY <1>2, <1>3, <1>4, BranchingKeepsLoud

\* No step of the parser breaks it.
LEMMA StepKeepsLoud ==
    ASSUME ParserIInv, LoudInv, ParseStep
    PROVE  LoudInv'
  <1> DEFINE Quiet == (Tests \cup Plain \cup {"when", "when2"}) \ SetsTok
  <1>1. CASE LexerPush \/ LexerPop \/ AdvanceOver \/ AdoptStatement
    <2>1. Step.do \in Quiet /\ Step.do \in {"push", "pop", "advance", "adopt"}
      BY <1>1 DEF LexerPush, LexerPop, AdvanceOver, AdoptStatement, Does, Plain, SetsTok
    <2>2. Step.do = "pop" => indices # <<>>
      BY OwnMark
    <2>3. Step.do \in {"push", "pop", "adopt"} => tok_index' = tok_index
      BY <1>1, <2>2 DEF LexerPush, LexerPop, AdvanceOver, AdoptStatement, Does, lexVars
    <2>4. Step.do = "advance" => tok_index' = NextIndex
      BY <1>1 DEF LexerPush, LexerPop, AdvanceOver, AdoptStatement, Does
    <2>5. Resume(After(Top)) /\ have_syntax_err' = have_syntax_err
      BY <1>1, <2>2
      DEF LexerPush, LexerPop, AdvanceOver, AdoptStatement, Does, infoVars
    <2> QED
      BY <2>1, <2>3, <2>4, <2>5, PlainKeepsLoud
  <1>2. CASE LexerRollback
    <2>1. Step.do = "undo"
      BY <1>2 DEF LexerRollback, Does
    <2>2. indices # <<>> /\ ~(Last(indices) > tok_index)
      BY <2>1, OwnMark DEF ParserIInv, MarksInv
    <2> QED
      BY <1>2, <2>1, <2>2, ReturningKeepsLoud DEF LexerRollback, infoVars
  <1>3. CASE TakeToken
    <2>1. Step.do = "take"
      BY <1>3 DEF TakeToken, Does
    <2>2. CASE Kind(tok_index) \in Step.kinds
      BY <1>3, <2>1, <2>2, TokKeepsLoud DEF TakeToken, Branch, SetsTok, infoVars
    <2>3. CASE Kind(tok_index) \notin Step.kinds
      BY <1>3, <2>1, <2>3, FailingTokKeepsLoud DEF TakeToken, Branch
    <2> QED
      BY <2>2, <2>3
  <1>4. CASE ExpectToken
    <2>1. Step.do = "expect" /\ Step.do \in Tests
      BY <1>4 DEF ExpectToken, Does, Tests, LooksAtTok
    <2>2. CASE Kind(tok_index) \in Step.kinds
      BY <1>4, <2>1, <2>2, TokKeepsLoud DEF ExpectToken, SetsTok, infoVars
    <2>3. CASE Kind(tok_index) \notin Step.kinds
      BY <1>4, <2>1, <2>3, FailingKeepsLoud DEF ExpectToken
    <2> QED
      BY <2>2, <2>3
  <1>5. CASE LookAtToken
    <2>1. UNCHANGED <<tok_index, have_syntax_err>>
      BY <1>5 DEF LookAtToken, lexVars, infoVars
    <2>2. CASE Does("mark") /\ Resume(After([Top EXCEPT !.tok = tok_index]))
      BY <2>1, <2>2, TokKeepsLoud DEF Does, SetsTok
    <2>3. CASE /\ Does("look")
               /\ Branch([Top EXCEPT !.tok = tok_index], Kind(tok_index) \in Step.kinds)
      <3>1. CASE Kind(tok_index) \in Step.kinds
        BY <2>1, <2>3, <3>1, TokKeepsLoud DEF Does, SetsTok, Branch
      <3>2. CASE Kind(tok_index) \notin Step.kinds
        BY <2>1, <2>3, <3>2, FailingTokKeepsLoud DEF Does, Branch
      <3> QED
        BY <3>1, <3>2
    <2>4. ASSUME Resume(After(Top)) \/ Resume(To(Top, Step.fail)),
                 Does("ahead") \/ Does("is") \/ Does("is2")
          PROVE  LoudInv'
      <3>1. /\ Step.do \in {"ahead", "is", "is2"} /\ Step.do \in Quiet
            /\ Step.do \in Tests \cup {"goto"}
        BY <2>4 DEF Does, Tests, LooksAtTok, SetsTok
      <3>2. CASE Resume(After(Top))
        BY <2>1, <3>1, <3>2, PlainKeepsLoud
      <3>3. CASE Resume(To(Top, Step.fail))
        BY <2>1, <3>1, <3>3, FailingKeepsLoud
      <3> QED
        BY <2>4, <3>2, <3>3
    <2>5. CASE Does("goto") /\ Resume(To(Top, Step.fail))
      BY <2>1, <2>5, FailingKeepsLoud DEF Does
    <2>6. CASE Does("ahead") /\ Branch(Top, Kind(tok_index) \in Step.kinds)
      BY <2>4, <2>6 DEF Branch
    <2>7. CASE Does("is") /\ Branch(Top, Kind(Top.tok) \in Step.kinds)
      BY <2>4, <2>7 DEF Branch
    <2>8. CASE Does("is2") /\ Branch(Top, Kind(Top.tok + 1) \in Step.kinds)
      BY <2>4, <2>8 DEF Branch
    <2> QED
      BY <1>5, <2>2, <2>3, <2>5, <2>6, <2>7, <2>8 DEF LookAtToken
  <1>6. CASE TokenGetValue
    <2> DEFINE c == [Top EXCEPT !.got = Top.got \cup {Top.tok}]
    <2>1. IsCall(Top)
      BY StepIsAt DEF ParserIInv, CallOK
    <2>2. /\ IsCall(c)
          /\ c.f = Top.f /\ c.lvl = Top.lvl /\ c.label = Top.label /\ c.at = Top.at
          /\ c.tok = Top.tok
      BY <2>1, GotFields
    <2>3. /\ Step.do = "value" /\ Resume(After(c))
          /\ UNCHANGED <<tok_index, have_syntax_err>>
      BY <1>6 DEF TokenGetValue, Does, infoVars
    <2> HIDE DEF c
    <2>4. /\ Step.do \in Tests \cup Plain \cup {"when", "when2"}
          /\ Step.do \notin SetsTok
      BY <2>3 DEF Plain, SetsTok
    <2> QED
      BY <2>2, <2>3, <2>4, GoingOnKeepsLoud
  <1>7. CASE PostSyntaxError \/ InfoCtxPush \/ InfoCtxPop
    <2>1. /\ Step.do \in Quiet /\ Resume(After(Top))
          /\ Step.do \in {"post", "info_push", "info_pop", "info_rollback"}
          /\ tok_index' = tok_index
      BY <1>7 DEF PostSyntaxError, InfoCtxPush, InfoCtxPop, Does, Plain, SetsTok, lexVars
    <2>2. /\ Step.do = "post" => have_syntax_err' = TRUE
          /\ Step.do \notin {"post", "if_error_reset", "info_rollback"} =>
                have_syntax_err' = have_syntax_err
      BY <1>7 DEF PostSyntaxError, InfoCtxPush, InfoCtxPop, Does
    <2> QED
      BY <2>1, <2>2, PlainKeepsLoud
  <1>8. CASE HasSyntaxError
    <2>1. /\ Step.do \in {"if_error", "if_error_reset"} /\ Step.do \in Quiet
          /\ Step.do \in Tests \cup {"goto"}
          /\ tok_index' = tok_index
      BY <1>8 DEF HasSyntaxError, Does, Tests, SetsTok, lexVars
    <2>2. have_syntax_err' = (have_syntax_err /\ Step.do = "if_error")
          /\ Branch(Top, ~have_syntax_err)
      BY <1>8 DEF HasSyntaxError
    <2>3. CASE have_syntax_err
      BY <2>1, <2>2, <2>3, FailingKeepsLoud DEF Branch
    <2>4. CASE ~have_syntax_err
      <3>1. have_syntax_err' = FALSE /\ have_syntax_err = FALSE
        BY <2>2, <2>4 DEF ParserIInv, FileOK
      <3> QED
        BY <2>1, <2>2, <2>4, <3>1, PlainKeepsLoud DEF Branch
    <2> QED
      BY <2>3, <2>4
  <1>9. CASE CallAccept
    <2>1. Step.do \in Calls /\ UNCHANGED <<toks, tok_index, have_syntax_err>>
      BY <1>9 DEF CallAccept, Does, Calls, lexVars, infoVars
    <2>2. CASE Chosen
      BY <1>9, <2>1, <2>2, CallingKeepsLoud DEF CallAccept
    <2>3. CASE ~Chosen
      <3>1. Step.do \in {"when", "when2"}
        BY <2>1, <2>3 DEF Chosen, Calls
      <3>2. Step.do \in Quiet
        BY <3>1 DEF SetsTok
      <3> QED
        BY <1>9, <2>1, <2>3, <3>1, <3>2, PlainKeepsLoud DEF CallAccept
    <2> QED
      BY <2>2, <2>3
  <1>10. CASE ReturnNode
    BY <1>10, ReturningKeepsLoud DEF ReturnNode, Does, infoVars
  <1>11. CASE ReturnNull
    BY <1>11, ReturningKeepsLoud DEF ReturnNull, Does, infoVars
  <1>12. CASE FinishFile \/ UseToken \/ NameOfNode \/ ReadUnsetLocal
    <2>1. CASE Resume(After(Top)) /\ UNCHANGED <<lexVars, infoVars>>
      <3>1. Step.do \in {"finish", "must_exist", "name_of", "read_unset"}
        BY <1>12 DEF FinishFile, UseToken, NameOfNode, ReadUnsetLocal, Does
      <3>2. CASE Step.do = "finish"
        BY <1>12, <3>2, StillKeepsLoud
        DEF FinishFile, UseToken, NameOfNode, ReadUnsetLocal, Does, Stop, lexVars, infoVars
      <3>3. CASE Step.do # "finish"
        <4>1. Step.do \in Quiet
          BY <3>1, <3>3 DEF Plain, SetsTok
        <4> QED
          BY <2>1, <3>1, <3>3, <4>1, PlainKeepsLoud DEF lexVars, infoVars
      <3> QED
        BY <3>2, <3>3
    <2>2. CASE ~(Resume(After(Top)) /\ UNCHANGED <<lexVars, infoVars>>)
      <3>1. UNCHANGED <<stack, toks, tok_index, have_syntax_err>>
        BY <1>12, <2>2
        DEF FinishFile, UseToken, NameOfNode, ReadUnsetLocal, Stop, lexVars, infoVars
      <3> QED
        BY <3>1, StillKeepsLoud
    <2> QED
      BY <2>1, <2>2
  <1> QED
    BY <1>1, <1>2, <1>3, <1>4, <1>5, <1>6, <1>7, <1>8, <1>9, <1>10, <1>11, <1>12
    DEF ParseStep

\* It is an invariant of the parser.
LEMMA LoudInvHolds == ParseSpec => []LoudInv
  <1>1. ParseInit => LoudInv
    <2> SUFFICES ASSUME ParseInit PROVE LoudInv
      OBVIOUS
    <2> DEFINE d == Call("parse_file", 0, 0, 1)
    <2>1. stack = <<d>>
      BY DEF ParseInit
    <2>2. d.f = "parse_file" /\ d.label = "start" /\ d.at = 1
      BY DEF Call
    <2> HIDE DEF d
    <2>3. Top = d /\ Len(stack) = 1 /\ stack[1] = d
      BY <2>1 DEF Top, Last
    <2>4. ~CallFresh(d)
      BY <2>2, KnownAtEntry DEF CallFresh
    <2> QED
      BY <2>2, <2>3, <2>4 DEF LoudInv, Loud, Enters
  <1>2. ParserIInv /\ LoudInv /\ [ParseNext]_parseVars => LoudInv'
    <2> SUFFICES ASSUME ParserIInv, LoudInv, [ParseNext]_parseVars PROVE LoudInv'
      OBVIOUS
    <2>1. CASE ParseStep
      BY <2>1, StepKeepsLoud
    <2>2. CASE UNCHANGED parseVars
      BY <2>2, StillKeepsLoud DEF parseVars, lexVars, infoVars
    <2> QED
      BY <2>1, <2>2 DEF ParseNext
  <1> QED
    BY <1>1, <1>2, ParserIInvHolds, PTL DEF ParseSpec

(***************************************************************************)
(* The promise of generics.c and ifexpr.c holds in every file: genrtype,   *)
(* condbranch, ifexpr and elifexpr give up only when the error flag is up, *)
(* so that a caller who gives up without a message of its own loses none.  *)
(***************************************************************************)
THEOREM FailuresArePosted == ParseSpec => []FailureIsPosted
  <1>1. ParserIInv /\ LoudInv => FailureIsPosted
    <2> SUFFICES ASSUME ParserIInv, LoudInv, Top.f \in Loud, Does("fail") \/ Does("undo")
                 PROVE  have_syntax_err
      BY DEF FailureIsPosted, Loud
    <2>1. Step.do \in {"fail", "undo"}
      BY DEF Does
    <2>2. /\ Step = Text(Top)[Top.at] /\ Top = stack[Len(stack)]
          /\ Len(stack) \in 1..Len(stack)
          /\ StepOK(Top.f, DOMAIN Program(Top.f, Top.lvl), Top.label, Text(Top), Top.at)
      BY StepIsAt, TopIsLast DEF ParserIInv, At
    <2>3. Top.label # "none"
      BY <2>2 DEF LoudInv
    <2>4. CallSaid(Top)
      BY <2>1, <2>2, <2>3 DEF StepOK, CallSaid
    <2> QED
      BY <2>4 DEF LoudInv
  <1> QED
    BY <1>1, ParserIInvHolds, LoudInvHolds, PTL

=============================================================================
