---------------------------- MODULE TypeCompare ----------------------------
(***************************************************************************)
(* Comparing two types for a reason: whether the one is, or converts to,   *)
(* the other.  A comparison reads and leaves behind a context that all     *)
(* comparisons of the compiler share: a count, whether the context is to   *)
(* be reset, the flag of a function call, the type that matched and        *)
(* whether by a conversion, an error and the warnings not yet reported.    *)
(* A result is [ok, c]: the verdict and the context after it.              *)
(***************************************************************************)
EXTENDS TypeObjects

NewContext == [count |-> 0, needsReset |-> FALSE, call |-> FALSE,
               matched |-> NoType, conversion |-> FALSE, error |-> FALSE,
               warned |-> FALSE, warnings |-> <<>>]

(* Every comparison begins with this: what was left of the last one goes   *)
(* away only when the count is back at nothing.                            *)
Reset(c) ==
    LET fresh == IF c.needsReset /\ c.count <= 0 THEN NewContext ELSE c
    IN  [fresh EXCEPT !.count = @ + 1]
WithFlag(c, call) == [Reset(c) EXCEPT !.call = call]

Refused(c) == [ok |-> FALSE, c |-> [c EXCEPT !.needsReset = TRUE]]
RefusedSaying(c) == Refused([c EXCEPT !.error = TRUE])
Succeeded(c) == [ok |-> TRUE, c |-> [c EXCEPT !.needsReset = TRUE]]
Matched(c, t) ==
    Succeeded([c EXCEPT !.matched = t, !.conversion = FALSE])
Converted(c, t) ==
    [ok |-> TRUE, c |-> [c EXCEPT !.matched = t, !.conversion = TRUE]]
Warned(c, kind, f, t) ==
    [c EXCEPT !.warned = TRUE,
              !.warnings = Append(@, <<kind, f.e, t.e>>)]

Narrower(f, t) == ByteSize(f.e) > ByteSize(t.e)
DropsSign(f, t) == ~IsUnsigned(f.e) /\ IsUnsigned(t.e)

IntToInt(c, f, t, why) ==
    IF Narrower(f, t) /\ f.const THEN RefusedSaying(c)
    ELSE LET c1 == IF Narrower(f, t) /\ why # "explicit"
                   THEN Warned(c, "size", f, t) ELSE c
         IN  IF ~DropsSign(f, t) THEN Converted(c1, t)
             ELSE IF f.const \/ why = "pattern" THEN RefusedSaying(c1)
             ELSE Converted(IF why # "explicit"
                            THEN Warned(c1, "sign", f, t) ELSE c1, t)

(* A mutation of ConvertsElementary: a float to an int without a word.     *)
ConvertsElementaryCut(f, t, why) ==
    \/ IsInt(f.e) /\ why # "pattern" /\ (IsFloat(t.e) \/ t.e = "bool")
    \/ IsFloat(f.e) /\ (IsFloat(t.e) \/ IsInt(t.e))
    \/ f.e = "bool" /\ why \notin {"pattern", "after_implicit"} /\ IsInt(t.e)
    \/ t.e = "string" /\ why = "explicit" /\ (f.const \/ f.e = "bool")

ConvertsElementary(f, t, why) ==
    \/ /\ IsInt(f.e) /\ why # "pattern"
       /\ \/ IsFloat(t.e) \/ t.e = "bool"
          \/ t.e = "string" /\ f.const /\ why = "explicit"
    \/ /\ IsFloat(f.e)
       /\ \/ IsFloat(t.e)
          \/ IsInt(t.e) /\ why = "explicit"
          \/ t.e = "string" /\ f.const /\ why = "explicit"
    \/ /\ f.e = "bool" /\ why \notin {"pattern", "after_implicit"}
       /\ \/ IsInt(t.e)
          \/ t.e = "string" /\ why = "explicit"

CompareElementary(c, f, t, why) ==
    IF f.e = t.e THEN Matched(c, f)
    ELSE IF why = "identical" THEN Refused(c)
    ELSE IF IsInt(f.e) /\ IsInt(t.e) THEN IntToInt(c, f, t, why)
    ELSE IF ConvertsElementary(f, t, why) THEN Converted(c, t)
    ELSE RefusedSaying(c)

(* Sizes of -1 are open.                                                   *)
SameDimensions(d1, d2) ==
    /\ Len(d1) = Len(d2)
    /\ \A i \in DOMAIN d1 : d1[i] = d2[i] \/ -1 \in {d1[i], d2[i]}

(* A mutation of Alternative: the first that converts is taken.            *)
AlternativeFirst(tried) ==
    LET good == SelectSeq(tried, LAMBDA x : x.ok)
    IN  IF good = <<>> THEN NoType ELSE good[1].type

(* Of the alternatives tried, the first exact one, else the last of those  *)
(* that convert.                                                           *)
Alternative(tried) ==
    LET exact == SelectSeq(tried, LAMBDA x : x.ok /\ ~x.c.conversion)
        good == SelectSeq(tried, LAMBDA x : x.ok)
    IN  IF exact # <<>> THEN exact[1].type
        ELSE IF good # <<>> THEN Last(good).type
        ELSE NoType

RECURSIVE Compare(_, _, _, _, _)

(* Operand by operand, as long as they agree.                              *)
CompareOperands(h, c, fs, ts, why) ==
    LET after[i \in 0..Len(fs)] ==
            IF i = 0 THEN [ok |-> TRUE, c |-> c]
            ELSE LET before == after[i - 1]
                 IN  IF ~before.ok THEN before
                     ELSE Compare(h, before.c, fs[i], ts[i], why)
    IN  after[Len(fs)]

CompareSameCategory(h, c, f, t, why) ==
    LET of == Deref(h, f)
        ot == Deref(h, t)
    IN  CASE of.cat = "elementary" -> CompareElementary(c, f, t, why)
          [] of.cat = "defined" -> [ok |-> of.name = ot.name, c |-> c]
          [] of.cat = "array" ->
                LET members == Compare(h, c, of.of, ot.of, why)
                IN  IF ~members.ok \/ ~SameDimensions(of.dims, ot.dims)
                    THEN RefusedSaying(members.c)
                    ELSE Succeeded(members.c)
          [] OTHER ->
                IF of.op # ot.op \/ Len(of.args) # Len(ot.args)
                THEN Refused(c)
                ELSE CompareOperands(h, c, of.args, ot.args, why)

(* The alternatives of a sum are tried in turn, up to an exact one.        *)
Chosen(tried) ==
    IF Alternative(tried) = NoType THEN [ok |-> FALSE, c |-> Last(tried).c]
    ELSE Matched(Last(tried).c, Alternative(tried))

CompareToSum(h, c, f, alternatives, why) ==
    LET inner == IF why = "pattern" THEN "pattern" ELSE "after_implicit"
        Tried(before, t, r) == Append(before, [ok |-> r.ok, c |-> r.c, type |-> t])
        try[i \in 0..Len(alternatives)] ==
            IF i = 0 THEN <<>>
            ELSE LET before == try[i - 1]
                     c1 == IF before = <<>> THEN c ELSE Last(before).c
                 IN  IF \E x \in Range(before) : x.ok /\ ~x.c.conversion
                     THEN before
                     ELSE Tried(before, alternatives[i],
                                Compare(h, c1, f, alternatives[i], inner))
    IN  Chosen(try[Len(alternatives)])

(* The first step: what the categories alone say, [is, c].                 *)
CategoryCheck(h, c, f, t, why) ==
    LET of == Deref(h, f)
        ot == Deref(h, t)
        same == IF of.cat = ot.cat THEN "open" ELSE "different"
        If(r, good, bad) == [is |-> IF r.ok THEN good ELSE bad, c |-> r.c]
    IN  IF why = "pattern" /\ f = Wild /\ ot.cat # "operator"
        THEN [is |-> "equal", c |-> c]
        ELSE IF why = "pattern" /\ ot.cat = "defined"
        THEN If(Compare(h, c, f, ot.type, why), "equal", "different")
        ELSE IF why = "identical" THEN [is |-> same, c |-> c]
        ELSE IF of.cat = "defined"
        THEN If(Compare(h, c, of.type, t, why), "equal", same)
        ELSE IF ot.cat = "defined"
        THEN If(Compare(h, c, f, ot.type, why), "equal", same)
        ELSE IF ot.cat = "operator" /\ ot.op = "|"
                /\ (c.call \/ why = "pattern")
        THEN If(CompareToSum(h, c, f, ot.args, why), "convertable", same)
        ELSE [is |-> same, c |-> c]

Counted(r, n) == [r EXCEPT !.c.count = @ + n]
Judged(h, f, t, why, first) ==
    CASE first.is = "equal" -> Counted(Succeeded(first.c), -1)
      [] first.is = "convertable" -> Counted([ok |-> TRUE, c |-> first.c], 1)
      [] first.is = "different" -> Counted(Refused(first.c), 1)
      [] OTHER -> Counted(CompareSameCategory(h, first.c, f, t, why), 1)

Compare(h, c, f, t, why) ==
    IF f = t THEN Matched(Reset(c), t)
    ELSE Judged(h, f, t, why, CategoryCheck(h, Reset(c), f, t, why))
=============================================================================
