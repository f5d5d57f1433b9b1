-------------------------- MODULE ScopeNamesProofs --------------------------
(***************************************************************************)
(* What the tables of Scopes list, for programs of any number of modules   *)
(* and trees of any depth: a table has a record of a declaration just when *)
(* the walk came to the node that declares it there and did not leave it   *)
(* out.  So a name that is declared twice in a scope would be in a table   *)
(* twice, and what the lookup finds from the current table upwards is what *)
(* the scopes of the source say, and after them the modules that are used. *)
(***************************************************************************)
EXTENDS ScopesProofs

(* A table has a record of the node by.                                    *)
Kept(ts, t, by) ==
    t \in DOMAIN ts /\ \E name \in DOMAIN ts[t].recs : ts[t].recs[name].by = by

(* In the walk s the callback at q enters the node at p into the table t:  *)
(* what is declared in a scope goes to the table around it, the names of a *)
(* description to its own and, if they are the arguments of a function,    *)
(* also to that of the function.  The variable of a loop is entered by the *)
(* second walk.                                                            *)
Enters(s, n, q, t, p) ==
    \/ /\ s = "declare" /\ Kind(n, q) \in {"module", "fndecl", "typedecl"}
       /\ p = q /\ t = Outer(n, q)
    \/ /\ s = "declare" /\ Kind(n, q) = "vardecl"
       /\ p = Append(q, 1) /\ t = Outer(n, q)
    \/ /\ s = "declare" /\ Kind(n, q) = "typedesc" /\ t = <<n, q>>
       /\ \E i \in Kids(prog[n].tree, q) : p = Append(q, i)
    \/ /\ s = "declare" /\ Kind(n, q) = "fndecl" /\ Node(n, q).ty # "foreign"
       /\ t = <<n, q>>
       /\ \E i \in Kids(prog[n].tree, Append(q, 1)) : p = Append(Append(q, 1), i)
    \/ /\ s = "check" /\ Kind(n, q) = "for"
       /\ p = Append(q, 1) /\ t = <<n, q>>

(* The callback of the walk s at q was called.                             *)
Come(q) == Behind(q) \/ (q \in Beginnings(at) /\ (q # at \/ dir = "up"))
Past(s, n, q) ==
    \/ stage = "analyzed"
    \/ Walking /\ n < m
    \/ Walking /\ n = m /\ stage = "check" /\ s = "declare"
    \/ Walking /\ n = m /\ stage = s /\ Come(q)

(* What should be in a table by now.  A loop whose callback failed was     *)
(* left out, with all that is in it.                                       *)
Missed(n, q) == \E w \in lost : w[1] = n /\ w[2] \in Beginnings(q)
Told(s, n, q) == Past(s, n, q) /\ (s = "check" => ~Missed(n, q))
Due(t, by) ==
    \E s \in {"declare", "check"} : \E n \in DOMAIN prog : \E q, p \in Paths(n) :
        by = <<n, p>> /\ Enters(s, n, q, t, p) /\ Told(s, n, q)

(* The inductive invariant: the tables list what they should, a node has   *)
(* no table before the walk comes to it, and what the assertion in the     *)
(* tables stops is declared twice.                                         *)
LedgerInv ==
    /\ Walking \/ stage = "analyzed" =>
        \A t, by : Kept(tables, t, by) <=> Due(t, by)
    /\ stage = "analyzed" => lost = {}
FreshInv ==
    errors = {} /\ Walking =>
        \A n \in DOMAIN prog : \A q \in Paths(n) \ {<<>>} :
            <<n, q>> \in DOMAIN tables => Past("declare", n, q)
AssertedInv ==
    stage = "asserted" =>
        Twice(m, at) \/ (Kind(m, <<>>) = "root" /\ InFile(m, Here.name) # {})
NamesIInv == LedgerInv /\ FreshInv /\ AssertedInv

-----------------------------------------------------------------------------
(* What is added to the tables.                                            *)

(* The table t gets records of the nodes of S, and no other changes.       *)
Adds(ts, us, t, S) ==
    /\ AreTables(us) /\ DOMAIN us = DOMAIN ts
    /\ \A u \in DOMAIN ts : u # t => us[u] = ts[u]
    /\ \A u, by : Kept(us, u, by) <=> Kept(ts, u, by) \/ (u = t /\ by \in S)

LEMMA RecordedIs ==
    ASSUME NEW ts, AreTables(ts), NEW t \in DOMAIN ts, NEW name, NEW record
    PROVE  LET us == Recorded(ts, t, name, record)
           IN  /\ AreTables(us) /\ DOMAIN us = DOMAIN ts
               /\ \A u \in DOMAIN ts : u # t => us[u] = ts[u]
               /\ DOMAIN us[t].recs = DOMAIN ts[t].recs \cup {name}
               /\ \A x \in DOMAIN us[t].recs :
                    us[t].recs[x] = IF x = name THEN record ELSE ts[t].recs[x]
<1> DEFINE us == Recorded(ts, t, name, record)
           recs == Extended(ts[t].recs, name, record)
<1>1. /\ ts = [u \in DOMAIN ts |-> ts[u]] /\ \A u \in DOMAIN ts : IsTable(ts[u])
      /\ \A u \in DOMAIN ts : ts[u].mod = u[1]
  BY DEF AreTables
<1>2. ts[t] = [parent |-> ts[t].parent, mod |-> ts[t].mod, fndecl |-> ts[t].fndecl,
               recs |-> ts[t].recs]
  BY <1>1 DEF IsTable
<1>3. us = [u \in DOMAIN ts |-> IF u = t THEN [ts[t] EXCEPT !.recs = recs] ELSE ts[u]]
  BY DEF Recorded
<1>4. [ts[t] EXCEPT !.recs = recs]
      = [parent |-> ts[t].parent, mod |-> ts[t].mod, fndecl |-> ts[t].fndecl,
         recs |-> recs]
  <2> HIDE DEF recs
  <2> QED
    BY <1>2
<1> HIDE DEF us
<1>5. /\ DOMAIN us = DOMAIN ts /\ us = [u \in DOMAIN us |-> us[u]]
      /\ us[t] = [parent |-> ts[t].parent, mod |-> ts[t].mod, fndecl |-> ts[t].fndecl,
                  recs |-> recs]
      /\ \A u \in DOMAIN ts : u # t => us[u] = ts[u]
  BY <1>3, <1>4
<1>6. DOMAIN recs = DOMAIN ts[t].recs \cup {name}
      /\ \A x \in DOMAIN recs : recs[x] = IF x = name THEN record ELSE ts[t].recs[x]
  BY DEF Extended
<1> HIDE DEF recs
<1>7. us[t].recs = recs /\ us[t].parent = ts[t].parent /\ us[t].fndecl = ts[t].fndecl
      /\ us[t].mod = ts[t].mod
  BY <1>5
<1>8. IsTable(us[t])
  BY <1>5, <1>7 DEF IsTable
<1>10. \A u \in DOMAIN us : us[u].mod = u[1]
  BY <1>1, <1>5, <1>7
<1>9. AreTables(us)
  BY <1>1, <1>5, <1>8, <1>10 DEF AreTables
<1> QED
  BY <1>5, <1>6, <1>7, <1>9 DEF us

(* A record under a name that is not taken.                                *)
LEMMA RecordedAdds ==
    ASSUME NEW ts, AreTables(ts), NEW t \in DOMAIN ts, NEW name, NEW record,
           ~Has(ts, t, name)
    PROVE  Adds(ts, Recorded(ts, t, name, record), t, {record.by})
<1> DEFINE us == Recorded(ts, t, name, record)
<1>1. /\ AreTables(us) /\ DOMAIN us = DOMAIN ts
      /\ \A u \in DOMAIN ts : u # t => us[u] = ts[u]
      /\ DOMAIN us[t].recs = DOMAIN ts[t].recs \cup {name}
      /\ \A x \in DOMAIN us[t].recs :
            us[t].recs[x] = IF x = name THEN record ELSE ts[t].recs[x]
  BY RecordedIs
<1> HIDE DEF us
<1>2. name \notin DOMAIN ts[t].recs
  BY DEF Has
<1>3. ASSUME NEW u, NEW by
      PROVE  Kept(us, u, by) <=> Kept(ts, u, by) \/ (u = t /\ by \in {record.by})
  <2>1. CASE u # t
    BY <1>1, <2>1 DEF Kept
  <2>2. CASE u = t
    <3>1. ASSUME Kept(us, u, by) PROVE Kept(ts, u, by) \/ by = record.by
      <4>1. PICK x \in DOMAIN us[t].recs : us[t].recs[x].by = by
        BY <2>2, <3>1 DEF Kept
      <4> QED
        BY <1>1, <2>2, <4>1 DEF Kept
    <3>2. ASSUME Kept(ts, u, by) PROVE Kept(us, u, by)
      <4>1. PICK x \in DOMAIN ts[t].recs : ts[t].recs[x].by = by
        BY <2>2, <3>2 DEF Kept
      <4>2. x \in DOMAIN us[t].recs /\ us[t].recs[x] = ts[t].recs[x]
        BY <1>1, <1>2, <4>1
      <4> QED
        BY <1>1, <2>2, <4>1, <4>2 DEF Kept
    <3>3. ASSUME by = record.by PROVE Kept(us, u, by)
      <4>1. name \in DOMAIN us[t].recs /\ us[t].recs[name] = record
        BY <1>1
      <4> QED
        BY <1>1, <2>2, <3>3, <4>1 DEF Kept
    <3> QED
      BY <2>2, <3>1, <3>2, <3>3
  <2> QED
    BY <2>1, <2>2
<1> QED
  BY <1>1, <1>3 DEF Adds, us

LEMMA AddsNothing ==
    ASSUME NEW ts, AreTables(ts), NEW t
    PROVE  Adds(ts, ts, t, {})
BY DEF Adds

(* More of them.                                                           *)
LEMMA AddsMore ==
    ASSUME NEW ts, NEW us, NEW vs, NEW t, NEW S, NEW T,
           Adds(ts, us, t, S), Adds(us, vs, t, T)
    PROVE  Adds(ts, vs, t, S \cup T)
<1>1. ASSUME NEW u, NEW by
      PROVE  Kept(vs, u, by) <=> Kept(ts, u, by) \/ (u = t /\ by \in S \cup T)
  BY DEF Adds
<1>2. /\ AreTables(vs) /\ DOMAIN vs = DOMAIN ts
      /\ \A u \in DOMAIN ts : u # t => vs[u] = ts[u]
  BY DEF Adds
<1> QED
  BY <1>1, <1>2 DEF Adds

(* A new table lists nothing, and one that is hung up what it did before.  *)
LEMMA ExtendedKeeps ==
    ASSUME NEW ts, AreTables(ts), AreNamed(ts), NEW t, t \notin DOMAIN ts, t[1] = m
    PROVE  \A u, by : Kept(Extended(ts, t, NewTable(m)), u, by) <=> Kept(ts, u, by)
<1> DEFINE us == Extended(ts, t, NewTable(m))
<1>1. DOMAIN us = DOMAIN ts \cup {t} /\ \A u \in DOMAIN ts : u # t => us[u] = ts[u]
  BY ExtendedTables
<1>2. us[t] = NewTable(m)
  BY DEF Extended
<1>3. DOMAIN us[t].recs = {}
  BY <1>2 DEF NewTable, NoRecords
<1> HIDE DEF us
<1>4. ASSUME NEW u, NEW by PROVE Kept(us, u, by) <=> Kept(ts, u, by)
  <2>1. CASE u = t
    BY <1>3, <2>1 DEF Kept
  <2>2. CASE u # t
    BY <1>1, <2>2 DEF Kept
  <2> QED
    BY <2>1, <2>2
<1> QED
  BY <1>4 DEF us

LEMMA SwapKeeps ==
    ASSUME NEW ts, AreTables(ts), NEW t \in DOMAIN ts, NEW decl
    PROVE  \A u, by : Kept(SwapTo(ts, t, decl), u, by) <=> Kept(ts, u, by)
<1> DEFINE us == SwapTo(ts, t, decl)
           fn == IF decl = NoWhere THEN ts[cur].fndecl ELSE decl
           vs == [ts EXCEPT ![t].parent = cur]
<1>1. /\ ts = [u \in DOMAIN ts |-> ts[u]] /\ \A u \in DOMAIN ts : IsTable(ts[u])
      /\ \A u \in DOMAIN ts : ts[u].mod = u[1]
  BY DEF AreTables
<1>2. ts[t] = [parent |-> ts[t].parent, mod |-> ts[t].mod, fndecl |-> ts[t].fndecl,
               recs |-> ts[t].recs]
  BY <1>1 DEF IsTable
<1>3. us = [vs EXCEPT ![t].fndecl = fn]
  BY DEF SwapTo
<1> HIDE DEF us, fn
<1>4. /\ DOMAIN vs = DOMAIN ts /\ vs = [u \in DOMAIN vs |-> vs[u]]
      /\ vs[t] = [parent |-> cur, mod |-> ts[t].mod, fndecl |-> ts[t].fndecl,
                  recs |-> ts[t].recs]
      /\ \A u \in DOMAIN ts : u # t => vs[u] = ts[u]
  BY <1>1, <1>2
<1> HIDE DEF vs
<1> DEFINE entry == [vs[t] EXCEPT !.fndecl = fn]
<1>5. us = [u \in DOMAIN ts |-> IF u = t THEN entry ELSE vs[u]]
  BY <1>3, <1>4
<1>6. entry = [parent |-> cur, mod |-> ts[t].mod, fndecl |-> fn, recs |-> ts[t].recs]
  BY <1>4
<1>7. entry.recs = ts[t].recs
  BY <1>6
<1> HIDE DEF entry
<1>8. DOMAIN us = DOMAIN ts /\ \A u \in DOMAIN ts : us[u].recs = ts[u].recs
  BY <1>4, <1>5, <1>7
<1>9. \A u, by : Kept(us, u, by) <=> Kept(ts, u, by)
  BY <1>8 DEF Kept
<1> QED
  BY <1>9 DEF us

-----------------------------------------------------------------------------
(* What the callbacks add.                                                 *)

(* A name of a variable or of a description.                               *)
LEMMA LeafAdds ==
    ASSUME NEW ts, AreTables(ts), NEW t \in DOMAIN ts, NEW p, NEW said,
           AddLeaf([ts |-> ts, said |-> said], t, p).said = "nothing"
    PROVE  /\ said = "nothing"
           /\ Adds(ts, AddLeaf([ts |-> ts, said |-> said], t, p).ts, t, {<<m, p>>})
<1> DEFINE r == [ts |-> ts, said |-> said]
           s == AddLeaf(r, t, p)
           name == Node(m, p).name
           data == TypeNamed(r.ts, t, Node(m, p).ty)
           record == RecordOf(r.ts, t, <<m, p>>, data)
           us == Recorded(r.ts, t, name, record)
<1>1. r.ts = ts /\ r.said = said
  OBVIOUS
<1>2. \/ r.said # "nothing" /\ s = r
      \/ s = [r EXCEPT !.said = "used"]
      \/ s = [r EXCEPT !.said = "no type"]
      \/ r.said = "nothing" /\ ~Has(r.ts, t, name) /\ s = [r EXCEPT !.ts = us]
  BY Zenon DEF AddLeaf, Clash
<1>3. record.by = <<m, p>>
  BY DEF RecordOf
<1>4. ~Has(ts, t, name) => Adds(ts, Recorded(ts, t, name, record), t, {record.by})
  BY RecordedAdds
<1>5. us = Recorded(ts, t, name, record)
  BY <1>1
<1>6. s.said = "nothing"
  OBVIOUS
<1> HIDE DEF s, record, us, name
<1>7. [r EXCEPT !.said = "used"].said = "used"
      /\ [r EXCEPT !.said = "no type"].said = "no type"
      /\ [r EXCEPT !.ts = us].ts = us
  BY DEF r
<1> HIDE DEF r
<1>8. said = "nothing" /\ ~Has(ts, t, name) /\ s.ts = us
  BY <1>1, <1>2, <1>6, <1>7
<1> QED
  BY <1>3, <1>4, <1>5, <1>8 DEF s, r

(* Those of a description.                                                 *)
LeavesBy(k) == {<<m, Append(at, i)>> : i \in 1..k}

LEMMA LeavesAdd ==
    ASSUME NEW ts, AreTables(ts), AreNamed(ts), Where \in DOMAIN ts,
           Len(Here.ch) \in Nat, AddLeaves(ts).said = "nothing"
    PROVE  Adds(ts, AddLeaves(ts).ts, Where, LeavesBy(Len(Here.ch)))
<1> DEFINE n == Len(Here.ch)
           added == CHOOSE f : LeavesTo(f, ts, n)
<1>1. AddLeaves(ts) = added[n]
  BY DEF AddLeaves, LeavesTo
<1>2. LeavesTo(added, ts, n)
  BY LeavesExist
<1> HIDE DEF added
<1>3. added[0] = [ts |-> ts, said |-> "nothing"]
      /\ \A k \in 1..n : added[k] = AddLeaf(added[k - 1], Where, Append(at, k))
  BY <1>2, LeavesAre
<1> DEFINE Good(r, k) == /\ r = [ts |-> r.ts, said |-> r.said] /\ Alike(ts, r.ts)
                         /\ r.said = "nothing" => Adds(ts, r.ts, Where, LeavesBy(k))
           S == {k \in Nat : k <= n => Good(added[k], k)}
<1>4. 0 \in S
  <2>1. LeavesBy(0) = {}
    BY DEF LeavesBy
  <2>2. added[0].ts = ts /\ added[0].said = "nothing"
    BY <1>3
  <2>3. Adds(ts, ts, Where, LeavesBy(0))
    BY <2>1, AddsNothing
  <2> QED
    BY <1>3, <2>2, <2>3, AlikeItself
<1>5. ASSUME NEW k \in S PROVE k + 1 \in S
  <2> SUFFICES ASSUME k + 1 <= n PROVE Good(added[k + 1], k + 1)
    OBVIOUS
  <2> DEFINE r == added[k]
             p == Append(at, k + 1)
             s == AddLeaf(r, Where, p)
  <2>1. Good(r, k)
    OBVIOUS
  <2>2. k + 1 \in 1..n /\ (k + 1) - 1 = k
    OBVIOUS
  <2>3. added[k + 1] = s
    BY <1>3, <2>2
  <2>4. /\ r = [ts |-> r.ts, said |-> r.said] /\ Alike(ts, r.ts)
        /\ r.said = "nothing" => Adds(ts, r.ts, Where, LeavesBy(k))
    BY <2>1
  <2> HIDE DEF r, p
  <2>5. s = [ts |-> s.ts, said |-> s.said] /\ Alike(ts, s.ts)
    BY <2>4, LeafIsAlike
  <2>6. ASSUME s.said = "nothing" PROVE Adds(ts, s.ts, Where, LeavesBy(k + 1))
    <3>1. AreTables(r.ts) /\ Where \in DOMAIN r.ts
      BY <2>4 DEF Alike
    <3> DEFINE us == r.ts
               said == r.said
    <3>2. r = [ts |-> us, said |-> said]
      BY <2>4
    <3> HIDE DEF us, said
    <3>3. AddLeaf([ts |-> us, said |-> said], Where, p).said = "nothing"
      BY <2>6, <3>2
    <3>4. said = "nothing"
          /\ Adds(us, AddLeaf([ts |-> us, said |-> said], Where, p).ts, Where, {<<m, p>>})
      BY <3>1, <3>3, LeafAdds DEF us
    <3>5. Adds(us, s.ts, Where, {<<m, p>>})
      BY <3>2, <3>4
    <3>6. Adds(ts, us, Where, LeavesBy(k))
      BY <2>4, <3>4 DEF us, said
    <3>7. Adds(ts, s.ts, Where, LeavesBy(k) \cup {<<m, p>>})
      BY <3>5, <3>6, AddsMore
    <3>8. LeavesBy(k + 1) = LeavesBy(k) \cup {<<m, p>>}
      <4>1. 1..(k + 1) = 1..k \cup {k + 1}
        OBVIOUS
      <4> QED
        BY <4>1 DEF LeavesBy, p
    <3> QED
      BY <3>7, <3>8
  <2> HIDE DEF s
  <2> QED
    BY <2>3, <2>5, <2>6
<1> HIDE DEF Good
<1>6. S = Nat
  BY <1>4, <1>5, EveryNumber
<1>7. Good(added[n], n)
  BY <1>6
<1> QED
  BY <1>1, <1>7 DEF Good

(* A record with another verdict, or with other tables.                    *)
LEMMA ChangedRecord ==
    ASSUME NEW r, r = [ts |-> r.ts, ok |-> r.ok], NEW ok, NEW us
    PROVE  /\ [r EXCEPT !.ok = ok] = [ts |-> r.ts, ok |-> ok]
           /\ [r EXCEPT !.ts = us] = [ts |-> us, ok |-> r.ok]
<1> DEFINE x == r.ts
           y == r.ok
<1>1. r = [ts |-> x, ok |-> y]
  OBVIOUS
<1> HIDE DEF x, y
<1>2. /\ [r EXCEPT !.ok = ok] = [ts |-> x, ok |-> ok]
      /\ [r EXCEPT !.ts = us] = [ts |-> us, ok |-> y]
  BY <1>1
<1> QED
  BY <1>2 DEF x, y

(* The arguments of a function, but for a foreign one.                     *)
ArgumentsBy(k) == {ArgumentAt(i) : i \in 1..k}

LEMMA ArgumentAdds ==
    ASSUME NEW r, r = [ts |-> r.ts, ok |-> r.ok], AreTables(r.ts),
           Where \in DOMAIN r.ts, NEW i, AddArgument(r, i).ok
    PROVE  LET s == AddArgument(r, i)
           IN  /\ r.ok
               /\ Here.ty = "foreign" => s = r
               /\ Here.ty # "foreign" => Adds(r.ts, s.ts, Where, {ArgumentAt(i)})
<1> DEFINE s == AddArgument(r, i)
           name == Arguments[i].name
           record == [by |-> ArgumentAt(i), data |-> ArgumentTypes[i],
                      node |-> IF ArgumentTypes[i].is = "defined"
                               THEN Lookup(r.ts, cur, Arguments[i].ty).node
                               ELSE ArgumentAt(i)]
           us == Recorded(r.ts, Where, name, record)
<1>1. \/ ~r.ok /\ s = r
      \/ r.ok /\ Here.ty = "foreign" /\ s = r
      \/ s = [r EXCEPT !.ok = FALSE]
      \/ /\ r.ok /\ Here.ty # "foreign" /\ ~Has(r.ts, Where, name)
         /\ s = [r EXCEPT !.ts = us]
  BY Zenon DEF AddArgument, Clash
<1>2. record.by = ArgumentAt(i)
  OBVIOUS
<1>3. s.ok
  OBVIOUS
<1> HIDE DEF s, record, name
<1>4. ~Has(r.ts, Where, name) => Adds(r.ts, us, Where, {record.by})
  BY RecordedAdds
<1> HIDE DEF us
<1>5. [r EXCEPT !.ok = FALSE].ok = FALSE /\ [r EXCEPT !.ts = us].ts = us
  <2>1. /\ [r EXCEPT !.ok = FALSE] = [ts |-> r.ts, ok |-> FALSE]
        /\ [r EXCEPT !.ts = us] = [ts |-> us, ok |-> r.ok]
    BY ChangedRecord
  <2> QED
    BY <2>1
<1>6. \/ r.ok /\ Here.ty = "foreign" /\ s = r
      \/ r.ok /\ Here.ty # "foreign" /\ ~Has(r.ts, Where, name) /\ s.ts = us
  BY <1>1, <1>3, <1>5, Zenon
<1> QED
  BY <1>2, <1>4, <1>6 DEF s

LEMMA ArgumentsAdd ==
    ASSUME NEW ts, AreTables(ts), AreNamed(ts), Where \in DOMAIN ts,
           at \in Seq(Nat), Len(Arguments) \in Nat, AddArguments(ts).ok
    PROVE  Adds(ts, AddArguments(ts).ts, Where,
                IF Here.ty = "foreign" THEN {} ELSE ArgumentsBy(Len(Arguments)))
<1> DEFINE n == Len(Arguments)
           added == CHOOSE f : ArgumentsTo(f, ts, n)
           By(k) == IF Here.ty = "foreign" THEN {} ELSE ArgumentsBy(k)
<1>1. AddArguments(ts) = added[n]
  BY DEF AddArguments, ArgumentsTo
<1>2. ArgumentsTo(added, ts, n)
  BY ArgumentsExist
<1> HIDE DEF added
<1>3. added[0] = [ts |-> ts, ok |-> TRUE]
      /\ \A k \in 1..n : added[k] = AddArgument(added[k - 1], k)
  BY <1>2, ArgumentsAre
<1> DEFINE Good(r, k) == /\ r = [ts |-> r.ts, ok |-> r.ok]
                         /\ r.ok => Adds(ts, r.ts, Where, By(k))
           S == {k \in Nat : k <= n => Good(added[k], k)}
<1>4. 0 \in S
  <2>1. By(0) = {}
    BY DEF ArgumentsBy
  <2>2. added[0].ts = ts /\ added[0].ok = TRUE
    BY <1>3
  <2> HIDE DEF By
  <2>3. Adds(ts, ts, Where, By(0))
    BY <2>1, AddsNothing
  <2> QED
    BY <1>3, <2>2, <2>3
<1>5. ASSUME NEW k \in S PROVE k + 1 \in S
  <2> SUFFICES ASSUME k + 1 <= n PROVE Good(added[k + 1], k + 1)
    OBVIOUS
  <2> DEFINE r == added[k]
             i == k + 1
             s == AddArgument(r, i)
  <2>1. Good(r, k)
    OBVIOUS
  <2>2. i \in 1..n /\ i - 1 = k
    OBVIOUS
  <2>3. added[i] = s
    BY <1>3, <2>2
  <2>4. r = [ts |-> r.ts, ok |-> r.ok] /\ (r.ok => Adds(ts, r.ts, Where, By(k)))
    BY <2>1
  <2>5. By(k + 1) = IF Here.ty = "foreign" THEN By(k) ELSE By(k) \cup {ArgumentAt(i)}
    <3>1. 1..(k + 1) = 1..k \cup {k + 1}
      OBVIOUS
    <3> QED
      BY <3>1 DEF ArgumentsBy
  <2> HIDE DEF r, i, By
  <2>6. s = [ts |-> s.ts, ok |-> s.ok]
    <3> DEFINE name == Arguments[i].name
               record == [by |-> ArgumentAt(i), data |-> ArgumentTypes[i],
                          node |-> IF ArgumentTypes[i].is = "defined"
                                   THEN Lookup(r.ts, cur, Arguments[i].ty).node
                                   ELSE ArgumentAt(i)]
               us == Recorded(r.ts, Where, name, record)
    <3>1. \/ s = r
          \/ s = [r EXCEPT !.ok = FALSE]
          \/ s = [r EXCEPT !.ts = us]
      BY Zenon DEF AddArgument
    <3> HIDE DEF s, us
    <3>2. /\ [r EXCEPT !.ok = FALSE] = [ts |-> r.ts, ok |-> FALSE]
          /\ [r EXCEPT !.ts = us] = [ts |-> us, ok |-> r.ok]
      BY <2>4, ChangedRecord
    <3>3. \E x, y : s = [ts |-> x, ok |-> y]
      BY <2>4, <3>1, <3>2
    <3>4. PICK x, y : s = [ts |-> x, ok |-> y]
      BY <3>3
    <3>5. s.ts = x /\ s.ok = y
      BY <3>4
    <3> QED
      BY <3>4, <3>5
  <2>7. ASSUME s.ok PROVE Adds(ts, s.ts, Where, By(k + 1))
    <3>1. AreTables(r.ts) /\ Where \in DOMAIN r.ts
      <4>1. CASE r.ok
        BY <2>4, <4>1 DEF Adds
      <4>2. CASE ~r.ok
        <5>1. s = r
          BY <4>2 DEF AddArgument
        <5> QED
          BY <2>7, <4>2, <5>1
      <4> QED
        BY <4>1, <4>2
    <3>2. /\ r.ok
          /\ Here.ty = "foreign" => s = r
          /\ Here.ty # "foreign" => Adds(r.ts, s.ts, Where, {ArgumentAt(i)})
      BY <2>4, <2>7, <3>1, ArgumentAdds
    <3>3. Adds(ts, r.ts, Where, By(k))
      BY <2>4, <3>2
    <3> HIDE DEF s
    <3>4. CASE Here.ty = "foreign"
      BY <2>5, <3>2, <3>3, <3>4
    <3>5. CASE Here.ty # "foreign"
      <4>1. Adds(ts, s.ts, Where, By(k) \cup {ArgumentAt(i)})
        BY <3>2, <3>3, <3>5, AddsMore
      <4> QED
        BY <2>5, <3>5, <4>1
    <3> QED
      BY <3>4, <3>5
  <2> HIDE DEF s
  <2> QED
    BY <2>3, <2>6, <2>7 DEF i
<1> HIDE DEF Good
<1>6. S = Nat
  BY <1>4, <1>5, EveryNumber
<1>7. Good(added[n], n)
  BY <1>6
<1> QED
  BY <1>1, <1>7 DEF Good

-----------------------------------------------------------------------------
(* What a step enters.                                                     *)

(* What the callback at the node the walk is at should enter, and a step   *)
(* that does.                                                              *)
EntersHere(t, by) == \E p \in Paths(m) : by = <<m, p>> /\ Enters(stage, m, at, t, p)
Records == \A t, by : Kept(tables', t, by) <=> Kept(tables, t, by) \/ EntersHere(t, by)

LEMMA PlacesBelow ==
    ASSUME PlaceInv
    PROVE  /\ \A i \in Kids(prog[m].tree, at) : Append(at, i) \in Paths(m)
           /\ Kind(m, at) \in {"fndecl", "vardecl", "for"} =>
                1 \in Kids(prog[m].tree, at)
           /\ Kind(m, at) = "fndecl" =>
                /\ Len(Arguments) \in Nat
                /\ Kids(prog[m].tree, Append(at, 1)) = 1..Len(Arguments)
                /\ \A i \in Kids(prog[m].tree, Append(at, 1)) :
                    /\ Append(Append(at, 1), i) \in Paths(m)
                    /\ ArgumentAt(i) = <<m, Append(Append(at, 1), i)>>
<1>1. /\ prog \in Programs /\ m \in DOMAIN prog /\ at \in Paths(m)
      /\ at \in Seq(Nat) /\ IsTree(prog[m].tree) /\ MaxDepth \in Nat
  BY PlaceIs
<1>2. \A i \in Kids(prog[m].tree, at) : Append(at, i) \in Paths(m)
  BY <1>1, NodeBelowHere
<1>3. Kind(m, at) \in {"fndecl", "vardecl", "for"} => 1 \in Kids(prog[m].tree, at)
  BY <1>1, NodeHere
<1>4. ASSUME Kind(m, at) = "fndecl"
      PROVE  /\ Len(Arguments) \in Nat
             /\ Kids(prog[m].tree, Append(at, 1)) = 1..Len(Arguments)
             /\ \A i \in Kids(prog[m].tree, Append(at, 1)) :
                    /\ Append(Append(at, 1), i) \in Paths(m)
                    /\ ArgumentAt(i) = <<m, Append(Append(at, 1), i)>>
  <2>1. PICK a \in Paths(m) : a = Append(at, 1)
    BY <1>2, <1>3, <1>4
  <2>2. Arguments = NodeOf(prog[m].tree, a).ch
    BY <2>1 DEF Arguments, Children, Node
  <2>3. Len(Arguments) \in Nat /\ Kids(prog[m].tree, a) = 1..Len(Arguments)
    <3>1. a \in PathsOf(prog[m].tree)
      BY DEF Paths
    <3>2. Len(NodeOf(prog[m].tree, a).ch) \in Nat
      BY <1>1, <3>1, ChildrenOfANode
    <3> QED
      BY <2>2, <3>2 DEF Kids
  <2>4. ASSUME NEW i \in Kids(prog[m].tree, a)
        PROVE  Append(a, i) \in Paths(m) /\ ArgumentAt(i) = <<m, Append(a, i)>>
    <3>1. Append(a, i) \in Paths(m) /\ i \in Nat
      BY <1>1, NodeBelowHere
    <3>2. at \o <<1, i>> = Append(a, i)
      BY <1>1, <2>1, <3>1
    <3> QED
      BY <3>1, <3>2 DEF ArgumentAt
  <2> QED
    BY <2>1, <2>3, <2>4
<1> QED
  BY <1>2, <1>3, <1>4

(* What is entered on the way down in the first walk.                      *)
EntersNames(t, by) ==
    \/ Here.k \in {"module", "typedecl", "fndecl"} /\ t = cur /\ by = Where
    \/ Here.k = "vardecl" /\ t = cur /\ by = <<m, Append(at, 1)>>
    \/ Here.k = "typedesc" /\ t = Where /\ by \in LeavesBy(Len(Here.ch))
    \/ /\ Here.k = "fndecl" /\ Here.ty # "foreign" /\ t = Where
       /\ by \in ArgumentsBy(Len(Arguments))

LEMMA EntersInDeclare ==
    ASSUME PlaceInv, stage = "declare", cur = Outer(m, at), NEW t, NEW by
    PROVE  EntersHere(t, by) <=> EntersNames(t, by)
<1>1. /\ at \in Paths(m) /\ Here.k = Kind(m, at) /\ Here = Node(m, at)
      /\ Kids(prog[m].tree, at) = 1..Len(Here.ch)
  BY PlaceIs
<1>2. /\ \A i \in Kids(prog[m].tree, at) : Append(at, i) \in Paths(m)
      /\ Kind(m, at) \in {"fndecl", "vardecl", "for"} => 1 \in Kids(prog[m].tree, at)
  BY PlacesBelow
<1>3. Kind(m, at) = "fndecl" =>
        /\ Kids(prog[m].tree, Append(at, 1)) = 1..Len(Arguments)
        /\ \A i \in Kids(prog[m].tree, Append(at, 1)) :
            /\ Append(Append(at, 1), i) \in Paths(m)
            /\ ArgumentAt(i) = <<m, Append(Append(at, 1), i)>>
  BY PlacesBelow
<1>4. ASSUME EntersHere(t, by) PROVE EntersNames(t, by)
  <2>1. PICK p \in Paths(m) : by = <<m, p>> /\ Enters("declare", m, at, t, p)
    BY <1>4 DEF EntersHere
  <2>2. CASE Kind(m, at) \in {"module", "fndecl", "typedecl"} /\ p = at /\ t = Outer(m, at)
    BY <1>1, <2>1, <2>2 DEF EntersNames, Where
  <2>3. CASE Kind(m, at) = "vardecl" /\ p = Append(at, 1) /\ t = Outer(m, at)
    BY <1>1, <2>1, <2>3 DEF EntersNames
  <2>4. CASE /\ Kind(m, at) = "typedesc" /\ t = <<m, at>>
             /\ \E i \in Kids(prog[m].tree, at) : p = Append(at, i)
    <3>1. by \in LeavesBy(Len(Here.ch))
      BY <1>1, <2>1, <2>4 DEF LeavesBy
    <3> QED
      BY <1>1, <2>4, <3>1 DEF EntersNames, Where
  <2>5. CASE /\ Kind(m, at) = "fndecl" /\ Node(m, at).ty # "foreign" /\ t = <<m, at>>
             /\ \E i \in Kids(prog[m].tree, Append(at, 1)) : p = Append(Append(at, 1), i)
    <3>1. PICK i \in Kids(prog[m].tree, Append(at, 1)) : p = Append(Append(at, 1), i)
      BY <2>5
    <3>2. by = ArgumentAt(i) /\ i \in 1..Len(Arguments)
      BY <1>3, <2>1, <2>5, <3>1
    <3>3. by \in ArgumentsBy(Len(Arguments))
      BY <3>2 DEF ArgumentsBy
    <3> QED
      BY <1>1, <2>5, <3>3 DEF EntersNames, Where
  <2> QED
    BY <2>1, <2>2, <2>3, <2>4, <2>5 DEF Enters
<1>5. ASSUME EntersNames(t, by) PROVE EntersHere(t, by)
  <2>1. \E p \in Paths(m) : by = <<m, p>> /\ Enters("declare", m, at, t, p)
    <3>1. CASE Here.k \in {"module", "typedecl", "fndecl"} /\ t = cur /\ by = Where
      BY <1>1, <3>1 DEF Enters, Where
    <3>2. CASE Here.k = "vardecl" /\ t = cur /\ by = <<m, Append(at, 1)>>
      <4>1. Append(at, 1) \in Paths(m)
        BY <1>1, <1>2, <3>2
      <4> QED
        BY <1>1, <3>2, <4>1 DEF Enters
    <3>3. CASE Here.k = "typedesc" /\ t = Where /\ by \in LeavesBy(Len(Here.ch))
      <4>1. PICK i \in Kids(prog[m].tree, at) : by = <<m, Append(at, i)>>
        BY <1>1, <3>3 DEF LeavesBy
      <4>2. Append(at, i) \in Paths(m)
        BY <1>2
      <4> QED
        BY <1>1, <3>3, <4>1, <4>2 DEF Enters, Where
    <3>4. CASE /\ Here.k = "fndecl" /\ Here.ty # "foreign" /\ t = Where
               /\ by \in ArgumentsBy(Len(Arguments))
      <4>1. PICK i \in 1..Len(Arguments) : by = ArgumentAt(i)
        BY <3>4 DEF ArgumentsBy
      <4>2. /\ i \in Kids(prog[m].tree, Append(at, 1))
            /\ Append(Append(at, 1), i) \in Paths(m)
            /\ by = <<m, Append(Append(at, 1), i)>>
        BY <1>1, <1>3, <3>4, <4>1
      <4>3. Enters("declare", m, at, t, Append(Append(at, 1), i))
        BY <1>1, <3>4, <4>2 DEF Enters, Where
      <4> QED
        BY <4>2, <4>3
    <3> QED
      BY <1>5, <3>1, <3>2, <3>3, <3>4 DEF EntersNames
  <2> QED
    BY <2>1 DEF EntersHere
<1> QED
  BY <1>4, <1>5

(* In the second one.                                                      *)
LEMMA EntersInCheck ==
    ASSUME PlaceInv, stage = "check", NEW t, NEW by
    PROVE  EntersHere(t, by)
           <=> Here.k = "for" /\ t = Where /\ by = <<m, Append(at, 1)>>
<1>1. Here.k = Kind(m, at)
  BY PlaceIs
<1>2. Here.k = "for" => Append(at, 1) \in Paths(m)
  BY <1>1, PlacesBelow
<1>3. \A p : Enters("check", m, at, t, p)
             <=> Here.k = "for" /\ t = Where /\ p = Append(at, 1)
  BY <1>1 DEF Enters, Where
<1> QED
  BY <1>2, <1>3 DEF EntersHere

(* Every step down in the first walk enters what it should; a halt leaves  *)
(* the tables, and the assertion stops only a function with a taken name.  *)
HaltsKeeping ==
    /\ Halts /\ tables' = tables
    /\ stage' = "asserted" => Here.k = "fndecl" /\ Has(tables, cur, Here.name)

LEMMA FailKeeps ==
    ASSUME GoesDown \/ Halts, NEW how, NEW errs, Fail(how, errs),
           how \in {"failed", "asserted"},
           how = "asserted" => Here.k = "fndecl" /\ Has(tables, cur, Here.name)
    PROVE  HaltsKeeping
<1>1. stage' = how /\ tables' = tables
  BY DEF Fail
<1>2. Halts
  BY <1>1 DEF GoesDown, Walking
<1> QED
  BY <1>1, <1>2 DEF HaltsKeeping

LEMMA NewTableKeeps ==
    ASSUME Ready, Where \notin DOMAIN tables
    PROVE  LET ts == Extended(tables, Where, NewTable(m))
           IN  /\ AreTables(ts) /\ AreNamed(ts)
               /\ Where \in DOMAIN ts /\ cur \in DOMAIN ts
               /\ ts[cur] = tables[cur]
               /\ \A u, by : Kept(ts, u, by) <=> Kept(tables, u, by)
<1>1. /\ AreTables(tables) /\ AreNamed(tables) /\ cur \in DOMAIN tables /\ cur # Where
      /\ Where[1] = m
  BY DEF Ready, Where
<1> DEFINE ts == Extended(tables, Where, NewTable(m))
<1>2. /\ AreTables(ts) /\ AreNamed(ts) /\ DOMAIN ts = DOMAIN tables \cup {Where}
      /\ \A u \in DOMAIN tables : u # Where => ts[u] = tables[u]
  BY <1>1, ExtendedTables
<1>3. \A u, by : Kept(ts, u, by) <=> Kept(tables, u, by)
  BY <1>1, ExtendedKeeps
<1> HIDE DEF ts
<1>4. Where \in DOMAIN ts /\ cur \in DOMAIN ts /\ ts[cur] = tables[cur]
  BY <1>1, <1>2
<1> QED
  BY <1>2, <1>3, <1>4 DEF ts

LEMMA FunctionRecords ==
    ASSUME Ready, Where \notin DOMAIN tables, Here.k = "fndecl",
           ~Has(tables, cur, Here.name), NEW added,
           added = AddArguments(Extended(tables, Where, NewTable(m))), added.ok,
           NEW record, record.by = Where, NEW us,
           us = SwapTo(Recorded(added.ts, cur, Here.name, record), Where, Where),
           NEW t, NEW by
    PROVE  Kept(us, t, by) <=> Kept(tables, t, by) \/ EntersNames(t, by)
<1> DEFINE ts == Extended(tables, Where, NewTable(m))
           vs == Recorded(added.ts, cur, Here.name, record)
           By == IF Here.ty = "foreign" THEN {} ELSE ArgumentsBy(Len(Arguments))
<1>1. /\ AreTables(ts) /\ AreNamed(ts)
      /\ Where \in DOMAIN ts /\ cur \in DOMAIN ts /\ ts[cur] = tables[cur]
      /\ \A u, b : Kept(ts, u, b) <=> Kept(tables, u, b)
  BY NewTableKeeps
<1>2. added = AddArguments(ts)
  OBVIOUS
<1> HIDE DEF ts
<1>3. at \in Seq(Nat) /\ Len(Arguments) \in Nat /\ cur # Where
  BY DEF Ready
<1>4. Adds(ts, added.ts, Where, By)
  BY <1>1, <1>2, <1>3, ArgumentsAdd
<1> HIDE DEF By
<1>5. /\ AreTables(added.ts) /\ cur \in DOMAIN added.ts /\ Where \in DOMAIN added.ts
      /\ added.ts[cur] = tables[cur]
      /\ Kept(added.ts, t, by) <=> Kept(tables, t, by) \/ (t = Where /\ by \in By)
  BY <1>1, <1>3, <1>4 DEF Adds
<1>6. ~Has(added.ts, cur, Here.name)
  BY <1>5 DEF Has
<1>7. Adds(added.ts, vs, cur, {record.by})
  BY <1>5, <1>6, RecordedAdds
<1>8. us = SwapTo(vs, Where, Where)
  OBVIOUS
<1> HIDE DEF vs
<1>9. /\ AreTables(vs) /\ Where \in DOMAIN vs
      /\ Kept(vs, t, by) <=> Kept(added.ts, t, by) \/ (t = cur /\ by = Where)
  BY <1>5, <1>7 DEF Adds
<1>10. Kept(us, t, by) <=> Kept(vs, t, by)
  BY <1>8, <1>9, SwapKeeps
<1>11. EntersNames(t, by)
       <=> (t = cur /\ by = Where) \/ (t = Where /\ by \in By)
  BY DEF EntersNames, By
<1> QED
  BY <1>5, <1>9, <1>10, <1>11

LEMMA DescriptionRecords ==
    ASSUME Ready, Where \notin DOMAIN tables, Here.k = "typedesc", NEW filled,
           filled = AddLeaves(SwapTo(Extended(tables, Where, NewTable(m)),
                                     Where, NoWhere)),
           filled.said = "nothing", NEW t, NEW by
    PROVE  Kept(filled.ts, t, by) <=> Kept(tables, t, by) \/ EntersNames(t, by)
<1> DEFINE ts == Extended(tables, Where, NewTable(m))
           us == SwapTo(ts, Where, NoWhere)
<1>1. /\ AreTables(ts) /\ AreNamed(ts) /\ Where \in DOMAIN ts
      /\ \A u, b : Kept(ts, u, b) <=> Kept(tables, u, b)
  BY NewTableKeeps
<1> HIDE DEF ts
<1>2. AreTables(us) /\ AreNamed(us) /\ DOMAIN us = DOMAIN ts
  BY <1>1, SwappedTables
<1>3. \A u, b : Kept(us, u, b) <=> Kept(ts, u, b)
  BY <1>1, SwapKeeps
<1>4. filled = AddLeaves(us)
  BY DEF ts
<1>5. Len(Here.ch) \in Nat
  BY DEF Ready
<1> HIDE DEF us
<1>6. Adds(us, filled.ts, Where, LeavesBy(Len(Here.ch)))
  BY <1>1, <1>2, <1>4, <1>5, LeavesAdd
<1>7. Kept(filled.ts, t, by)
      <=> Kept(us, t, by) \/ (t = Where /\ by \in LeavesBy(Len(Here.ch)))
  BY <1>6 DEF Adds
<1>8. EntersNames(t, by) <=> t = Where /\ by \in LeavesBy(Len(Here.ch))
  BY DEF EntersNames
<1> QED
  BY <1>1, <1>3, <1>7, <1>8

(* A record of the node itself in the current table.                       *)
LEMMA OwnNameRecords ==
    ASSUME Ready, Here.k \in {"module", "typedecl"}, ~Has(tables, cur, Here.name),
           NEW record, record.by = Where, NEW us,
           us = Recorded(tables, cur, Here.name, record), NEW t, NEW by
    PROVE  /\ AreTables(us) /\ DOMAIN us = DOMAIN tables
           /\ Kept(us, t, by) <=> Kept(tables, t, by) \/ EntersNames(t, by)
<1>1. AreTables(tables) /\ cur \in DOMAIN tables
  BY DEF Ready
<1>2. Adds(tables, us, cur, {Where})
  BY <1>1, RecordedAdds
<1>3. EntersNames(t, by) <=> t = cur /\ by = Where
  BY DEF EntersNames
<1> QED
  BY <1>2, <1>3 DEF Adds

LEMMA DeclaringRecords ==
    ASSUME PlaceInv, Ready, cur = Outer(m, at),
           at # <<>> => Where \notin DOMAIN tables,
           \/ DeclareScope \/ DeclareModule \/ DeclareFunction
           \/ DeclareDescription \/ DeclareVariable \/ DeclareType \/ DeclareOther
    PROVE  (GoesDown /\ Records) \/ HaltsKeeping
<1>1. GoesDown \/ Halts
  BY DeclaringIsAMove
<1>2. /\ prog \in Programs /\ m \in DOMAIN prog /\ at \in Paths(m)
      /\ Here.k = Kind(m, at)
  BY PlaceIs
<1>3. Here.k \notin {"root", "module"} => Where \notin DOMAIN tables
  BY <1>2, NodeHere
<1>4. stage = "declare"
  BY DEF DeclareScope, DeclareModule, DeclareFunction, DeclareDescription,
         DeclareVariable, DeclareType, DeclareOther, Declaring
<1>5. \A t, by : EntersHere(t, by) <=> EntersNames(t, by)
  BY <1>4, EntersInDeclare
<1>6. ASSUME stage' = stage,
             \A t, by : Kept(tables', t, by) <=> Kept(tables, t, by) \/ EntersNames(t, by)
      PROVE  GoesDown /\ Records
  <2>1. ~Halts
    BY <1>4, <1>6 DEF Halts
  <2> QED
    BY <1>1, <1>5, <1>6, <2>1 DEF Records
<1>7. CASE DeclareScope
  <2> DEFINE ts == Extended(tables, Where, NewTable(m))
  <2>1. /\ stage' = stage /\ Here.k \in {"block", "for"}
        /\ tables' = SwapTo(ts, Where, NoWhere)
    BY <1>7 DEF DeclareScope, Declaring
  <2>2. /\ AreTables(ts) /\ Where \in DOMAIN ts
        /\ \A u, by : Kept(ts, u, by) <=> Kept(tables, u, by)
    BY <1>3, <2>1, NewTableKeeps
  <2> HIDE DEF ts
  <2>3. \A t, by : Kept(tables', t, by) <=> Kept(ts, t, by)
    BY <2>1, <2>2, SwapKeeps
  <2>4. \A t, by : ~EntersNames(t, by)
    BY <2>1 DEF EntersNames
  <2> QED
    BY <1>6, <2>1, <2>2, <2>3, <2>4
<1>8. CASE DeclareModule
  <2>1. Here.k = "module"
    BY <1>8 DEF DeclareModule, Declaring
  <2>2. CASE Has(tables, cur, Here.name)
    <3>1. Fail("failed", Said("used"))
      BY <1>8, <2>2 DEF DeclareModule
    <3> QED
      BY <1>1, <3>1, FailKeeps
  <2>3. CASE ~Has(tables, cur, Here.name)
    <3>1. PICK record : /\ record = RecordOf(tables, cur, Where, Type("module", Where))
                        /\ tables' = SwapTo(Recorded(tables, cur, Here.name, record),
                                            Where, NoWhere)
      BY <1>8, <2>3 DEF DeclareModule
    <3>2. stage' = stage
      BY <1>8, <2>3 DEF DeclareModule
    <3>3. record.by = Where
      BY <3>1 DEF RecordOf
    <3> DEFINE us == Recorded(tables, cur, Here.name, record)
    <3>4. tables' = SwapTo(us, Where, NoWhere)
      BY <3>1
    <3>5. /\ AreTables(us) /\ DOMAIN us = DOMAIN tables
          /\ \A t, by : Kept(us, t, by) <=> Kept(tables, t, by) \/ EntersNames(t, by)
      BY <2>1, <2>3, <3>3, OwnNameRecords
    <3> HIDE DEF us
    <3>6. Where \in DOMAIN us
      BY <2>1, <3>5 DEF Ready
    <3>7. \A t, by : Kept(tables', t, by) <=> Kept(us, t, by)
      BY <3>4, <3>5, <3>6, SwapKeeps
    <3> QED
      BY <1>6, <3>2, <3>5, <3>7
  <2> QED
    BY <2>2, <2>3
<1>9. CASE DeclareFunction
  <2>1. PICK added, known, types :
          /\ added = AddArguments(Extended(tables, Where, NewTable(m)))
          /\ IF known.data.is = "function"
             THEN Fail("failed", Said("function exists"))
             ELSE IF Has(tables, cur, Here.name)
             THEN Fail("asserted", {})
             ELSE IF NoType \in types \/ ~added.ok
             THEN Fail("failed", Said("no type, or an argument twice"))
             ELSE /\ tables' = SwapTo(Recorded(added.ts, cur, Here.name,
                                RecordOf(added.ts, cur, Where, Type("function", Where))),
                             Where, Where)
                  /\ UNCHANGED <<prog, stage, m, errors, found, lost>>
    BY <1>9 DEF DeclareFunction
  <2>2. Here.k = "fndecl"
    BY <1>9 DEF DeclareFunction, Declaring
  <2>3. CASE \E what : Fail("failed", Said(what))
    BY <1>1, <2>3, FailKeeps
  <2>4. CASE Has(tables, cur, Here.name) /\ Fail("asserted", {})
    BY <1>1, <2>2, <2>4, FailKeeps
  <2>5. CASE /\ ~Has(tables, cur, Here.name) /\ added.ok /\ stage' = stage
             /\ tables' = SwapTo(Recorded(added.ts, cur, Here.name,
                                RecordOf(added.ts, cur, Where, Type("function", Where))),
                             Where, Where)
    <3> DEFINE record == RecordOf(added.ts, cur, Where, Type("function", Where))
    <3>1. record.by = Where
      BY DEF RecordOf
    <3>2. PICK us : us = tables'
      OBVIOUS
    <3>3. us = SwapTo(Recorded(added.ts, cur, Here.name, record), Where, Where)
      BY <2>5, <3>2
    <3> HIDE DEF record
    <3>4. Where \notin DOMAIN tables /\ added.ok /\ ~Has(tables, cur, Here.name)
      BY <1>3, <2>2, <2>5
    <3>5. \A t, by : Kept(us, t, by) <=> Kept(tables, t, by) \/ EntersNames(t, by)
      BY <2>1, <2>2, <3>1, <3>3, <3>4, FunctionRecords
    <3> QED
      BY <1>6, <2>5, <3>2, <3>5
  <2> QED
    BY <2>1, <2>3, <2>4, <2>5
<1>10. CASE DeclareDescription
  <2>1. PICK swapped, filled :
          /\ swapped = SwapTo(Extended(tables, Where, NewTable(m)), Where, NoWhere)
          /\ filled = AddLeaves(swapped)
          /\ IF filled.said # "nothing" THEN Fail("failed", Said(filled.said))
             ELSE tables' = filled.ts /\ stage' = stage
    BY <1>10 DEF DeclareDescription
  <2>2. Here.k = "typedesc"
    BY <1>10 DEF DeclareDescription, Declaring
  <2>3. CASE filled.said # "nothing"
    <3>1. Fail("failed", Said(filled.said))
      BY <2>1, <2>3
    <3> QED
      BY <1>1, <3>1, FailKeeps
  <2>4. CASE filled.said = "nothing"
    <3>1. Where \notin DOMAIN tables
      BY <1>3, <2>2
    <3>2. \A t, by : Kept(filled.ts, t, by) <=> Kept(tables, t, by) \/ EntersNames(t, by)
      BY <2>1, <2>2, <2>4, <3>1, DescriptionRecords
    <3> QED
      BY <1>6, <2>1, <2>4, <3>2
  <2> QED
    BY <2>3, <2>4
<1>11. CASE DeclareVariable
  <2> DEFINE p == Append(at, 1)
  <2>1. PICK added :
          /\ added = AddLeaf([ts |-> tables, said |-> "nothing"], cur, p)
          /\ IF added.said # "nothing" THEN Fail("failed", Said(added.said))
             ELSE tables' = added.ts /\ stage' = stage
    BY <1>11 DEF DeclareVariable
  <2>2. Here.k = "vardecl"
    BY <1>11 DEF DeclareVariable, Declaring
  <2> HIDE DEF p
  <2>3. CASE added.said # "nothing"
    <3>1. Fail("failed", Said(added.said))
      BY <2>1, <2>3
    <3> QED
      BY <1>1, <3>1, FailKeeps
  <2>4. CASE added.said = "nothing"
    <3>1. AreTables(tables) /\ cur \in DOMAIN tables
      BY DEF Ready
    <3>2. AddLeaf([ts |-> tables, said |-> "nothing"], cur, p).said = "nothing"
      BY <2>1, <2>4
    <3>3. Adds(tables, added.ts, cur, {<<m, p>>})
      BY <2>1, <3>1, <3>2, LeafAdds
    <3>4. \A t, by : EntersNames(t, by) <=> t = cur /\ by = <<m, p>>
      BY <2>2 DEF EntersNames, p
    <3>5. \A t, by : Kept(added.ts, t, by) <=> Kept(tables, t, by) \/ EntersNames(t, by)
      BY <3>3, <3>4 DEF Adds
    <3> QED
      BY <1>6, <2>1, <2>4, <3>5
  <2> QED
    BY <2>3, <2>4
<1>12. CASE DeclareType
  <2>1. Here.k = "typedecl"
    BY <1>12 DEF DeclareType, Declaring
  <2> DEFINE record == RecordOf(tables, cur, Where, Type("defined", Where))
  <2>2. \/ \E what : Fail("failed", Said(what))
        \/ /\ ~Has(tables, cur, Here.name) /\ stage' = stage
           /\ tables' = Recorded(tables, cur, Here.name, record)
    BY <1>12 DEF DeclareType, Clash
  <2>3. record.by = Where
    BY DEF RecordOf
  <2> HIDE DEF record
  <2>4. CASE \E what : Fail("failed", Said(what))
    BY <1>1, <2>4, FailKeeps
  <2>5. CASE /\ ~Has(tables, cur, Here.name) /\ stage' = stage
             /\ tables' = Recorded(tables, cur, Here.name, record)
    <3>1. PICK us : us = tables'
      OBVIOUS
    <3>2. \A t, by : Kept(us, t, by) <=> Kept(tables, t, by) \/ EntersNames(t, by)
      BY <2>1, <2>3, <2>5, <3>1, OwnNameRecords
    <3> QED
      BY <1>6, <2>5, <3>1, <3>2
  <2> QED
    BY <2>2, <2>4, <2>5
<1>13. CASE DeclareOther
  <2>1. /\ stage' = stage /\ tables' = tables
        /\ Here.k \notin {"module", "typedecl", "fndecl", "vardecl", "typedesc"}
    BY <1>13 DEF DeclareOther, Declaring
  <2>2. \A t, by : ~EntersNames(t, by)
    BY <2>1 DEF EntersNames
  <2> QED
    BY <1>6, <2>1, <2>2
<1> QED
  BY <1>7, <1>8, <1>9, <1>10, <1>11, <1>12, <1>13

-----------------------------------------------------------------------------
(* The second walk.                                                        *)

(* What stands in a program is a number of a module.                       *)
LEMMA ModulesAre ==
    ASSUME prog \in Programs
    PROVE  Len(prog) \in Nat /\ DOMAIN prog = 1..Len(prog)
<1>1. prog \in Seq(Range(prog))
  BY ProgramsAreTrees DEF IsSeq
<1> QED
  BY <1>1

(* The table of a loop is the current one only for what stands in it, and  *)
(* that is its variable, what it is over and a block.                      *)
LEMMA NothingInLoops ==
    ASSUME prog \in Programs, NEW n \in DOMAIN prog, NEW p \in Paths(n),
           Kind(n, p) \notin {"loopvar", "iter", "block"},
           NEW k \in Nat \ {0}, NEW a, Kind(k, a) = "for"
    PROVE  Outer(n, p) # <<k, a>>
<1>1. /\ p \in Seq(Nat) /\ Kind(n, <<>>) \in {"root", "module"} /\ MaxDepth \in Nat
      /\ p \in PathsOf(prog[n].tree) /\ Paths(n) = PathsOf(prog[n].tree)
  BY SourceTree, NodeHere
<1>2. FileTable(n) # <<k, a>>
  BY DEF FileTable
<1>3. CASE p = <<>>
  BY <1>2, <1>3 DEF Outer
<1>4. CASE p # <<>>
  <2> DEFINE h == Longest(Holders(n, p))
  <2>1. <<>> \in Beginnings(p) \ {p}
    BY <1>1, <1>4, BeginningsNest
  <2>2. <<>> \in Holders(n, p)
    BY <1>1, <2>1 DEF Holders, Holds, Own
  <2>3. Holders(n, p) \in SUBSET Beginnings(p)
    BY DEF Holders
  <2>4. h \in Holders(n, p) /\ \A r \in Holders(n, p) : Len(r) <= Len(h)
    BY <1>1, <2>2, <2>3, LongestIs
  <2> HIDE DEF h
  <2>5. h \in Beginnings(p) /\ h # p
    BY <2>4 DEF Holders
  <2>6. /\ h \in Paths(n) /\ h \in Seq(Nat)
        /\ NextStep(p, h) \in Kids(prog[n].tree, h)
        /\ Append(h, NextStep(p, h)) \in Beginnings(p)
    BY <1>1, <2>5, StepOn
  <2>7. Kind(n, h) # "for"
    <3> SUFFICES ASSUME Kind(n, h) = "for" PROVE FALSE
      OBVIOUS
    <3>1. PICK i \in Kids(prog[n].tree, h) : i = NextStep(p, h)
      BY <2>6
    <3>2. PICK c : c = Append(h, i)
      OBVIOUS
    <3>3. c \in Paths(n) /\ Kind(n, c) \in {"loopvar", "iter", "block"}
      BY <2>6, <3>2, NodeBelowHere
    <3>4. c \in Beginnings(p) /\ c # p
      BY <2>6, <3>1, <3>2, <3>3
    <3>5. NextStep(p, c) \in Kids(prog[n].tree, c)
      BY <1>1, <3>4, StepOn
    <3>6. Kind(n, c) = "block"
      BY <3>3, <3>5, NodeHere
    <3>7. c \in Holders(n, p)
      BY <3>4, <3>6 DEF Holders, Holds, Own
    <3>8. Len(c) = Len(h) + 1 /\ Len(h) \in Nat
      <4>1. i \in Nat
        BY KidsAreNumbers
      <4> QED
        BY <2>6, <3>2, <4>1
    <3> QED
      BY <2>4, <3>7, <3>8
  <2>8. TableOf(n, h) # <<k, a>>
    <3>1. CASE Kind(n, h) = "root"
      BY <1>2, <3>1 DEF TableOf
    <3>2. CASE Kind(n, h) \in Lent
      <4>1. 1 \in Kids(prog[n].tree, h)
        BY <2>6, <3>2, NodeHere DEF Lent
      <4>2. PICK c : c = Append(h, 1)
        OBVIOUS
      <4>3. Kind(n, c) \in {"fndecl", "typedesc"}
        BY <2>6, <3>2, <4>1, <4>2, NodeBelowHere DEF Lent
      <4>4. TableOf(n, h) = <<n, c>>
        BY <3>2, <4>2 DEF TableOf, Lent
      <4>5. ~(n = k /\ c = a)
        BY <4>3
      <4> QED
        BY <4>4, <4>5
    <3>3. CASE Kind(n, h) \notin Lent \cup {"root"}
      BY <2>7, <3>3 DEF TableOf, Lent
    <3> QED
      BY <3>1, <3>2, <3>3
  <2> QED
    BY <1>4, <2>8 DEF Outer, h
<1> QED
  BY <1>3, <1>4

(* On the way down the callback of the node itself is still to come.       *)
LEMMA NotComeHere ==
    ASSUME PlaceInv, dir = "down"
    PROVE  ~Come(at)
<1>1. at \in Seq(Nat)
  BY PlaceIs
<1>2. ~LeftOf(at, at)
  BY <1>1 DEF LeftOf
<1> QED
  BY <1>2 DEF Come, Behind

(* The table of a loop that the second walk comes to is empty.             *)
LEMMA LoopIsEmpty ==
    ASSUME PlaceInv, LedgerInv, stage = "check", dir = "down",
           Here.k = "for", Where \in DOMAIN tables
    PROVE  DOMAIN tables[Where].recs = {}
<1> SUFFICES ASSUME NEW x \in DOMAIN tables[Where].recs PROVE FALSE
  OBVIOUS
<1>1. /\ prog \in Programs /\ m \in DOMAIN prog /\ at \in Paths(m)
      /\ m \in Nat \ {0} /\ Kind(m, at) = "for"
  BY PlaceIs
<1> DEFINE by == tables[Where].recs[x].by
<1>2. Kept(tables, Where, by)
  BY DEF Kept
<1> HIDE DEF by
<1>3. Due(Where, by)
  BY <1>2 DEF LedgerInv, Walking
<1>4. PICK s \in {"declare", "check"}, n \in DOMAIN prog :
        \E q, p \in Paths(n) :
            by = <<n, p>> /\ Enters(s, n, q, Where, p) /\ Told(s, n, q)
  BY <1>3 DEF Due
<1>5. PICK q \in Paths(n) : \E p \in Paths(n) :
            by = <<n, p>> /\ Enters(s, n, q, Where, p) /\ Told(s, n, q)
  BY <1>4
<1>6. PICK p \in Paths(n) : Enters(s, n, q, Where, p) /\ Told(s, n, q)
  BY <1>5
<1>7. Where = <<m, at>>
  BY DEF Where
<1>8. ASSUME Where = <<n, q>> PROVE n = m /\ q = at
  BY <1>7, <1>8
<1>9. ASSUME Where = Outer(n, q),
             Kind(n, q) \in {"module", "fndecl", "typedecl", "vardecl"}
      PROVE  FALSE
  BY <1>1, <1>7, <1>9, NothingInLoops
<1>10. s = "check" /\ n = m /\ q = at
  BY <1>1, <1>6, <1>8, <1>9 DEF Enters
<1>11. Come(at)
  BY <1>1, <1>6, <1>10 DEF Told, Past
<1> QED
  BY <1>11, NotComeHere

(* Every step down in the second walk enters what it should, or fails.     *)
LEMMA CheckingRecords ==
    ASSUME PlaceInv, LedgerInv, AreTables(tables),
           stage = "check" /\ Here.k = "for" => Where \in DOMAIN tables,
           CheckScope \/ CheckOther \/ CheckMatch \/ CheckFor
    PROVE  \/ GoesDown /\ Records
           \/ HaltsKeeping
           \/ tables' = tables /\ stage' # "asserted" /\ GivesUp
<1>2. stage = "check" /\ dir = "down"
  BY DEF CheckScope, CheckOther, CheckMatch, CheckFor, Checking
<1>3. \A t, by : EntersHere(t, by)
                 <=> Here.k = "for" /\ t = Where /\ by = <<m, Append(at, 1)>>
  BY <1>2, EntersInCheck
<1>4. ASSUME Descend, parents' = Append(parents, at), tables' = tables, Here.k # "for",
             UNCHANGED <<prog, stage, m, errors, found, lost>>
      PROVE  GoesDown /\ Records
  <2>1. GoesDown
    BY <1>2, <1>4 DEF GoesDown, Walking
  <2> QED
    BY <1>3, <1>4, <2>1 DEF Records
<1>5. CASE CheckScope
  <2>1. /\ Descend /\ parents' = Append(parents, at) /\ tables' = tables
        /\ Here.k # "for" /\ UNCHANGED <<prog, stage, m, errors, found, lost>>
    BY <1>5 DEF CheckScope, Checking
  <2> QED
    BY <1>4, <2>1
<1>6. CASE CheckOther
  <2>1. /\ Descend /\ parents' = Append(parents, at) /\ tables' = tables
        /\ Here.k # "for" /\ UNCHANGED <<prog, stage, m, errors, found, lost>>
    BY <1>6 DEF CheckOther, Checking
  <2> QED
    BY <1>4, <2>1
<1>7. CASE CheckMatch
  <2>1. Here.k # "for"
    BY <1>7 DEF CheckMatch, Checking
  <2>2. \/ Fail("crashed", {})
        \/ Descend /\ UNCHANGED <<prog, stage, m, cur, tables, errors, found, lost>>
    BY <1>7 DEF CheckMatch
  <2>3. CASE Fail("crashed", {})
    <3>1. Halts
      BY <1>2, <2>3 DEF Fail, Halts, Walking
    <3> QED
      BY <2>3, <3>1 DEF Fail, HaltsKeeping
  <2>4. CASE Descend /\ UNCHANGED <<prog, stage, m, cur, tables, errors, found, lost>>
    <3>1. parents' = Append(parents, at)
      BY <1>7 DEF CheckMatch, Checking
    <3> QED
      BY <1>4, <2>1, <2>4, <3>1
  <2> QED
    BY <2>2, <2>3, <2>4
<1>8. CASE CheckFor
  <2> DEFINE by == <<m, Append(at, 1)>>
             name == Here.ch[1].name
             record == RecordOf(tables, Where, by, Type("elementary", NoWhere))
  <2>1. Here.k = "for"
    BY <1>8 DEF CheckFor, Checking
  <2>2. \/ \E what : GiveUp(what) /\ parents' = Append(parents, at)
        \/ /\ tables' = Recorded(tables, Where, name, record)
           /\ Descend /\ parents' = Append(parents, at)
           /\ UNCHANGED <<prog, stage, m, errors, found, lost>>
    BY <1>8 DEF CheckFor, Checking
  <2>3. CASE \E what : GiveUp(what) /\ parents' = Append(parents, at)
    <3>1. GivesUp
      BY <1>2, <2>3 DEF GivesUp
    <3>2. tables' = tables
      BY <2>3 DEF GiveUp
    <3>3. stage' # "asserted"
      BY <1>2, <2>3 DEF GiveUp, GoOn, FinishWalk, Restart
    <3> QED
      BY <3>1, <3>2, <3>3
  <2>4. CASE /\ tables' = Recorded(tables, Where, name, record)
             /\ Descend /\ parents' = Append(parents, at)
             /\ UNCHANGED <<prog, stage, m, errors, found, lost>>
    <3>1. record.by = by
      BY DEF RecordOf
    <3>2. Where \in DOMAIN tables /\ DOMAIN tables[Where].recs = {}
      BY <1>2, <2>1, LoopIsEmpty
    <3>3. ~Has(tables, Where, name)
      BY <3>2 DEF Has
    <3> HIDE DEF record, name
    <3>4. Adds(tables, Recorded(tables, Where, name, record), Where, {record.by})
      BY <3>2, <3>3, RecordedAdds
    <3>5. PICK us : us = tables'
      OBVIOUS
    <3>6. Adds(tables, us, Where, {by})
      BY <2>4, <3>1, <3>4, <3>5
    <3>7. \A t, b : EntersHere(t, b) <=> t = Where /\ b = by
      BY <1>3, <2>1
    <3> HIDE DEF by
    <3>8. \A t, b : Kept(us, t, b) <=> Kept(tables, t, b) \/ EntersHere(t, b)
      BY <3>6, <3>7 DEF Adds
    <3>9. Records
      BY <3>5, <3>8 DEF Records
    <3>10. GoesDown
      BY <1>2, <2>4 DEF GoesDown, Walking
    <3> QED
      BY <3>9, <3>10
  <2> QED
    BY <2>2, <2>3, <2>4
<1> QED
  BY <1>5, <1>6, <1>7, <1>8

-----------------------------------------------------------------------------
(* What the walk has come past.                                            *)

LEMMA ComeDown ==
    ASSUME PlaceInv, GoesDown, NEW q \in Paths(m)
    PROVE  Come(q)' <=> Come(q) \/ q = at
<1>1. /\ dir = "down" /\ Descend /\ prog' = prog /\ m' = m
  BY DEF GoesDown
<1>2. Behind(q)' <=> Behind(q)
  BY <1>1, DownAStep
<1>3. at \in Seq(Nat)
  BY PlaceIs
<1>4. \/ at' = at /\ dir' = "up"
      \/ at' = Append(at, 1) /\ dir' = "down"
  BY <1>1, DownIs
<1>5. Beginnings(at)' = Beginnings(at')
  BY DEF Beginnings
<1>6. /\ at \in Beginnings(at) /\ Append(at, 1) \notin Beginnings(at)
      /\ Beginnings(Append(at, 1)) = Beginnings(at) \cup {Append(at, 1)}
  BY <1>3, BeginningsNest, BeginningsOfChild
<1>7. Come(q)' <=> Behind(q)' \/ q \in Beginnings(at)
  <2>1. Come(q)' <=> Behind(q)' \/ (q \in Beginnings(at') /\ (q # at' \/ dir' = "up"))
    BY <1>5 DEF Come
  <2>2. CASE at' = at /\ dir' = "up"
    BY <2>1, <2>2
  <2>3. CASE at' = Append(at, 1) /\ dir' = "down"
    BY <1>6, <2>1, <2>3
  <2> QED
    BY <1>4, <2>2, <2>3
<1>8. Come(q) <=> Behind(q) \/ (q \in Beginnings(at) /\ q # at)
  BY <1>1 DEF Come
<1> QED
  BY <1>2, <1>6, <1>7, <1>8

LEMMA ComeOn ==
    ASSUME PlaceInv, at # <<>>, at' = NextPlace, prog' = prog, m' = m, dir = "up",
           dir' = IF NextPlace = Above(at) THEN "up" ELSE "down",
           NEW q \in Paths(m)
    PROVE  Come(q)' <=> Come(q)
<1>1. PICK r \in Paths(m) : \E i \in Kids(prog[m].tree, r) :
        /\ at = Append(r, i) /\ i \in Nat \ {0} /\ r \in Seq(Nat)
        /\ \/ at' = Append(r, i + 1) /\ dir' = "down"
           \/ at' = r /\ dir' = "up"
  BY Onward
<1>2. PICK i \in Nat \ {0} :
        /\ at = Append(r, i) /\ r \in Seq(Nat)
        /\ \/ at' = Append(r, i + 1) /\ dir' = "down"
           \/ at' = r /\ dir' = "up"
  BY <1>1
<1>3. Behind(q)' <=> LeftOf(q, at) \/ q = at \/ Within(q, at)
  BY OnAStep
<1>4. Beginnings(at)' = Beginnings(at')
  BY DEF Beginnings
<1>5. /\ Beginnings(Append(r, i)) = Beginnings(r) \cup {Append(r, i)}
      /\ Beginnings(Append(r, i + 1)) = Beginnings(r) \cup {Append(r, i + 1)}
      /\ Append(r, i + 1) \notin Beginnings(r)
  <2>1. i \in Nat /\ i + 1 \in Nat
    OBVIOUS
  <2> QED
    BY <1>2, <2>1, BeginningsOfChild
<1>6. Come(q)' <=> Behind(q)' \/ q \in Beginnings(r)
  <2>1. Come(q)' <=> Behind(q)' \/ (q \in Beginnings(at') /\ (q # at' \/ dir' = "up"))
    BY <1>4 DEF Come
  <2>2. CASE at' = Append(r, i + 1) /\ dir' = "down"
    BY <1>5, <2>1, <2>2
  <2>3. CASE at' = r /\ dir' = "up"
    BY <2>1, <2>3
  <2> QED
    BY <1>2, <2>2, <2>3
<1>7. Come(q) <=> LeftOf(q, at) \/ Within(q, at) \/ q \in Beginnings(at)
  BY DEF Come, Behind
<1> QED
  BY <1>2, <1>3, <1>5, <1>6, <1>7

(* At the end of a walk all of the tree, at its start none of it.          *)
LEMMA ComeAtTheEnd ==
    ASSUME PlaceInv, at = <<>>, dir = "up", NEW q \in Paths(m)
    PROVE  Come(q)
<1>1. q \in Seq(Nat)
  BY PlaceIs, NodeHere
<1>2. CASE q = <<>>
  BY <1>2, BeginningsOfRoot DEF Come
<1>3. CASE q # <<>>
  <2>1. Len(<<>>) = 0 /\ Len(q) > 0
    BY <1>1, <1>3
  <2>2. Within(q, at)
    BY <2>1 DEF Within
  <2> QED
    BY <2>2 DEF Come, Behind
<1> QED
  BY <1>2, <1>3

LEMMA ComeAtTheStart ==
    ASSUME at = <<>>, dir = "down"
    PROVE  \A q : ~Come(q)
BY NothingBehindTheStart, BeginningsOfRoot DEF Come

LEMMA PastDown ==
    ASSUME PlaceInv, GoesDown, NEW s \in {"declare", "check"},
           NEW n \in DOMAIN prog, NEW q \in Paths(n)
    PROVE  Past(s, n, q)' <=> Past(s, n, q) \/ (s = stage /\ n = m /\ q = at)
<1>1. Walking /\ stage' = stage /\ m' = m /\ stage \in {"declare", "check"}
  BY DEF GoesDown, Walking
<1>2. Walking' /\ stage # "analyzed"
  BY <1>1 DEF Walking
<1>3. n = m => (Come(q)' <=> Come(q) \/ q = at)
  BY ComeDown
<1>4. Past(s, n, q)' <=> \/ n < m
                         \/ n = m /\ stage = "check" /\ s = "declare"
                         \/ n = m /\ stage = s /\ Come(q)'
  BY <1>1, <1>2 DEF Past
<1>5. Past(s, n, q) <=> \/ n < m
                        \/ n = m /\ stage = "check" /\ s = "declare"
                        \/ n = m /\ stage = s /\ Come(q)
  BY <1>1, <1>2 DEF Past
<1> QED
  BY <1>3, <1>4, <1>5

LEMMA PastOn ==
    ASSUME PlaceInv, Leaves, at # <<>>, NEW s, NEW n, NEW q \in Paths(n)
    PROVE  Past(s, n, q)' <=> Past(s, n, q)
<1>1. /\ Walking /\ dir = "up" /\ prog' = prog /\ stage' = stage /\ m' = m
      /\ at' = NextPlace /\ dir' = IF NextPlace = Above(at) THEN "up" ELSE "down"
  BY DEF Leaves, GoOn
<1>2. n = m => (Come(q)' <=> Come(q))
  BY <1>1, ComeOn
<1>3. Walking' <=> Walking
  BY <1>1 DEF Walking
<1> QED
  BY <1>1, <1>2, <1>3 DEF Past

LEMMA PastTheEnd ==
    ASSUME PlaceInv, Leaves, at = <<>>, Walking' \/ stage' = "analyzed",
           NEW s \in {"declare", "check"}, NEW n \in DOMAIN prog, NEW q \in Paths(n)
    PROVE  Past(s, n, q)' <=> Past(s, n, q)
<1>1. Walking /\ dir = "up" /\ prog' = prog /\ FinishWalk(errors')
  BY DEF Leaves, GoOn
<1>2. n = m => Come(q)
  BY <1>1, ComeAtTheEnd
<1>3. m \in Nat /\ n \in Nat /\ n <= Len(prog) /\ Len(prog) \in Nat
  BY PlaceIs, ModulesAre
<1>4. at' = <<>> /\ dir' = "down"
  BY <1>1 DEF FinishWalk, Restart
<1>5. ~Come(q)'
  <2>1. Come(q)' <=> Behind(q)' \/ (q \in Beginnings(at') /\ (q # at' \/ dir' = "up"))
    BY DEF Come, Beginnings
  <2>2. Behind(q)' <=> LeftOf(q, <<>>)
    BY <1>4 DEF Behind
  <2>3. ~LeftOf(q, <<>>)
    BY DEF LeftOf
  <2> QED
    BY <1>4, <2>1, <2>2, <2>3, BeginningsOfRoot
<1>6. CASE stage = "declare"
  <2>1. stage' = "check" /\ m' = m
    BY <1>1, <1>6 DEF FinishWalk, Restart
  <2> QED
    BY <1>1, <1>2, <1>5, <1>6, <2>1 DEF Past, Walking
<1>7. CASE stage = "check" /\ stage' = "declare"
  <2>1. m' = m + 1
    BY <1>1, <1>7 DEF FinishWalk, Restart
  <2>2. Past(s, n, q)' <=> n < m + 1
    BY <1>5, <1>7, <2>1 DEF Past, Walking
  <2>3. Past(s, n, q) <=> n < m \/ n = m
    BY <1>2, <1>7 DEF Past, Walking
  <2> QED
    BY <1>3, <2>2, <2>3
<1>8. CASE stage = "check" /\ stage' = "analyzed"
  <2>1. ~(m < Len(prog))
    BY <1>1, <1>8 DEF FinishWalk, Restart
  <2>2. n < m \/ n = m
    BY <1>3, <2>1
  <2> QED
    BY <1>2, <1>8, <2>2 DEF Past, Walking
<1>9. stage = "check" => stage' \in {"declare", "analyzed"}
  <2>1. stage = "check" => stage' \in {"declare", "analyzed", "failed"}
    BY <1>1 DEF FinishWalk, Restart
  <2> QED
    BY <2>1 DEF Walking
<1> QED
  BY <1>1, <1>6, <1>7, <1>8, <1>9 DEF Walking

-----------------------------------------------------------------------------
(* What the walk has told the tables.                                      *)

(* What failed does not lie on the way to the place the walk is at.        *)
LEMMA NoneMissedHere ==
    ASSUME PlaceInv, LostInv, Walking, NEW q \in Beginnings(at)
    PROVE  ~Missed(m, q)
<1> SUFFICES ASSUME NEW w \in lost, w[2] \in Beginnings(q) PROVE FALSE
  BY DEF Missed
<1>1. at \in Seq(Nat)
  BY PlaceIs
<1>2. w[2] \in Beginnings(at)
  BY <1>1, BeginningsNest
<1>3. /\ w[2] \in Seq(Nat) /\ Len(w[2]) <= Len(at)
      /\ \A j \in 1..Len(w[2]) : w[2][j] = at[j]
  BY <1>1, <1>2, BeginningsAre
<1>4. Behind(w[2])
  BY DEF LostInv
<1> DEFINE p == w[2]
<1>5. p \in Seq(Nat) /\ Len(p) <= Len(at) /\ \A j \in 1..Len(p) : p[j] = at[j]
  BY <1>3
<1>6. Behind(p)
  BY <1>4
<1> HIDE DEF p
<1>7. \A j \in 1..Len(p) : p[j] \in Nat /\ ~(p[j] < at[j])
  BY <1>1, <1>5
<1>8. ~LeftOf(p, at)
  BY <1>7 DEF LeftOf
<1>9. ~Within(p, at)
  BY <1>1, <1>5 DEF Within
<1> QED
  BY <1>6, <1>8, <1>9 DEF Behind

LEMMA ToldKeeps ==
    ASSUME lost' = lost, NEW s, NEW n, NEW q, Past(s, n, q)' <=> Past(s, n, q)
    PROVE  Told(s, n, q)' <=> Told(s, n, q)
<1>1. Missed(n, q)' <=> Missed(n, q)
  BY DEF Missed, Beginnings
<1> QED
  BY <1>1 DEF Told

LEMMA ToldDown ==
    ASSUME PlaceInv, LostInv, GoesDown, NEW s \in {"declare", "check"},
           NEW n \in DOMAIN prog, NEW q \in Paths(n)
    PROVE  Told(s, n, q)' <=> Told(s, n, q) \/ (s = stage /\ n = m /\ q = at)
<1>1. Past(s, n, q)' <=> Past(s, n, q) \/ (s = stage /\ n = m /\ q = at)
  BY PastDown
<1>2. Missed(n, q)' <=> Missed(n, q)
  BY DEF Missed, Beginnings, GoesDown
<1>3. at \in Beginnings(at)
  BY PlaceIs, BeginningsNest
<1>4. ~Missed(m, at)
  BY <1>3, NoneMissedHere DEF GoesDown
<1> QED
  BY <1>1, <1>2, <1>4 DEF Told

(* A loop that is given up is passed, and nothing was told of it.          *)
LEMMA ToldOfTheLost ==
    ASSUME PlaceInv, LostInv, GivesUp, at # <<>>, NEW s \in {"declare", "check"},
           NEW n \in DOMAIN prog, NEW q \in Paths(n)
    PROVE  Told(s, n, q)' <=> Told(s, n, q)
<1>1. /\ stage = "check" /\ dir = "down" /\ prog' = prog /\ stage' = stage /\ m' = m
      /\ lost' = lost \cup {<<m, at>>} /\ at' = NextPlace
      /\ dir' = IF NextPlace = Above(at) THEN "up" ELSE "down"
      /\ Walking /\ Walking'
  BY DEF GivesUp, GiveUp, GoOn, Where, Walking
<1>2. m \in Nat /\ n \in Nat /\ at \in Seq(Nat) /\ q \in Seq(Nat) /\ prog \in Programs
  BY PlaceIs, ModulesAre, NodeHere
<1>3. Past(s, n, q) <=> n < m \/ (n = m /\ (s = "declare" \/ Come(q)))
  BY <1>1 DEF Past
<1>4. Past(s, n, q)' <=> n < m \/ (n = m /\ (s = "declare" \/ Come(q)'))
  BY <1>1 DEF Past
<1> DEFINE w == <<m, at>>
<1>5. w[1] = m /\ w[2] = at
  OBVIOUS
<1>6. Missed(n, q)' <=> Missed(n, q) \/ (n = m /\ at \in Beginnings(q))
  <2> HIDE DEF w
  <2>1. lost' = lost \cup {w}
    BY <1>1 DEF w
  <2>2. Missed(n, q)' <=> \E v \in lost' : v[1] = n /\ v[2] \in Beginnings(q)
    BY DEF Missed, Beginnings
  <2> QED
    BY <1>5, <2>1, <2>2 DEF Missed
<1>7. CASE n # m \/ s = "declare"
  BY <1>3, <1>4, <1>6, <1>7 DEF Told
<1>8. CASE n = m /\ s = "check"
  <2>1. Behind(q)' <=> LeftOf(q, at) \/ q = at \/ Within(q, at)
    BY <1>1, <1>8, OnAStep
  <2>2. at \in Beginnings(q) <=> q = at \/ Within(q, at)
    <3>1. at \in Beginnings(q) <=> Len(at) <= Len(q) /\ \A j \in 1..Len(at) : at[j] = q[j]
      BY <1>2, BeginningsAre
    <3>2. Len(at) = Len(q) /\ (\A j \in 1..Len(at) : at[j] = q[j]) => q = at
      BY <1>2, SamePath
    <3>3. Len(at) \in Nat /\ Len(q) \in Nat
      BY <1>2
    <3> QED
      BY <3>1, <3>2, <3>3 DEF Within
  <2>3. PICK r \in Paths(m) : \E i \in Kids(prog[m].tree, r) :
          /\ at = Append(r, i) /\ i \in Nat \ {0} /\ r \in Seq(Nat)
          /\ \/ at' = Append(r, i + 1) /\ dir' = "down"
             \/ at' = r /\ dir' = "up"
    BY <1>1, Onward
  <2>4. PICK i \in Nat \ {0} :
          /\ at = Append(r, i) /\ r \in Seq(Nat)
          /\ \/ at' = Append(r, i + 1) /\ dir' = "down"
             \/ at' = r /\ dir' = "up"
    BY <2>3
  <2>5. /\ Beginnings(Append(r, i)) = Beginnings(r) \cup {Append(r, i)}
        /\ Beginnings(Append(r, i + 1)) = Beginnings(r) \cup {Append(r, i + 1)}
        /\ Append(r, i + 1) \notin Beginnings(r) /\ Append(r, i) \notin Beginnings(r)
    <3>1. i \in Nat /\ i + 1 \in Nat
      OBVIOUS
    <3> QED
      BY <2>4, <3>1, BeginningsOfChild
  <2>6. Come(q)' <=> Behind(q)' \/ q \in Beginnings(r)
    <3>1. Beginnings(at)' = Beginnings(at')
      BY DEF Beginnings
    <3>2. Come(q)' <=> Behind(q)' \/ (q \in Beginnings(at') /\ (q # at' \/ dir' = "up"))
      BY <3>1 DEF Come
    <3>3. CASE at' = Append(r, i + 1) /\ dir' = "down"
      BY <2>5, <3>2, <3>3
    <3>4. CASE at' = r /\ dir' = "up"
      BY <3>2, <3>4
    <3> QED
      BY <2>4, <3>3, <3>4
  <2>7. Come(q) <=> LeftOf(q, at) \/ q \in Beginnings(r)
    BY <1>1, <2>4, <2>5 DEF Come, Behind
  <2>9. ~Missed(n, q) /\ at \in Beginnings(q) => ~Come(q)
    <3>1. CASE q = at
      BY <1>1, <3>1, NotComeHere
    <3>2. CASE Within(q, at)
      <4>1. ~LeftOf(q, at)
        <5>1. \A j \in 1..Len(at) : q[j] = at[j] /\ at[j] \in Nat
          BY <1>2, <3>2 DEF Within
        <5> QED
          BY <1>2, <5>1 DEF LeftOf
      <4>2. q \notin Beginnings(r)
        <5>1. Len(q) > Len(at) /\ Len(at) = Len(r) + 1 /\ Len(r) \in Nat /\ Len(q) \in Nat
          BY <1>2, <2>4, <3>2 DEF Within
        <5>2. q \in Beginnings(r) => Len(q) <= Len(r)
          BY <2>4, BeginningsNest
        <5> QED
          BY <5>1, <5>2
      <4> QED
        BY <2>7, <4>1, <4>2
    <3> QED
      BY <2>2, <3>1, <3>2
  <2>10. at \notin Beginnings(q) => (Come(q)' <=> Come(q))
    BY <2>1, <2>2, <2>6, <2>7
  <2> QED
    BY <1>3, <1>4, <1>6, <1>8, <2>9, <2>10 DEF Told
<1> QED
  BY <1>7, <1>8

-----------------------------------------------------------------------------
(* The invariant.                                                          *)

LEMMA EntersKeeps ==
    ASSUME prog' = prog, NEW s, NEW n, NEW q, NEW t, NEW p
    PROVE  Enters(s, n, q, t, p)' <=> Enters(s, n, q, t, p)
BY TreesKeep DEF Enters

LEMMA DueNext ==
    ASSUME prog' = prog, NEW t, NEW by
    PROVE  Due(t, by)' <=>
            \E s \in {"declare", "check"} : \E n \in DOMAIN prog : \E q, p \in Paths(n) :
                by = <<n, p>> /\ Enters(s, n, q, t, p) /\ Told(s, n, q)'
<1>1. \A n : Paths(n)' = Paths(n)
  BY DEF Paths
<1>2. \A s, n, q, p : Enters(s, n, q, t, p)' <=> Enters(s, n, q, t, p)
  BY EntersKeeps
<1> QED
  BY <1>1, <1>2 DEF Due

(* Nothing more is due if the tables were told nothing.                    *)
LEMMA DueKeeps ==
    ASSUME prog' = prog,
           \A s \in {"declare", "check"} : \A n \in DOMAIN prog : \A q \in Paths(n) :
                Told(s, n, q)' <=> Told(s, n, q),
           NEW t, NEW by
    PROVE  Due(t, by)' <=> Due(t, by)
BY DueNext DEF Due

(* On the way down what the node enters.                                   *)
LEMMA DueDown ==
    ASSUME PlaceInv, LostInv, GoesDown, NEW t, NEW by
    PROVE  Due(t, by)' <=> Due(t, by) \/ EntersHere(t, by)
<1>1. prog' = prog /\ stage \in {"declare", "check"}
  BY DEF GoesDown, Walking
<1>2. m \in DOMAIN prog /\ at \in Paths(m)
  BY PlaceIs
<1>3. \A s \in {"declare", "check"} : \A n \in DOMAIN prog : \A q \in Paths(n) :
        Told(s, n, q)' <=> Told(s, n, q) \/ (s = stage /\ n = m /\ q = at)
  BY ToldDown
<1>4. Due(t, by)' <=>
        \E s \in {"declare", "check"} : \E n \in DOMAIN prog : \E q, p \in Paths(n) :
            by = <<n, p>> /\ Enters(s, n, q, t, p) /\ Told(s, n, q)'
  BY <1>1, DueNext
<1>5. ASSUME Due(t, by)' PROVE Due(t, by) \/ EntersHere(t, by)
  <2>1. PICK s \in {"declare", "check"}, n \in DOMAIN prog :
            \E q, p \in Paths(n) :
                by = <<n, p>> /\ Enters(s, n, q, t, p) /\ Told(s, n, q)'
    BY <1>4, <1>5
  <2>2. PICK q \in Paths(n), p \in Paths(n) :
            by = <<n, p>> /\ Enters(s, n, q, t, p) /\ Told(s, n, q)'
    BY <2>1
  <2>3. Told(s, n, q) \/ (s = stage /\ n = m /\ q = at)
    BY <1>3, <2>2
  <2>4. CASE Told(s, n, q)
    BY <2>2, <2>4 DEF Due
  <2>5. CASE s = stage /\ n = m /\ q = at
    BY <2>2, <2>5 DEF EntersHere
  <2> QED
    BY <2>3, <2>4, <2>5
<1>6. ASSUME Due(t, by) PROVE Due(t, by)'
  <2>1. PICK s \in {"declare", "check"}, n \in DOMAIN prog :
            \E q, p \in Paths(n) :
                by = <<n, p>> /\ Enters(s, n, q, t, p) /\ Told(s, n, q)
    BY <1>6 DEF Due
  <2>2. PICK q \in Paths(n), p \in Paths(n) :
            by = <<n, p>> /\ Enters(s, n, q, t, p) /\ Told(s, n, q)
    BY <2>1
  <2>3. Told(s, n, q)'
    BY <1>3, <2>2
  <2> QED
    BY <1>4, <2>2, <2>3
<1>7. ASSUME EntersHere(t, by) PROVE Due(t, by)'
  <2>1. PICK p \in Paths(m) : by = <<m, p>> /\ Enters(stage, m, at, t, p)
    BY <1>7 DEF EntersHere
  <2>2. PICK s \in {"declare", "check"} : s = stage
    BY <1>1
  <2>3. PICK n \in DOMAIN prog : n = m
    BY <1>2
  <2>4. PICK q \in Paths(n) : q = at
    BY <1>2, <2>3
  <2>5. Told(s, n, q)'
    BY <1>3, <2>2, <2>3, <2>4
  <2>6. p \in Paths(n) /\ by = <<n, p>> /\ Enters(s, n, q, t, p)
    BY <2>1, <2>2, <2>3, <2>4
  <2> QED
    BY <1>4, <2>5, <2>6
<1> QED
  BY <1>5, <1>6, <1>7

(* The step of the walk, seen from what the tables list.                   *)
LEMMA NamesMove ==
    ASSUME TableInvs, NamesIInv, [SNext]_svars
    PROVE  \/ GoesDown /\ Records
           \/ HaltsKeeping
           \/ tables' = tables /\ stage' # "asserted" /\ GivesUp
           \/ Leaves /\ tables' = tables
           \/ UNCHANGED svars
<1>1. PlaceInv /\ CurInv /\ AreTables(tables) /\ LedgerInv /\ FreshInv
  BY TableInvsAre DEF NamesIInv
<1>2. /\ prog \in Programs /\ m \in DOMAIN prog /\ at \in Paths(m)
      /\ Here.k = Kind(m, at)
  BY <1>1, PlaceIs
<1>3. CASE \/ DeclareScope \/ DeclareModule \/ DeclareFunction
           \/ DeclareDescription \/ DeclareVariable \/ DeclareType \/ DeclareOther
  <2>1. stage = "declare" /\ dir = "down"
    BY <1>3 DEF DeclareScope, DeclareModule, DeclareFunction, DeclareDescription,
                DeclareVariable, DeclareType, DeclareOther, Declaring
  <2>2. Ready /\ cur = Outer(m, at)
    BY <1>1, <2>1, HereIsReady DEF CurInv
  <2>3. at # <<>> => Where \notin DOMAIN tables
    <3> SUFFICES ASSUME at # <<>>, Where \in DOMAIN tables PROVE FALSE
      OBVIOUS
    <3>1. /\ <<m, at>> \in DOMAIN tables /\ at \in Paths(m) \ {<<>>} /\ Walking
          /\ errors = {}
      BY <1>2, <2>1 DEF Where, Walking, TableInvs, ScopesIInv, ErrorsInv
    <3>2. Past("declare", m, at)
      BY <1>1, <1>2, <3>1 DEF FreshInv
    <3>3. ~(m < m)
      BY <1>1, PlaceIs
    <3> QED
      BY <1>1, <2>1, <3>2, <3>3, NotComeHere DEF Past
  <2> QED
    BY <1>1, <1>3, <2>2, <2>3, DeclaringRecords
<1>4. CASE CheckScope \/ CheckOther \/ CheckMatch \/ CheckFor
  <2>1. ASSUME stage = "check", Here.k = "for" PROVE Where \in DOMAIN tables
    <3>1. Kind(m, at) \in Own
      BY <1>2, <2>1 DEF Own
    <3>2. TableOf(m, at) = <<m, at>>
      BY <1>2, <3>1, CurrentBelow
    <3> QED
      BY <2>1, <3>1, <3>2, TablesOfTheCheck DEF Where
  <2> QED
    BY <1>1, <1>4, <2>1, CheckingRecords
<1>5. CASE LeaveDeclared \/ CheckUse \/ CheckReturn \/ LeaveOther
  BY <1>5, TablesLeft DEF Moves
<1> QED
  BY <1>3, <1>4, <1>5 DEF SNext, Done

(* No step takes an error back, and the second walk asserts nothing.       *)
LEMMA ErrorsStay ==
    ASSUME [SNext]_svars
    PROVE  errors \subseteq errors'
<1>1. CASE DeclareScope \/ DeclareModule \/ DeclareVariable \/ DeclareType \/ DeclareOther
  BY <1>1 DEF DeclareScope, DeclareModule, DeclareVariable, DeclareType,
              DeclareOther, Fail
<1>2. CASE DeclareFunction \/ DeclareDescription
  BY <1>2 DEF DeclareFunction, DeclareDescription, Fail
<1>3. CASE CheckScope \/ CheckOther \/ CheckMatch \/ CheckFor
  BY <1>3 DEF CheckScope, CheckOther, CheckMatch, CheckFor, Fail, GiveUp
<1>4. CASE LeaveDeclared \/ CheckUse \/ CheckReturn \/ LeaveOther
  <2>1. Leaves
    BY <1>4, LeavingIsAMove
  <2> QED
    BY <2>1 DEF Leaves
<1>5. CASE UNCHANGED svars
  BY <1>5 DEF svars
<1> QED
  BY <1>1, <1>2, <1>3, <1>4, <1>5 DEF SNext, Done

LEMMA CheckNeverAsserts ==
    ASSUME [SNext]_svars, stage = "check"
    PROVE  stage' # "asserted"
<1>1. CASE CheckScope \/ CheckOther \/ CheckMatch
  BY <1>1 DEF CheckScope, CheckOther, CheckMatch, Fail
<1>2. CASE CheckFor
  BY <1>2 DEF CheckFor, GiveUp, GoOn, FinishWalk, Restart
<1>3. CASE LeaveDeclared \/ CheckUse \/ CheckReturn \/ LeaveOther
  <2>1. Leaves
    BY <1>3, LeavingIsAMove
  <2> QED
    BY <2>1 DEF Leaves, GoOn, FinishWalk, Restart
<1>4. CASE UNCHANGED svars
  BY <1>4 DEF svars
<1>5. CASE \/ DeclareScope \/ DeclareModule \/ DeclareFunction
           \/ DeclareDescription \/ DeclareVariable \/ DeclareType \/ DeclareOther
  BY <1>5 DEF DeclareScope, DeclareModule, DeclareFunction, DeclareDescription,
              DeclareVariable, DeclareType, DeclareOther, Declaring
<1> QED
  BY <1>1, <1>2, <1>3, <1>4, <1>5 DEF SNext, Done

-----------------------------------------------------------------------------
(* What the source says of a declaration and the scopes that see it.       *)

(* A place and the one above it.                                           *)
LEMMA StepUp ==
    ASSUME prog \in Programs, NEW n \in DOMAIN prog, NEW p \in Paths(n), p # <<>>
    PROVE  \E r \in Paths(n) : \E i \in Kids(prog[n].tree, r) :
            p = Append(r, i) /\ r = Above(p) /\ r \in Seq(Nat) /\ i \in Nat \ {0}
<1>1. p \in PathsOf(prog[n].tree) /\ MaxDepth \in Nat
  BY SourceTree
<1>2. /\ Front(p) \in PathsOf(prog[n].tree) /\ Last(p) \in Kids(prog[n].tree, Front(p))
      /\ Last(p) \in Nat \ {0} /\ p = Append(Front(p), Last(p))
  BY <1>1, PathAbove
<1>3. Front(p) \in Paths(n) /\ Front(p) = Above(p)
  BY <1>2, SourceTree DEF Above
<1>4. Front(p) \in Seq(Nat)
  BY <1>3, NodeHere
<1> QED
  BY <1>2, <1>3, <1>4

(* What is no name and no head stands in no list of names and no head.     *)
LEMMA StatementAbove ==
    ASSUME prog \in Programs, NEW n \in DOMAIN prog, NEW r \in Paths(n),
           NEW i \in Kids(prog[n].tree, r),
           Kind(n, Append(r, i)) \notin {"typedesc", "leaf", "xid"}
    PROVE  Statement(n, r)
<1>1. /\ Kind(n, r) = "fndecl" => Kind(n, Append(r, i)) \in {"typedesc", "xid"}
      /\ Kind(n, Append(r, i)) = "leaf" <=> Kind(n, r) \in {"typedesc", "vardecl"}
  BY NodeBelowHere
<1>2. Kind(n, r) \notin {"leaf", "xid"}
  BY NodeHere
<1> QED
  BY <1>1, <1>2 DEF Statement

(* A scope that is not the pattern of a case, which is one with the case.  *)
Plain(n, s) ==
    /\ s \in Paths(n) /\ IsScope(n, s)
    /\ Kind(n, s) = "typedesc" => Kind(n, Above(s)) # "case"

LEMMA ScopeOfAScope ==
    ASSUME prog \in Programs, NEW n \in DOMAIN prog, NEW r \in Paths(n), IsScope(n, r)
    PROVE  ScopeAround(n, r) = r
<1>1. r \in Seq(Nat)
  BY NodeHere
<1>2. /\ r \in Beginnings(r)
      /\ \A q \in Beginnings(r) : Len(q) <= Len(r)
  BY <1>1, BeginningsNest
<1>3. ScopesAround(n, r) \in SUBSET Beginnings(r) /\ r \in ScopesAround(n, r)
  BY <1>2 DEF ScopesAround
<1>4. \A q \in ScopesAround(n, r) : Len(q) <= Len(r)
  BY <1>2, <1>3
<1>5. Longest(ScopesAround(n, r)) = r
  BY <1>1, <1>3, <1>4, LongestOf
<1> QED
  BY <1>5 DEF ScopeAround

LEMMA PlainScope ==
    ASSUME prog \in Programs, NEW n \in DOMAIN prog, NEW r \in Paths(n), Statement(n, r)
    PROVE  Plain(n, ScopeAround(n, r)) /\ Kind(n, ScopeAround(n, r)) # "typedesc"
<1> DEFINE S == ScopesAround(n, r)
<1>1. r \in Seq(Nat) /\ Kind(n, <<>>) \in {"root", "module"}
  BY NodeHere, SourceTree
<1>2. <<>> \in Beginnings(r)
  BY <1>1, BeginningsNest
<1>3. S \in SUBSET Beginnings(r) /\ <<>> \in S
  BY <1>1, <1>2 DEF ScopesAround, IsScope, OpensScope
<1>4. Longest(S) \in S
  BY <1>1, <1>3, LongestIs
<1> DEFINE q == Longest(S)
<1>5. q \in Beginnings(r) /\ IsScope(n, q)
  BY <1>4 DEF ScopesAround
<1> HIDE DEF q
<1>6. Kind(n, q) # "typedesc" /\ q \in Paths(n)
  <2>1. CASE q = r
    BY <2>1 DEF Statement
  <2>2. CASE q # r
    BY <1>5, <2>2, NotInHeads DEF Statement
  <2> QED
    BY <2>1, <2>2
<1> QED
  BY <1>5, <1>6 DEF Plain, ScopeAround, q

(* What is current behind the head of a function, of a pattern and beside  *)
(* any other node is the table of the scope around.                        *)
LEMMA OuterBelow ==
    ASSUME prog \in Programs, NEW n \in DOMAIN prog, NEW r \in Paths(n),
           Statement(n, r), NEW i \in Kids(prog[n].tree, r),
           ~(Kind(n, r) \in Lent /\ i = 1)
    PROVE  Outer(n, Append(r, i)) = TableOf(n, ScopeAround(n, r))
<1>1. i \in Nat \ {0}
  BY KidsAreNumbers
<1>2. Inner(n, r) = Outer(n, Append(r, i))
  BY <1>1, CurrentBeside
<1>3. CASE r # <<>>
  BY <1>2, <1>3, InnerIsScopeAround
<1>4. CASE r = <<>>
  <2>1. Kind(n, r) \in {"root", "module"}
    BY <1>4, NodeHere
  <2>2. Inner(n, r) = TableOf(n, r)
    BY <2>1, CurrentBelow DEF Own
  <2>3. ScopeAround(n, r) = r
    BY <2>1, ScopeOfAScope DEF IsScope, OpensScope
  <2> QED
    BY <1>2, <2>2, <2>3
<1> QED
  BY <1>3, <1>4

(* A function or a type is seen by the scope around it.                    *)
LEMMA DeclaredIsVisible ==
    ASSUME prog \in Programs, NEW n \in DOMAIN prog, NEW p \in Paths(n),
           Kind(n, p) \in {"fndecl", "typedecl"}
    PROVE  \E s : VisibleIn(n, p) = {s} /\ Plain(n, s) /\ Outer(n, p) = TableOf(n, s)
<1>1. p # <<>>
  <2>1. Kind(n, p) \in {"root", "module"} <=> p = <<>>
    BY NodeHere
  <2> QED
    BY <2>1
<1>2. PICK r \in Paths(n) :
        \E i \in Kids(prog[n].tree, r) :
            p = Append(r, i) /\ r = Above(p) /\ r \in Seq(Nat) /\ i \in Nat \ {0}
  BY <1>1, StepUp
<1>3. PICK i \in Kids(prog[n].tree, r) :
        p = Append(r, i) /\ r = Above(p) /\ r \in Seq(Nat) /\ i \in Nat \ {0}
  BY <1>2
<1>4. Kind(n, Append(r, i)) \notin {"typedesc", "leaf", "xid"}
  BY <1>3
<1>5. Statement(n, r)
  BY <1>4, StatementAbove
<1>6. /\ Kind(n, r) = "fnimpl" /\ i = 1 <=>
            Kind(n, p) = "fndecl" /\ Node(n, p).ty = "impl"
      /\ Kind(n, r) = "case" /\ i = 1 => Kind(n, p) = "typedesc"
  BY <1>3, NodeBelowHere
<1>7. CASE Kind(n, p) = "fndecl" /\ Node(n, p).ty = "impl"
  <2> DEFINE s == ScopeAround(n, Above(r))
  <2>1. VisibleIn(n, p) = {s}
    BY <1>3, <1>7 DEF VisibleIn
  <2>2. Kind(n, r) = "fnimpl" /\ i = 1
    BY <1>6, <1>7
  <2>3. r # <<>>
    <3>1. Kind(n, r) \in {"root", "module"} <=> r = <<>>
      BY NodeHere
    <3> QED
      BY <2>2, <3>1
  <2>4. Outer(n, r) = TableOf(n, s)
    BY <1>5, <2>3, OuterIsScopeAround DEF Statement
  <2>5. Kind(n, r) \notin Own \cup {"root"}
    BY <2>2 DEF Own
  <2>6. Outer(n, Append(r, 1)) = Outer(n, r)
    BY <2>5, CurrentBelow
  <2>7. Plain(n, s)
    <3>1. PICK rr \in Paths(n) :
            \E j \in Kids(prog[n].tree, rr) : r = Append(rr, j) /\ rr = Above(r)
      BY <2>3, StepUp
    <3>2. PICK j \in Kids(prog[n].tree, rr) : r = Append(rr, j) /\ rr = Above(r)
      BY <3>1
    <3>3. Kind(n, Append(rr, j)) \notin {"typedesc", "leaf", "xid"}
      BY <2>2, <3>2
    <3>4. Statement(n, rr)
      BY <3>3, StatementAbove
    <3> QED
      BY <3>2, <3>4, PlainScope
  <2> HIDE DEF s
  <2> QED
    BY <1>3, <2>1, <2>2, <2>4, <2>6, <2>7
<1>8. CASE ~(Kind(n, p) = "fndecl" /\ Node(n, p).ty = "impl")
  <2> DEFINE s == ScopeAround(n, r)
  <2>1. VisibleIn(n, p) = {s}
    BY <1>3, <1>8 DEF VisibleIn
  <2>2. ~(Kind(n, r) \in Lent /\ i = 1)
    BY <1>6, <1>8 DEF Lent
  <2>3. Outer(n, Append(r, i)) = TableOf(n, s)
    BY <1>5, <2>2, OuterBelow
  <2>4. Plain(n, s)
    BY <1>5, PlainScope
  <2> HIDE DEF s
  <2> QED
    BY <1>3, <2>1, <2>3, <2>4
<1> QED
  BY <1>7, <1>8

(* So is a variable, and that of a loop by the loop.                       *)
LEMMA ScopeOfAName ==
    ASSUME prog \in Programs, NEW n \in DOMAIN prog, NEW r \in Paths(n),
           NEW i \in Kids(prog[n].tree, r), NEW p, p = Append(r, i),
           Kind(n, p) # "fndecl",
           Kind(n, p) = "leaf" => Kind(n, ScopeAround(n, r)) # "typedesc"
    PROVE  VisibleIn(n, p) = {ScopeAround(n, r)}
<1>1. i \in Nat \ {0} /\ r \in Seq(Nat)
  BY KidsAreNumbers, NodeHere
<1>2. Above(p) = r
  BY <1>1, BeginningsOfChild DEF Above
<1> QED
  BY <1>2 DEF VisibleIn

LEMMA VariableIsVisible ==
    ASSUME prog \in Programs, NEW n \in DOMAIN prog, NEW r \in Paths(n),
           Kind(n, r) = "vardecl"
    PROVE  /\ Append(r, 1) \in Paths(n) /\ Kind(n, Append(r, 1)) = "leaf"
           /\ \E s : /\ VisibleIn(n, Append(r, 1)) = {s} /\ Plain(n, s)
                     /\ Outer(n, r) = TableOf(n, s)
<1>1. 1 \in Kids(prog[n].tree, r)
  BY NodeHere
<1>2. Append(r, 1) \in Paths(n) /\ Kind(n, Append(r, 1)) = "leaf"
  BY <1>1, NodeBelowHere
<1>3. Statement(n, r)
  BY DEF Statement
<1> DEFINE s == ScopeAround(n, r)
<1>4. Plain(n, s) /\ Kind(n, s) # "typedesc"
  BY <1>3, PlainScope
<1>5. VisibleIn(n, Append(r, 1)) = {s}
  BY <1>1, <1>2, <1>4, ScopeOfAName
<1>6. r # <<>>
  <2>1. Kind(n, r) \in {"root", "module"} <=> r = <<>>
    BY NodeHere
  <2> QED
    BY <2>1
<1>7. Kind(n, r) \notin Own \cup Lent \cup {"root"}
  BY DEF Own, Lent
<1>8. Inner(n, r) = Outer(n, r)
  BY <1>7, CurrentBelow
<1>9. Inner(n, r) = TableOf(n, s)
  BY <1>3, <1>6, InnerIsScopeAround DEF Statement
<1> HIDE DEF s
<1> QED
  BY <1>2, <1>4, <1>5, <1>8, <1>9

LEMMA LoopIsVisible ==
    ASSUME prog \in Programs, NEW n \in DOMAIN prog, NEW r \in Paths(n),
           Kind(n, r) = "for"
    PROVE  /\ Append(r, 1) \in Paths(n) /\ Kind(n, Append(r, 1)) = "loopvar"
           /\ VisibleIn(n, Append(r, 1)) = {r} /\ Plain(n, r)
           /\ TableOf(n, r) = <<n, r>>
<1>1. 1 \in Kids(prog[n].tree, r)
  BY NodeHere
<1>2. Append(r, 1) \in Paths(n) /\ Kind(n, Append(r, 1)) = "loopvar"
  BY <1>1, NodeBelowHere
<1>3. IsScope(n, r)
  BY DEF IsScope, OpensScope
<1>4. ScopeAround(n, r) = r
  BY <1>3, ScopeOfAScope
<1>5. VisibleIn(n, Append(r, 1)) = {r}
  BY <1>1, <1>2, <1>4, ScopeOfAName
<1>6. TableOf(n, r) = <<n, r>>
  BY DEF TableOf
<1> QED
  BY <1>2, <1>3, <1>5, <1>6 DEF Plain

(* The names of a description: those of a pattern are seen by the case,    *)
(* those of the arguments of a function by its implementation.             *)
ImplHead(n, q) == Kind(n, q) = "fndecl" /\ Node(n, q).ty = "impl"

LEMMA ImplementedIs ==
    ASSUME prog \in Programs, NEW n \in DOMAIN prog, NEW q \in Paths(n), ImplHead(n, q)
    PROVE  /\ Plain(n, Above(q)) /\ q = Append(Above(q), 1)
           /\ TableOf(n, Above(q)) = <<n, q>>
<1>1. q # <<>>
  <2>1. Kind(n, q) \in {"root", "module"} <=> q = <<>>
    BY NodeHere
  <2> QED
    BY <2>1 DEF ImplHead
<1>2. PICK r \in Paths(n) :
        \E i \in Kids(prog[n].tree, r) : q = Append(r, i) /\ r = Above(q)
  BY <1>1, StepUp
<1>3. PICK i \in Kids(prog[n].tree, r) : q = Append(r, i) /\ r = Above(q)
  BY <1>2
<1>4. Kind(n, r) = "fnimpl" /\ i = 1
  BY <1>3, NodeBelowHere DEF ImplHead
<1>5. Plain(n, r)
  BY <1>4 DEF Plain, IsScope, OpensScope
<1>6. TableOf(n, r) = <<n, Append(r, 1)>>
  BY <1>4 DEF TableOf
<1> QED
  BY <1>3, <1>4, <1>5, <1>6

NameSeen(n, r, p) ==
    /\ p \in Paths(n) /\ Kind(n, p) = "leaf"
    /\ Above(r) \in Paths(n) /\ r = Append(Above(r), 1)
    /\ TableOf(n, r) = <<n, r>> /\ IsScope(n, r)
    /\ Kind(n, Above(r)) = "case" =>
        /\ VisibleIn(n, p) = {r, Above(r)}
        /\ Plain(n, Above(r)) /\ TableOf(n, Above(r)) = <<n, r>>
    /\ ImplHead(n, Above(r)) =>
        VisibleIn(n, p) = {r, Above(Above(r))} /\ Plain(n, r)
    /\ Kind(n, Above(r)) # "case" /\ ~ImplHead(n, Above(r)) =>
        VisibleIn(n, p) = {r} /\ Plain(n, r)

LEMMA NameIsVisible ==
    ASSUME prog \in Programs, NEW n \in DOMAIN prog, NEW r \in Paths(n),
           Kind(n, r) = "typedesc", NEW i \in Kids(prog[n].tree, r)
    PROVE  NameSeen(n, r, Append(r, i))
<1> DEFINE p == Append(r, i)
<1>1. p \in Paths(n) /\ Kind(n, p) = "leaf" /\ i \in Nat \ {0}
  BY NodeBelowHere
<1>2. r # <<>> /\ r \in Seq(Nat)
  <2>1. Kind(n, r) \in {"root", "module"} <=> r = <<>>
    BY NodeHere
  <2> QED
    BY <2>1, NodeHere
<1>3. Above(p) = r
  BY <1>1, <1>2, BeginningsOfChild DEF Above
<1>4. IsScope(n, r)
  BY DEF IsScope, OpensScope
<1>5. ScopeAround(n, r) = r
  BY <1>4, ScopeOfAScope
<1>6. PICK rr \in Paths(n) :
        \E j \in Kids(prog[n].tree, rr) : r = Append(rr, j) /\ rr = Above(r)
  BY <1>2, StepUp
<1>7. PICK j \in Kids(prog[n].tree, rr) : r = Append(rr, j) /\ rr = Above(r)
  BY <1>6
<1>8. j = 1
  BY <1>7, NodeBelowHere
<1>9. TableOf(n, r) = <<n, r>>
  BY DEF TableOf
<1>10. Kind(n, rr) = "case" => TableOf(n, rr) = <<n, r>> /\ Plain(n, rr)
  BY <1>7, <1>8 DEF TableOf, Plain, IsScope, OpensScope
<1>11. Kind(n, rr) # "case" => Plain(n, r)
  BY <1>4, <1>7 DEF Plain
<1>12. /\ Kind(n, rr) = "case" => VisibleIn(n, p) = {r, rr}
       /\ ImplHead(n, rr) => VisibleIn(n, p) = {r, Above(rr)}
       /\ Kind(n, rr) # "case" /\ ~ImplHead(n, rr) => VisibleIn(n, p) = {r}
  BY <1>1, <1>3, <1>5, <1>7 DEF VisibleIn, ImplHead
<1>13. ImplHead(n, rr) => Kind(n, rr) # "case"
  BY DEF ImplHead
<1> HIDE DEF p
<1>14. NameSeen(n, r, p)
  BY <1>1, <1>4, <1>7, <1>8, <1>9, <1>10, <1>11, <1>12, <1>13 DEF NameSeen
<1> QED
  BY <1>14 DEF p

(* The node at the root is the tree.                                       *)
LEMMA RootNode ==
    ASSUME NEW tree
    PROVE  NodeOf(tree, <<>>) = tree
<1>1. <<>> \in Seq(Nat) /\ Len(<<>>) = 0
  OBVIOUS
<1>2. PICK f : IsRun(f, tree, <<>>) /\ NodeOf(tree, <<>>) = f[Len(<<>>)]
  BY <1>1, NodeIsRun
<1>3. f[0] = tree
  BY <1>1, <1>2, RunIs
<1> QED
  BY <1>1, <1>2, <1>3

(* A table belongs to one scope.                                           *)
LEMMA TableIsOne ==
    ASSUME prog \in Programs, NEW n \in DOMAIN prog, NEW k \in DOMAIN prog,
           NEW s, NEW q, Plain(n, s), Plain(k, q), TableOf(n, s) = TableOf(k, q)
    PROVE  n = k /\ s = q
<1>1. n \in Nat \ {0} /\ k \in Nat \ {0}
  BY ModulesAre
<1>2. s \in Paths(n) /\ q \in Paths(k)
  BY DEF Plain
<1>3. s \in Seq(Nat) /\ q \in Seq(Nat)
  BY <1>2, NodeHere
<1>4. /\ Kind(n, s) = "root" <=> TableOf(n, s)[1] = 0
      /\ Kind(k, q) = "root" <=> TableOf(k, q)[1] = 0
  BY <1>1 DEF TableOf, FileTable
<1>5. CASE Kind(n, s) = "root"
  <2>1. Kind(k, q) = "root"
    BY <1>4, <1>5
  <2>2. s = <<>> /\ q = <<>>
    <3>1. /\ Kind(n, s) \in {"root", "module"} <=> s = <<>>
          /\ Kind(k, q) \in {"root", "module"} <=> q = <<>>
      BY <1>2, NodeHere
    <3> QED
      BY <1>5, <2>1, <3>1
  <2>3. /\ TableOf(n, s) = <<0, prog[n].file>> /\ TableOf(k, q) = <<0, prog[k].file>>
    BY <1>5, <2>1 DEF TableOf, FileTable
  <2> DEFINE v == prog[n].file
             w == prog[k].file
  <2>4. v = w
    <3> HIDE DEF v, w
    <3>1. <<0, v>> = <<0, w>>
      BY <2>3 DEF v, w
    <3>2. <<0, v>>[2] = v /\ <<0, w>>[2] = w
      OBVIOUS
    <3> QED
      BY <3>1, <3>2
  <2> HIDE DEF v, w
  <2>5. prog[n].tree.k = "root" /\ prog[k].tree.k = "root"
    BY <1>5, <2>1, <2>2, RootNode DEF Kind, Node
  <2> QED
    BY <2>2, <2>4, <2>5, ProgramsAreTrees DEF v, w
<1>6. CASE Kind(n, s) # "root"
  <2>1. Kind(k, q) # "root"
    BY <1>4, <1>6
  <2> DEFINE a == IF Kind(n, s) \in {"fnimpl", "case"} THEN Append(s, 1) ELSE s
             b == IF Kind(k, q) \in {"fnimpl", "case"} THEN Append(q, 1) ELSE q
  <2>2. TableOf(n, s) = <<n, a>> /\ TableOf(k, q) = <<k, b>>
    BY <1>6, <2>1 DEF TableOf
  <2>3. n = k /\ a = b
    <3> HIDE DEF a, b
    <3>1. <<n, a>> = <<k, b>>
      BY <2>2
    <3>2. <<n, a>>[1] = n /\ <<k, b>>[1] = k /\ <<n, a>>[2] = a /\ <<k, b>>[2] = b
      OBVIOUS
    <3> QED
      BY <3>1, <3>2
  <2>4. CASE Kind(n, s) \in {"fnimpl", "case"} /\ Kind(k, q) \in {"fnimpl", "case"}
    <3>1. Append(s, 1) = Append(q, 1)
      BY <2>3, <2>4
    <3>2. Front(Append(s, 1)) = s /\ Front(Append(q, 1)) = q
      BY <1>3, BeginningsOfChild
    <3> QED
      BY <2>3, <3>1, <3>2
  <2>5. ASSUME NEW u, Plain(n, u), NEW v, Plain(n, v), u = Append(v, 1),
               Kind(n, v) \in {"fnimpl", "case"}
        PROVE  FALSE
    <3>1. v \in Paths(n) /\ v \in Seq(Nat)
      BY <2>5, NodeHere DEF Plain
    <3>2. 1 \in Kids(prog[n].tree, v)
      BY <2>5, <3>1, NodeHere
    <3>3. /\ Kind(n, v) = "fnimpl" => Kind(n, u) = "fndecl"
          /\ Kind(n, v) = "case" => Kind(n, u) = "typedesc"
      BY <2>5, <3>1, <3>2, NodeBelowHere
    <3>4. Above(u) = v
      BY <2>5, <3>1, BeginningsOfChild DEF Above
    <3> QED
      BY <2>5, <3>3, <3>4 DEF Plain, IsScope, OpensScope
  <2>6. Plain(n, q)
    BY <2>3
  <2>7. CASE Kind(n, s) \in {"fnimpl", "case"} /\ Kind(k, q) \notin {"fnimpl", "case"}
    <3>1. q = Append(s, 1)
      BY <2>3, <2>7
    <3> QED
      BY <2>5, <2>6, <2>7, <3>1
  <2>8. CASE Kind(n, s) \notin {"fnimpl", "case"} /\ Kind(k, q) \in {"fnimpl", "case"}
    <3>1. s = Append(q, 1)
      BY <2>3, <2>8
    <3> QED
      BY <2>3, <2>5, <2>6, <2>8, <3>1
  <2>9. CASE Kind(n, s) \notin {"fnimpl", "case"} /\ Kind(k, q) \notin {"fnimpl", "case"}
    BY <2>3, <2>9
  <2> QED
    BY <2>4, <2>7, <2>8, <2>9
<1> QED
  BY <1>5, <1>6

(* What is entered is a declaration in a scope that sees it, or a module.  *)
LEMMA EntryIsVisible ==
    ASSUME prog \in Programs, NEW s, NEW n \in DOMAIN prog, NEW q \in Paths(n),
           NEW t, NEW p, Enters(s, n, q, t, p)
    PROVE  \/ Kind(n, p) = "module" /\ p = <<>> /\ q = p /\ s = "declare"
              /\ t = FileTable(n)
           \/ /\ p \in Paths(n) /\ Kind(n, p) \in Declarators
              /\ Kind(n, p) = "fndecl" => p = q /\ s = "declare"
              /\ \E u \in VisibleIn(n, p) : Plain(n, u) /\ t = TableOf(n, u)
<1>1. CASE s = "declare" /\ Kind(n, q) = "module" /\ p = q /\ t = Outer(n, q)
  <2>1. Kind(n, q) \in {"root", "module"} <=> q = <<>>
    BY NodeHere
  <2>2. q = <<>>
    BY <1>1, <2>1
  <2> QED
    BY <1>1, <2>2, NothingAboveRoot
<1>2. CASE s = "declare" /\ Kind(n, q) \in {"fndecl", "typedecl"} /\ p = q /\ t = Outer(n, q)
  BY <1>2, DeclaredIsVisible DEF Declarators
<1>3. CASE Kind(n, q) = "vardecl" /\ p = Append(q, 1) /\ t = Outer(n, q)
  BY <1>3, VariableIsVisible DEF Declarators
<1>4. CASE /\ Kind(n, q) = "typedesc" /\ t = <<n, q>>
           /\ \E i \in Kids(prog[n].tree, q) : p = Append(q, i)
  <2>1. PICK i \in Kids(prog[n].tree, q) : p = Append(q, i)
    BY <1>4
  <2> DEFINE rr == Above(q)
  <2>2. /\ p \in Paths(n) /\ Kind(n, p) = "leaf" /\ TableOf(n, q) = <<n, q>>
        /\ Kind(n, rr) = "case" =>
             VisibleIn(n, p) = {q, rr} /\ Plain(n, rr) /\ TableOf(n, rr) = <<n, q>>
        /\ ImplHead(n, rr) => VisibleIn(n, p) = {q, Above(rr)} /\ Plain(n, q)
        /\ Kind(n, rr) # "case" /\ ~ImplHead(n, rr) =>
             VisibleIn(n, p) = {q} /\ Plain(n, q)
    <3>1. NameSeen(n, q, Append(q, i))
      BY <1>4, NameIsVisible
    <3> QED
      BY <2>1, <3>1 DEF NameSeen
  <2> HIDE DEF rr
  <2>3. \E u \in VisibleIn(n, p) : Plain(n, u) /\ t = TableOf(n, u)
    BY <1>4, <2>2
  <2> QED
    BY <2>2, <2>3 DEF Declarators
<1>5. CASE /\ Kind(n, q) = "fndecl" /\ Node(n, q).ty # "foreign" /\ t = <<n, q>>
           /\ \E i \in Kids(prog[n].tree, Append(q, 1)) : p = Append(Append(q, 1), i)
  <2> DEFINE r == Append(q, 1)
  <2>1. PICK i \in Kids(prog[n].tree, r) : p = Append(r, i)
    BY <1>5
  <2>2. ImplHead(n, q) /\ 1 \in Kids(prog[n].tree, q) /\ q \in Seq(Nat)
    BY <1>5, NodeHere DEF ImplHead
  <2>3. r \in Paths(n) /\ Kind(n, r) \in {"typedesc", "xid"}
    BY <1>5, <2>2, NodeBelowHere
  <2>4. Above(r) = q
    BY <2>2, BeginningsOfChild DEF Above
  <2> HIDE DEF r
  <2>5. Kind(n, r) = "typedesc"
    BY <2>1, <2>3, NodeHere
  <2>6. /\ p \in Paths(n) /\ Kind(n, p) = "leaf"
        /\ ImplHead(n, Above(r)) => VisibleIn(n, p) = {r, Above(Above(r))}
    <3>1. NameSeen(n, r, Append(r, i))
      BY <2>3, <2>5, NameIsVisible
    <3> QED
      BY <2>1, <3>1 DEF NameSeen
  <2>7. Plain(n, Above(q)) /\ TableOf(n, Above(q)) = <<n, q>>
    BY <2>2, ImplementedIs
  <2> QED
    BY <1>5, <2>2, <2>4, <2>6, <2>7 DEF Declarators
<1>6. CASE Kind(n, q) = "for" /\ p = Append(q, 1) /\ t = <<n, q>>
  BY <1>6, LoopIsVisible DEF Declarators
<1> QED
  BY <1>1, <1>2, <1>3, <1>4, <1>5, <1>6 DEF Enters

(* What a scope sees is entered in its table.                              *)
LEMMA VisibleIsEntered ==
    ASSUME prog \in Programs, NEW n \in DOMAIN prog, NEW p \in Paths(n),
           Kind(n, p) \in Declarators, NEW u \in VisibleIn(n, p)
    PROVE  \E s \in {"declare", "check"} : \E q \in Paths(n) :
                Enters(s, n, q, TableOf(n, u), p)
<1>1. CASE Kind(n, p) \in {"fndecl", "typedecl"}
  <2>1. Outer(n, p) = TableOf(n, u)
    BY <1>1, DeclaredIsVisible
  <2>2. Enters("declare", n, p, TableOf(n, u), p)
    BY <1>1, <2>1 DEF Enters
  <2> QED
    BY <2>2
<1>2. CASE Kind(n, p) \in {"leaf", "loopvar"}
  <2>1. p # <<>>
    <3>1. Kind(n, p) \in {"root", "module"} <=> p = <<>>
      BY NodeHere
    <3> QED
      BY <1>2, <3>1
  <2>2. PICK r \in Paths(n) :
          \E i \in Kids(prog[n].tree, r) : p = Append(r, i) /\ r = Above(p)
    BY <2>1, StepUp
  <2>3. PICK i \in Kids(prog[n].tree, r) : p = Append(r, i) /\ r = Above(p)
    BY <2>2
  <2>4. /\ Kind(n, p) = "leaf" => Kind(n, r) \in {"typedesc", "vardecl"}
        /\ Kind(n, p) = "loopvar" => Kind(n, r) = "for" /\ i = 1
        /\ Kind(n, r) = "vardecl" => i = 1
    BY <2>3, NodeBelowHere
  <2>5. CASE Kind(n, r) = "for" /\ i = 1
    <3>1. u = r /\ TableOf(n, r) = <<n, r>>
      BY <2>3, <2>5, LoopIsVisible
    <3>2. Enters("check", n, r, TableOf(n, u), p)
      BY <2>3, <2>5, <3>1 DEF Enters
    <3> QED
      BY <3>2
  <2>6. CASE Kind(n, r) = "vardecl" /\ i = 1
    <3>1. Outer(n, r) = TableOf(n, u)
      BY <2>3, <2>6, VariableIsVisible
    <3>2. Enters("declare", n, r, TableOf(n, u), p)
      BY <2>3, <2>6, <3>1 DEF Enters
    <3> QED
      BY <3>2
  <2>7. CASE Kind(n, r) = "typedesc"
    <3> DEFINE rr == Above(r)
    <3>1. /\ rr \in Paths(n) /\ r = Append(rr, 1) /\ TableOf(n, r) = <<n, r>>
          /\ Kind(n, rr) = "case" =>
               VisibleIn(n, p) = {r, rr} /\ TableOf(n, rr) = <<n, r>>
          /\ ImplHead(n, rr) => VisibleIn(n, p) = {r, Above(rr)}
          /\ Kind(n, rr) # "case" /\ ~ImplHead(n, rr) => VisibleIn(n, p) = {r}
      <4>1. NameSeen(n, r, Append(r, i))
        BY <2>7, NameIsVisible
      <4> QED
        BY <2>3, <4>1 DEF NameSeen
    <3> HIDE DEF rr
    <3>2. CASE TableOf(n, u) = <<n, r>>
      <4>1. Enters("declare", n, r, TableOf(n, u), p)
        BY <2>3, <2>7, <3>2 DEF Enters
      <4> QED
        BY <4>1
    <3>3. CASE ImplHead(n, rr) /\ u = Above(rr)
      <4>1. TableOf(n, u) = <<n, rr>>
        BY <3>1, <3>3, ImplementedIs
      <4>2. Kind(n, rr) = "fndecl" /\ Node(n, rr).ty # "foreign"
        BY <3>3 DEF ImplHead
      <4>3. \E j \in Kids(prog[n].tree, Append(rr, 1)) : p = Append(Append(rr, 1), j)
        BY <2>3, <3>1
      <4>4. Enters("declare", n, rr, TableOf(n, u), p)
        BY <4>1, <4>2, <4>3 DEF Enters
      <4> QED
        BY <3>1, <4>4
    <3> QED
      BY <3>1, <3>2, <3>3
  <2> QED
    BY <1>2, <2>4, <2>5, <2>6, <2>7
<1> QED
  BY <1>1, <1>2 DEF Declarators

-----------------------------------------------------------------------------
(* What the invariant says of the source.                                  *)

(* Two names of a scope would be in one table.                             *)
LEMMA NoneIsTwice ==
    ASSUME TableInvs, NamesIInv, stage = "analyzed",
           NEW n \in DOMAIN prog, NEW p \in Paths(n), Kind(n, p) \in Declarators
    PROVE  ~Twice(n, p)
<1> SUFFICES ASSUME Twice(n, p) PROVE FALSE
  OBVIOUS
<1>1. prog \in Programs /\ AreNamed(tables) /\ errors = {}
  <2>1. PlaceInv /\ ErrorsInv
    BY DEF TableInvs, ScopesIInv
  <2>2. AreNamed(tables)
    BY TableInvsAre
  <2> QED
    BY <2>1, <2>2 DEF PlaceInv, ErrorsInv
<1>2. PICK q \in Declarations(n, Node(n, p).name) \ {p} :
        VisibleIn(n, p) \cap VisibleIn(n, q) # {}
  BY DEF Twice
<1>3. /\ q \in Paths(n) /\ Kind(n, q) \in Declarators /\ q # p
      /\ Node(n, q).name = Node(n, p).name
  BY <1>2 DEF Declarations
<1>4. PICK u : u \in VisibleIn(n, p) /\ u \in VisibleIn(n, q)
  BY <1>2
<1> DEFINE t == TableOf(n, u)
<1>5. ASSUME NEW r \in Paths(n), Kind(n, r) \in Declarators, u \in VisibleIn(n, r)
      PROVE  Kept(tables, t, <<n, r>>)
  <2>1. PICK s \in {"declare", "check"} : \E e \in Paths(n) : Enters(s, n, e, t, r)
    BY <1>1, <1>5, VisibleIsEntered
  <2>2. PICK e \in Paths(n) : Enters(s, n, e, t, r)
    BY <2>1
  <2> HIDE DEF t
  <2>3. Told(s, n, e)
    BY DEF Told, Past, Missed, NamesIInv, LedgerInv
  <2> DEFINE by == <<n, r>>
  <2>4. \E q1, p1 \in Paths(n) : by = <<n, p1>> /\ Enters(s, n, q1, t, p1) /\ Told(s, n, q1)
    BY <2>2, <2>3
  <2>5. Due(t, by)
    <3> HIDE DEF by
    <3> QED
      BY <2>4 DEF Due
  <2> HIDE DEF by
  <2>6. Kept(tables, t, by)
    BY <1>1, <2>5 DEF NamesIInv, LedgerInv
  <2> QED
    BY <2>6 DEF by
<1>6. Kept(tables, t, <<n, p>>) /\ Kept(tables, t, <<n, q>>)
  BY <1>3, <1>4, <1>5
<1> HIDE DEF t
<1> DEFINE a == <<n, p>>
           b == <<n, q>>
<1>7. a[1] = n /\ a[2] = p /\ b[1] = n /\ b[2] = q
  OBVIOUS
<1> HIDE DEF a, b
<1>8. Kept(tables, t, a) /\ Kept(tables, t, b)
  BY <1>6 DEF a, b
<1>9. PICK x \in DOMAIN tables[t].recs : tables[t].recs[x].by = a
  BY <1>8 DEF Kept
<1>10. PICK y \in DOMAIN tables[t].recs : tables[t].recs[y].by = b
  BY <1>8 DEF Kept
<1>11. Node(a[1], a[2]).name = x
  BY <1>1, <1>8, <1>9 DEF AreNamed, Kept
<1>12. Node(b[1], b[2]).name = y
  BY <1>1, <1>8, <1>10 DEF AreNamed, Kept
<1>13. x = y
  BY <1>3, <1>7, <1>11, <1>12
<1>14. a = b
  BY <1>9, <1>10, <1>13
<1> QED
  BY <1>3, <1>7, <1>14

(* A function whose name is taken in the current table is declared twice,  *)
(* or has the name of a module of its file.                                *)
LEMMA TakenIsTwice ==
    ASSUME TableInvs, NamesIInv, stage = "declare", dir = "down", Here.k = "fndecl",
           Has(tables, cur, Here.name)
    PROVE  Twice(m, at) \/ (Kind(m, <<>>) = "root" /\ InFile(m, Here.name) # {})
<1>1. PlaceInv /\ ErrorsInv /\ CurInv /\ AreNamed(tables)
  BY TableInvsAre DEF TableInvs, ScopesIInv
<1>2. /\ prog \in Programs /\ m \in DOMAIN prog /\ at \in Paths(m)
      /\ Here = Node(m, at) /\ Kind(m, at) = "fndecl"
  BY <1>1, PlaceIs
<1>3. errors = {} /\ Walking
  BY <1>1 DEF ErrorsInv, Walking
<1>4. cur = Outer(m, at)
  BY <1>1 DEF CurInv
<1>5. PICK u : VisibleIn(m, at) = {u} /\ Plain(m, u) /\ cur = TableOf(m, u)
  BY <1>2, <1>4, DeclaredIsVisible
<1> DEFINE x == Here.name
           by == tables[cur].recs[x].by
<1>6. cur \in DOMAIN tables
  <2>1. Ready
    BY HereIsReady
  <2> QED
    BY <2>1 DEF Ready
<1>7. Kept(tables, cur, by) /\ Node(by[1], by[2]).name = x
  <2>1. x \in DOMAIN tables[cur].recs
    BY DEF Has
  <2> QED
    BY <1>1, <1>6, <2>1 DEF AreNamed, Kept
<1> HIDE DEF by
<1>8. Due(cur, by)
  BY <1>3, <1>7 DEF NamesIInv, LedgerInv
<1>9. PICK s \in {"declare", "check"}, n \in DOMAIN prog :
        \E q, p \in Paths(n) :
            by = <<n, p>> /\ Enters(s, n, q, cur, p) /\ Told(s, n, q)
  BY <1>8 DEF Due
<1>10. PICK q \in Paths(n), p \in Paths(n) :
            by = <<n, p>> /\ Enters(s, n, q, cur, p) /\ Told(s, n, q)
  BY <1>9
<1>11. Node(n, p).name = x
  BY <1>7, <1>10
<1>12. CASE Kind(n, p) = "module" /\ p = <<>> /\ q = p /\ s = "declare"
            /\ cur = FileTable(n)
  <2>1. n \in Nat \ {0} /\ m \in Nat \ {0}
    BY <1>2, ModulesAre
  <2> DEFINE t == cur
  <2>2. Kind(m, u) = "root"
    <3>1. TableOf(m, u) = <<0, prog[n].file>>
      BY <1>5, <1>12 DEF FileTable
    <3>2. <<0, prog[n].file>>[1] = 0
      OBVIOUS
    <3>3. TableOf(m, u)[1] = 0
      BY <3>1, <3>2
    <3>4. Kind(m, u) # "root" => TableOf(m, u)[1] = m
      BY DEF TableOf
    <3> QED
      BY <2>1, <3>3, <3>4
  <2>3. u = <<>>
    <3>1. u \in Paths(m)
      BY <1>5 DEF Plain
    <3>2. Kind(m, u) \in {"root", "module"} <=> u = <<>>
      BY <1>2, <3>1, NodeHere
    <3> QED
      BY <2>2, <3>2
  <2> DEFINE v == prog[m].file
             w == prog[n].file
  <2>4. v = w
    <3>1. <<0, v>> = <<0, w>>
      BY <1>5, <1>12, <2>2 DEF TableOf, FileTable
    <3> HIDE DEF v, w
    <3>2. <<0, v>>[2] = v /\ <<0, w>>[2] = w
      OBVIOUS
    <3> QED
      BY <3>1, <3>2
  <2>5. n < m \/ n = m
    BY <1>3, <1>10, <1>12 DEF Told, Past
  <2>6. n \in 1..m
    BY <2>1, <2>5
  <2>7. ModuleName(n) = x
    BY <1>11, <1>12, RootNode DEF ModuleName, Node
  <2>8. <<n, <<>>>> \in InFile(m, x)
    BY <1>12, <2>4, <2>6, <2>7 DEF InFile
  <2> QED
    BY <2>2, <2>3, <2>8
<1>13. CASE /\ Kind(n, p) \in Declarators
            /\ Kind(n, p) = "fndecl" => p = q /\ s = "declare"
            /\ \E r \in VisibleIn(n, p) : Plain(n, r) /\ cur = TableOf(n, r)
  <2>1. PICK r \in VisibleIn(n, p) : Plain(n, r) /\ cur = TableOf(n, r)
    BY <1>13
  <2>2. n = m /\ r = u
    BY <1>2, <1>5, <2>1, TableIsOne
  <2>3. p # at
    <3> SUFFICES ASSUME p = at PROVE FALSE
      OBVIOUS
    <3>1. q = at /\ s = "declare"
      BY <1>2, <1>13, <2>2
    <3>2. ~(m < m)
      BY <1>1, PlaceIs
    <3> QED
      BY <1>1, <1>3, <1>10, <2>2, <3>1, <3>2, NotComeHere DEF Told, Past
  <2>4. p \in Declarations(m, Node(m, at).name)
    BY <1>2, <1>10, <1>11, <1>13, <2>2 DEF Declarations
  <2>5. u \in VisibleIn(m, at) \cap VisibleIn(m, p)
    BY <1>5, <2>1, <2>2
  <2> QED
    BY <2>3, <2>4, <2>5 DEF Twice
<1> QED
  BY <1>2, <1>10, <1>12, <1>13, EntryIsVisible

-----------------------------------------------------------------------------
(* The induction.                                                          *)

(* At the start the tables list nothing, and nothing is due.               *)
LEMMA StartIsNamed == SInit => NamesIInv
<1> SUFFICES ASSUME SInit PROVE NamesIInv
  OBVIOUS
<1>1. /\ prog \in Programs /\ stage = "declare" /\ m = 1 /\ at = <<>> /\ dir = "down"
      /\ tables = [t \in {FileTable(n) : n \in DOMAIN prog} \cup
                       {ModuleTable(n) : n \in DOMAIN prog} |-> NewTable(t[1])]
  BY DEF SInit
<1>2. \A q : ~Come(q)
  BY <1>1, ComeAtTheStart
<1>3. \A n \in DOMAIN prog : n \in Nat \ {0}
  BY <1>1, ModulesAre
<1>4. ASSUME NEW s, NEW n \in DOMAIN prog, NEW q PROVE ~Past(s, n, q)
  BY <1>1, <1>2, <1>3 DEF Past, Walking
<1>5. ASSUME NEW t, NEW by PROVE ~Kept(tables, t, by) /\ ~Due(t, by)
  <2>1. \A u \in DOMAIN tables : tables[u] = NewTable(u[1])
    BY <1>1
  <2>2. \A x : DOMAIN NewTable(x).recs = {}
    BY DEF NewTable, NoRecords
  <2>3. ~Kept(tables, t, by)
    BY <2>1, <2>2 DEF Kept
  <2>4. ~Due(t, by)
    BY <1>4 DEF Due, Told
  <2> QED
    BY <2>3, <2>4
<1>6. LedgerInv
  BY <1>1, <1>5 DEF LedgerInv
<1>7. ASSUME NEW n \in DOMAIN prog, NEW q, <<n, q>> \in DOMAIN tables PROVE q = <<>>
  <2> DEFINE w == <<n, q>>
  <2>1. w[1] = n /\ w[2] = q
    OBVIOUS
  <2>2. w \in {FileTable(k) : k \in DOMAIN prog} \cup {ModuleTable(k) : k \in DOMAIN prog}
    BY <1>1, <1>7
  <2> HIDE DEF w
  <2>3. n # 0
    BY <1>3
  <2>4. \A k : FileTable(k)[1] = 0
    BY DEF FileTable
  <2>5. PICK k \in DOMAIN prog : w = ModuleTable(k)
    BY <2>1, <2>2, <2>3, <2>4
  <2>6. Kind(k, <<>>) \in {"root", "module"}
    BY <1>1, SourceTree
  <2>7. ModuleTable(k) = FileTable(k) \/ ModuleTable(k) = <<k, <<>>>>
    BY <2>6 DEF ModuleTable, TableOf
  <2>8. <<k, <<>>>>[2] = <<>>
    OBVIOUS
  <2> QED
    BY <2>1, <2>3, <2>4, <2>5, <2>7, <2>8
<1>8. FreshInv
  BY <1>7 DEF FreshInv
<1>9. AssertedInv
  BY <1>1 DEF AssertedInv
<1> QED
  BY <1>6, <1>8, <1>9 DEF NamesIInv

(* Nothing happens.                                                        *)
LEMMA PastStays ==
    ASSUME UNCHANGED svars, NEW s, NEW n, NEW q
    PROVE  Past(s, n, q)' <=> Past(s, n, q)
BY DEF Past, Walking, Come, Behind, svars

LEMMA LedgerInductive ==
    ASSUME TableInvs, NamesIInv, [SNext]_svars
    PROVE  LedgerInv'
<1>1. PlaceInv /\ LostInv /\ ParentsInv
  BY DEF TableInvs, ScopesIInv
<1>2. ASSUME Walking' \/ stage' = "analyzed", NEW t, NEW by
      PROVE  Kept(tables', t, by) <=> Due(t, by)'
  <2>1. Walking \/ stage = "analyzed" => (Kept(tables, t, by) <=> Due(t, by))
    BY DEF NamesIInv, LedgerInv
  <2>2. CASE GoesDown /\ Records
    <3>1. Walking
      BY <2>2 DEF GoesDown
    <3>2. Due(t, by)' <=> Due(t, by) \/ EntersHere(t, by)
      BY <1>1, <2>2, DueDown
    <3> QED
      BY <2>1, <2>2, <3>1, <3>2 DEF Records
  <2>3. CASE HaltsKeeping
    BY <1>2, <2>3 DEF HaltsKeeping, Halts, Walking
  <2>4. CASE Leaves /\ tables' = tables
    <3>1. Walking /\ prog' = prog /\ lost' = lost
      BY <2>4 DEF Leaves
    <3>2. ASSUME NEW s \in {"declare", "check"}, NEW n \in DOMAIN prog, NEW q \in Paths(n)
          PROVE  Told(s, n, q)' <=> Told(s, n, q)
      <4>1. CASE at # <<>>
        BY <1>1, <2>4, <3>1, <4>1, PastOn, ToldKeeps
      <4>2. CASE at = <<>>
        BY <1>1, <1>2, <2>4, <3>1, <4>2, PastTheEnd, ToldKeeps
      <4> QED
        BY <4>1, <4>2
    <3>3. Due(t, by)' <=> Due(t, by)
      BY <3>1, <3>2, DueKeeps
    <3> QED
      BY <2>1, <2>4, <3>1, <3>3
  <2>5. CASE tables' = tables /\ GivesUp
    <3>1. Walking /\ prog' = prog
      BY <2>5 DEF GivesUp, GiveUp, Walking
    <3>2. at # <<>>
      <4> SUFFICES ASSUME at = <<>> PROVE FALSE
        OBVIOUS
      <4>1. parents' = <<>> /\ parents' = Append(parents, at)
        BY <2>5 DEF GivesUp, GiveUp, GoOn, FinishWalk, Restart
      <4> QED
        BY <1>1, <3>1, <4>1, ParentsGrow DEF ParentsInv
    <3>3. \A s \in {"declare", "check"} : \A n \in DOMAIN prog : \A q \in Paths(n) :
            Told(s, n, q)' <=> Told(s, n, q)
      BY <1>1, <2>5, <3>2, ToldOfTheLost
    <3>4. Due(t, by)' <=> Due(t, by)
      BY <3>1, <3>3, DueKeeps
    <3> QED
      BY <2>1, <2>5, <3>1, <3>4
  <2>6. CASE UNCHANGED svars
    <3>1. prog' = prog /\ tables' = tables /\ stage' = stage /\ lost' = lost
      BY <2>6 DEF svars
    <3>2. \A s \in {"declare", "check"} : \A n \in DOMAIN prog : \A q \in Paths(n) :
            Told(s, n, q)' <=> Told(s, n, q)
      BY <2>6, <3>1, PastStays, ToldKeeps
    <3>3. Due(t, by)' <=> Due(t, by)
      BY <3>1, <3>2, DueKeeps
    <3>4. Walking \/ stage = "analyzed"
      BY <1>2, <3>1 DEF Walking
    <3> QED
      BY <2>1, <3>1, <3>3, <3>4
  <2> QED
    BY <2>2, <2>3, <2>4, <2>5, <2>6, NamesMove
<1>3. ASSUME stage' = "analyzed" PROVE lost' = {}
  <2>1. CASE UNCHANGED svars
    BY <1>3, <2>1 DEF svars, NamesIInv, LedgerInv
  <2>2. CASE GoesDown
    BY <1>3, <2>2 DEF GoesDown, Walking
  <2>3. CASE Halts
    BY <1>3, <2>3 DEF Halts
  <2>4. CASE GivesUp
    <3>1. PICK what : GiveUp(what)
      BY <2>4 DEF GivesUp
    <3>2. /\ FinishWalk(errors') /\ stage = "check"
          /\ \E e \in errors' : e.node[1] = m
      <4>1. GoOn(errors', cur) /\ stage = "check" /\ errors' = errors \cup Said(what)
        BY <2>4, <3>1 DEF GivesUp, GiveUp
      <4>2. FinishWalk(errors')
        BY <1>3, <4>1 DEF GoOn
      <4> DEFINE e == [node |-> Where, what |-> what]
      <4>3. e \in errors' /\ e.node[1] = m
        BY <4>1 DEF Said, Where
      <4> QED
        BY <4>1, <4>2, <4>3
    <3> QED
      BY <1>3, <3>2 DEF FinishWalk, Restart
  <2>5. CASE Leaves
    <3>1. /\ Walking /\ GoOn(errors', Restored) /\ errors \subseteq errors' /\ lost' = lost
      BY <2>5 DEF Leaves
    <3>2. FinishWalk(errors')
      BY <1>3, <3>1 DEF GoOn, Walking
    <3>3. ~\E e \in errors' : e.node[1] = m
      BY <1>3, <3>1, <3>2 DEF FinishWalk, Restart, Walking
    <3>4. ASSUME NEW w \in lost PROVE FALSE
      <4>1. w = <<m, w[2]>> /\ \E e \in errors : e.node = w
        BY <1>1, <3>1 DEF LostInv
      <4>2. w[1] = m
        BY <4>1
      <4> QED
        BY <3>1, <3>3, <4>1, <4>2
    <3> QED
      BY <3>1, <3>4
  <2> QED
    BY <2>1, <2>2, <2>3, <2>4, <2>5, StepIsAMove
<1> QED
  BY <1>2, <1>3 DEF LedgerInv

LEMMA FreshInductive ==
    ASSUME TableInvs, NamesIInv, [SNext]_svars
    PROVE  FreshInv'
<1>1. PlaceInv /\ (errors' = {} => errors = {})
  BY ErrorsStay DEF TableInvs, ScopesIInv
<1>2. prog' = prog => \A n : Paths(n)' = Paths(n)
  BY DEF Paths
<1>3. prog' = prog
  <2>1. GoesDown \/ Leaves \/ GivesUp \/ Halts \/ UNCHANGED svars
    BY StepIsAMove
  <2> QED
    BY <2>1 DEF GoesDown, Leaves, GivesUp, GiveUp, Halts, svars
<1> SUFFICES ASSUME errors' = {}, Walking', NEW n \in DOMAIN prog,
                    NEW q \in Paths(n), q # <<>>, <<n, q>> \in DOMAIN tables'
             PROVE  Past("declare", n, q)'
  BY <1>2, <1>3 DEF FreshInv
<1>4. Walking /\ <<n, q>> \in DOMAIN tables => Past("declare", n, q)
  BY <1>1 DEF NamesIInv, FreshInv
<1>5. CASE Makes \/ Passes \/ Sets
  <2>1. GoesDown /\ Walking
    BY <1>5 DEF Makes, Passes, Sets, GoesDown
  <2>2. Past("declare", n, q)' <=>
            Past("declare", n, q) \/ ("declare" = stage /\ n = m /\ q = at)
    BY <1>1, <2>1, PastDown
  <2>3. CASE <<n, q>> \in DOMAIN tables
    BY <1>4, <2>1, <2>2, <2>3
  <2>4. CASE <<n, q>> \notin DOMAIN tables
    <3>1. Makes
      BY <1>5, <2>4 DEF Passes, Sets, Alike
    <3>2. <<n, q>> = Where /\ stage = "declare"
      BY <2>4, <3>1 DEF Makes, Grown
    <3>3. n = m /\ q = at
      BY <3>2 DEF Where
    <3> QED
      BY <2>2, <3>2, <3>3
  <2> QED
    BY <2>3, <2>4
<1>6. CASE PassesBy
  BY <1>6 DEF PassesBy, GivesUp, GiveUp, Said
<1>7. CASE Moves
  <2>1. Leaves /\ tables' = tables /\ Walking
    BY <1>7 DEF Moves, Leaves
  <2>2. Past("declare", n, q)' <=> Past("declare", n, q)
    <3>1. CASE at # <<>>
      BY <1>1, <2>1, <3>1, PastOn
    <3>2. CASE at = <<>>
      BY <1>1, <2>1, <3>2, PastTheEnd
    <3> QED
      BY <3>1, <3>2
  <2> QED
    BY <1>4, <2>1, <2>2
<1>8. CASE Stands
  BY <1>8 DEF Stands, Halts, Walking
<1>9. CASE UNCHANGED svars
  <2>1. tables' = tables /\ Walking
    BY <1>9 DEF svars, Walking
  <2> QED
    BY <1>4, <1>9, <2>1, PastStays
<1> QED
  BY <1>5, <1>6, <1>7, <1>8, <1>9, TablesMove

(* What the source says twice it says at all times.                        *)
LEMMA TwiceKeeps ==
    ASSUME prog' = prog, NEW n, NEW p
    PROVE  /\ Twice(n, p)' <=> Twice(n, p)
           /\ \A x : InFile(n, x)' = InFile(n, x)
<1>1. ASSUME NEW q
      PROVE  /\ Kind(n, q)' = Kind(n, q) /\ Node(n, q)' = Node(n, q)
             /\ IsScope(n, q)' = IsScope(n, q)
  BY DEF Kind, Node, IsScope
<1>2. ASSUME NEW q PROVE ScopesAround(n, q)' = ScopesAround(n, q)
  BY <1>1 DEF ScopesAround
<1>3. ASSUME NEW q PROVE ScopeAround(n, q)' = ScopeAround(n, q)
  BY <1>2 DEF ScopeAround
<1>4. ASSUME NEW q PROVE VisibleIn(n, q)' = VisibleIn(n, q)
  <2>1. PICK s : s = ScopeAround(n, Above(q))
    OBVIOUS
  <2>2. ScopeAround(n, Above(q))' = s
    BY <1>3, <2>1
  <2>3. PICK o : o = Above(s)
    OBVIOUS
  <2> QED
    BY <1>1, <1>3, <2>1, <2>2, <2>3 DEF VisibleIn
<1>5. Paths(n)' = Paths(n)
  BY DEF Paths
<1>6. ASSUME NEW x PROVE Declarations(n, x)' = Declarations(n, x)
  BY <1>1, <1>5 DEF Declarations
<1>7. Declarations(n, Node(n, p).name)' = Declarations(n, Node(n, p).name)
  BY <1>1, <1>6
<1>8. Twice(n, p)' <=> Twice(n, p)
  BY <1>4, <1>7 DEF Twice
<1>9. ASSUME NEW x PROVE InFile(n, x)' = InFile(n, x)
  BY DEF InFile, Kind, Node, ModuleName
<1> QED
  BY <1>8, <1>9

(* An assertion stops the first walk on its way down.                      *)
LEMMA AssertsOnTheWayDown ==
    ASSUME [SNext]_svars, stage = "declare", stage' = "asserted"
    PROVE  dir = "down"
<1>1. CASE \/ DeclareScope \/ DeclareModule \/ DeclareFunction
           \/ DeclareDescription \/ DeclareVariable \/ DeclareType \/ DeclareOther
  BY <1>1 DEF DeclareScope, DeclareModule, DeclareFunction, DeclareDescription,
              DeclareVariable, DeclareType, DeclareOther, Declaring
<1>2. CASE CheckScope \/ CheckOther \/ CheckMatch \/ CheckFor
  BY <1>2 DEF CheckScope, CheckOther, CheckMatch, CheckFor, Checking
<1>3. CASE LeaveDeclared \/ CheckUse \/ CheckReturn \/ LeaveOther
  <2>1. Leaves
    BY <1>3, LeavingIsAMove
  <2> QED
    BY <2>1 DEF Leaves, GoOn, FinishWalk, Restart
<1>4. CASE UNCHANGED svars
  BY <1>4 DEF svars
<1> QED
  BY <1>1, <1>2, <1>3, <1>4 DEF SNext, Done

LEMMA AssertedInductive ==
    ASSUME TableInvs, NamesIInv, [SNext]_svars
    PROVE  AssertedInv'
<1> SUFFICES ASSUME stage' = "asserted"
             PROVE  (Twice(m, at) \/ (Kind(m, <<>>) = "root" /\ InFile(m, Here.name) # {}))'
  BY DEF AssertedInv
<1>1. /\ prog' = prog /\ m' = m /\ at' = at
      /\ Twice(m, at) \/ (Kind(m, <<>>) = "root" /\ InFile(m, Here.name) # {})
  <2>1. CASE UNCHANGED svars
    BY <2>1 DEF svars, NamesIInv, AssertedInv
  <2>2. CASE ~UNCHANGED svars
    <3>1. Walking
      <4>1. GoesDown \/ Leaves \/ GivesUp \/ Halts
        BY <2>2, StepIsAMove
      <4> QED
        BY <4>1 DEF GoesDown, Leaves, GivesUp, Halts, Walking
    <3>2. stage = "declare"
      BY <3>1, CheckNeverAsserts DEF Walking
    <3>3. errors = {}
      BY <3>1, <3>2 DEF TableInvs, ScopesIInv, ErrorsInv
    <3>4. dir = "down"
      BY <3>2, AssertsOnTheWayDown
    <3>5. HaltsKeeping
      <4>1. ~GoesDown
        BY <3>2 DEF GoesDown
      <4>2. ~Leaves
        BY <3>4 DEF Leaves
      <4> QED
        BY <2>2, <3>3, <4>1, <4>2, NamesMove
    <3>6. Here.k = "fndecl" /\ Has(tables, cur, Here.name)
      BY <3>5 DEF HaltsKeeping
    <3> QED
      BY <3>2, <3>4, <3>5, <3>6, TakenIsTwice DEF HaltsKeeping, Halts
  <2> QED
    BY <2>1, <2>2
<1>2. PICK n : n = m
  OBVIOUS
<1>3. PICK p : p = at
  OBVIOUS
<1>4. PICK x : x = Here.name
  OBVIOUS
<1>5. Here' = Here
  BY <1>1 DEF Here, Node
<1>6. Here.name' = x
  BY <1>4, <1>5
<1>7. /\ Twice(n, p)' <=> Twice(n, p)
      /\ InFile(n, x)' = InFile(n, x) /\ Kind(n, <<>>)' = Kind(n, <<>>)
  BY <1>1, TwiceKeeps, TreesKeep
<1>8. Twice(m, at)' <=> Twice(n, p)'
  BY <1>1, <1>2, <1>3
<1>9. InFile(m, Here.name)' = InFile(n, x)'
  BY <1>1, <1>2, <1>6
<1>10. Kind(m, <<>>)' = Kind(n, <<>>)'
  BY <1>1, <1>2
<1> QED
  BY <1>1, <1>2, <1>3, <1>4, <1>7, <1>8, <1>9, <1>10

-----------------------------------------------------------------------------
(* The theorem.                                                            *)

(* In a program of any number of modules, of trees of any depth, what the  *)
(* analyzer accepts declares no name twice in a scope, and the assertion   *)
(* of symbol_table_add_node() stops only a function whose name its scope   *)
(* has already: the callbacks of analyzer_pass1.c ask the current table    *)
(* before they add to it, for a function whether it has a function of that *)
(* name only, and the names of an argument list are added to two tables.   *)
THEOREM NamesAreOnce == SSpec => []NamesAreUnique
<1> DEFINE I == TableInvs /\ NamesIInv
<1>1. SInit => I
  BY StartIsSound, StartHasTables, StartIsNamed DEF TableInvs
<1>2. I /\ [SNext]_svars => I'
  <2> SUFFICES ASSUME TableInvs, NamesIInv, [SNext]_svars PROVE I'
    OBVIOUS
  <2>1. TableInvs'
    BY TablesInductive
  <2>2. NamesIInv'
    BY LedgerInductive, FreshInductive, AssertedInductive DEF NamesIInv
  <2> QED
    BY <2>1, <2>2
<1>3. I => NamesAreUnique
  <2> SUFFICES ASSUME TableInvs, NamesIInv PROVE NamesAreUnique
    OBVIOUS
  <2>1. stage = "analyzed" =>
            \A n \in DOMAIN prog : \A p \in Paths(n) :
                Kind(n, p) \in Declarators => ~Twice(n, p)
    BY NoneIsTwice
  <2>2. AssertedInv
    BY DEF NamesIInv
  <2> QED
    BY <2>1, <2>2 DEF NamesAreUnique, AssertedInv
<1> HIDE DEF I
<1> QED
  BY <1>1, <1>2, <1>3, PTL DEF SSpec

-----------------------------------------------------------------------------
(* The tables above a table.                                               *)

LEMMA PrefixIs ==
    ASSUME NEW S, NEW c \in Seq(S), NEW i \in 1..Len(c)
    PROVE  /\ SubSeq(c, 1, i) \in Seq(S) /\ Len(SubSeq(c, 1, i)) = i
           /\ Last(SubSeq(c, 1, i)) = c[i]
           /\ i < Len(c) => Append(SubSeq(c, 1, i), c[i + 1]) = SubSeq(c, 1, i + 1)
           /\ i = Len(c) => SubSeq(c, 1, i) = c
<1> DEFINE b == SubSeq(c, 1, i)
<1>1. b \in Seq(S) /\ Len(b) = i /\ \A j \in 1..i : b[j] = c[j]
  OBVIOUS
<1>2. i < Len(c) => SubSeq(c, 1, i + 1) \in Seq(S) /\ Len(SubSeq(c, 1, i + 1)) = i + 1
                    /\ \A j \in 1..(i + 1) : SubSeq(c, 1, i + 1)[j] = c[j]
  OBVIOUS
<1> HIDE DEF b
<1>3. Last(b) = c[i]
  BY <1>1 DEF Last
<1>4. ASSUME i < Len(c) PROVE Append(b, c[i + 1]) = SubSeq(c, 1, i + 1)
  <2> DEFINE a == Append(b, c[i + 1])
             d == SubSeq(c, 1, i + 1)
  <2>1. c[i + 1] \in S
    BY <1>4
  <2>2. a \in Seq(S) /\ Len(a) = i + 1 /\ a[i + 1] = c[i + 1]
        /\ \A j \in 1..i : a[j] = c[j]
    BY <1>1, <2>1
  <2>3. d \in Seq(S) /\ Len(d) = i + 1 /\ \A j \in 1..(i + 1) : d[j] = c[j]
    BY <1>2, <1>4
  <2> HIDE DEF a, d
  <2>4. \A j \in 1..(i + 1) : a[j] = d[j]
    BY <2>2, <2>3
  <2>5. a = d
    BY <2>2, <2>3, <2>4
  <2> QED
    BY <2>5 DEF a, d
<1>5. i = Len(c) => b = c
  BY <1>1
<1> QED
  BY <1>1, <1>3, <1>4, <1>5 DEF b

(* The way up from a table.                                                *)
WayUp(ts, c) ==
    /\ c \in Seq(DOMAIN ts) /\ Len(c) \in 1..(MaxDepth + 3)
    /\ \A i \in 1..(Len(c) - 1) : c[i + 1] = ts[c[i]].parent /\ c[i + 1] # NoTable
    /\ ts[c[Len(c)]].parent = NoTable

GoneUp(f, ts, t) ==
    f = [n \in 0..(MaxDepth + 2) |->
            IF n = 0 THEN <<t>>
            ELSE LET below == f[n - 1]
                     above == ts[Last(below)].parent
                 IN  IF above = NoTable THEN below ELSE Append(below, above)]

LEMMA GoneUpIs ==
    ASSUME NEW ts, NEW t, NEW f, MaxDepth \in Nat, GoneUp(f, ts, t)
    PROVE  /\ f[0] = <<t>>
           /\ \A n \in 1..(MaxDepth + 2) :
                f[n] = IF ts[Last(f[n - 1])].parent = NoTable THEN f[n - 1]
                       ELSE Append(f[n - 1], ts[Last(f[n - 1])].parent)
<1> DEFINE Step(n) == IF ts[Last(f[n - 1])].parent = NoTable THEN f[n - 1]
                      ELSE Append(f[n - 1], ts[Last(f[n - 1])].parent)
           g == [n \in 0..(MaxDepth + 2) |-> IF n = 0 THEN <<t>> ELSE Step(n)]
<1>1. f = g
  BY DEF GoneUp
<1>2. g[0] = <<t>>
  OBVIOUS
<1>3. \A n \in 1..(MaxDepth + 2) : g[n] = Step(n)
  <2> HIDE DEF Step
  <2> QED
    OBVIOUS
<1> HIDE DEF g
<1> QED
  BY <1>1, <1>2, <1>3

LEMMA UpwardsIs ==
    ASSUME NEW ts, NEW c, MaxDepth \in Nat, WayUp(ts, c)
    PROVE  Upwards(ts, c[1]) = c
<1> DEFINE t == c[1]
           K == MaxDepth + 2
           At(n) == IF n + 1 <= Len(c) THEN n + 1 ELSE Len(c)
           g == [n \in 0..K |-> SubSeq(c, 1, At(n))]
           chain == CHOOSE f : GoneUp(f, ts, t)
<1>1. /\ c \in Seq(DOMAIN ts) /\ Len(c) \in Nat /\ 1 <= Len(c) /\ Len(c) <= MaxDepth + 3
      /\ \A i \in 1..(Len(c) - 1) : c[i + 1] = ts[c[i]].parent /\ c[i + 1] # NoTable
      /\ ts[c[Len(c)]].parent = NoTable
  BY DEF WayUp
<1>2. Upwards(ts, t) = chain[K]
  BY DEF Upwards, GoneUp
<1>3. ASSUME NEW n \in 0..K
      PROVE  g[n] = IF n = 0 THEN <<t>>
                    ELSE IF ts[Last(g[n - 1])].parent = NoTable THEN g[n - 1]
                    ELSE Append(g[n - 1], ts[Last(g[n - 1])].parent)
  <2>1. CASE n = 0
    <3>1. At(0) = 1
      BY <1>1
    <3>2. SubSeq(c, 1, 1) = <<c[1]>>
      <4>1. 1 \in 1..Len(c) /\ c[1] \in DOMAIN ts
        BY <1>1
      <4> DEFINE b == SubSeq(c, 1, 1)
      <4>2. b \in Seq(DOMAIN ts) /\ Len(b) = 1 /\ Last(b) = c[1]
        BY <1>1, <4>1, PrefixIs
      <4> HIDE DEF b
      <4>3. b[1] = c[1]
        BY <4>2 DEF Last
      <4>4. b = <<c[1]>>
        BY <4>1, <4>2, <4>3
      <4> QED
        BY <4>4 DEF b
    <3>3. g[0] = SubSeq(c, 1, At(0))
      BY <2>1
    <3> QED
      BY <2>1, <3>1, <3>2, <3>3
  <2>2. CASE n # 0
    <3>1. n \in 1..K /\ n - 1 \in 0..K /\ (n - 1) + 1 = n
      BY <2>2
    <3>2. g[n] = SubSeq(c, 1, At(n)) /\ g[n - 1] = SubSeq(c, 1, At(n - 1))
      BY <3>1
    <3>3. CASE n < Len(c)
      <4>1. At(n - 1) = n /\ At(n) = n + 1 /\ n \in 1..Len(c) /\ n \in 1..(Len(c) - 1)
        BY <1>1, <3>1, <3>3
      <4>2. Last(SubSeq(c, 1, n)) = c[n]
            /\ Append(SubSeq(c, 1, n), c[n + 1]) = SubSeq(c, 1, n + 1)
        BY <1>1, <3>3, <4>1, PrefixIs
      <4>3. c[n + 1] = ts[c[n]].parent /\ c[n + 1] # NoTable
        BY <1>1, <4>1
      <4> HIDE DEF g, At
      <4> QED
        BY <2>2, <3>2, <4>1, <4>2, <4>3
    <3>4. CASE ~(n < Len(c))
      <4>1. At(n - 1) = Len(c) /\ At(n) = Len(c) /\ Len(c) \in 1..Len(c)
        BY <1>1, <3>1, <3>4
      <4>2. Last(SubSeq(c, 1, Len(c))) = c[Len(c)] /\ SubSeq(c, 1, Len(c)) = c
        BY <1>1, <4>1, PrefixIs
      <4> HIDE DEF g, At
      <4> QED
        BY <1>1, <2>2, <3>2, <4>1, <4>2
    <3> QED
      BY <3>3, <3>4
  <2> QED
    BY <2>1, <2>2
<1>4. GoneUp(g, ts, t)
  <2> DEFINE h == [n \in 0..K |-> IF n = 0 THEN <<t>>
                    ELSE IF ts[Last(g[n - 1])].parent = NoTable THEN g[n - 1]
                    ELSE Append(g[n - 1], ts[Last(g[n - 1])].parent)]
  <2>1. DOMAIN g = 0..K /\ DOMAIN h = 0..K /\ g = [n \in 0..K |-> g[n]]
    OBVIOUS
  <2>2. \A n \in 0..K : g[n] = h[n]
    <3> HIDE DEF g
    <3> QED
      BY <1>3
  <2>3. g = h
    <3> HIDE DEF g
    <3> QED
      BY <1>3, <2>1
  <2> QED
    BY <2>3 DEF GoneUp
<1>5. GoneUp(chain, ts, t)
  <2> HIDE DEF g
  <2> QED
    BY <1>4
<1> HIDE DEF chain
<1>6. /\ chain[0] = <<t>>
      /\ \A n \in 1..(MaxDepth + 2) :
            chain[n] = IF ts[Last(chain[n - 1])].parent = NoTable THEN chain[n - 1]
                       ELSE Append(chain[n - 1], ts[Last(chain[n - 1])].parent)
  BY <1>5, GoneUpIs
<1> DEFINE S == {n \in Nat : n <= K => chain[n] = g[n]}
<1>7. 0 \in S
  <2>1. g[0] = <<t>>
    <3>1. 0 \in 0..K
      OBVIOUS
    <3> HIDE DEF g
    <3> QED
      BY <1>3, <3>1
  <2> QED
    BY <1>6, <2>1
<1>8. ASSUME NEW n \in S PROVE n + 1 \in S
  <2> SUFFICES ASSUME n + 1 <= K PROVE chain[n + 1] = g[n + 1]
    OBVIOUS
  <2> HIDE DEF g
  <2>1. n + 1 \in 1..(MaxDepth + 2) /\ n + 1 \in 0..K /\ (n + 1) - 1 = n /\ n + 1 # 0
    OBVIOUS
  <2>2. chain[n] = g[n]
    BY <2>1
  <2> QED
    BY <1>3, <1>6, <2>1, <2>2
<1>9. S = Nat
  <2> HIDE DEF g
  <2> QED
    BY <1>7, <1>8, EveryNumber
<1>10. chain[K] = g[K]
  <2>1. K \in Nat /\ K <= K
    OBVIOUS
  <2>2. K \in S
    <3> HIDE DEF S, K
    <3> QED
      BY <1>9, <2>1
  <2> QED
    BY <2>1, <2>2
<1>11. g[K] = c
  <2>1. At(K) = Len(c) /\ Len(c) \in 1..Len(c) /\ K \in 0..K
    BY <1>1
  <2>2. g[K] = SubSeq(c, 1, Len(c))
    BY <2>1
  <2> QED
    BY <1>1, <2>1, <2>2, PrefixIs
<1> QED
  BY <1>2, <1>10, <1>11

(* A table from which it is at most k tables up to one under no other.     *)
Climbs(ts, t, k) ==
    \E c \in Seq(DOMAIN ts) :
        c[1] = t /\ Len(c) \in 1..k
        /\ (\A i \in 1..(Len(c) - 1) : c[i + 1] = ts[c[i]].parent /\ c[i + 1] # NoTable)
        /\ ts[c[Len(c)]].parent = NoTable

LEMMA KnowingIs ==
    ASSUME NEW ts, NEW c, MaxDepth \in Nat, WayUp(ts, c), NEW name, NEW with,
           with = {i \in 1..Len(c) : Has(ts, c[i], name)}
    PROVE  LookupChain(ts, c[1], name)
           = IF with = {} THEN NoRecord ELSE ts[c[Min(with)]].recs[name]
<1>1. Upwards(ts, c[1]) = c
  BY UpwardsIs
<1>2. DOMAIN c = 1..Len(c)
  BY DEF WayUp
<1>3. Knowing(ts, c[1], name) = with
  BY <1>1, <1>2 DEF Knowing
<1> QED
  BY <1>1, <1>3 DEF LookupChain

LEMMA KnownAt ==
    ASSUME NEW ts, NEW c, MaxDepth \in Nat, WayUp(ts, c), NEW name, NEW t, t = c[1],
           NEW k \in 1..Len(c), Has(ts, c[k], name),
           \A i \in 1..(k - 1) : ~Has(ts, c[i], name)
    PROVE  LookupChain(ts, t, name) = ts[c[k]].recs[name]
<1>1. Len(c) \in Nat
  BY DEF WayUp
<1>2. PICK with : with = {i \in 1..Len(c) : Has(ts, c[i], name)}
  OBVIOUS
<1>3. k \in with
  BY <1>2
<1>4. ASSUME NEW i \in with PROVE k <= i
  <2>1. i \in 1..Len(c) /\ Has(ts, c[i], name) /\ i \in Nat /\ k \in Nat
    BY <1>1, <1>2
  <2>2. i \notin 1..(k - 1)
    BY <2>1
  <2> QED
    BY <2>1, <2>2
<1>5. Min(with) = k
  <2>1. Min(with) \in with /\ \A y \in with : Min(with) <= y
    BY <1>3, <1>4 DEF Min
  <2>2. Min(with) <= k /\ k <= Min(with) /\ Min(with) \in Nat
    BY <1>1, <1>2, <1>3, <1>4, <2>1
  <2> QED
    BY <2>2
<1> QED
  <2>1. LookupChain(ts, c[1], name)
        = IF with = {} THEN NoRecord ELSE ts[c[Min(with)]].recs[name]
    BY <1>2, KnowingIs
  <2> QED
    BY <1>3, <1>5, <2>1

LEMMA KnownNowhere ==
    ASSUME NEW ts, NEW c, MaxDepth \in Nat, WayUp(ts, c), NEW name, NEW t, t = c[1],
           \A i \in 1..Len(c) : ~Has(ts, c[i], name)
    PROVE  LookupChain(ts, t, name) = NoRecord
<1>1. Upwards(ts, t) = c
  BY UpwardsIs
<1>2. DOMAIN c = 1..Len(c)
  BY DEF WayUp
<1>3. Knowing(ts, t, name) = {}
  BY <1>1, <1>2 DEF Knowing
<1> QED
  BY <1>3 DEF LookupChain

(* A name is looked up in the table itself, and else in the one above it.  *)
LEMMA TopClimbs ==
    ASSUME NEW ts, NEW t \in DOMAIN ts, MaxDepth \in Nat, ts[t].parent = NoTable
    PROVE  /\ Climbs(ts, t, 1)
           /\ \A name : LookupChain(ts, t, name) =
                IF Has(ts, t, name) THEN ts[t].recs[name] ELSE NoRecord
<1>1. PICK c : c = <<t>>
  OBVIOUS
<1>2. c \in Seq(DOMAIN ts) /\ Len(c) = 1 /\ c[1] = t
  BY <1>1
<1>3. Len(c) \in 1..1 /\ Len(c) \in 1..(MaxDepth + 3) /\ 1..(Len(c) - 1) = {}
      /\ 1..Len(c) = {1} /\ 1..(1 - 1) = {}
  BY <1>2
<1>4. WayUp(ts, c)
  BY <1>2, <1>3 DEF WayUp
<1>5. Climbs(ts, t, 1)
  BY <1>2, <1>3 DEF Climbs
<1>6. ASSUME NEW name
      PROVE  LookupChain(ts, t, name) =
                IF Has(ts, t, name) THEN ts[t].recs[name] ELSE NoRecord
  <2>1. CASE Has(ts, t, name)
    <3>1. 1 \in 1..Len(c) /\ Has(ts, c[1], name) /\ \A i \in 1..(1 - 1) : ~Has(ts, c[i], name)
      BY <1>2, <1>3, <2>1
    <3>2. LookupChain(ts, t, name) = ts[c[1]].recs[name]
      BY <1>2, <1>4, <3>1, KnownAt
    <3> QED
      BY <1>2, <2>1, <3>2
  <2>2. CASE ~Has(ts, t, name)
    BY <1>2, <1>3, <1>4, <2>2, KnownNowhere
  <2> QED
    BY <2>1, <2>2
<1> QED
  BY <1>5, <1>6

LEMMA FirstClimbs ==
    ASSUME NEW ts, NEW t, MaxDepth \in Nat, NEW k \in Nat, k <= MaxDepth + 3,
           Climbs(ts, t, k), NEW name, Has(ts, t, name)
    PROVE  LookupChain(ts, t, name) = ts[t].recs[name]
<1>1. PICK c \in Seq(DOMAIN ts) :
        c[1] = t /\ Len(c) \in 1..k
        /\ (\A i \in 1..(Len(c) - 1) : c[i + 1] = ts[c[i]].parent /\ c[i + 1] # NoTable)
        /\ ts[c[Len(c)]].parent = NoTable
  BY DEF Climbs
<1>2. Len(c) \in 1..(MaxDepth + 3) /\ 1 \in 1..Len(c) /\ 1..(1 - 1) = {}
  BY <1>1
<1>3. WayUp(ts, c) /\ t = c[1]
  BY <1>1, <1>2 DEF WayUp
<1>4. Has(ts, c[1], name) /\ \A i \in 1..(1 - 1) : ~Has(ts, c[i], name)
  BY <1>2, <1>3
<1>5. LookupChain(ts, t, name) = ts[c[1]].recs[name]
  BY <1>2, <1>3, <1>4, KnownAt
<1> QED
  BY <1>3, <1>5

LEMMA NextClimbs ==
    ASSUME NEW ts, NEW t \in DOMAIN ts, MaxDepth \in Nat, NEW u, ts[t].parent = u,
           u # NoTable, NEW k \in Nat, k <= MaxDepth + 2, Climbs(ts, u, k)
    PROVE  /\ Climbs(ts, t, k + 1)
           /\ \A name : LookupChain(ts, t, name) =
                IF Has(ts, t, name) THEN ts[t].recs[name] ELSE LookupChain(ts, u, name)
<1>1. PICK c \in Seq(DOMAIN ts) :
        c[1] = u /\ Len(c) \in 1..k
        /\ (\A i \in 1..(Len(c) - 1) : c[i + 1] = ts[c[i]].parent /\ c[i + 1] # NoTable)
        /\ ts[c[Len(c)]].parent = NoTable
  BY DEF Climbs
<1> DEFINE n == Len(c)
<1>2. n \in Nat /\ 1 <= n /\ n <= k
  BY <1>1
<1>3. PICK d : d = <<t>> \o c
  OBVIOUS
<1>4. d \in Seq(DOMAIN ts) /\ Len(d) = n + 1 /\ d[1] = t
      /\ \A i \in 1..n : d[i + 1] = c[i]
  BY <1>3
<1> HIDE DEF n
<1>5. ASSUME NEW i \in 1..(Len(d) - 1)
      PROVE  d[i + 1] = ts[d[i]].parent /\ d[i + 1] # NoTable
  <2>0. i \in 1..n
    BY <1>2, <1>4
  <2>1. CASE i = 1
    BY <1>1, <1>4, <2>0, <2>1
  <2>2. CASE i # 1
    <3>1. i - 1 \in 1..n /\ i - 1 \in 1..(n - 1) /\ (i - 1) + 1 = i
      BY <1>2, <2>0, <2>2
    <3>2. d[i] = c[i - 1] /\ d[i + 1] = c[(i - 1) + 1]
      BY <1>4, <2>0, <3>1
    <3> QED
      BY <1>1, <3>1, <3>2 DEF n
  <2> QED
    BY <2>1, <2>2
<1>6. ts[d[Len(d)]].parent = NoTable
  <2>1. n \in 1..n
    BY <1>2
  <2>2. d[n + 1] = c[n]
    BY <1>4, <2>1
  <2> QED
    BY <1>1, <1>4, <2>2 DEF n
<1>7. Len(d) \in 1..(k + 1) /\ Len(d) \in 1..(MaxDepth + 3) /\ n \in 1..(MaxDepth + 3)
  BY <1>2, <1>4
<1>8. WayUp(ts, d) /\ WayUp(ts, c)
  BY <1>1, <1>4, <1>5, <1>6, <1>7 DEF WayUp, n
<1>9. Climbs(ts, t, k + 1)
  BY <1>4, <1>5, <1>6, <1>7 DEF Climbs
<1>10. ASSUME NEW name
       PROVE  LookupChain(ts, t, name) =
                IF Has(ts, t, name) THEN ts[t].recs[name] ELSE LookupChain(ts, u, name)
  <2>1. CASE Has(ts, t, name)
    <3>1. 1 \in 1..Len(d) /\ 1..(1 - 1) = {}
      BY <1>2, <1>4
    <3> QED
      BY <1>4, <1>8, <2>1, <3>1, KnownAt
  <2>2. CASE ~Has(ts, t, name) /\ \A i \in 1..n : ~Has(ts, c[i], name)
    <3>1. LookupChain(ts, u, name) = NoRecord
      <4>1. \A i \in 1..Len(c) : ~Has(ts, c[i], name)
        BY <2>2 DEF n
      <4>2. u = c[1] /\ WayUp(ts, c)
        BY <1>1, <1>8
      <4> QED
        BY <4>1, <4>2, KnownNowhere
    <3>2. ASSUME NEW i \in 1..Len(d) PROVE ~Has(ts, d[i], name)
      <4>1. CASE i = 1
        BY <1>4, <2>2, <4>1
      <4>2. CASE i # 1
        <5>1. i - 1 \in 1..n /\ (i - 1) + 1 = i
          BY <1>2, <1>4, <4>2
        <5> QED
          BY <1>4, <2>2, <5>1
      <4> QED
        BY <4>1, <4>2
    <3> QED
      BY <1>4, <1>8, <2>2, <3>1, <3>2, KnownNowhere
  <2>3. CASE ~Has(ts, t, name) /\ \E i \in 1..n : Has(ts, c[i], name)
    <3> DEFINE With == {i \in 1..n : Has(ts, c[i], name)}
    <3>1. With \in SUBSET Nat /\ With # {}
      BY <2>3
    <3>2. PICK j \in With : \A i \in With : j <= i
      BY <3>1, LeastNumber
    <3>3. j \in 1..n /\ Has(ts, c[j], name) /\ \A i \in 1..(j - 1) : ~Has(ts, c[i], name)
      <4>1. j \in 1..n /\ Has(ts, c[j], name)
        OBVIOUS
      <4>2. ASSUME NEW i \in 1..(j - 1), Has(ts, c[i], name) PROVE FALSE
        <5>1. i \in 1..n /\ ~(j <= i)
          BY <1>2, <4>1
        <5> QED
          BY <3>2, <4>2, <5>1
      <4> QED
        BY <4>1, <4>2
    <3> HIDE DEF With
    <3>4. LookupChain(ts, u, name) = ts[c[j]].recs[name]
      <4>1. j \in 1..Len(c)
        BY <3>3 DEF n
      <4> QED
        BY <1>1, <1>8, <3>3, <4>1, KnownAt
    <3>5. d[j + 1] = c[j] /\ j + 1 \in 1..Len(d)
      BY <1>2, <1>4, <3>3
    <3>6. ASSUME NEW i \in 1..((j + 1) - 1) PROVE ~Has(ts, d[i], name)
      <4>1. CASE i = 1
        BY <1>4, <2>3, <4>1
      <4>2. CASE i # 1
        <5>1. i - 1 \in 1..(j - 1) /\ i - 1 \in 1..n /\ (i - 1) + 1 = i
          BY <1>2, <3>3, <4>2
        <5> QED
          BY <1>4, <3>3, <5>1
      <4> QED
        BY <4>1, <4>2
    <3>7. LookupChain(ts, d[1], name) = ts[d[j + 1]].recs[name]
      <4>1. Has(ts, d[j + 1], name)
        BY <3>3, <3>5
      <4> DEFINE jj == j + 1
      <4> HIDE DEF jj
      <4>2. jj \in 1..Len(d) /\ Has(ts, d[jj], name)
            /\ \A i \in 1..(jj - 1) : ~Has(ts, d[i], name)
        BY <3>5, <3>6, <4>1 DEF jj
      <4>3. LookupChain(ts, t, name) = ts[d[jj]].recs[name]
        BY <1>4, <1>8, <4>2, KnownAt
      <4> QED
        BY <1>4, <4>3 DEF jj
    <3> QED
      BY <1>4, <2>3, <3>4, <3>5, <3>7
  <2> QED
    BY <2>1, <2>2, <2>3
<1> QED
  BY <1>9, <1>10

-----------------------------------------------------------------------------
(* What the tables say while a name is looked up.                          *)

(* The table of a module that was analyzed hangs under that of its file.   *)
TopsInv ==
    Walking =>
        \A n \in DOMAIN prog : n < m /\ Kind(n, <<>>) = "module" =>
            tables[ModuleTable(n)].parent = FileTable(n)

Reading == /\ TableInvs /\ NamesIInv /\ TopsInv
           /\ stage = "check" /\ dir = "up"

LEMMA ReadingIs ==
    ASSUME Reading
    PROVE  /\ PlaceInv /\ LostInv /\ StoreInv /\ HungInv /\ CurInv /\ TopsInv
           /\ AreTables(tables) /\ AreNamed(tables) /\ Walking
           /\ stage = "check" /\ dir = "up" /\ prog \in Programs
           /\ m \in DOMAIN prog /\ m \in Nat \ {0} /\ Len(prog) \in Nat
           /\ DOMAIN prog = 1..Len(prog) /\ MaxDepth \in Nat
           /\ \A t, by : Kept(tables, t, by) <=> Due(t, by)
<1>1. TableInvs /\ NamesIInv /\ TopsInv /\ stage = "check" /\ dir = "up"
  BY DEF Reading
<1>2. /\ PlaceInv /\ LostInv /\ StoreInv /\ HungInv /\ CurInv
      /\ AreTables(tables) /\ AreNamed(tables)
  BY <1>1, TableInvsAre DEF TableInvs, ScopesIInv
<1>3. Walking
  BY <1>1 DEF Walking
<1>4. prog \in Programs /\ m \in DOMAIN prog /\ m \in Nat \ {0} /\ MaxDepth \in Nat
  BY <1>2, PlaceIs
<1>5. Len(prog) \in Nat /\ DOMAIN prog = 1..Len(prog)
  BY <1>4, ModulesAre
<1>6. \A t, by : Kept(tables, t, by) <=> Due(t, by)
  BY <1>1, <1>3 DEF NamesIInv, LedgerInv
<1> QED
  BY <1>1, <1>2, <1>3, <1>4, <1>5, <1>6

LEMMA RecordIsEntered ==
    ASSUME Reading, NEW t \in DOMAIN tables, NEW name, Has(tables, t, name)
    PROVE  \E s \in {"declare", "check"} : \E n \in DOMAIN prog : \E q, p \in Paths(n) :
            /\ tables[t].recs[name].by = <<n, p>> /\ Enters(s, n, q, t, p)
            /\ n \in 1..m /\ Node(n, p).name = name
<1> DEFINE by == tables[t].recs[name].by
<1>1. /\ m \in Nat /\ DOMAIN prog = 1..Len(prog) /\ Len(prog) \in Nat
      /\ stage = "check" /\ AreNamed(tables)
      /\ \A u, b : Kept(tables, u, b) <=> Due(u, b)
  BY ReadingIs
<1>2. name \in DOMAIN tables[t].recs
  BY DEF Has
<1>3. Node(by[1], by[2]).name = name
  BY <1>1, <1>2 DEF AreNamed
<1>4. Kept(tables, t, by)
  BY <1>2 DEF Kept
<1>5. Due(t, by)
  BY <1>1, <1>4
<1> HIDE DEF by
<1>9. PICK s \in {"declare", "check"}, n \in DOMAIN prog :
        \E q, p \in Paths(n) : by = <<n, p>> /\ Enters(s, n, q, t, p) /\ Told(s, n, q)
  BY <1>5 DEF Due
<1>6. PICK q \in Paths(n), p \in Paths(n) :
        by = <<n, p>> /\ Enters(s, n, q, t, p) /\ Told(s, n, q)
  BY <1>9
<1>7. n \in 1..m
  BY <1>1, <1>6 DEF Told, Past
<1>8. by[1] = n /\ by[2] = p
  BY <1>6
<1> QED
  BY <1>3, <1>6, <1>7, <1>8 DEF by

LEMMA EnteredIsRecord ==
    ASSUME Reading, NEW s \in {"declare", "check"}, NEW n \in DOMAIN prog,
           NEW q \in Paths(n), NEW p \in Paths(n), NEW t, Enters(s, n, q, t, p),
           n <= m, s = "check" => n = m /\ q \in Beginnings(at)
    PROVE  /\ t \in DOMAIN tables /\ Has(tables, t, Node(n, p).name)
           /\ tables[t].recs[Node(n, p).name].by = <<n, p>>
<1>1. /\ m \in Nat /\ DOMAIN prog = 1..Len(prog) /\ Len(prog) \in Nat /\ dir = "up"
      /\ stage = "check" /\ AreNamed(tables) /\ Walking /\ PlaceInv /\ LostInv
      /\ \A u, b : Kept(tables, u, b) <=> Due(u, b)
  BY ReadingIs
<1>2. Past(s, n, q)
  <2>1. CASE s = "declare"
    <3>1. n < m \/ n = m
      BY <1>1
    <3> QED
      BY <1>1, <2>1, <3>1 DEF Past
  <2>2. CASE s = "check"
    BY <1>1, <2>2 DEF Past, Come
  <2> QED
    BY <2>1, <2>2
<1>3. s = "check" => ~Missed(n, q)
  BY <1>1, NoneMissedHere
<1> DEFINE w == <<n, p>>
<1>4. w[1] = n /\ w[2] = p
  OBVIOUS
<1>5. Due(t, w)
  BY <1>2, <1>3 DEF Due, Told
<1> HIDE DEF w
<1>6. Kept(tables, t, w)
  BY <1>1, <1>5
<1>7. PICK name \in DOMAIN tables[t].recs : t \in DOMAIN tables /\ tables[t].recs[name].by = w
  BY <1>6 DEF Kept
<1>8. Node(w[1], w[2]).name = name
  BY <1>1, <1>7 DEF AreNamed
<1> QED
  BY <1>4, <1>7, <1>8 DEF Has, w

(* The scopes around the walk, and those of the modules before.            *)
Around(n, s) ==
    \/ n = m /\ s \in Beginnings(at)
    \/ n \in 1..(m - 1) /\ s = <<>>

(* All that is declared in a scope is in its table.                        *)
LEMMA InIsThere ==
    ASSUME Reading, NEW n \in DOMAIN prog, NEW s, Around(n, s), NEW name,
           NEW p \in In(n, s, name)
    PROVE  /\ TableOf(n, s) \in DOMAIN tables /\ Has(tables, TableOf(n, s), name)
           /\ tables[TableOf(n, s)].recs[name].by = <<n, p>>
<1>1. prog \in Programs /\ m \in Nat /\ DOMAIN prog = 1..Len(prog) /\ Len(prog) \in Nat
  BY ReadingIs
<1>2. p \in Paths(n) /\ Kind(n, p) \in Declarators /\ Node(n, p).name = name
      /\ s \in VisibleIn(n, p)
  BY DEF In, Declarations
<1>3. PICK w \in {"declare", "check"}, q \in Paths(n) : Enters(w, n, q, TableOf(n, s), p)
  BY <1>1, <1>2, VisibleIsEntered
<1>4. n <= m
  BY <1>1 DEF Around
<1>5. ASSUME w = "check" PROVE n = m /\ q \in Beginnings(at)
  <2>1. Kind(n, q) = "for" /\ p = Append(q, 1)
    BY <1>3, <1>5 DEF Enters
  <2>2. VisibleIn(n, p) = {q}
    BY <1>1, <2>1, LoopIsVisible
  <2>3. q = s
    BY <1>2, <2>2
  <2>4. Kind(n, <<>>) # "for"
    BY <1>1, SourceTree
  <2> QED
    BY <2>1, <2>3, <2>4 DEF Around
<1> QED
  BY <1>2, <1>3, <1>4, <1>5, EnteredIsRecord

(* And nothing else, but in the table of a file.                           *)
LEMMA OnlyInIsThere ==
    ASSUME Reading, NEW n \in DOMAIN prog, NEW s, Plain(n, s), Kind(n, s) # "root",
           NEW t \in DOMAIN tables, t = TableOf(n, s), NEW name, Has(tables, t, name)
    PROVE  \E p \in In(n, s, name) : tables[t].recs[name].by = <<n, p>>
<1>1. prog \in Programs /\ DOMAIN prog = 1..Len(prog) /\ Len(prog) \in Nat
  BY ReadingIs
<1>9. PICK w \in {"declare", "check"}, k \in DOMAIN prog :
        \E q, p \in Paths(k) :
            /\ tables[t].recs[name].by = <<k, p>> /\ Enters(w, k, q, t, p)
            /\ k \in 1..m /\ Node(k, p).name = name
  BY RecordIsEntered
<1>2. PICK q \in Paths(k), p \in Paths(k) :
        /\ tables[t].recs[name].by = <<k, p>> /\ Enters(w, k, q, t, p)
        /\ Node(k, p).name = name
  BY <1>9
<1>3. t[1] = n /\ FileTable(k)[1] = 0 /\ n # 0
  BY <1>1 DEF TableOf, FileTable
<1>4. t # FileTable(k)
  BY <1>3
<1>5. /\ Kind(k, p) \in Declarators
      /\ \E u \in VisibleIn(k, p) : Plain(k, u) /\ t = TableOf(k, u)
  BY <1>1, <1>2, <1>4, EntryIsVisible
<1>6. PICK u \in VisibleIn(k, p) : Plain(k, u) /\ t = TableOf(k, u)
  BY <1>5
<1>7. k = n /\ u = s
  BY <1>1, <1>6, TableIsOne
<1>8. p \in In(n, s, name)
  BY <1>2, <1>5, <1>6, <1>7 DEF In, Declarations
<1> QED
  BY <1>2, <1>7, <1>8

(* The table of a file lists the modules of it, and the top of the main    *)
(* one.                                                                    *)
LEMMA AtFileIs ==
    ASSUME NEW n, NEW name, NEW x
    PROVE  x \in AtFile(m, n, name) <=>
            \E k \in 1..m :
                /\ prog[k].file = prog[n].file
                /\ IF Kind(k, <<>>) = "root"
                   THEN \E p \in In(k, <<>>, name) : x = <<k, p>>
                   ELSE ModuleName(k) = name /\ x = <<k, <<>>>>
<1> DEFINE Of(k) == IF Kind(k, <<>>) = "root" THEN {<<k, p>> : p \in In(k, <<>>, name)}
                    ELSE IF ModuleName(k) = name THEN {<<k, <<>>>>} ELSE {}
           Files == {k \in 1..m : prog[k].file = prog[n].file}
<1>1. AtFile(m, n, name) = UNION {Of(k) : k \in Files}
  BY DEF AtFile
<1>2. \A k : x \in Of(k) <=> IF Kind(k, <<>>) = "root"
                             THEN \E p \in In(k, <<>>, name) : x = <<k, p>>
                             ELSE ModuleName(k) = name /\ x = <<k, <<>>>>
  OBVIOUS
<1> HIDE DEF Of
<1>3. x \in AtFile(m, n, name) <=> \E k \in Files : x \in Of(k)
  BY <1>1
<1> QED
  BY <1>2, <1>3

LEMMA TopsAreRoots ==
    ASSUME Reading, NEW n \in 1..m
    PROVE  /\ n \in DOMAIN prog /\ n \in Nat \ {0} /\ n <= m
           /\ Kind(n, <<>>) \in {"root", "module"} /\ <<>> \in Paths(n)
           /\ Around(n, <<>>) /\ Plain(n, <<>>) /\ IsScope(n, <<>>)
           /\ FileTable(n) \in DOMAIN tables /\ ModuleTable(n) \in DOMAIN tables
           /\ tables[FileTable(n)].parent = NoTable
           /\ ModuleTable(n) = IF Kind(n, <<>>) = "root" THEN FileTable(n) ELSE <<n, <<>>>>
           /\ Node(n, <<>>).name = ModuleName(n)
<1>1. /\ prog \in Programs /\ m \in DOMAIN prog /\ m \in Nat \ {0} /\ Len(prog) \in Nat
      /\ DOMAIN prog = 1..Len(prog) /\ StoreInv /\ PlaceInv
  BY ReadingIs
<1>2. n \in DOMAIN prog /\ n \in Nat \ {0} /\ n <= m
  BY <1>1
<1>3. Kind(n, <<>>) \in {"root", "module"} /\ <<>> \in Paths(n)
  BY <1>1, <1>2, SourceTree
<1>4. <<>> \in Beginnings(at)
  BY <1>1, PlaceIs, BeginningsNest
<1>5. Around(n, <<>>)
  BY <1>1, <1>2, <1>4 DEF Around
<1>6. Plain(n, <<>>) /\ IsScope(n, <<>>)
  BY <1>3 DEF Plain, IsScope, OpensScope
<1>7. FileTable(n) \in DOMAIN tables /\ ModuleTable(n) \in DOMAIN tables
      /\ tables[FileTable(n)].parent = NoTable
  BY <1>1, <1>2 DEF StoreInv
<1>8. ModuleTable(n) = IF Kind(n, <<>>) = "root" THEN FileTable(n) ELSE <<n, <<>>>>
  BY <1>3 DEF ModuleTable, TableOf
<1>9. Node(n, <<>>).name = ModuleName(n)
  BY RootNode DEF Node, ModuleName
<1> QED
  BY <1>2, <1>3, <1>5, <1>6, <1>7, <1>8, <1>9

LEMMA FileTableHas ==
    ASSUME Reading, NEW n \in 1..m, NEW name, Has(tables, FileTable(n), name)
    PROVE  tables[FileTable(n)].recs[name].by \in AtFile(m, n, name)
<1> DEFINE t == FileTable(n)
<1>1. prog \in Programs /\ DOMAIN prog = 1..Len(prog) /\ Len(prog) \in Nat
  BY ReadingIs
<1>2. t \in DOMAIN tables /\ n \in DOMAIN prog
  BY TopsAreRoots
<1>3. t[1] = 0 /\ t[2] = prog[n].file /\ \A k : FileTable(k) = t => prog[k].file = prog[n].file
  BY DEF FileTable
<1> HIDE DEF t
<1>4. PICK w \in {"declare", "check"}, k \in DOMAIN prog :
        \E q, p \in Paths(k) :
            /\ tables[t].recs[name].by = <<k, p>> /\ Enters(w, k, q, t, p)
            /\ k \in 1..m /\ Node(k, p).name = name
  BY <1>2, RecordIsEntered DEF t
<1>5. PICK q \in Paths(k), p \in Paths(k) :
        /\ tables[t].recs[name].by = <<k, p>> /\ Enters(w, k, q, t, p)
        /\ k \in 1..m /\ Node(k, p).name = name
  BY <1>4
<1>6. CASE Kind(k, p) = "module" /\ p = <<>> /\ t = FileTable(k)
  <2>1. Kind(k, <<>>) # "root" /\ ModuleName(k) = name /\ prog[k].file = prog[n].file
    BY <1>3, <1>5, <1>6, TopsAreRoots
  <2> QED
    BY <1>5, <1>6, <2>1, AtFileIs DEF t
<1>7. CASE /\ p \in Paths(k) /\ Kind(k, p) \in Declarators
           /\ \E u \in VisibleIn(k, p) : Plain(k, u) /\ t = TableOf(k, u)
  <2>1. PICK u \in VisibleIn(k, p) : Plain(k, u) /\ t = TableOf(k, u)
    BY <1>7
  <2>2. k # 0
    BY <1>1
  <2>3. Kind(k, u) = "root"
    BY <1>3, <2>1, <2>2 DEF TableOf
  <2>4. u = <<>>
    BY <1>1, <2>1, <2>3, NodeHere DEF Plain
  <2>5. prog[k].file = prog[n].file
    BY <1>3, <2>1, <2>3 DEF TableOf
  <2>6. p \in In(k, <<>>, name)
    BY <1>5, <1>7, <2>1, <2>4 DEF In, Declarations
  <2> QED
    BY <1>5, <2>3, <2>4, <2>5, <2>6, AtFileIs DEF t
<1> QED
  BY <1>1, <1>5, <1>6, <1>7, EntryIsVisible

LEMMA AtFileIsThere ==
    ASSUME Reading, NEW n \in 1..m, NEW name, AtFile(m, n, name) # {}
    PROVE  Has(tables, FileTable(n), name)
<1>1. prog \in Programs
  BY ReadingIs
<1>2. PICK x : x \in AtFile(m, n, name)
  OBVIOUS
<1>3. PICK k \in 1..m :
        /\ prog[k].file = prog[n].file
        /\ IF Kind(k, <<>>) = "root"
           THEN \E p \in In(k, <<>>, name) : x = <<k, p>>
           ELSE ModuleName(k) = name /\ x = <<k, <<>>>>
  BY <1>2, AtFileIs
<1>4. /\ k \in DOMAIN prog /\ k <= m /\ Around(k, <<>>) /\ <<>> \in Paths(k)
      /\ Kind(k, <<>>) \in {"root", "module"} /\ Node(k, <<>>).name = ModuleName(k)
  BY TopsAreRoots
<1>5. FileTable(k) = FileTable(n)
  BY <1>3 DEF FileTable
<1>6. CASE Kind(k, <<>>) = "root"
  <2>1. PICK p \in In(k, <<>>, name) : TRUE
    BY <1>3, <1>6
  <2>2. Has(tables, TableOf(k, <<>>), name)
    BY <1>4, <2>1, InIsThere
  <2>3. TableOf(k, <<>>) = FileTable(k)
    BY <1>6 DEF TableOf
  <2> QED
    BY <1>5, <2>2, <2>3
<1>7. CASE Kind(k, <<>>) = "module"
  <2>1. ModuleName(k) = name
    BY <1>3, <1>7
  <2>2. Outer(k, <<>>) = FileTable(k)
    BY NothingAboveRoot
  <2>3. Enters("declare", k, <<>>, FileTable(k), <<>>)
    BY <1>7, <2>2 DEF Enters
  <2>4. Has(tables, FileTable(k), Node(k, <<>>).name)
    BY <1>4, <2>3, EnteredIsRecord
  <2> QED
    BY <1>4, <1>5, <2>1, <2>4
<1> QED
  BY <1>4, <1>6, <1>7

-----------------------------------------------------------------------------
(* What is found at and above a table, and what the source says.           *)

(* The declarations of the innermost of some scopes, and else of the file. *)
Those(n, s, name) == {<<n, q>> : q \in In(n, s, name)}
Seen(n, S, name) ==
    LET with == {q \in S : In(n, q, name) # {}}
    IN  IF with = {} THEN {} ELSE Those(n, Longest(with), name)
Local(n, S, name) ==
    IF Seen(n, S, name) # {} THEN Seen(n, S, name) ELSE AtFile(m, n, name)

(* A record of what a name means, if it means something.                   *)
Bound(record, means) ==
    IF means = {} THEN record = NoRecord
    ELSE record # NoRecord /\ record.by \in means

(* What is found from the table t upwards is what the scopes S say.        *)
Shows(n, t, S, k) ==
    /\ t \in DOMAIN tables /\ t # NoTable /\ Climbs(tables, t, k)
    /\ \A name : Bound(LookupChain(tables, t, name), Local(n, S, name))

LEMMA SeenWithout == \A n, name : Seen(n, {}, name) = {}
BY DEF Seen

LEMMA SeenWith ==
    ASSUME NEW n, NEW s \in Seq(Nat), NEW S \in SUBSET Beginnings(s), NEW name
    PROVE  /\ In(n, s, name) # {} => Seen(n, S \cup {s}, name) = Those(n, s, name)
           /\ In(n, s, name) = {} => Seen(n, S \cup {s}, name) = Seen(n, S, name)
<1> DEFINE with == {q \in S \cup {s} : In(n, q, name) # {}}
           less == {q \in S : In(n, q, name) # {}}
<1>1. s \in Beginnings(s) /\ \A q \in Beginnings(s) : Len(q) <= Len(s)
  BY BeginningsNest
<1>2. CASE In(n, s, name) # {}
  <2>1. s \in with /\ with \in SUBSET Beginnings(s)
    BY <1>1, <1>2
  <2>2. \A q \in with : Len(q) <= Len(s)
    BY <1>1, <2>1
  <2>3. Longest(with) = s
    BY <2>1, <2>2, LongestOf
  <2>4. with # {}
    BY <2>1
  <2> HIDE DEF with
  <2>5. Seen(n, S \cup {s}, name) = Those(n, Longest(with), name)
    BY <2>4 DEF Seen, with
  <2> QED
    BY <1>2, <2>3, <2>5
<1>3. CASE In(n, s, name) = {}
  <2>1. with = less
    BY <1>3
  <2> QED
    BY <1>3, <2>1 DEF Seen
<1> QED
  BY <1>2, <1>3

LEMMA ARecordIs ==
    ASSUME Reading, NEW n \in DOMAIN prog, NEW p, NEW record, record.by = <<n, p>>
    PROVE  record # NoRecord
<1>1. DOMAIN prog = 1..Len(prog) /\ Len(prog) \in Nat
  BY ReadingIs
<1>2. record.by # NoWhere
  BY <1>1 DEF NoWhere
<1> QED
  BY <1>2 DEF NoRecord

LEMMA ClimbsMore ==
    ASSUME NEW ts, NEW t, NEW k \in Nat, Climbs(ts, t, k)
    PROVE  Climbs(ts, t, k + 1)
<1>1. 1..k \subseteq 1..(k + 1)
  OBVIOUS
<1> QED
  BY <1>1 DEF Climbs

(* The table of a file.                                                    *)
LEMMA FileShows ==
    ASSUME Reading, NEW n \in 1..m
    PROVE  Shows(n, FileTable(n), {}, 1)
<1> DEFINE t == FileTable(n)
<1>1. t \in DOMAIN tables /\ tables[t].parent = NoTable /\ MaxDepth \in Nat
  BY TopsAreRoots, ReadingIs
<1>2. t # NoTable
  BY DEF FileTable, NoTable
<1>3. /\ Climbs(tables, t, 1)
      /\ \A name : LookupChain(tables, t, name) =
            IF Has(tables, t, name) THEN tables[t].recs[name] ELSE NoRecord
  BY <1>1, TopClimbs
<1>4. ASSUME NEW name PROVE Bound(LookupChain(tables, t, name), Local(n, {}, name))
  <2>1. Local(n, {}, name) = AtFile(m, n, name)
    BY SeenWithout DEF Local
  <2>2. CASE Has(tables, t, name)
    <3>1. tables[t].recs[name].by \in AtFile(m, n, name)
      BY <2>2, FileTableHas
    <3>2. PICK x : x = tables[t].recs[name].by /\ x \in AtFile(m, n, name)
      BY <3>1
    <3>3. PICK k \in 1..m :
            IF Kind(k, <<>>) = "root"
            THEN \E p \in In(k, <<>>, name) : x = <<k, p>>
            ELSE ModuleName(k) = name /\ x = <<k, <<>>>>
      BY <3>2, AtFileIs
    <3>4. k \in DOMAIN prog /\ \E p : x = <<k, p>>
      BY <3>3, TopsAreRoots
    <3>5. tables[t].recs[name] # NoRecord
      BY <3>2, <3>4, ARecordIs
    <3> QED
      BY <1>3, <2>1, <2>2, <3>1, <3>5 DEF Bound
  <2>3. CASE ~Has(tables, t, name)
    <3>1. AtFile(m, n, name) = {}
      BY <2>3, AtFileIsThere
    <3> QED
      BY <1>3, <2>1, <2>3, <3>1 DEF Bound
  <2> QED
    BY <2>2, <2>3
<1> QED
  BY <1>1, <1>2, <1>3, <1>4 DEF Shows

(* The table of a scope, under one that shows what the scopes around say.  *)
LEMMA ScopeShows ==
    ASSUME Reading, NEW n \in DOMAIN prog, NEW s, Plain(n, s), Kind(n, s) # "root",
           Around(n, s), NEW t \in DOMAIN tables, t = TableOf(n, s), NEW S,
           S \in SUBSET Beginnings(s), NEW k \in Nat, k <= MaxDepth + 2,
           Shows(n, tables[t].parent, S, k)
    PROVE  Shows(n, t, S \cup {s}, k + 1)
<1> DEFINE u == tables[t].parent
<1>1. prog \in Programs /\ MaxDepth \in Nat /\ DOMAIN prog = 1..Len(prog) /\ Len(prog) \in Nat
  BY ReadingIs
<1>2. /\ u # NoTable /\ Climbs(tables, u, k)
      /\ \A name : Bound(LookupChain(tables, u, name), Local(n, S, name))
  BY DEF Shows
<1>3. /\ Climbs(tables, t, k + 1)
      /\ \A name : LookupChain(tables, t, name) =
            IF Has(tables, t, name) THEN tables[t].recs[name]
            ELSE LookupChain(tables, u, name)
  BY <1>1, <1>2, NextClimbs
<1>4. s \in Seq(Nat)
  BY <1>1, NodeHere DEF Plain
<1>5. t # NoTable
  <2>1. Len(t) = 2
    BY DEF TableOf, FileTable
  <2>2. Len(NoTable) = 0
    BY DEF NoTable
  <2> QED
    BY <2>1, <2>2
<1> HIDE DEF u
<1>6. ASSUME NEW name
      PROVE  Bound(LookupChain(tables, t, name), Local(n, S \cup {s}, name))
  <2>1. /\ In(n, s, name) # {} => Seen(n, S \cup {s}, name) = Those(n, s, name)
        /\ In(n, s, name) = {} => Seen(n, S \cup {s}, name) = Seen(n, S, name)
    BY <1>4, SeenWith
  <2>2. CASE In(n, s, name) # {}
    <3>1. PICK p \in In(n, s, name) : TRUE
      BY <2>2
    <3>2. Has(tables, t, name) /\ tables[t].recs[name].by = <<n, p>>
      BY <3>1, InIsThere
    <3>3. tables[t].recs[name] # NoRecord
      BY <3>2, ARecordIs
    <3>4. <<n, p>> \in Seen(n, S \cup {s}, name)
      BY <2>1, <2>2, <3>1 DEF Those
    <3>5. <<n, p>> \in Local(n, S \cup {s}, name)
      BY <3>4 DEF Local
    <3> QED
      BY <1>3, <3>2, <3>3, <3>5 DEF Bound
  <2>3. CASE In(n, s, name) = {}
    <3>1. ~Has(tables, t, name)
      BY <2>3, OnlyInIsThere
    <3>2. Local(n, S \cup {s}, name) = Local(n, S, name)
      BY <2>1, <2>3 DEF Local
    <3> QED
      BY <1>2, <1>3, <3>1, <3>2
  <2> QED
    BY <2>2, <2>3
<1> QED
  BY <1>3, <1>5, <1>6 DEF Shows

(* The table of a module.                                                  *)
LEMMA TopShows ==
    ASSUME Reading, NEW n \in 1..m
    PROVE  Shows(n, ModuleTable(n), {<<>>}, 2)
<1>1. /\ n \in DOMAIN prog /\ n \in Nat \ {0} /\ n <= m
      /\ Kind(n, <<>>) \in {"root", "module"} /\ <<>> \in Paths(n)
      /\ Around(n, <<>>) /\ Plain(n, <<>>) /\ IsScope(n, <<>>)
      /\ FileTable(n) \in DOMAIN tables /\ ModuleTable(n) \in DOMAIN tables
      /\ tables[FileTable(n)].parent = NoTable
      /\ ModuleTable(n) = IF Kind(n, <<>>) = "root" THEN FileTable(n) ELSE <<n, <<>>>>
  BY TopsAreRoots
<1>2. Shows(n, FileTable(n), {}, 1)
  BY FileShows
<1>3. /\ HungInv /\ TopsInv /\ Walking /\ MaxDepth \in Nat /\ stage = "check"
      /\ m \in Nat \ {0} /\ PlaceInv
  BY ReadingIs
<1>4. <<>> \in Seq(Nat) /\ {} \in SUBSET Beginnings(<<>>) /\ {} \cup {<<>>} = {<<>>}
  OBVIOUS
<1>5. CASE Kind(n, <<>>) = "module"
  <2>1. tables[ModuleTable(n)].parent = FileTable(n)
    <3>1. CASE n < m
      BY <1>1, <1>3, <1>5, <3>1 DEF TopsInv
    <3>2. CASE n = m
      <4>1. Entered(<<>>) /\ Kind(m, <<>>) \in Own /\ <<>> \in Paths(m)
        BY <1>1, <1>3, <1>5, <3>2 DEF Entered, Own
      <4>2. tables[<<m, <<>>>>].parent = Outer(m, <<>>)
        BY <1>3, <4>1 DEF HungInv
      <4> QED
        BY <1>1, <1>5, <3>2, <4>2, NothingAboveRoot
    <3> QED
      BY <1>1, <1>3, <3>1, <3>2
  <2>2. Shows(n, tables[ModuleTable(n)].parent, {}, 1)
    BY <1>2, <2>1
  <2>3. ModuleTable(n) = TableOf(n, <<>>) /\ Kind(n, <<>>) # "root"
    BY <1>5 DEF ModuleTable
  <2>4. 1 \in Nat /\ 1 <= MaxDepth + 2 /\ 1 + 1 = 2
    BY <1>3
  <2>5. Shows(n, ModuleTable(n), {} \cup {<<>>}, 1 + 1)
    BY <1>1, <1>4, <2>2, <2>3, <2>4, ScopeShows
  <2> QED
    BY <1>4, <2>4, <2>5
<1>6. CASE Kind(n, <<>>) = "root"
  <2> DEFINE t == FileTable(n)
  <2>1. ModuleTable(n) = t /\ t = TableOf(n, <<>>)
    BY <1>1, <1>6 DEF TableOf
  <2>2. t \in DOMAIN tables /\ t # NoTable /\ Climbs(tables, t, 1)
        /\ \A name : Bound(LookupChain(tables, t, name), Local(n, {}, name))
    BY <1>2 DEF Shows
  <2>3. Climbs(tables, t, 2)
    <3>1. Climbs(tables, t, 1 + 1)
      BY <2>2, ClimbsMore
    <3> QED
      BY <3>1
  <2>4. \A name : LookupChain(tables, t, name) =
            IF Has(tables, t, name) THEN tables[t].recs[name] ELSE NoRecord
    BY <1>1, <1>3, TopClimbs
  <2> HIDE DEF t
  <2>5. ASSUME NEW name PROVE Bound(LookupChain(tables, t, name), Local(n, {<<>>}, name))
    <3>1. /\ In(n, <<>>, name) # {} =>
                Seen(n, {} \cup {<<>>}, name) = Those(n, <<>>, name)
          /\ In(n, <<>>, name) = {} => Seen(n, {} \cup {<<>>}, name) = Seen(n, {}, name)
      BY <1>4, SeenWith
    <3>2. CASE In(n, <<>>, name) # {}
      <4>1. PICK p \in In(n, <<>>, name) : TRUE
        BY <3>2
      <4>2. Has(tables, t, name) /\ tables[t].recs[name].by = <<n, p>>
        BY <1>1, <2>1, <4>1, InIsThere
      <4>3. tables[t].recs[name] # NoRecord
        BY <1>1, <4>2, ARecordIs
      <4>4. <<n, p>> \in Seen(n, {<<>>}, name)
        BY <1>4, <3>1, <3>2, <4>1 DEF Those
      <4>5. <<n, p>> \in Local(n, {<<>>}, name)
        BY <4>4 DEF Local
      <4> QED
        BY <2>4, <4>2, <4>3, <4>5 DEF Bound
    <3>3. CASE In(n, <<>>, name) = {}
      <4>1. Local(n, {<<>>}, name) = Local(n, {}, name)
        BY <1>4, <3>1, <3>3 DEF Local
      <4> QED
        BY <2>2, <4>1
    <3> QED
      BY <3>2, <3>3
  <2> QED
    BY <2>1, <2>2, <2>3, <2>5 DEF Shows
<1> QED
  BY <1>1, <1>5, <1>6

-----------------------------------------------------------------------------
(* The current table shows what the scopes around the place say.           *)

ShowsHere(n, p) ==
    /\ Shows(n, Inner(n, p), ScopesAround(n, p), Len(p) + 2)
    /\ \/ Inner(n, p)[1] = n
       \/ /\ Inner(n, p) = FileTable(n) /\ Kind(n, <<>>) = "root"
          /\ ScopesAround(n, p) = {<<>>}

LEMMA ScopesOfChild ==
    ASSUME NEW n, NEW r \in Seq(Nat), NEW i \in Nat
    PROVE  /\ ScopesAround(n, r) \in SUBSET Beginnings(Append(r, i))
           /\ ScopesAround(n, Append(r, i)) =
                IF IsScope(n, Append(r, i)) THEN ScopesAround(n, r) \cup {Append(r, i)}
                ELSE ScopesAround(n, r)
<1>1. Beginnings(Append(r, i)) = Beginnings(r) \cup {Append(r, i)}
  BY BeginningsOfChild
<1> QED
  BY <1>1 DEF ScopesAround

(* The head of a function without a body has a table with nothing in it.   *)
LEMMA ForeignIsEmpty ==
    ASSUME Reading, NEW p \in Paths(m), Kind(m, p) = "fndecl", ~ImplHead(m, p),
           NEW t \in DOMAIN tables, t = <<m, p>>, NEW name
    PROVE  ~Has(tables, t, name)
<1> SUFFICES ASSUME Has(tables, t, name) PROVE FALSE
  OBVIOUS
<1>1. prog \in Programs /\ DOMAIN prog = 1..Len(prog) /\ Len(prog) \in Nat
      /\ m \in Nat \ {0} /\ m \in DOMAIN prog
  BY ReadingIs
<1>2. PICK w \in {"declare", "check"}, k \in DOMAIN prog :
        \E q, x \in Paths(k) :
            /\ tables[t].recs[name].by = <<k, x>> /\ Enters(w, k, q, t, x)
            /\ k \in 1..m /\ Node(k, x).name = name
  BY RecordIsEntered
<1>3. PICK q \in Paths(k), x \in Paths(k) : Enters(w, k, q, t, x)
  BY <1>2
<1>4. t[1] = m /\ t[2] = p /\ FileTable(k)[1] = 0
  BY DEF FileTable
<1>5. t # FileTable(k)
  BY <1>1, <1>4
<1>6. PICK u \in VisibleIn(k, x) : Plain(k, u) /\ t = TableOf(k, u)
  BY <1>1, <1>3, <1>5, EntryIsVisible
<1>7. u \in Paths(k) /\ IsScope(k, u)
  BY <1>6 DEF Plain
<1>8. Kind(k, u) # "root"
  BY <1>5, <1>6 DEF TableOf
<1>9. CASE Kind(k, u) \in {"fnimpl", "case"}
  <2>1. TableOf(k, u) = <<k, Append(u, 1)>>
    BY <1>9 DEF TableOf
  <2>2. k = m /\ p = Append(u, 1)
    BY <1>4, <1>6, <2>1
  <2>3. 1 \in Kids(prog[k].tree, u)
    BY <1>1, <1>7, <1>9, NodeHere
  <2>4. /\ Kind(k, u) = "fnimpl" /\ 1 = 1 <=>
             Kind(k, Append(u, 1)) = "fndecl" /\ Node(k, Append(u, 1)).ty = "impl"
        /\ Kind(k, u) = "case" /\ 1 = 1 => Kind(k, Append(u, 1)) = "typedesc"
    BY <1>7, <1>1, <2>3, NodeBelowHere
  <2> QED
    BY <1>9, <2>2, <2>4 DEF ImplHead
<1>10. CASE Kind(k, u) \notin {"fnimpl", "case"}
  <2>1. TableOf(k, u) = <<k, u>>
    BY <1>8, <1>10 DEF TableOf
  <2>2. k = m /\ p = u
    BY <1>4, <1>6, <2>1
  <2> QED
    BY <1>7, <2>2 DEF IsScope, OpensScope
<1> QED
  BY <1>9, <1>10

LEMMA ShowsMore ==
    ASSUME NEW n, NEW t, NEW S, NEW k \in Nat, Shows(n, t, S, k)
    PROVE  Shows(n, t, S, k + 1)
BY ClimbsMore DEF Shows

(* The table of such a head.                                               *)
LEMMA HeadShows ==
    ASSUME Reading, NEW n, n = m, NEW p \in Paths(n), Kind(n, p) = "fndecl", ~ImplHead(n, p),
           NEW t \in DOMAIN tables, t = <<n, p>>, NEW S, NEW k \in Nat,
           k <= MaxDepth + 2, Shows(n, tables[t].parent, S, k)
    PROVE  Shows(n, t, S, k + 1)
<1> DEFINE u == tables[t].parent
<1>1. MaxDepth \in Nat
  BY ReadingIs
<1>2. /\ u # NoTable /\ Climbs(tables, u, k)
      /\ \A name : Bound(LookupChain(tables, u, name), Local(n, S, name))
  BY DEF Shows
<1>3. /\ Climbs(tables, t, k + 1)
      /\ \A name : LookupChain(tables, t, name) =
            IF Has(tables, t, name) THEN tables[t].recs[name]
            ELSE LookupChain(tables, u, name)
  BY <1>1, <1>2, NextClimbs
<1>4. \A name : ~Has(tables, t, name)
  BY ForeignIsEmpty
<1>5. Len(t) = 2 /\ Len(NoTable) = 0
  BY DEF NoTable
<1>6. t # NoTable
  BY <1>5
<1> HIDE DEF u
<1> QED
  BY <1>2, <1>3, <1>4, <1>6 DEF Shows

(* The names of a pattern are in the table of the case.                    *)
LEMMA PatternShows ==
    ASSUME Reading, NEW n \in DOMAIN prog, n = m, NEW p \in Paths(n),
           p \in Beginnings(at), Kind(n, p) = "typedesc", NEW t, t = <<n, p>>,
           NEW S \in SUBSET Beginnings(p), NEW k \in Nat, k <= MaxDepth + 3,
           Shows(n, t, S, k)
    PROVE  Shows(n, t, S \cup {p}, k + 1)
<1>1. prog \in Programs /\ MaxDepth \in Nat /\ n \in DOMAIN prog
  BY ReadingIs
<1>2. /\ t \in DOMAIN tables /\ t # NoTable /\ Climbs(tables, t, k)
      /\ \A name : Bound(LookupChain(tables, t, name), Local(n, S, name))
  BY DEF Shows
<1>3. Climbs(tables, t, k + 1)
  BY <1>2, ClimbsMore
<1>4. p \in Seq(Nat) /\ TableOf(n, p) = t /\ Around(n, p)
  BY <1>1, NodeHere DEF TableOf, Around
<1>5. ASSUME NEW name
      PROVE  Bound(LookupChain(tables, t, name), Local(n, S \cup {p}, name))
  <2>1. /\ In(n, p, name) # {} => Seen(n, S \cup {p}, name) = Those(n, p, name)
        /\ In(n, p, name) = {} => Seen(n, S \cup {p}, name) = Seen(n, S, name)
    <3>1. p \in Seq(Nat) /\ S \in SUBSET Beginnings(p)
      BY <1>4
    <3> QED
      BY <3>1, SeenWith
  <2>2. CASE In(n, p, name) # {}
    <3>1. PICK x \in In(n, p, name) : TRUE
      BY <2>2
    <3>2. Has(tables, t, name) /\ tables[t].recs[name].by = <<n, x>>
      BY <1>1, <1>4, <3>1, InIsThere
    <3>3. tables[t].recs[name] # NoRecord
      BY <1>1, <3>2, ARecordIs
    <3>4. <<n, x>> \in Seen(n, S \cup {p}, name)
      BY <2>1, <2>2, <3>1 DEF Those
    <3>5. <<n, x>> \in Local(n, S \cup {p}, name)
      BY <3>4 DEF Local
    <3>6. LookupChain(tables, t, name) = tables[t].recs[name]
      BY <1>1, <1>2, <3>2, FirstClimbs
    <3> QED
      BY <3>2, <3>3, <3>5, <3>6 DEF Bound
  <2>3. CASE In(n, p, name) = {}
    <3>1. Local(n, S \cup {p}, name) = Local(n, S, name)
      BY <2>1, <2>3 DEF Local
    <3> QED
      BY <1>2, <3>1
  <2> QED
    BY <2>2, <2>3
<1> QED
  BY <1>2, <1>3, <1>5 DEF Shows

(* One step further in.                                                    *)
LEMMA InnerStep ==
    ASSUME Reading, NEW n \in DOMAIN prog, n = m, NEW r \in Paths(n),
           NEW i \in Kids(prog[n].tree, r), NEW p, p = Append(r, i),
           p \in Beginnings(at), Len(r) < MaxDepth, ShowsHere(n, r)
    PROVE  ShowsHere(n, p)
<1> DEFINE S == ScopesAround(n, r)
           k == Len(r) + 2
<1>1. /\ prog \in Programs /\ MaxDepth \in Nat /\ HungInv /\ stage = "check"
      /\ Walking /\ DOMAIN prog = 1..Len(prog) /\ Len(prog) \in Nat
  BY ReadingIs
<1>2. r \in Seq(Nat) /\ Len(r) \in Nat /\ i \in Nat \ {0} /\ p \in Paths(n)
  BY <1>1, NodeHere, NodeBelowHere
<1>3. /\ p \in Seq(Nat) /\ Len(p) = Len(r) + 1 /\ p # <<>> /\ Above(p) = r
  BY <1>2, BeginningsOfChild DEF Above
<1>4. /\ k \in Nat /\ k <= MaxDepth + 2 /\ Len(p) + 2 = k + 1
  BY <1>1, <1>2, <1>3
<1>5. /\ S \in SUBSET Beginnings(p)
      /\ ScopesAround(n, p) = IF IsScope(n, p) THEN S \cup {p} ELSE S
  BY <1>2, ScopesOfChild
<1>6. Kind(n, p) \notin {"root", "module"}
  BY <1>1, <1>2, <1>3, NodeHere
<1>7. /\ Shows(n, Inner(n, r), S, k)
      /\ \/ Inner(n, r)[1] = n
         \/ Inner(n, r) = FileTable(n) /\ Kind(n, <<>>) = "root" /\ S = {<<>>}
  BY DEF ShowsHere
<1>8. Around(n, p)
  BY DEF Around
<1>9. \A q \in Paths(n) : Kind(n, q) \in Own =>
            <<n, q>> \in DOMAIN tables /\ tables[<<n, q>>].parent = Outer(n, q)
  BY <1>1 DEF HungInv, Entered
<1>10. /\ Kind(n, r) = "fnimpl" /\ i = 1 <=> ImplHead(n, p)
       /\ Kind(n, p) = "typedesc" => i = 1
       /\ Kind(n, r) = "case" /\ i = 1 => Kind(n, p) = "typedesc"
  BY <1>1, NodeBelowHere DEF ImplHead
<1>11. /\ Kind(n, r) \in Lent =>
             Inner(n, r) = TableOf(n, r) /\ TableOf(n, r) = <<n, Append(r, 1)>>
       /\ Kind(n, p) \in Own => TableOf(n, p) = <<n, p>> /\ Inner(n, p) = <<n, p>>
  BY <1>1, <1>2, CurrentBelow
<1> HIDE DEF S, k
<1>12. ASSUME ~(Kind(n, r) \in Lent /\ i = 1) PROVE Shows(n, Outer(n, p), S, k)
  <2>1. Inner(n, r) = Outer(n, p)
    BY <1>1, <1>2, <1>12, CurrentBeside
  <2> QED
    BY <1>7, <2>1
<1>13. ASSUME NEW T, Inner(n, p) = T, T[1] = n,
              Shows(n, T, ScopesAround(n, p), k + 1)
       PROVE  ShowsHere(n, p)
  BY <1>4, <1>13 DEF ShowsHere
<1>14. CASE Kind(n, r) \in Lent /\ i = 1
  <2> DEFINE t == <<n, p>>
  <2>0. t[1] = n
    OBVIOUS
  <2>1. Inner(n, r) = t
    BY <1>11, <1>14
  <2>2. Kind(n, p) \in {"fndecl", "typedesc"}
    BY <1>10, <1>14 DEF Lent, ImplHead
  <2>3. Inner(n, p) = t
    BY <1>11, <2>2 DEF Own
  <2> HIDE DEF t
  <2>4. Shows(n, t, S, k)
    BY <1>7, <2>1
  <2>5. CASE Kind(n, p) = "fndecl"
    <3>1. ScopesAround(n, p) = S
      BY <1>5, <2>5 DEF IsScope, OpensScope
    <3>2. Shows(n, t, S, k + 1)
      BY <1>4, <2>4, ShowsMore
    <3> QED
      BY <1>13, <2>0, <2>3, <3>1, <3>2
  <2>6. CASE Kind(n, p) = "typedesc"
    <3>1. ScopesAround(n, p) = S \cup {p}
      BY <1>5, <2>6 DEF IsScope, OpensScope
    <3>2. k <= MaxDepth + 3
      BY <1>1, <1>4
    <3>3. Shows(n, t, S \cup {p}, k + 1)
      BY <1>2, <1>4, <1>5, <2>4, <2>6, <3>2, PatternShows DEF t
    <3> QED
      BY <1>13, <2>0, <2>3, <3>1, <3>3
  <2> QED
    BY <2>2, <2>5, <2>6
<1>15. CASE ~(Kind(n, r) \in Lent /\ i = 1) /\ Kind(n, p) \notin Own \cup Lent
  <2>1. Inner(n, r) = Outer(n, p)
    BY <1>1, <1>2, <1>15, CurrentBeside
  <2>2. Inner(n, p) = Outer(n, p)
    BY <1>6, <1>15 DEF Inner
  <2>3. ScopesAround(n, p) = S
    BY <1>5, <1>6, <1>15 DEF IsScope, OpensScope, Own, Lent
  <2>4. Shows(n, Inner(n, r), S, k + 1)
    BY <1>4, <1>7, ShowsMore
  <2> QED
    BY <1>4, <1>7, <2>1, <2>2, <2>3, <2>4 DEF ShowsHere
<1>16. CASE ~(Kind(n, r) \in Lent /\ i = 1) /\ Kind(n, p) \in {"block", "for", "typedesc"}
  <2> DEFINE t == <<n, p>>
  <2>0. t[1] = n
    OBVIOUS
  <2>1. Kind(n, p) \in Own
    BY <1>16 DEF Own
  <2>2. t \in DOMAIN tables /\ tables[t].parent = Outer(n, p)
        /\ t = TableOf(n, p) /\ Inner(n, p) = t
    BY <1>2, <1>9, <1>11, <2>1
  <2>3. IsScope(n, p)
    BY <1>16 DEF IsScope, OpensScope
  <2>4. Plain(n, p)
    <3>1. Kind(n, p) = "typedesc" => Kind(n, r) # "case"
      BY <1>10, <1>16 DEF Lent
    <3> QED
      BY <1>2, <1>3, <2>3, <3>1 DEF Plain
  <2> HIDE DEF t
  <2>5. Shows(n, tables[t].parent, S, k)
    BY <1>12, <1>16, <2>2
  <2>6. Kind(n, p) # "root"
    BY <1>6
  <2>7. Shows(n, t, S \cup {p}, k + 1)
    BY <1>4, <1>5, <1>8, <2>2, <2>4, <2>5, <2>6, ScopeShows
  <2> QED
    BY <1>5, <1>13, <2>0, <2>2, <2>3, <2>7
<1>17. CASE ~(Kind(n, r) \in Lent /\ i = 1) /\ Kind(n, p) = "fndecl"
  <2> DEFINE t == <<n, p>>
  <2>0. t[1] = n
    OBVIOUS
  <2>1. Kind(n, p) \in Own
    BY <1>17 DEF Own
  <2>2. t \in DOMAIN tables /\ tables[t].parent = Outer(n, p) /\ Inner(n, p) = t
    BY <1>2, <1>9, <1>11, <2>1
  <2>3. ScopesAround(n, p) = S
    BY <1>5, <1>17 DEF IsScope, OpensScope
  <2>4. ~ImplHead(n, p)
    BY <1>10, <1>17 DEF Lent
  <2>5. Shows(n, tables[t].parent, S, k)
    BY <1>12, <1>17, <2>2
  <2>6. t = <<n, p>>
    OBVIOUS
  <2> HIDE DEF t
  <2>7. Shows(n, t, S, k + 1)
    BY <1>2, <1>4, <1>17, <2>2, <2>4, <2>5, <2>6, HeadShows
  <2> QED
    BY <1>13, <2>0, <2>2, <2>3, <2>7
<1>18. CASE ~(Kind(n, r) \in Lent /\ i = 1) /\ Kind(n, p) \in Lent
  <2> DEFINE a == Append(p, 1)
             t == <<n, a>>
  <2>0. t[1] = n
    OBVIOUS
  <2>1. Inner(n, p) = TableOf(n, p) /\ TableOf(n, p) = t /\ Outer(n, a) = Outer(n, p)
    BY <1>1, <1>2, <1>18, CurrentBelow DEF Lent, Own
  <2>2. 1 \in Kids(prog[n].tree, p)
    BY <1>1, <1>2, <1>18, NodeHere DEF Lent
  <2>3. a \in Paths(n) /\ Kind(n, a) \in {"fndecl", "typedesc"}
    BY <1>1, <1>2, <1>18, <2>2, NodeBelowHere DEF Lent
  <2>4. t \in DOMAIN tables /\ tables[t].parent = Outer(n, a)
    BY <1>9, <2>3 DEF Own
  <2>5. IsScope(n, p) /\ Plain(n, p)
    BY <1>2, <1>18 DEF IsScope, OpensScope, Plain, Lent
  <2> HIDE DEF t, a
  <2>6. Shows(n, tables[t].parent, S, k)
    BY <1>12, <1>18, <2>1, <2>4
  <2>7. Kind(n, p) # "root"
    BY <1>6
  <2>8. Shows(n, t, S \cup {p}, k + 1)
    BY <1>4, <1>5, <1>8, <2>1, <2>4, <2>5, <2>6, <2>7, ScopeShows
  <2> QED
    BY <1>5, <1>13, <2>0, <2>1, <2>5, <2>8
<1>19. Kind(n, p) \in Own \cup Lent =>
            Kind(n, p) \in {"block", "for", "typedesc"} \/ Kind(n, p) = "fndecl"
            \/ Kind(n, p) \in Lent
  BY <1>6 DEF Own
<1> QED
  BY <1>14, <1>15, <1>16, <1>17, <1>18, <1>19

LEMMA InnerShows ==
    ASSUME Reading, NEW n \in DOMAIN prog, n = m
    PROVE  ShowsHere(n, at)
<1>1. /\ prog \in Programs /\ MaxDepth \in Nat /\ PlaceInv
      /\ DOMAIN prog = 1..Len(prog) /\ Len(prog) \in Nat /\ m \in Nat \ {0}
  BY ReadingIs
<1>2. at \in Paths(n) /\ at \in Seq(Nat) /\ Kind(n, <<>>) \in {"root", "module"}
      /\ <<>> \in Paths(n) /\ Paths(n) = PathsOf(prog[n].tree) /\ IsTree(prog[n].tree)
  BY <1>1, PlaceIs, SourceTree
<1> DEFINE S == {k \in Nat : \A p \in Beginnings(at) : Len(p) = k => ShowsHere(n, p)}
<1>3. 0 \in S
  <2>1. ASSUME NEW p \in Beginnings(at), Len(p) = 0 PROVE ShowsHere(n, p)
    <3>1. p = <<>>
      BY <1>2, <2>1, BeginningsNest
    <3> DEFINE e == <<>>
    <3>2. p = e /\ Len(e) = 0
      BY <3>1
    <3>3. Shows(n, ModuleTable(n), {e}, 2)
      <4>1. n \in 1..m
        BY <1>1
      <4> QED
        BY <4>1, TopShows
    <3>4. ScopesAround(n, e) = {e}
      BY <1>2, BeginningsOfRoot DEF ScopesAround, IsScope, OpensScope
    <3>5. Inner(n, e) = ModuleTable(n)
      BY <1>2 DEF Inner, Own, ModuleTable
    <3>6. \/ ModuleTable(n)[1] = n
          \/ ModuleTable(n) = FileTable(n) /\ Kind(n, <<>>) = "root"
      BY <1>2 DEF ModuleTable, TableOf
    <3> HIDE DEF e
    <3>7. Len(e) + 2 = 2
      BY <3>2
    <3>8. ShowsHere(n, e)
      <4>1. e = <<>>
        BY DEF e
      <4> QED
        BY <3>3, <3>4, <3>5, <3>6, <3>7, <4>1 DEF ShowsHere
    <3> QED
      BY <3>2, <3>8
  <2> QED
    BY <2>1
<1>4. ASSUME NEW k \in S PROVE k + 1 \in S
  <2>1. ASSUME NEW p \in Beginnings(at), Len(p) = k + 1 PROVE ShowsHere(n, p)
    <3>1. p \in Paths(n) /\ p \in Seq(Nat) /\ p # <<>>
      <4>1. CASE p = at
        BY <1>2, <2>1, <4>1
      <4>2. CASE p # at
        BY <1>1, <1>2, <2>1, <4>2, StepOn
      <4> QED
        BY <4>1, <4>2
    <3>2. PICK r \in Paths(n) : \E i \in Kids(prog[n].tree, r) :
            p = Append(r, i) /\ r \in Seq(Nat) /\ i \in Nat \ {0}
      BY <1>1, <3>1, StepUp
    <3>3. PICK i \in Kids(prog[n].tree, r) :
            p = Append(r, i) /\ r \in Seq(Nat) /\ i \in Nat \ {0}
      BY <3>2
    <3>4. r \in Beginnings(r) /\ Beginnings(p) = Beginnings(r) \cup {p}
      BY <3>3, BeginningsNest, BeginningsOfChild
    <3>5. r \in Beginnings(at)
      <4>1. Beginnings(p) \subseteq Beginnings(at)
        BY <1>2, BeginningsNest
      <4> QED
        BY <3>4, <4>1
    <3>6. Len(r) = k
      BY <2>1, <3>3
    <3>7. ShowsHere(n, r)
      BY <3>5, <3>6
    <3>8. Len(r) < MaxDepth
      BY <1>2 DEF IsTree
    <3> HIDE DEF S
    <3> QED
      BY <3>3, <3>7, <3>8, InnerStep
  <2> QED
    BY <2>1
<1>5. S = Nat
  BY <1>3, <1>4, EveryNumber
<1>6. Len(at) \in Nat /\ at \in Beginnings(at)
  BY <1>2, BeginningsNest
<1> QED
  BY <1>5, <1>6

-----------------------------------------------------------------------------
(* What a module gets from those it uses.                                  *)

(* The two recursive functions, each by what it has for a module.          *)
Asked(f, e, name) ==
    IF LookupChain(tables, ModuleTable(e), name) # NoRecord
    THEN LookupChain(tables, ModuleTable(e), name)
    ELSE f[tables[ModuleTable(e)].mod]
KnowingDeps(f, d, name) ==
    {i \in DOMAIN Depends(d) : Asked(f, Depends(d)[i], name) # NoRecord
                               /\ name # ModuleName(Depends(d)[i])}
FromStep(f, d, name) ==
    LET deps == Depends(d)
        asked == [i \in DOMAIN deps |-> Asked(f, deps[i], name)]
        knowing == {i \in DOMAIN deps : asked[i] # NoRecord
                                        /\ name # ModuleName(deps[i])}
    IN  IF knowing = {} THEN NoRecord ELSE asked[Min(knowing)]
IsFrom(f, name) == f = [d \in 0..Len(prog) |-> FromStep(f, d, name)]

PassedOn(f, d, name) ==
    IF Innermost(d, <<>>, name) # {} THEN Innermost(d, <<>>, name)
    ELSE IF AtFile(m, d, name) # {} THEN AtFile(m, d, name)
    ELSE IF Kind(d, <<>>) = "root" THEN {}
    ELSE FromUsed(d, name, f)
IsPassedOn(f, name) == f = [d \in 1..Len(prog) |-> PassedOn(f, d, name)]

LEMMA FromDepsIs ==
    ASSUME NEW n, NEW name
    PROVE  LookupFromDeps(tables, n, name) = (CHOOSE f : IsFrom(f, name))[n]
BY DEF LookupFromDeps, IsFrom, FromStep, Asked

LEMMA InheritedIs ==
    ASSUME NEW n, n = m, NEW name
    PROVE  Inherited(n, name) = FromUsed(n, name, CHOOSE f : IsPassedOn(f, name))
BY DEF Inherited, IsPassedOn, PassedOn

(* A module uses only modules before it.                                   *)
LEMMA DependsOnEarlier ==
    ASSUME prog \in Programs, NEW d \in 0..Len(prog), NEW i \in DOMAIN Depends(d)
    PROVE  /\ d # 0 /\ Depends(d)[i] \in Nat \ {0} /\ Depends(d)[i] < d
           /\ Depends(d)[i] \in DOMAIN prog /\ i \in Nat /\ Depends(d) = prog[d].deps
<1>1. DOMAIN prog = 1..Len(prog) /\ Len(prog) \in Nat
  BY ModulesAre
<1>2. d # 0
  <2>1. DOMAIN <<>> = {}
    OBVIOUS
  <2> QED
    BY <2>1 DEF Depends
<1>3. d \in DOMAIN prog
  BY <1>1, <1>2
<1>4. prog[d].deps \in Seq(1..(d - 1))
  BY <1>3, ProgramsAreTrees
<1>5. Depends(d) = prog[d].deps
  BY <1>2 DEF Depends
<1>6. i \in 1..Len(prog[d].deps) /\ Len(prog[d].deps) \in Nat
  BY <1>4, <1>5
<1>7. Depends(d)[i] \in 1..(d - 1)
  BY <1>4, <1>5, <1>6
<1> QED
  BY <1>1, <1>2, <1>5, <1>6, <1>7

LEMMA FromStepIs ==
    ASSUME Reading, NEW f, NEW d \in 0..Len(prog), NEW name, NEW K,
           K = KnowingDeps(f, d, name)
    PROVE  /\ K \in SUBSET DOMAIN Depends(d)
           /\ K = {} => FromStep(f, d, name) = NoRecord
           /\ K # {} => /\ Min(K) \in K
                        /\ FromStep(f, d, name) = Asked(f, Depends(d)[Min(K)], name)
<1>1. prog \in Programs
  BY ReadingIs
<1>2. \A i \in DOMAIN Depends(d) : i \in Nat
  BY <1>1, DependsOnEarlier
<1>3. K \in SUBSET DOMAIN Depends(d) /\ K \in SUBSET Nat
  BY <1>2 DEF KnowingDeps
<1> DEFINE asked == [i \in DOMAIN Depends(d) |-> Asked(f, Depends(d)[i], name)]
<1>4. FromStep(f, d, name) = IF K = {} THEN NoRecord ELSE asked[Min(K)]
  <2>1. FromStep(f, d, name) =
            LET knowing == {i \in DOMAIN Depends(d) : asked[i] # NoRecord
                                        /\ name # ModuleName(Depends(d)[i])}
            IN  IF knowing = {} THEN NoRecord ELSE asked[Min(knowing)]
    BY DEF FromStep
  <2>2. \A i \in DOMAIN Depends(d) : asked[i] = Asked(f, Depends(d)[i], name)
    OBVIOUS
  <2> HIDE DEF asked
  <2>3. {i \in DOMAIN Depends(d) : asked[i] # NoRecord
                                /\ name # ModuleName(Depends(d)[i])} = K
    BY <2>2 DEF KnowingDeps
  <2> QED
    BY <2>1, <2>3
<1>5. K # {} => Min(K) \in K
  <2>1. ASSUME K # {} PROVE \E x \in K : \A y \in K : x <= y
    BY <1>3, <2>1, LeastNumber
  <2> QED
    BY <2>1 DEF Min
<1>6. \A i \in DOMAIN Depends(d) : asked[i] = Asked(f, Depends(d)[i], name)
  OBVIOUS
<1> HIDE DEF asked
<1> QED
  BY <1>3, <1>4, <1>5, <1>6

(* The module of the table of a module; the table of a file has none.      *)
LEMMA ModOfTop ==
    ASSUME Reading, NEW e \in DOMAIN prog
    PROVE  /\ ModuleTable(e) \in DOMAIN tables
           /\ tables[ModuleTable(e)].mod = IF Kind(e, <<>>) = "root" THEN 0 ELSE e
<1>1. prog \in Programs /\ StoreInv /\ AreTables(tables)
  BY ReadingIs
<1>2. ModuleTable(e) \in DOMAIN tables
  BY <1>1 DEF StoreInv
<1>3. tables[ModuleTable(e)].mod = ModuleTable(e)[1]
  BY <1>1, <1>2 DEF AreTables
<1>4. Kind(e, <<>>) \in {"root", "module"}
  BY <1>1, SourceTree
<1>5. ModuleTable(e)[1] = IF Kind(e, <<>>) = "root" THEN 0 ELSE e
  BY <1>4 DEF ModuleTable, TableOf, FileTable
<1> QED
  BY <1>2, <1>3, <1>5

LEMMA FromStepBefore ==
    ASSUME Reading, NEW f, NEW g, NEW d \in 0..Len(prog), NEW name,
           \A e \in 0..Len(prog) : e < d => f[e] = g[e]
    PROVE  FromStep(f, d, name) = FromStep(g, d, name)
<1>1. prog \in Programs /\ DOMAIN prog = 1..Len(prog) /\ Len(prog) \in Nat
  BY ReadingIs
<1>2. ASSUME NEW i \in DOMAIN Depends(d)
      PROVE  Asked(f, Depends(d)[i], name) = Asked(g, Depends(d)[i], name)
  <2>1. PICK e : e = Depends(d)[i]
    OBVIOUS
  <2>2. d # 0 /\ e \in DOMAIN prog /\ e \in Nat \ {0} /\ e < d
    BY <1>1, <2>1, DependsOnEarlier
  <2>3. tables[ModuleTable(e)].mod = IF Kind(e, <<>>) = "root" THEN 0 ELSE e
    BY <2>2, ModOfTop
  <2>4. tables[ModuleTable(e)].mod \in 0..Len(prog) /\ tables[ModuleTable(e)].mod < d
    BY <1>1, <2>2, <2>3
  <2>5. f[tables[ModuleTable(e)].mod] = g[tables[ModuleTable(e)].mod]
    BY <2>4
  <2> QED
    BY <2>1, <2>5 DEF Asked
<1>3. KnowingDeps(f, d, name) = KnowingDeps(g, d, name)
  BY <1>2 DEF KnowingDeps
<1>4. PICK K : K = KnowingDeps(f, d, name)
  OBVIOUS
<1>5. K = KnowingDeps(g, d, name)
  BY <1>3, <1>4
<1>6. /\ K \in SUBSET DOMAIN Depends(d)
      /\ K = {} => FromStep(f, d, name) = NoRecord
      /\ K # {} => /\ Min(K) \in K
                   /\ FromStep(f, d, name) = Asked(f, Depends(d)[Min(K)], name)
  BY <1>4, FromStepIs
<1>7. /\ K = {} => FromStep(g, d, name) = NoRecord
      /\ K # {} => FromStep(g, d, name) = Asked(g, Depends(d)[Min(K)], name)
  BY <1>5, FromStepIs
<1> QED
  BY <1>2, <1>6, <1>7

LEMMA FromExists ==
    ASSUME Reading, NEW name
    PROVE  \E f : IsFrom(f, name)
<1> DEFINE N == Len(prog)
           Upto(f, k) == f = [d \in 0..N |-> f[d]]
                         /\ \A d \in 0..N : d < k => f[d] = FromStep(f, d, name)
           S == {k \in Nat : \E f : Upto(f, k)}
<1>1. N \in Nat
  BY ReadingIs
<1> HIDE DEF N
<1>2. 0 \in S
  <2>1. PICK f : f = [d \in 0..N |-> 0]
    OBVIOUS
  <2>2. Upto(f, 0)
    BY <1>1, <2>1
  <2> HIDE DEF Upto
  <2> QED
    BY <2>2
<1>3. ASSUME NEW k \in S PROVE k + 1 \in S
  <2>1. PICK f : Upto(f, k)
    OBVIOUS
  <2>2. PICK g : g = [d \in 0..N |-> IF d = k THEN FromStep(f, k, name) ELSE f[d]]
    OBVIOUS
  <2>3. k \in Nat /\ k + 1 \in Nat
    OBVIOUS
  <2>4. /\ g = [d \in 0..N |-> g[d]]
        /\ \A d \in 0..N : g[d] = IF d = k THEN FromStep(f, k, name) ELSE f[d]
    <3> DEFINE v == FromStep(f, k, name)
    <3>1. g = [d \in 0..N |-> IF d = k THEN v ELSE f[d]]
      BY <2>2
    <3> HIDE DEF v
    <3>2. \A d \in 0..N : g[d] = IF d = k THEN v ELSE f[d]
      BY <3>1
    <3>3. g = [d \in 0..N |-> g[d]]
      BY <3>1
    <3> QED
      BY <3>2, <3>3 DEF v
  <2>5. ASSUME NEW d \in 0..N, d < k + 1 PROVE g[d] = FromStep(g, d, name)
    <3>1. d \in 0..Len(prog) /\ d <= k
      BY <1>1, <2>3, <2>5 DEF N
    <3>2. \A e \in 0..Len(prog) : e < d => f[e] = g[e]
      BY <1>1, <2>3, <2>4, <3>1 DEF N
    <3>3. FromStep(f, d, name) = FromStep(g, d, name)
      BY <3>1, <3>2, FromStepBefore
    <3>4. g[d] = FromStep(f, d, name)
      <4>1. CASE d = k
        BY <2>4, <4>1
      <4>2. CASE d # k
        <5>1. d < k
          BY <2>3, <3>1, <4>2
        <5> QED
          BY <2>1, <2>4, <4>2, <5>1
      <4> QED
        BY <4>1, <4>2
    <3> QED
      BY <3>3, <3>4
  <2>6. Upto(g, k + 1)
    BY <2>4, <2>5
  <2> HIDE DEF Upto
  <2> QED
    BY <2>3, <2>6
<1>4. S = Nat
  <2> HIDE DEF Upto
  <2> QED
    BY <1>2, <1>3, EveryNumber
<1>5. N + 1 \in S
  <2> HIDE DEF S
  <2> QED
    BY <1>1, <1>4
<1>6. PICK f : Upto(f, N + 1)
  BY <1>5
<1>7. \A d \in 0..N : f[d] = FromStep(f, d, name)
  <2>1. \A d \in 0..N : d < N + 1
    BY <1>1
  <2> QED
    BY <1>6, <2>1
<1>8. f = [d \in 0..N |-> FromStep(f, d, name)]
  BY <1>6, <1>7
<1> QED
  BY <1>8 DEF IsFrom, N

UsedDeps(f, d, name) ==
    {i \in DOMAIN Depends(d) : name # ModuleName(Depends(d)[i]) /\ f[Depends(d)[i]] # {}}

LEMMA FromUsedIs ==
    ASSUME Reading, NEW f, NEW d \in DOMAIN prog, NEW name, NEW K,
           K = UsedDeps(f, d, name)
    PROVE  /\ K \in SUBSET DOMAIN Depends(d)
           /\ K = {} => FromUsed(d, name, f) = {}
           /\ K # {} => Min(K) \in K /\ FromUsed(d, name, f) = f[Depends(d)[Min(K)]]
<1>1. prog \in Programs /\ DOMAIN prog = 1..Len(prog) /\ Len(prog) \in Nat
  BY ReadingIs
<1>2. d \in 0..Len(prog) /\ Depends(d) = prog[d].deps
  BY <1>1 DEF Depends
<1>3. \A i \in DOMAIN Depends(d) : i \in Nat
  BY <1>1, <1>2, DependsOnEarlier
<1>4. K \in SUBSET DOMAIN Depends(d) /\ K \in SUBSET Nat
  BY <1>3 DEF UsedDeps
<1>5. FromUsed(d, name, f) = IF K = {} THEN {} ELSE f[Depends(d)[Min(K)]]
  BY <1>2 DEF FromUsed, UsedDeps
<1>6. K # {} => Min(K) \in K
  <2>1. ASSUME K # {} PROVE \E x \in K : \A y \in K : x <= y
    BY <1>4, <2>1, LeastNumber
  <2> QED
    BY <2>1 DEF Min
<1> QED
  BY <1>4, <1>5, <1>6

LEMMA PassedOnBefore ==
    ASSUME Reading, NEW f, NEW g, NEW d \in DOMAIN prog, NEW name,
           \A e \in DOMAIN prog : e < d => f[e] = g[e]
    PROVE  PassedOn(f, d, name) = PassedOn(g, d, name)
<1>1. prog \in Programs /\ DOMAIN prog = 1..Len(prog) /\ Len(prog) \in Nat
  BY ReadingIs
<1>2. d \in 0..Len(prog)
  BY <1>1
<1>3. ASSUME NEW i \in DOMAIN Depends(d) PROVE f[Depends(d)[i]] = g[Depends(d)[i]]
  BY <1>1, <1>2, DependsOnEarlier
<1>4. UsedDeps(f, d, name) = UsedDeps(g, d, name)
  BY <1>3 DEF UsedDeps
<1>5. PICK K : K = UsedDeps(f, d, name)
  OBVIOUS
<1>6. K = UsedDeps(g, d, name)
  BY <1>4, <1>5
<1>7. /\ K \in SUBSET DOMAIN Depends(d)
      /\ K = {} => FromUsed(d, name, f) = {}
      /\ K # {} => Min(K) \in K /\ FromUsed(d, name, f) = f[Depends(d)[Min(K)]]
  BY <1>5, FromUsedIs
<1>8. /\ K = {} => FromUsed(d, name, g) = {}
      /\ K # {} => FromUsed(d, name, g) = g[Depends(d)[Min(K)]]
  BY <1>6, FromUsedIs
<1>9. FromUsed(d, name, f) = FromUsed(d, name, g)
  BY <1>3, <1>7, <1>8
<1> QED
  BY <1>9 DEF PassedOn

LEMMA PassedOnExists ==
    ASSUME Reading, NEW name
    PROVE  \E f : IsPassedOn(f, name)
<1> DEFINE N == Len(prog)
           Upto(f, k) == f = [d \in 1..N |-> f[d]]
                         /\ \A d \in 1..N : d < k => f[d] = PassedOn(f, d, name)
           S == {k \in Nat : \E f : Upto(f, k)}
<1>1. N \in Nat /\ DOMAIN prog = 1..N
  BY ReadingIs
<1> HIDE DEF N
<1>2. 0 \in S
  <2>1. PICK f : f = [d \in 1..N |-> 0]
    OBVIOUS
  <2>2. Upto(f, 0)
    BY <1>1, <2>1
  <2> HIDE DEF Upto
  <2> QED
    BY <2>2
<1>3. ASSUME NEW k \in S PROVE k + 1 \in S
  <2>1. PICK f : Upto(f, k)
    OBVIOUS
  <2>2. PICK g : g = [d \in 1..N |-> IF d = k THEN PassedOn(f, k, name) ELSE f[d]]
    OBVIOUS
  <2>3. k \in Nat /\ k + 1 \in Nat
    OBVIOUS
  <2>4. /\ g = [d \in 1..N |-> g[d]]
        /\ \A d \in 1..N : g[d] = IF d = k THEN PassedOn(f, k, name) ELSE f[d]
    <3> DEFINE v == PassedOn(f, k, name)
    <3>1. g = [d \in 1..N |-> IF d = k THEN v ELSE f[d]]
      BY <2>2
    <3> HIDE DEF v
    <3>2. \A d \in 1..N : g[d] = IF d = k THEN v ELSE f[d]
      BY <3>1
    <3>3. g = [d \in 1..N |-> g[d]]
      BY <3>1
    <3> QED
      BY <3>2, <3>3 DEF v
  <2>5. ASSUME NEW d \in 1..N, d < k + 1 PROVE g[d] = PassedOn(g, d, name)
    <3>1. d \in DOMAIN prog /\ d <= k
      BY <1>1, <2>3, <2>5
    <3>2. \A e \in DOMAIN prog : e < d => f[e] = g[e]
      BY <1>1, <2>3, <2>4, <3>1
    <3>3. PassedOn(f, d, name) = PassedOn(g, d, name)
      BY <3>1, <3>2, PassedOnBefore
    <3>4. g[d] = PassedOn(f, d, name)
      <4>1. CASE d = k
        BY <2>4, <4>1
      <4>2. CASE d # k
        <5>1. d < k
          BY <2>3, <3>1, <4>2
        <5> QED
          BY <2>1, <2>4, <4>2, <5>1
      <4> QED
        BY <4>1, <4>2
    <3> QED
      BY <3>3, <3>4
  <2>6. Upto(g, k + 1)
    BY <2>4, <2>5
  <2> HIDE DEF Upto
  <2> QED
    BY <2>3, <2>6
<1>4. S = Nat
  <2> HIDE DEF Upto
  <2> QED
    BY <1>2, <1>3, EveryNumber
<1>5. N + 1 \in S
  <2> HIDE DEF S
  <2> QED
    BY <1>1, <1>4
<1>6. PICK f : Upto(f, N + 1)
  BY <1>5
<1>7. \A d \in 1..N : f[d] = PassedOn(f, d, name)
  <2>1. \A d \in 1..N : d < N + 1
    BY <1>1
  <2> QED
    BY <1>6, <2>1
<1>8. f = [d \in 1..N |-> PassedOn(f, d, name)]
  BY <1>6, <1>7
<1> QED
  BY <1>8 DEF IsPassedOn, N

LEMMA InnermostIsSeen ==
    ASSUME NEW n, NEW p, NEW name
    PROVE  Innermost(n, p, name) = Seen(n, ScopesAround(n, p), name)
BY DEF Innermost, Seen, Those

LEMMA TopIsSeen ==
    ASSUME Reading, NEW n \in 1..m, NEW name
    PROVE  Innermost(n, <<>>, name) = Seen(n, {<<>>}, name)
<1>1. IsScope(n, <<>>)
  BY TopsAreRoots
<1>2. ScopesAround(n, <<>>) = {<<>>}
  BY <1>1, BeginningsOfRoot DEF ScopesAround
<1>3. PICK e : e = <<>>
  OBVIOUS
<1>4. Innermost(n, e, name) = Seen(n, ScopesAround(n, e), name)
  BY InnermostIsSeen
<1> QED
  BY <1>2, <1>3, <1>4

LEMMA FromIs ==
    ASSUME Reading, NEW name, NEW f, IsFrom(f, name), NEW d \in 0..Len(prog)
    PROVE  f[d] = FromStep(f, d, name)
<1> DEFINE h == [e \in 0..Len(prog) |-> FromStep(f, e, name)]
<1>1. f = h
  BY DEF IsFrom
<1>2. h[d] = FromStep(f, d, name)
  OBVIOUS
<1> HIDE DEF h
<1> QED
  BY <1>1, <1>2

LEMMA PassedOnIs ==
    ASSUME Reading, NEW name, NEW f, IsPassedOn(f, name), NEW d \in 1..Len(prog)
    PROVE  f[d] = PassedOn(f, d, name)
<1> DEFINE h == [e \in 1..Len(prog) |-> PassedOn(f, e, name)]
<1>1. f = h
  BY DEF IsPassedOn
<1>2. h[d] = PassedOn(f, d, name)
  OBVIOUS
<1> HIDE DEF h
<1> QED
  BY <1>1, <1>2

(* The table of a file asks nobody.                                        *)
LEMMA FileGetsNothing ==
    ASSUME Reading, NEW name, NEW f, IsFrom(f, name)
    PROVE  f[0] = NoRecord
<1>1. 0 \in 0..Len(prog)
  BY ReadingIs
<1>2. Depends(0) = <<>> /\ DOMAIN <<>> = {}
  BY DEF Depends
<1>3. KnowingDeps(f, 0, name) = {}
  BY <1>2 DEF KnowingDeps
<1>4. FromStep(f, 0, name) = NoRecord
  BY <1>1, <1>3, FromStepIs
<1> QED
  BY <1>1, <1>4, FromIs

LEMMA AskedIsBound ==
    ASSUME Reading, NEW name, NEW f, IsFrom(f, name), NEW g, IsPassedOn(g, name),
           NEW e \in 1..m, Bound(f[e], FromUsed(e, name, g))
    PROVE  Bound(Asked(f, e, name), g[e])
<1> DEFINE L == Local(e, {<<>>}, name)
           own == LookupChain(tables, ModuleTable(e), name)
<1>1. m \in Nat /\ m \in 1..Len(prog) /\ Len(prog) \in Nat
  BY ReadingIs
<1>2. e \in DOMAIN prog /\ e \in 1..Len(prog)
  BY <1>1, TopsAreRoots
<1>3. Bound(own, L)
  <2>1. Shows(e, ModuleTable(e), {<<>>}, 2)
    BY TopShows
  <2> QED
    BY <2>1 DEF Shows
<1>4. g[e] = PassedOn(g, e, name)
  BY <1>2, PassedOnIs
<1>5. PassedOn(g, e, name) = IF L # {} THEN L
                             ELSE IF Kind(e, <<>>) = "root" THEN {}
                             ELSE FromUsed(e, name, g)
  BY TopIsSeen DEF PassedOn, Local
<1>6. tables[ModuleTable(e)].mod = IF Kind(e, <<>>) = "root" THEN 0 ELSE e
  BY <1>2, ModOfTop
<1>7. Asked(f, e, name) = IF own # NoRecord THEN own
                          ELSE f[tables[ModuleTable(e)].mod]
  BY DEF Asked
<1>8. f[0] = NoRecord
  BY FileGetsNothing
<1> HIDE DEF L, own
<1>9. CASE L # {}
  BY <1>3, <1>4, <1>5, <1>7, <1>9 DEF Bound
<1>10. CASE L = {}
  <2>1. own = NoRecord
    BY <1>3, <1>10 DEF Bound
  <2>2. CASE Kind(e, <<>>) = "root"
    BY <1>4, <1>5, <1>6, <1>7, <1>8, <1>10, <2>1, <2>2 DEF Bound
  <2>3. CASE Kind(e, <<>>) # "root"
    BY <1>4, <1>5, <1>6, <1>7, <1>10, <2>1, <2>3
  <2> QED
    BY <2>2, <2>3
<1> QED
  BY <1>9, <1>10

(* What a module finds in those it uses is what it should get from them.   *)
LEMMA FromIsBound ==
    ASSUME Reading, NEW name, NEW f, IsFrom(f, name), NEW g, IsPassedOn(g, name),
           NEW k \in 1..m
    PROVE  Bound(f[k], FromUsed(k, name, g))
<1>1. /\ prog \in Programs /\ m \in Nat /\ m \in 1..Len(prog) /\ Len(prog) \in Nat
      /\ DOMAIN prog = 1..Len(prog)
  BY ReadingIs
<1> DEFINE S == {n \in Nat : \A d \in 1..m : d < n => Bound(f[d], FromUsed(d, name, g))}
<1>2. 0 \in S
  OBVIOUS
<1>3. ASSUME NEW n \in S PROVE n + 1 \in S
  <2>1. \A d \in 1..m : d < n => Bound(f[d], FromUsed(d, name, g))
    OBVIOUS
  <2>2. n \in Nat
    OBVIOUS
  <2>3. ASSUME NEW d \in 1..m, d < n + 1 PROVE Bound(f[d], FromUsed(d, name, g))
    <3>1. d \in DOMAIN prog /\ d \in 0..Len(prog) /\ d <= n
      BY <1>1, <2>2, <2>3
    <3>2. ASSUME NEW i \in DOMAIN Depends(d)
          PROVE  Bound(Asked(f, Depends(d)[i], name), g[Depends(d)[i]])
      <4>1. PICK e : e = Depends(d)[i]
        OBVIOUS
      <4>2. e \in Nat \ {0} /\ e < d
        BY <1>1, <3>1, <4>1, DependsOnEarlier
      <4>3. e \in 1..m /\ e < n
        BY <1>1, <2>2, <3>1, <4>2
      <4>4. Bound(f[e], FromUsed(e, name, g))
        BY <2>1, <4>3
      <4>5. Bound(Asked(f, e, name), g[e])
        BY <4>3, <4>4, AskedIsBound
      <4> QED
        BY <4>1, <4>5
    <3>3. KnowingDeps(f, d, name) = UsedDeps(g, d, name)
      BY <3>2 DEF KnowingDeps, UsedDeps, Bound
    <3>4. PICK K : K = KnowingDeps(f, d, name)
      OBVIOUS
    <3>5. K = UsedDeps(g, d, name)
      BY <3>3, <3>4
    <3>6. /\ K \in SUBSET DOMAIN Depends(d)
          /\ K = {} => FromStep(f, d, name) = NoRecord
          /\ K # {} => /\ Min(K) \in K
                       /\ FromStep(f, d, name) = Asked(f, Depends(d)[Min(K)], name)
      BY <3>1, <3>4, FromStepIs
    <3>7. /\ K = {} => FromUsed(d, name, g) = {}
          /\ K # {} => FromUsed(d, name, g) = g[Depends(d)[Min(K)]]
      BY <3>1, <3>5, FromUsedIs
    <3>8. f[d] = FromStep(f, d, name)
      BY <3>1, FromIs
    <3>9. CASE K = {}
      BY <3>6, <3>7, <3>8, <3>9 DEF Bound
    <3>10. CASE K # {}
      BY <3>2, <3>6, <3>7, <3>8, <3>10
    <3> QED
      BY <3>9, <3>10
  <2> QED
    BY <2>2, <2>3
<1>4. S = Nat
  BY <1>2, <1>3, EveryNumber
<1>5. m + 1 \in S
  <2> HIDE DEF S
  <2> QED
    BY <1>1, <1>4
<1>6. k < m + 1
  BY <1>1
<1> QED
  BY <1>5, <1>6

-----------------------------------------------------------------------------
(* What a name is bound to.                                                *)

(* What a use of a name should find, and what it finds.                    *)
FindsRight(n, p, name, record) ==
    IF record = NoRecord THEN Meanings(n, p, name) = {} \/ AtTop(<<n, p>>)
    ELSE record.by \in Meanings(n, p, name)

LEMMA LookupFinds ==
    ASSUME Reading, NEW n \in DOMAIN prog, n = m, NEW p, p = at, p # <<>>,
           ~IsScope(n, p), NEW name
    PROVE  FindsRight(n, p, name, Lookup(tables, cur, name))
<1> DEFINE t == Inner(n, p)
           L == Local(n, ScopesAround(n, p), name)
           own == LookupChain(tables, t, name)
           deps == LookupFromDeps(tables, tables[t].mod, name)
<1>1. /\ prog \in Programs /\ m \in Nat \ {0} /\ AreTables(tables) /\ CurInv
      /\ Walking /\ dir = "up" /\ PlaceInv /\ DOMAIN prog = 1..Len(prog)
      /\ Len(prog) \in Nat
  BY ReadingIs
<1>2. cur = t
  BY <1>1 DEF CurInv
<1>3. /\ Shows(n, t, ScopesAround(n, p), Len(p) + 2)
      /\ \/ t[1] = n
         \/ t = FileTable(n) /\ Kind(n, <<>>) = "root" /\ ScopesAround(n, p) = {<<>>}
  BY InnerShows DEF ShowsHere
<1>4. t \in DOMAIN tables /\ Bound(own, L)
  BY <1>3 DEF Shows
<1>5. tables[t].mod = t[1]
  BY <1>1, <1>4 DEF AreTables
<1>6. L = IF Innermost(n, p, name) # {} THEN Innermost(n, p, name)
          ELSE AtFile(n, n, name)
  BY InnermostIsSeen DEF Local
<1>7. Meanings(n, p, name) = IF L # {} THEN L ELSE Inherited(n, name)
  BY <1>6 DEF Meanings
<1>8. Lookup(tables, cur, name) = IF own # NoRecord THEN own ELSE deps
  BY <1>2 DEF Lookup
<1>9. PICK f : IsFrom(f, name) /\ f = CHOOSE h : IsFrom(h, name)
  BY FromExists
<1>10. PICK g : IsPassedOn(g, name) /\ g = CHOOSE h : IsPassedOn(h, name)
  BY PassedOnExists
<1>11. deps = f[tables[t].mod]
  BY <1>9, FromDepsIs
<1>12. Inherited(n, name) = FromUsed(n, name, g)
  BY <1>10, InheritedIs
<1>13. f[0] = NoRecord
  BY <1>9, FileGetsNothing
<1>14. Bound(f[n], FromUsed(n, name, g))
  <2>1. n \in 1..m
    BY <1>1
  <2> QED
    BY <1>9, <1>10, <2>1, FromIsBound
<1>15. ScopesAround(n, p) = {<<>>} /\ Kind(n, <<>>) = "root" => AtTop(<<n, p>>)
  <2>1. PICK q \in Paths(n) : \E i \in Kids(prog[n].tree, q) :
            p = Append(q, i) /\ q = Above(p) /\ q \in Seq(Nat) /\ i \in Nat \ {0}
    <3>1. p \in Paths(n)
      BY <1>1, PlaceIs
    <3> QED
      BY <1>1, <3>1, StepUp
  <2>2. PICK i \in Nat : p = Append(q, i) /\ q = Above(p) /\ q \in Seq(Nat)
    BY <2>1
  <2>3. ScopesAround(n, Append(q, i)) =
                IF IsScope(n, Append(q, i)) THEN ScopesAround(n, q) \cup {Append(q, i)}
                ELSE ScopesAround(n, q)
    BY <2>2, ScopesOfChild
  <2>4. ScopesAround(n, p) = ScopesAround(n, Above(p))
    BY <2>2, <2>3
  <2> DEFINE w == <<n, p>>
  <2>5. w[1] = n /\ w[2] = p
    OBVIOUS
  <2> HIDE DEF w
  <2> QED
    BY <2>4, <2>5 DEF AtTop, w
<1> HIDE DEF t, L, own, deps
<1>16. CASE own # NoRecord
  BY <1>4, <1>7, <1>8, <1>16 DEF FindsRight, Bound
<1>17. CASE own = NoRecord
  <2>1. L = {}
    BY <1>4, <1>17 DEF Bound
  <2>2. CASE t[1] = n
    <3>1. Lookup(tables, cur, name) = f[n]
      BY <1>5, <1>8, <1>11, <1>17, <2>2
    <3>2. Meanings(n, p, name) = FromUsed(n, name, g)
      BY <1>7, <1>12, <2>1
    <3> QED
      BY <1>14, <3>1, <3>2 DEF Bound, FindsRight
  <2>3. CASE t = FileTable(n) /\ Kind(n, <<>>) = "root" /\ ScopesAround(n, p) = {<<>>}
    <3>1. t[1] = 0
      BY <2>3 DEF FileTable
    <3>2. Lookup(tables, cur, name) = NoRecord
      BY <1>5, <1>8, <1>11, <1>13, <1>17, <3>1
    <3>3. AtTop(<<n, p>>)
      BY <1>15, <2>3
    <3> QED
      BY <3>2, <3>3 DEF FindsRight
  <2> QED
    BY <1>3, <2>2, <2>3
<1> QED
  BY <1>16, <1>17

(* What a name should mean is up to the program alone.                     *)
Exports(f, n, name) ==
    f = [d \in 1..Len(prog) |->
            IF Innermost(d, <<>>, name) # {} THEN Innermost(d, <<>>, name)
            ELSE IF AtFile(n, d, name) # {} THEN AtFile(n, d, name)
            ELSE IF Kind(d, <<>>) = "root" THEN {}
            ELSE FromUsed(d, name, f)]

LEMMA ExportsAre ==
    ASSUME NEW n, NEW name
    PROVE  Inherited(n, name) = FromUsed(n, name, CHOOSE f : Exports(f, n, name))
BY DEF Inherited, Exports

LEMMA SourceKeeps ==
    ASSUME prog' = prog
    PROVE  /\ \A n, p : /\ Kind(n, p)' = Kind(n, p) /\ Mentions(n, p)' = Mentions(n, p)
                        /\ IsScope(n, p)' = IsScope(n, p)
                        /\ ScopesAround(n, p)' = ScopesAround(n, p)
           /\ \A n, s, name : In(n, s, name)' = In(n, s, name)
           /\ \A n, name : ModuleName(n)' = ModuleName(n)
<1>1. ASSUME NEW n, NEW q
      PROVE  /\ Kind(n, q)' = Kind(n, q) /\ Node(n, q)' = Node(n, q)
             /\ IsScope(n, q)' = IsScope(n, q) /\ Mentions(n, q)' = Mentions(n, q)
  BY DEF Kind, Node, IsScope, Mentions
<1>2. ASSUME NEW n, NEW q PROVE ScopesAround(n, q)' = ScopesAround(n, q)
  BY <1>1 DEF ScopesAround
<1>3. ASSUME NEW n, NEW q PROVE ScopeAround(n, q)' = ScopeAround(n, q)
  BY <1>2 DEF ScopeAround
<1>4. ASSUME NEW n, NEW q PROVE VisibleIn(n, q)' = VisibleIn(n, q)
  <2>1. PICK s : s = ScopeAround(n, Above(q))
    OBVIOUS
  <2>2. ScopeAround(n, Above(q))' = s
    BY <1>3, <2>1
  <2>3. PICK o : o = Above(s)
    OBVIOUS
  <2> QED
    BY <1>1, <1>3, <2>1, <2>2, <2>3 DEF VisibleIn
<1>5. ASSUME NEW n, NEW name PROVE Declarations(n, name)' = Declarations(n, name)
  <2>1. Paths(n)' = Paths(n)
    BY DEF Paths
  <2> QED
    BY <1>1, <2>1 DEF Declarations
<1>6. ASSUME NEW n, NEW s, NEW name PROVE In(n, s, name)' = In(n, s, name)
  BY <1>4, <1>5 DEF In
<1>7. ASSUME NEW n PROVE ModuleName(n)' = ModuleName(n)
  BY DEF ModuleName
<1> QED
  BY <1>1, <1>2, <1>6, <1>7

LEMMA MeaningsKeep ==
    ASSUME prog' = prog, NEW n, NEW p, NEW name
    PROVE  Meanings(n, p, name)' = Meanings(n, p, name)
<1>1. ASSUME NEW k, NEW q PROVE Innermost(k, q, name)' = Innermost(k, q, name)
  <2> DEFINE with == {r \in ScopesAround(k, q) : In(k, r, name) # {}}
  <2>1. Innermost(k, q, name) = IF with = {} THEN {}
                                ELSE {<<k, r>> : r \in In(k, Longest(with), name)}
    BY DEF Innermost
  <2>2. Innermost(k, q, name)' = IF with' = {} THEN {}
                                ELSE {<<k, r>> : r \in In(k, Longest(with), name)'}
    BY DEF Innermost
  <2>3. with' = with
    BY SourceKeeps
  <2>4. PICK w : w = with
    OBVIOUS
  <2> HIDE DEF with
  <2>5. In(k, Longest(with), name)' = In(k, Longest(w), name)'
    BY <2>3, <2>4
  <2>6. In(k, Longest(w), name)' = In(k, Longest(w), name)
    BY SourceKeeps
  <2> QED
    BY <2>1, <2>2, <2>3, <2>4, <2>5, <2>6
<1>2. ASSUME NEW k PROVE AtFile(n, k, name)' = AtFile(n, k, name)
  BY SourceKeeps DEF AtFile
<1>3. ASSUME NEW k, NEW f PROVE FromUsed(k, name, f)' = FromUsed(k, name, f)
  BY SourceKeeps DEF FromUsed
<1>4. ASSUME NEW k PROVE (Kind(k, <<>>) = "root")' <=> Kind(k, <<>>) = "root"
  BY SourceKeeps
<1>5. ASSUME NEW f PROVE Exports(f, n, name)' <=> Exports(f, n, name)
  <2>1. ASSUME NEW k PROVE Innermost(k, <<>>, name)' = Innermost(k, <<>>, name)
    BY <1>1
  <2> QED
    BY <1>2, <1>3, <1>4, <2>1 DEF Exports
<1> DEFINE g == CHOOSE f : Exports(f, n, name)
<1>6. g' = g
  BY <1>5
<1>7. Inherited(n, name) = FromUsed(n, name, g)
  BY ExportsAre
<1>8. Inherited(n, name)' = FromUsed(n, name, g)'
  BY DEF Inherited, Exports
<1>9. FromUsed(n, name, g)' = FromUsed(n, name, g)
  <2>1. PICK h : h = g
    OBVIOUS
  <2>2. g' = h
    BY <1>6, <2>1
  <2> HIDE DEF g
  <2>3. FromUsed(n, name, g)' = FromUsed(n, name, h)'
    BY <2>2
  <2> QED
    BY <1>3, <2>1, <2>3
<1> HIDE DEF g
<1>10. Inherited(n, name)' = Inherited(n, name)
  BY <1>7, <1>8, <1>9
<1> QED
  BY <1>1, <1>2, <1>10 DEF Meanings

(* The tables of the modules stay where they hang.                         *)
LEMMA TopsStay ==
    ASSUME TableInvs, TopsInv, Walking, prog' = prog, m' = m,
           \A t \in DOMAIN tables : t[2] # at \/ t[1] # m =>
                tables'[t].parent = tables[t].parent
    PROVE  TopsInv'
<1>1. PlaceInv /\ StoreInv
  BY TableInvsAre
<1>2. m \in Nat \ {0} /\ DOMAIN prog = 1..Len(prog) /\ Len(prog) \in Nat
  BY <1>1, PlaceIs, ModulesAre
<1>3. ASSUME NEW n \in DOMAIN prog, n < m, Kind(n, <<>>) = "module"
      PROVE  tables'[ModuleTable(n)].parent = FileTable(n)
  <2>1. tables[ModuleTable(n)].parent = FileTable(n) /\ ModuleTable(n) \in DOMAIN tables
    BY <1>1, <1>3 DEF TopsInv, StoreInv
  <2>2. ModuleTable(n)[1] = n
    BY <1>3 DEF ModuleTable, TableOf
  <2>3. n # m
    BY <1>2, <1>3
  <2> QED
    BY <2>1, <2>2, <2>3
<1>4. \A n : /\ ModuleTable(n)' = ModuleTable(n) /\ FileTable(n)' = FileTable(n)
             /\ Kind(n, <<>>)' = Kind(n, <<>>)
  BY TreesKeep
<1> QED
  BY <1>3, <1>4 DEF TopsInv

LEMMA TopsInductive ==
    ASSUME TableInvs, TopsInv, [SNext]_svars
    PROVE  TopsInv'
<1>1. PlaceInv /\ StoreInv /\ HungInv
  BY TableInvsAre
<1>2. m \in Nat \ {0} /\ prog \in Programs /\ m \in DOMAIN prog
      /\ DOMAIN prog = 1..Len(prog) /\ Len(prog) \in Nat /\ Here.k = Kind(m, at)
  BY <1>1, PlaceIs, ModulesAre
<1>3. CASE Makes
  <2>1. /\ Walking /\ prog' = prog /\ m' = m
        /\ \A t \in DOMAIN tables : t # Where => tables'[t].parent = tables[t].parent
    BY <1>3 DEF Makes, GoesDown, Grown
  <2>2. ASSUME NEW t \in DOMAIN tables, t[2] # at \/ t[1] # m
        PROVE  tables'[t].parent = tables[t].parent
    <3>1. Where[1] = m /\ Where[2] = at
      BY DEF Where
    <3> QED
      BY <2>1, <2>2, <3>1
  <2> QED
    BY <2>1, <2>2, TopsStay
<1>4. CASE Passes \/ Sets
  <2>1. /\ Walking /\ prog' = prog /\ m' = m
        /\ \A t \in DOMAIN tables : tables'[t].parent = tables[t].parent
    BY <1>4 DEF Passes, Sets, GoesDown, Alike
  <2> QED
    BY <2>1, TopsStay
<1>5. CASE PassesBy
  <2>1. PICK what : GiveUp(what)
    BY <1>5 DEF PassesBy, GivesUp
  <2>2. /\ Walking /\ prog' = prog /\ tables' = tables /\ GoOn(errors', cur)
        /\ Kind(m, at) = "for"
    BY <1>2, <1>5, <2>1 DEF PassesBy, GivesUp, GiveUp, Walking
  <2>3. at # <<>>
    BY <1>2, <2>2, SourceTree
  <2>4. m' = m
    BY <2>2, <2>3 DEF GoOn
  <2> QED
    BY <2>2, <2>4, TopsStay
<1>6. CASE Moves
  <2>1. Walking /\ prog' = prog /\ tables' = tables /\ GoOn(errors', Restored)
    BY <1>6 DEF Moves, Leaves
  <2>2. CASE at # <<>>
    <3>1. m' = m
      BY <2>1, <2>2 DEF GoOn
    <3> QED
      BY <2>1, <3>1, TopsStay
  <2>3. CASE at = <<>>
    <3>1. FinishWalk(errors')
      BY <2>1, <2>3 DEF GoOn
    <3>2. CASE m' = m
      BY <2>1, <3>2, TopsStay
    <3>3. CASE m' # m /\ Walking'
      <4>1. m' = m + 1 /\ stage = "check"
        BY <2>1, <3>1, <3>3 DEF FinishWalk, Restart, Walking
      <4>2. ASSUME NEW n \in DOMAIN prog, n < m + 1, Kind(n, <<>>) = "module"
            PROVE  tables[ModuleTable(n)].parent = FileTable(n)
        <5>1. CASE n < m
          BY <2>1, <4>2, <5>1 DEF TopsInv
        <5>2. CASE n = m
          <6>1. Entered(<<>>) /\ Kind(n, <<>>) \in Own /\ <<>> \in Paths(n)
            BY <1>2, <4>1, <4>2, SourceTree DEF Entered, Own
          <6>2. tables[<<m, <<>>>>].parent = Outer(m, <<>>)
            BY <1>1, <2>1, <5>2, <6>1 DEF HungInv
          <6>3. ModuleTable(n) = <<n, <<>>>>
            BY <4>2 DEF ModuleTable, TableOf
          <6> QED
            BY <5>2, <6>2, <6>3, NothingAboveRoot
        <5> QED
          BY <1>2, <4>2, <5>1, <5>2
      <4>3. \A n : /\ ModuleTable(n)' = ModuleTable(n) /\ FileTable(n)' = FileTable(n)
                   /\ Kind(n, <<>>)' = Kind(n, <<>>)
        BY <2>1, TreesKeep
      <4> QED
        BY <2>1, <4>1, <4>2, <4>3 DEF TopsInv
    <3>4. CASE ~Walking'
      BY <3>4 DEF TopsInv
    <3> QED
      BY <3>2, <3>3, <3>4
  <2> QED
    BY <2>2, <2>3
<1>7. CASE Stands
  <2>1. ~Walking'
    BY <1>7 DEF Stands, Halts, Walking
  <2> QED
    BY <2>1 DEF TopsInv
<1>8. CASE UNCHANGED svars
  <2>1. prog' = prog /\ m' = m /\ tables' = tables /\ stage' = stage
    BY <1>8 DEF svars
  <2>2. CASE Walking
    BY <2>1, <2>2, TopsStay
  <2>3. CASE ~Walking
    <3>1. ~Walking'
      BY <2>1, <2>3 DEF Walking
    <3> QED
      BY <3>1 DEF TopsInv
  <2> QED
    BY <2>2, <2>3
<1> QED
  BY <1>3, <1>4, <1>5, <1>6, <1>7, <1>8, TablesMove

(* All that was found so far is right.                                     *)
FoundInv ==
    \A w \in DOMAIN found :
        Kind(w[1], w[2]) # "return" =>
            FindsRight(w[1], w[2], Mentions(w[1], w[2]), found[w])

LEMMA RightKeeps ==
    ASSUME prog' = prog, NEW n, NEW p, NEW name, NEW record
    PROVE  FindsRight(n, p, name, record)' <=> FindsRight(n, p, name, record)
<1>1. Meanings(n, p, name)' = Meanings(n, p, name)
  BY MeaningsKeep
<1>2. AtTop(<<n, p>>)' <=> AtTop(<<n, p>>)
  <2> DEFINE w == <<n, p>>
  <2>1. w[1] = n /\ w[2] = p
    OBVIOUS
  <2>2. /\ Kind(n, <<>>)' = Kind(n, <<>>)
        /\ ScopesAround(n, Above(p))' = ScopesAround(n, Above(p))
    BY SourceKeeps
  <2> HIDE DEF w
  <2>3. AtTop(w)' <=> AtTop(w)
    BY <2>1, <2>2 DEF AtTop
  <2> QED
    BY <2>3 DEF w
<1> QED
  BY <1>1, <1>2 DEF FindsRight

LEMMA RightStays ==
    ASSUME prog' = prog, NEW w
    PROVE  FindsRight(w[1], w[2], Mentions(w[1], w[2]), found[w])'
           <=> FindsRight(w[1], w[2], Mentions(w[1], w[2]), found'[w])
<1>1. PICK n, p, name, record :
        n = w[1] /\ p = w[2] /\ name = Mentions(n, p) /\ record = found'[w]
  OBVIOUS
<1>2. Mentions(w[1], w[2])' = name
  BY <1>1, SourceKeeps
<1>3. FindsRight(n, p, name, record)' <=> FindsRight(n, p, name, record)
  BY RightKeeps
<1>4. FindsRight(w[1], w[2], Mentions(w[1], w[2]), found[w])'
      <=> FindsRight(n, p, name, record)'
  BY <1>1, <1>2
<1> QED
  BY <1>1, <1>3, <1>4

(* Only a name or a return statement finds something.                      *)
LEMMA FindsOrNot ==
    ASSUME TableInvs, [SNext]_svars
    PROVE  /\ prog' = prog
           /\ \/ found' = found
              \/ CheckUse
              \/ Here.k = "return" /\ \E what : found' = Extended(found, Where, what)
<1>1. \/ Makes \/ Passes \/ Sets \/ PassesBy \/ Moves \/ Stands
      \/ UNCHANGED svars
  BY TablesMove
<1>2. CASE Makes \/ Passes \/ Sets
  BY <1>2 DEF Makes, Passes, Sets, GoesDown
<1>3. CASE PassesBy
  BY <1>3 DEF PassesBy, GivesUp, GiveUp
<1>4. CASE Moves
  <2>1. prog' = prog /\ dir = "up" /\ Walking
    BY <1>4 DEF Moves, Leaves
  <2>2. CASE found' = found
    BY <2>1, <2>2
  <2>3. CASE found' # found
    <3>1. ~(DeclareScope \/ DeclareModule \/ DeclareFunction \/ DeclareDescription
            \/ DeclareVariable \/ DeclareType \/ DeclareOther)
      BY <2>1 DEF DeclareScope, DeclareModule, DeclareFunction, DeclareDescription,
                  DeclareVariable, DeclareType, DeclareOther, Declaring
    <3>2. ~(CheckScope \/ CheckOther \/ CheckMatch \/ CheckFor)
      BY <2>1 DEF CheckScope, CheckOther, CheckMatch, CheckFor, Checking
    <3>3. ~LeaveDeclared /\ ~LeaveOther /\ ~Done /\ ~UNCHANGED svars
      BY <2>3 DEF LeaveDeclared, LeaveOther, Done, svars
    <3>4. CheckUse \/ CheckReturn
      BY <3>1, <3>2, <3>3 DEF SNext
    <3>5. CheckReturn =>
            Here.k = "return" /\ \E what : found' = Extended(found, Where, what)
      BY DEF CheckReturn, LeaveChecked, Finding
    <3> QED
      BY <2>1, <3>4, <3>5
  <2> QED
    BY <2>2, <2>3
<1>5. CASE Stands
  BY <1>5 DEF Stands, Halts
<1>6. CASE UNCHANGED svars
  BY <1>6 DEF svars
<1> QED
  BY <1>1, <1>2, <1>3, <1>4, <1>5, <1>6

LEMMA UseFindsRight ==
    ASSUME TableInvs, NamesIInv, TopsInv, CheckUse
    PROVE  /\ found' = Extended(found, Where, Lookup(tables, cur, Mentioned))
           /\ FindsRight(m, at, Mentioned, Lookup(tables, cur, Mentioned))
<1>1. PICK record : /\ record = Lookup(tables, cur, Mentioned)
                    /\ stage = "check" /\ dir = "up"
                    /\ Here.k \in {"use", "iter", "leaf", "xid"} /\ Finding(record)
  BY DEF CheckUse, LeaveChecked
<1>2. found' = Extended(found, Where, Lookup(tables, cur, Mentioned))
  BY <1>1 DEF Finding
<1>3. PlaceInv
  BY TableInvsAre
<1>4. m \in DOMAIN prog /\ Here.k = Kind(m, at) /\ prog \in Programs /\ at \in Paths(m)
  BY <1>3, PlaceIs
<1>5. at # <<>> /\ ~IsScope(m, at)
  BY <1>1, <1>4, NodeHere DEF IsScope, OpensScope
<1>6. Reading
  BY <1>1 DEF Reading
<1>7. PICK n \in DOMAIN prog : n = m
  BY <1>4
<1>8. PICK p : p = at
  OBVIOUS
<1>9. PICK name : name = Mentioned
  OBVIOUS
<1>10. FindsRight(n, p, name, Lookup(tables, cur, name))
  BY <1>5, <1>6, <1>7, <1>8, LookupFinds
<1> QED
  BY <1>2, <1>7, <1>8, <1>9, <1>10

LEMMA FoundInductive ==
    ASSUME TableInvs, NamesIInv, TopsInv, FoundInv, [SNext]_svars
    PROVE  FoundInv'
<1>1. prog' = prog
  BY FindsOrNot
<1>2. PlaceInv
  BY TableInvsAre
<1>3. Here.k = Kind(m, at)
  BY <1>2, PlaceIs
<1>4. SUFFICES ASSUME NEW w \in DOMAIN found', Kind(w[1], w[2]) # "return"
               PROVE  FindsRight(w[1], w[2], Mentions(w[1], w[2]), found'[w])
  <2>1. \A n, p : Kind(n, p)' = Kind(n, p)
    BY <1>1, SourceKeeps
  <2>2. \A w : FindsRight(w[1], w[2], Mentions(w[1], w[2]), found[w])'
               <=> FindsRight(w[1], w[2], Mentions(w[1], w[2]), found'[w])
    BY <1>1, RightStays
  <2> QED
    BY <2>1, <2>2 DEF FoundInv
<1>5. CASE found' = found
  BY <1>4, <1>5 DEF FoundInv
<1>6. CASE CheckUse
  <2> DEFINE record == Lookup(tables, cur, Mentioned)
  <2>1. found' = Extended(found, Where, record) /\ FindsRight(m, at, Mentioned, record)
    BY <1>6, UseFindsRight
  <2> HIDE DEF record
  <2>2. /\ DOMAIN found' = DOMAIN found \cup {Where}
        /\ found'[Where] = record
        /\ \A x \in DOMAIN found : x # Where => found'[x] = found[x]
    BY <2>1 DEF Extended
  <2>3. CASE w = Where
    <3>1. w[1] = m /\ w[2] = at
      BY <2>3 DEF Where
    <3>2. Mentions(w[1], w[2]) = Mentioned
      BY <3>1 DEF Mentioned
    <3> QED
      BY <2>1, <2>2, <2>3, <3>1, <3>2
  <2>4. CASE w # Where
    BY <1>4, <2>2, <2>4 DEF FoundInv
  <2> QED
    BY <2>3, <2>4
<1>7. CASE Here.k = "return" /\ \E what : found' = Extended(found, Where, what)
  <2>1. PICK what : found' = Extended(found, Where, what)
    BY <1>7
  <2>2. /\ DOMAIN found' = DOMAIN found \cup {Where}
        /\ \A x \in DOMAIN found : x # Where => found'[x] = found[x]
    BY <2>1 DEF Extended
  <2>3. w # Where
    <3>1. Where[1] = m /\ Where[2] = at
      BY DEF Where
    <3> QED
      BY <1>3, <1>4, <1>7, <3>1
  <2> QED
    BY <1>4, <2>2, <2>3 DEF FoundInv
<1> QED
  BY <1>5, <1>6, <1>7, FindsOrNot

(* In a program of any number of modules, of trees of any depth, a name    *)
(* that the second walk looked up is bound to a declaration that it should *)
(* mean: that of the innermost scope around it with one, else what all of  *)
(* the file sees, else what the modules its module uses pass on, or to     *)
(* nothing where there is none (or at the top of a main module):           *)
(* symbol_table_lookup_record() goes up the parents that the first walk    *)
(* set, whatever the callbacks have made the current table since.          *)
THEOREM NamesMeanWhatTheyShould == SSpec => []UseFindsInnermost
<1> DEFINE I == TableInvs /\ NamesIInv /\ TopsInv /\ FoundInv
<1>1. SInit => I
  <2> SUFFICES ASSUME SInit PROVE I
    OBVIOUS
  <2>1. TableInvs /\ NamesIInv
    BY StartIsSound, StartHasTables, StartIsNamed DEF TableInvs
  <2>2. PlaceInv
    BY <2>1, TableInvsAre
  <2>3. m = 1 /\ DOMAIN found = {} /\ \A n \in DOMAIN prog : ~(n < m)
    <3>1. prog \in Programs /\ m = 1
      BY DEF SInit
    <3>2. DOMAIN prog = 1..Len(prog) /\ Len(prog) \in Nat
      BY <3>1, ModulesAre
    <3> QED
      BY <3>1, <3>2 DEF SInit
  <2> QED
    BY <2>1, <2>3 DEF TopsInv, FoundInv
<1>2. I /\ [SNext]_svars => I'
  <2> SUFFICES ASSUME TableInvs, NamesIInv, TopsInv, FoundInv, [SNext]_svars PROVE I'
    OBVIOUS
  <2>1. TableInvs'
    BY TablesInductive
  <2>2. NamesIInv'
    BY LedgerInductive, FreshInductive, AssertedInductive DEF NamesIInv
  <2>3. TopsInv' /\ FoundInv'
    BY TopsInductive, FoundInductive
  <2> QED
    BY <2>1, <2>2, <2>3
<1>3. I => UseFindsInnermost
  <2> SUFFICES ASSUME FoundInv PROVE UseFindsInnermost
    OBVIOUS
  <2>1. ASSUME NEW w \in Names
        PROVE  IF found[w] = NoRecord THEN MeaningsOf(w) = {} \/ AtTop(w)
               ELSE found[w].by \in MeaningsOf(w)
    <3>1. FindsRight(w[1], w[2], Mentions(w[1], w[2]), found[w])
      BY DEF FoundInv, Names
    <3> DEFINE v == <<w[1], w[2]>>
    <3>2. v[1] = w[1] /\ v[2] = w[2]
      OBVIOUS
    <3> HIDE DEF v
    <3>3. AtTop(v) <=> AtTop(w)
      BY <3>2 DEF AtTop
    <3> QED
      BY <3>1, <3>3 DEF FindsRight, MeaningsOf, v
  <2> QED
    BY <2>1 DEF UseFindsInnermost
<1> HIDE DEF I
<1> QED
  BY <1>1, <1>2, <1>3, PTL DEF SSpec

=============================================================================
