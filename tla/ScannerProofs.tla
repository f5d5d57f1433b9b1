--------------------------- MODULE ScannerProofs ---------------------------
(***************************************************************************)
(* What Scanner promises, for every text: each byte of an accepted file is *)
(* in one token or is white space or a comment; the tokens are in order,   *)
(* as long as they can be and at their lines; constants have the type of   *)
(* their digits; a scan that fails has a reason in the text.               *)
(*                                                                         *)
(* The text says by itself what each byte is part of (Inside, a run over   *)
(* the bytes).  The scan looks only from where it stands: the invariant is *)
(* that it never stands inside of a literal or a comment (InSync) unless   *)
(* the file ends in a comment.                                             *)
(***************************************************************************)
EXTENDS Scanner, FiniteSetTheorems, WellFoundedInduction, TLAPS

-----------------------------------------------------------------------------
(* Numbers.                                                                *)

(* A set of numbers has a least one: the sets 1..n are finite, and finite  *)
(* sets have no endless descent.                                           *)
LEMMA LeastNumber ==
    ASSUME NEW S \in SUBSET Nat, S # {}
    PROVE  \E n \in S : \A k \in S : n <= k
<1> DEFINE Segments == {1..n : n \in S}
<1>1. Segments \subseteq FiniteSubsetsOf(Nat)
  <2> SUFFICES ASSUME NEW n \in S PROVE 1..n \in FiniteSubsetsOf(Nat)
    OBVIOUS
  <2>1. IsFiniteSet(1..n)
    BY FS_Interval
  <2> QED
    BY <2>1 DEF FiniteSubsetsOf
<1>2. Segments # {}
  OBVIOUS
<1>3. PICK x \in Segments :
        \A y \in Segments : ~(<<y, x>> \in StrictSubsetOrdering(Nat))
  BY <1>1, <1>2, FS_StrictSubsetOrderingWellFounded, WFMin
<1>4. PICK n \in S : x = 1..n
  OBVIOUS
<1>5. ASSUME NEW k \in S, ~(n <= k) PROVE FALSE
  <2>1. k < n /\ k \in Nat /\ n \in Nat
    BY <1>5
  <2>2. 1..k \subseteq 1..n /\ n \in 1..n /\ n \notin 1..k
    BY <2>1
  <2>3. <<1..k, x>> \in StrictSubsetOrdering(Nat)
    BY <2>2, <1>4, <2>1 DEF StrictSubsetOrdering
  <2> QED
    BY <2>3, <1>3
<1> QED
  BY <1>4, <1>5

LEMMA LeastIs ==
    ASSUME NEW S \in SUBSET Nat, S # {}
    PROVE  Min(S) \in S /\ \A k \in S : Min(S) <= k
<1>1. \E n \in S : \A k \in S : n <= k
  BY LeastNumber
<1> QED
  BY <1>1 DEF Min

(* What holds at the first of some numbers, and goes on, holds at all.     *)
LEMMA AllBetween ==
    ASSUME NEW a \in Nat, NEW b \in Nat, NEW S, a \in S,
           \A k \in a..b - 1 : k \in S => k + 1 \in S
    PROVE  a..b \subseteq S
<1> DEFINE Missing == {k \in a..b : k \notin S}
<1> SUFFICES ASSUME Missing # {} PROVE FALSE
  OBVIOUS
<1>0. Missing \in SUBSET Nat
  OBVIOUS
<1>1. \E n \in Missing : \A k \in Missing : n <= k
  <2> HIDE DEF Missing
  <2> QED
    BY <1>0, LeastNumber
<1> PICK n \in Missing : \A k \in Missing : n <= k
  BY <1>1
<1>2. n # a /\ n - 1 \in a..b - 1 /\ n - 1 \notin Missing
  OBVIOUS
<1> QED
  BY <1>2

LEMMA SomeNumberIs ==
    ASSUME NEW S \in SUBSET Nat, 0 \in S, \A n \in S : n + 1 \in S
    PROVE  S = Nat
<1> SUFFICES ASSUME Nat \ S # {} PROVE FALSE
  OBVIOUS
<1>1. PICK n \in Nat \ S : \A m \in Nat \ S : n <= m
  BY LeastNumber
<1>2. n # 0 /\ n - 1 \in Nat /\ n - 1 \in S
  BY <1>1
<1> QED
  BY <1>1, <1>2

-----------------------------------------------------------------------------
(* The bytes of a text.                                                    *)

Text == file \in Sources

LEMMA LimIsNumber == ASSUME Text PROVE Lim \in Nat
BY TextsAreFinite DEF Text, Lim

(* Up to where none of some places is.                                     *)
LEMMA BeforeIs ==
    ASSUME Text, NEW i \in 1..Lim + 1, NEW stops \in SUBSET (i..Lim)
    PROVE  /\ Before(stops) \in i - 1..Lim
           /\ \A k \in i..Before(stops) : k \notin stops
           /\ Before(stops) < Lim => Before(stops) + 1 \in stops
<1>1. Lim \in Nat
  BY LimIsNumber
<1>2. CASE stops = {}
  BY <1>1, <1>2 DEF Before
<1>3. CASE stops # {}
  <2>0. stops \in SUBSET Nat
    BY <1>1
  <2>1. PICK m \in stops : m = Min(stops) /\ \A k \in stops : m <= k
    BY <1>3, <2>0, LeastIs
  <2>2. Before(stops) = m - 1 /\ m \in i..Lim
    BY <1>3, <2>1 DEF Before
  <2>3. m - 1 \in i - 1..Lim /\ (m - 1) + 1 = m
    BY <1>1, <2>2
  <2>4. ASSUME NEW k \in i..(m - 1) PROVE k \notin stops
    BY <2>1, <2>2
  <2> QED
    BY <2>1, <2>2, <2>3, <2>4
<1> QED
  BY <1>2, <1>3

(* A run of bytes: all of it are of its kind, and it ends for a reason.    *)
LEMMA RunEndIs ==
    ASSUME Text, NEW i \in 1..Lim + 1, NEW bytes
    PROVE  /\ RunEnd(i, bytes) \in i - 1..Lim
           /\ \A k \in i..RunEnd(i, bytes) : Byte(k) \in bytes
           /\ RunEnd(i, bytes) < Lim => Byte(RunEnd(i, bytes) + 1) \notin bytes
<1> DEFINE stops == {k \in i..Lim : Byte(k) \notin bytes}
           end == Before(stops)
<1>1. /\ end \in i - 1..Lim
      /\ \A k \in i..end : k \notin stops
      /\ end < Lim => end + 1 \in stops
  BY BeforeIs
<1>2. RunEnd(i, bytes) = end
  BY DEF RunEnd
<1>3. Lim \in Nat
  BY LimIsNumber
<1>4. ASSUME NEW k \in i..end PROVE Byte(k) \in bytes
  <2>1. k \in i..Lim
    BY <1>1, <1>3
  <2> QED
    BY <1>1, <2>1
<1>5. end < Lim => Byte(end + 1) \notin bytes
  BY <1>1
<1> HIDE DEF end
<1> QED
  BY <1>1, <1>2, <1>4, <1>5

-----------------------------------------------------------------------------
(* What the bytes are part of.                                             *)

Places == {"code", "string", "escape", "close", "slash", "comment", "newline"}

LEMMA InsideSteps ==
    ASSUME Text
    PROVE  /\ Inside[0] = "code"
           /\ \A i \in 1..Lim : Inside[i] = GoesOn(Inside[i - 1], Byte(i))
<1>0. Lim \in Nat
  BY LimIsNumber
<1> DEFINE Runs(f, n) ==
              f = [i \in 0..n |-> IF i = 0 THEN "code" ELSE GoesOn(f[i - 1], Byte(i))]
           Reach == {n \in Nat : \E f : Runs(f, n)}
<1>1. 0 \in Reach
  <2> DEFINE g == [i \in 0..0 |-> "code"]
  <2>1. Runs(g, 0)
    OBVIOUS
  <2> QED
    BY <2>1
<1>2. ASSUME NEW n \in Reach PROVE n + 1 \in Reach
  <2>1. PICK f : Runs(f, n)
    BY <1>2
  <2> DEFINE g == [i \in 0..n + 1 |->
                     IF i = n + 1 THEN GoesOn(f[n], Byte(n + 1)) ELSE f[i]]
             h == [i \in 0..n + 1 |->
                     IF i = 0 THEN "code" ELSE GoesOn(g[i - 1], Byte(i))]
  <2>2. ASSUME NEW i \in 0..n + 1 PROVE g[i] = h[i]
    <3>1. CASE i = n + 1
      <4>1. i - 1 = n /\ i # 0 /\ n \in 0..n + 1 /\ n # n + 1
        BY <3>1
      <4> QED
        BY <3>1, <4>1
    <3>2. CASE i # n + 1 /\ i # 0
      <4>1. i \in 0..n /\ i - 1 \in 0..n + 1 /\ i - 1 # n + 1
        BY <3>2
      <4>2. f[i] = GoesOn(f[i - 1], Byte(i))
        BY <2>1, <3>2, <4>1
      <4> QED
        BY <3>2, <4>1, <4>2
    <3>3. CASE i = 0
      <4>1. f[i] = "code"
        BY <2>1, <3>3
      <4> QED
        BY <3>3, <4>1
    <3> QED
      BY <3>1, <3>2, <3>3
  <2>3. g = h
    BY <2>2
  <2>4. Runs(g, n + 1) /\ n + 1 \in Nat
    BY <2>3
  <2> HIDE DEF Runs, g
  <2> QED
    BY <2>4
<1>3. \E f : Runs(f, Lim)
  <2> HIDE DEF Runs
  <2>1. \A n \in Reach : n + 1 \in Reach
    BY <1>2
  <2>2. Reach = Nat
    <3> HIDE DEF Reach
    <3> QED
      BY <1>1, <2>1, SomeNumberIs DEF Reach
  <2> QED
    BY <1>0, <2>2
<1>4. Inside = CHOOSE f : Runs(f, Lim)
  BY DEF Inside
<1>5. Runs(Inside, Lim)
  BY <1>3, <1>4
<1> QED
  BY <1>0, <1>5

LEMMA PlacesAre ==
    ASSUME Text, NEW i \in 0..Lim
    PROVE  Inside[i] \in Places
<1>1. Lim \in Nat
  BY LimIsNumber
<1>2. CASE i = 0
  BY <1>2, InsideSteps DEF Places
<1>3. CASE i # 0
  <2>1. Inside[i] = GoesOn(Inside[i - 1], Byte(i))
    BY <1>1, <1>3, InsideSteps
  <2> QED
    BY <2>1 DEF GoesOn, Places
<1> QED
  BY <1>2, <1>3

-----------------------------------------------------------------------------
(* Where the scan may stand, and what the bytes behind it are.             *)

Between == {"code", "newline", "close"}
Quoted == {"string", "escape", "close"}
Marks == {Quote, "/"}

(* At s no literal and no comment goes on, and none has half begun.        *)
Calm(s) ==
    \/ Inside[s - 1] \in Between
    \/ Inside[s - 1] = "slash" /\ Byte(s) # "/"

(* A comment before the last byte may leave that byte, if it is a new line.*)
InSync(p) ==
    \/ p = Lim + 1
    \/ Calm(p)
    \/ p = Lim /\ Inside[p - 1] = "comment" /\ Byte(p) = "\n"

(* What is to be part of a token.                                          *)
IsTokenText(i) == i \notin InComment /\ (Inside[i] \in Quoted \/ Byte(i) \notin White)

LEMMA BytesDiffer ==
    /\ Quote \notin {"/", "\\", "\n", "-"} /\ "\n" \in White /\ "/" \notin White
    /\ White \cap Marks = {}
BY Zenon DEF Quote, White, Marks

(* A byte that opens nothing leaves the text as it was.                    *)
LEMMA PlainGoesOn ==
    ASSUME NEW before, before \in Between \cup {"slash"}, NEW c, c \notin Marks
    PROVE  GoesOn(before, c) = "code"
BY DEF GoesOn, Between, Marks

LEMMA CodeIsNoComment ==
    ASSUME Text, NEW i \in 1..Lim, Inside[i] \in Quoted \cup {"code"}
    PROVE  i \notin InComment
BY DEF InComment, Quoted

(* Bytes that open nothing, from a calm place on.                          *)
LEMMA PlainRun ==
    ASSUME Text, NEW s \in 1..Lim, NEW e \in s..Lim, Calm(s),
           \A k \in s..e : Byte(k) \notin Marks
    PROVE  \A k \in s..e : Inside[k] = "code" /\ k \notin InComment
<1>0. Lim \in Nat /\ s \in Nat /\ e \in Nat
  BY LimIsNumber
<1> DEFINE S == {k \in s..e : Inside[k] = "code"}
<1>1. s \in S
  <2>1. Inside[s] = GoesOn(Inside[s - 1], Byte(s))
    BY <1>0, InsideSteps
  <2>2. Inside[s - 1] \in Between \cup {"slash"}
    BY DEF Calm
  <2>3. s \in s..e
    BY <1>0
  <2> QED
    BY <2>1, <2>2, <2>3, PlainGoesOn
<1>2. ASSUME NEW k \in s..e - 1, k \in S PROVE k + 1 \in S
  <2>1. k + 1 \in s..e /\ k + 1 \in 1..Lim /\ (k + 1) - 1 = k
    BY <1>0
  <2>2. Inside[k + 1] = GoesOn(Inside[k], Byte(k + 1))
    BY <2>1, InsideSteps
  <2>3. Inside[k] = "code" /\ "code" \in Between
    BY <1>2 DEF Between
  <2> QED
    BY <2>1, <2>2, <2>3, PlainGoesOn
<1>3. s..e \subseteq S
  <2> HIDE DEF S
  <2> QED
    BY <1>0, <1>1, <1>2, AllBetween
<1>4. ASSUME NEW k \in s..e PROVE Inside[k] = "code" /\ k \notin InComment
  <2>1. Inside[k] = "code" /\ k \in 1..Lim
    BY <1>0, <1>3
  <2> QED
    BY <2>1, CodeIsNoComment
<1> QED
  BY <1>4

(* The text of a word or a number: all of it is to be part of a token, and *)
(* the scan may stand behind it.                                           *)
LEMMA PlainText ==
    ASSUME Text, NEW s \in 1..Lim, NEW e \in s..Lim, Calm(s),
           \A k \in s..e : Byte(k) \notin White \cup Marks
    PROVE  (\A k \in s..e : IsTokenText(k)) /\ InSync(e + 1)
<1>0. Lim \in Nat
  BY LimIsNumber
<1>1. \A k \in s..e : Inside[k] = "code" /\ k \notin InComment
  BY PlainRun
<1>2. e \in s..e /\ (e + 1) - 1 = e
  BY <1>0
<1>3. Inside[e] = "code"
  BY <1>1, <1>2
<1>4. InSync(e + 1)
  BY <1>2, <1>3 DEF InSync, Calm, Between
<1> QED
  BY <1>1, <1>4 DEF IsTokenText

(* The white space the scan moves over is no part of a token, and what is  *)
(* behind it begins in a calm place.                                       *)
LEMMA WhiteSpace ==
    ASSUME Text, pos \in 1..Lim + 1, InSync(pos)
    PROVE  /\ \A k \in pos..Start - 1 : ~IsTokenText(k)
           /\ Start <= Lim => Calm(Start)
<1>0. Lim \in Nat
  BY LimIsNumber
<1> DEFINE e == RunEnd(pos, White)
<1>1. /\ e \in pos - 1..Lim
      /\ \A k \in pos..e : Byte(k) \in White
      /\ e < Lim => Byte(e + 1) \notin White
  BY RunEndIs
<1>2. Start = e + 1
  BY DEF Start
<1> HIDE DEF e
<1>3. CASE e = pos - 1
  <2>1. Start = pos /\ pos..Start - 1 = {}
    BY <1>2, <1>3
  <2>2. ASSUME Start <= Lim PROVE Calm(Start)
    <3>1. Byte(pos) \notin White
      BY <1>0, <1>1, <1>2, <1>3, <2>2
    <3>2. "\n" \in White
      BY DEF White
    <3> QED
      BY <1>0, <2>1, <2>2, <3>1, <3>2 DEF InSync
  <2> QED
    BY <2>1, <2>2
<1>4. CASE e # pos - 1 /\ Calm(pos)
  <2>1. pos \in 1..Lim /\ e \in pos..Lim
    BY <1>0, <1>1, <1>4
  <2>2. \A k \in pos..e : Byte(k) \notin Marks
    BY <1>1, BytesDiffer
  <2>3. \A k \in pos..e : Inside[k] = "code" /\ k \notin InComment
    <3> PICK p : p = pos
      OBVIOUS
    <3>1. Calm(p) /\ p \in 1..Lim /\ e \in p..Lim /\ \A k \in p..e : Byte(k) \notin Marks
      BY <1>4, <2>1, <2>2
    <3>2. \A k \in p..e : Inside[k] = "code" /\ k \notin InComment
      BY <3>1, PlainRun
    <3> QED
      BY <3>2
  <2>4. \A k \in pos..e : ~IsTokenText(k)
    BY <1>1, <2>3 DEF IsTokenText, Quoted
  <2>5. Calm(e + 1)
    <3>1. e \in pos..e /\ (e + 1) - 1 = e
      BY <2>1
    <3> QED
      BY <2>3, <3>1 DEF Calm, Between
  <2> QED
    BY <1>0, <1>1, <1>2, <2>4, <2>5
<1>5. CASE e # pos - 1 /\ ~Calm(pos)
  <2>1. pos = Lim /\ Inside[pos - 1] = "comment" /\ Byte(pos) = "\n" /\ e = Lim
    BY <1>0, <1>1, <1>5 DEF InSync
  <2>2. Inside[Lim] = "newline"
    <3>1. Inside[Lim] = GoesOn(Inside[Lim - 1], Byte(Lim))
      BY <1>0, <2>1, InsideSteps
    <3> QED
      BY <2>1, <3>1 DEF GoesOn
  <2>3. Lim \in InComment
    BY <1>0, <2>1, <2>2 DEF InComment
  <2>4. pos..Start - 1 = {Lim} /\ ~(Start <= Lim)
    BY <1>0, <1>2, <2>1
  <2> QED
    BY <2>3, <2>4 DEF IsTokenText
<1> QED
  BY <1>3, <1>4, <1>5

(* The text of a symbol.                                                   *)
LEMMA SymbolText ==
    ASSUME Text, NEW s \in 1..Lim, NEW e \in s..Lim, Calm(s), e \in {s, s + 1},
           Byte(s) \notin White \cup {Quote},
           ~(Byte(s) = "/" /\ s < Lim /\ Byte(s + 1) = "/"),
           e = s + 1 => Byte(s + 1) \notin White \cup Marks
    PROVE  (\A k \in s..e : IsTokenText(k)) /\ InSync(e + 1)
<1>0. Lim \in Nat
  BY LimIsNumber
<1>1. CASE Byte(s) # "/"
  <2>1. ASSUME NEW k \in s..e PROVE Byte(k) \notin White \cup Marks
    <3>1. k = s \/ (k = s + 1 /\ e = s + 1)
      BY <1>0
    <3> QED
      BY <1>1, <3>1 DEF Marks
  <2> QED
    BY <2>1, PlainText
<1>2. CASE Byte(s) = "/"
  <2>1. Inside[s] = "slash"
    <3>1. Inside[s] = GoesOn(Inside[s - 1], Byte(s))
      BY <1>0, InsideSteps
    <3> QED
      BY <1>2, <3>1 DEF Calm, Between, GoesOn
  <2>2. ASSUME s < Lim PROVE Inside[s + 1] # "comment" /\ Byte(s + 1) # "/"
    <3>1. s + 1 \in 1..Lim /\ (s + 1) - 1 = s
      BY <1>0, <2>2
    <3>2. Inside[s + 1] = GoesOn(Inside[s], Byte(s + 1))
      BY <3>1, InsideSteps
    <3> QED
      BY <1>2, <2>1, <2>2, <3>2 DEF GoesOn
  <2>3. IsTokenText(s)
    BY <2>1, <2>2 DEF IsTokenText, InComment
  <2>4. CASE e = s
    <3>1. InSync(e + 1)
      BY <1>0, <2>1, <2>2, <2>4 DEF InSync, Calm
    <3> QED
      BY <2>3, <2>4, <3>1
  <2>5. CASE e = s + 1
    <3>1. e \in 1..Lim /\ e - 1 = s /\ Calm(e)
      BY <1>0, <2>1, <2>2, <2>5 DEF Calm
    <3>2. \A k \in e..e : Byte(k) \notin White \cup Marks
      BY <1>0, <2>5
    <3>3. IsTokenText(e) /\ InSync(e + 1)
      BY <1>0, <3>1, <3>2, PlainText
    <3> QED
      BY <1>0, <2>3, <2>5, <3>3
  <2> QED
    BY <2>4, <2>5
<1> QED
  BY <1>1, <1>2

(* A string literal goes on until a quote closes it.                       *)
LEMMA StringRun ==
    ASSUME Text, NEW s \in 1..Lim, NEW e \in s..Lim, Calm(s), Byte(s) = Quote,
           \A k \in s + 1..e : k \notin Closing(s)
    PROVE  \A k \in s..e : /\ Inside[k] \in {"string", "escape"}
                           /\ Inside[k] = "escape" <=> Byte(k) = "\\"
<1>0. Lim \in Nat /\ s \in Nat /\ e \in Nat
  BY LimIsNumber
<1> DEFINE S == {k \in s..e : /\ Inside[k] \in {"string", "escape"}
                              /\ Inside[k] = "escape" <=> Byte(k) = "\\"}
<1>1. s \in S
  <2>1. Inside[s] = GoesOn(Inside[s - 1], Byte(s))
    BY <1>0, InsideSteps
  <2>2. Inside[s] = "string" /\ s \in s..e
    BY <1>0, <2>1, BytesDiffer DEF Calm, Between, GoesOn
  <2> QED
    BY <2>2, BytesDiffer
<1>2. ASSUME NEW k \in s..e - 1, k \in S PROVE k + 1 \in S
  <2>1. k + 1 \in s..e /\ k + 1 \in 1..Lim /\ (k + 1) - 1 = k /\ k + 1 \in s + 1..e
    BY <1>0
  <2>2. Inside[k + 1] = GoesOn(Inside[k], Byte(k + 1))
    BY <2>1, InsideSteps
  <2>3. Inside[k] \in {"string", "escape"} /\ (Inside[k] = "escape" <=> Byte(k) = "\\")
    BY <1>2
  <2>4. ~(Byte(k + 1) = Quote /\ Byte(k) # "\\")
    <3>1. k + 1 \notin Closing(s) /\ k + 1 \in s + 1..Lim
      BY <1>0, <2>1
    <3> QED
      BY <2>1, <3>1 DEF Closing
  <2>5. /\ Inside[k + 1] \in {"string", "escape"}
        /\ Inside[k + 1] = "escape" <=> Byte(k + 1) = "\\"
    BY <2>2, <2>3, <2>4 DEF GoesOn
  <2> QED
    BY <2>1, <2>5
<1>3. s..e \subseteq S
  <2> HIDE DEF S
  <2> QED
    BY <1>0, <1>1, <1>2, AllBetween
<1> QED
  BY <1>3

(* The text of a string literal.                                           *)
LEMMA StringText ==
    ASSUME Text, NEW s \in 1..Lim, Calm(s), Byte(s) = Quote, Closing(s) # {}
    PROVE  /\ Min(Closing(s)) \in s + 1..Lim
           /\ \A k \in s..Min(Closing(s)) : IsTokenText(k)
           /\ InSync(Min(Closing(s)) + 1)
<1>0. Lim \in Nat
  BY LimIsNumber
<1>1. Closing(s) \in SUBSET (s + 1..Lim)
  BY DEF Closing
<1>2. Closing(s) \in SUBSET Nat
  BY <1>0, <1>1
<1> PICK m \in Closing(s) : m = Min(Closing(s)) /\ \A k \in Closing(s) : m <= k
  BY <1>2, LeastIs
<1>3. m \in s + 1..Lim /\ m - 1 \in s..Lim /\ m \in 1..Lim
  BY <1>0, <1>1
<1>4. Byte(m) = Quote /\ Byte(m - 1) # "\\"
  BY DEF Closing
<1>5. \A k \in s + 1..m - 1 : k \notin Closing(s)
  BY <1>0, <1>3
<1>6. \A k \in s..m - 1 : /\ Inside[k] \in {"string", "escape"}
                          /\ Inside[k] = "escape" <=> Byte(k) = "\\"
  BY <1>3, <1>5, StringRun
<1>7. Inside[m] = "close"
  <2>1. Inside[m] = GoesOn(Inside[m - 1], Byte(m))
    BY <1>3, InsideSteps
  <2>2. Inside[m - 1] = "string"
    <3>1. m - 1 \in s..m - 1
      BY <1>0, <1>3
    <3> QED
      BY <1>4, <1>6, <3>1
  <2> QED
    BY <1>4, <2>1, <2>2, BytesDiffer DEF GoesOn
<1>8. ASSUME NEW k \in s..m PROVE IsTokenText(k)
  <2>1. k \in 1..Lim /\ (k = m \/ k \in s..m - 1)
    BY <1>0, <1>3
  <2>2. Inside[k] \in Quoted
    BY <1>6, <1>7, <2>1 DEF Quoted
  <2> QED
    BY <2>1, <2>2, CodeIsNoComment DEF IsTokenText
<1>9. InSync(m + 1)
  <2>1. (m + 1) - 1 = m
    BY <1>0, <1>3
  <2> QED
    BY <1>7, <2>1 DEF InSync, Calm, Between
<1> QED
  BY <1>3, <1>8, <1>9

(* A literal that nothing closes goes on to the end of the file.           *)
LEMMA OpenStringText ==
    ASSUME Text, NEW s \in 1..Lim, Calm(s), Byte(s) = Quote, Closing(s) = {}
    PROVE  Inside[Lim] \in {"string", "escape"}
<1>0. Lim \in Nat /\ Lim \in s..Lim
  BY LimIsNumber
<1>1. \A k \in s..Lim : /\ Inside[k] \in {"string", "escape"}
                        /\ Inside[k] = "escape" <=> Byte(k) = "\\"
  BY <1>0, StringRun
<1> QED
  BY <1>0, <1>1

(* A comment goes on until a new line ends it.                             *)
LEMMA CommentRun ==
    ASSUME Text, NEW s \in 1..Lim, NEW e \in s + 1..Lim, Calm(s),
           Byte(s) = "/", Byte(s + 1) = "/",
           \A k \in s + 2..e : Byte(k) # "\n"
    PROVE  Inside[s] = "slash" /\ \A k \in s + 1..e : Inside[k] = "comment"
<1>0. Lim \in Nat /\ s + 1 \in Nat /\ e \in Nat
  BY LimIsNumber
<1>1. Inside[s] = "slash"
  <2>1. Inside[s] = GoesOn(Inside[s - 1], Byte(s))
    BY <1>0, InsideSteps
  <2> QED
    BY <2>1, BytesDiffer DEF Calm, Between, GoesOn
<1> DEFINE S == {k \in s + 1..e : Inside[k] = "comment"}
<1>2. s + 1 \in S
  <2>1. s + 1 \in 1..Lim /\ (s + 1) - 1 = s /\ s + 1 \in s + 1..e
    BY <1>0
  <2>2. Inside[s + 1] = GoesOn(Inside[s], Byte(s + 1))
    BY <2>1, InsideSteps
  <2> QED
    BY <1>1, <2>1, <2>2, BytesDiffer DEF GoesOn
<1>3. ASSUME NEW k \in s + 1..e - 1, k \in S PROVE k + 1 \in S
  <2>1. k + 1 \in s + 2..e /\ k + 1 \in s + 1..e /\ k + 1 \in 1..Lim /\ (k + 1) - 1 = k
    BY <1>0
  <2>2. Inside[k + 1] = GoesOn(Inside[k], Byte(k + 1))
    BY <2>1, InsideSteps
  <2>3. Inside[k] = "comment" /\ Byte(k + 1) # "\n"
    BY <1>3, <2>1
  <2> QED
    BY <2>1, <2>2, <2>3 DEF GoesOn
<1>4. s + 1..e \subseteq S
  <2> HIDE DEF S
  <2> QED
    BY <1>0, <1>2, <1>3, AllBetween
<1> QED
  BY <1>1, <1>4

(* Behind a comment there is text that was not scanned.                    *)
LEMMA CommentMovesOn ==
    ASSUME Text, NEW s \in 1..Lim, s < Lim
    PROVE  CommentEnd(s) \in s + 2..Lim + 1
<1>0. Lim \in Nat /\ s \in Nat
  BY LimIsNumber
<1> DEFINE ends == NewLines(s + 2, Lim - 1)
<1>1. ends \subseteq s + 2..Lim - 1 /\ ends \in SUBSET Nat
  BY <1>0 DEF NewLines
<1>2. CommentEnd(s) = IF ends # {} THEN Min(ends) + 1 ELSE Max({s + 2, Lim})
  BY DEF CommentEnd
<1> HIDE DEF ends
<1>3. CASE ends # {}
  <2> PICK m \in ends : m = Min(ends)
    BY <1>1, <1>3, LeastIs
  <2>1. m \in s + 2..Lim - 1 /\ CommentEnd(s) = m + 1
    BY <1>1, <1>2, <1>3
  <2> QED
    BY <1>0, <2>1
<1>4. CASE ends = {}
  <2>1. Max({s + 2, Lim}) \in {s + 2, Lim} /\ Max({s + 2, Lim}) >= s + 2
    BY <1>0 DEF Max
  <2> QED
    BY <1>0, <1>2, <1>4, <2>1
<1> QED
  BY <1>3, <1>4

(* The text of a comment is no token's, and the scan may stand behind it   *)
(* unless it ends the file.                                                *)
LEMMA CommentText ==
    ASSUME Text, NEW s \in 1..Lim, Calm(s), s < Lim,
           Byte(s) = "/", Byte(s + 1) = "/"
    PROVE  /\ CommentEnd(s) \in s + 2..Lim + 1
           /\ \A k \in s..CommentEnd(s) - 1 : ~IsTokenText(k)
           /\ EndsInComment \/ InSync(CommentEnd(s))
<1>0. Lim \in Nat /\ s \in Nat
  BY LimIsNumber
<1> DEFINE ends == {k \in s + 2..Lim - 1 : Byte(k) = "\n"}
<1>1. s \in InComment /\ s + 1 \in 1..Lim /\ s + 1 \in s + 1..Lim
  <2>1. s + 1 \in s + 1..Lim /\ s + 1 \in s + 1..s + 1 /\ s + 2..s + 1 = {}
    BY <1>0
  <2>2. Inside[s] = "slash" /\ Inside[s + 1] = "comment"
    BY <2>1, CommentRun
  <2> QED
    BY <1>0, <2>1, <2>2 DEF InComment
<1>2. CASE ends # {}
  <2>0. ends \in SUBSET Nat
    BY <1>0
  <2> PICK m \in ends : m = Min(ends) /\ \A k \in ends : m <= k
    <3> HIDE DEF ends
    <3> QED
      BY <1>2, <2>0, LeastIs
  <2>1. m \in s + 2..Lim - 1 /\ Byte(m) = "\n" /\ m - 1 \in s + 1..Lim
    BY <1>0
  <2>2. CommentEnd(s) = m + 1
    BY <1>2 DEF CommentEnd, NewLines
  <2>3. ASSUME NEW k \in s + 2..m - 1 PROVE Byte(k) # "\n"
    <3>1. k \in s + 2..Lim - 1 /\ ~(m <= k)
      BY <1>0, <2>1
    <3> QED
      BY <3>1
  <2> HIDE DEF ends
  <2>4. Inside[s] = "slash" /\ \A k \in s + 1..m - 1 : Inside[k] = "comment"
    BY <2>1, <2>3, CommentRun
  <2>5. Inside[m] = "newline"
    <3>1. m \in 1..Lim /\ m - 1 \in s + 1..m - 1
      BY <1>0, <2>1
    <3>2. Inside[m] = GoesOn(Inside[m - 1], Byte(m))
      BY <3>1, InsideSteps
    <3> QED
      BY <2>1, <2>4, <3>1, <3>2 DEF GoesOn
  <2>6. ASSUME NEW k \in s..m PROVE ~IsTokenText(k)
    <3>1. k \in 1..Lim /\ (k = s \/ k \in s + 1..m - 1 \/ k = m)
      BY <1>0, <2>1
    <3>2. k \in InComment
      BY <1>1, <2>4, <2>5, <3>1 DEF InComment
    <3> QED
      BY <3>2 DEF IsTokenText
  <2>7. InSync(m + 1)
    <3>1. (m + 1) - 1 = m
      BY <1>0, <2>1
    <3> QED
      BY <2>5, <3>1 DEF InSync, Calm, Between
  <2>8. m + 1 \in s + 2..Lim + 1 /\ (m + 1) - 1 = m
    BY <1>0, <2>1
  <2> QED
    BY <2>2, <2>6, <2>7, <2>8
<1>3. CASE ends = {}
  <2>1. CommentEnd(s) = Max({s + 2, Lim})
    BY <1>3 DEF CommentEnd, NewLines
  <2>2. CASE s + 1 = Lim
    <3>1. CommentEnd(s) = s + 2
      BY <1>0, <2>1, <2>2 DEF Max
    <3>2. s + 2..s + 1 = {} /\ s + 1 \in s + 1..s + 1
      BY <1>0
    <3>3. Inside[s + 1] = "comment"
      BY <1>1, <3>2, CommentRun
    <3>4. \A k \in s..s + 1 : ~IsTokenText(k)
      <4>1. s + 1 \in InComment
        BY <1>1, <3>3 DEF InComment
      <4> QED
        BY <1>0, <1>1, <4>1 DEF IsTokenText
    <3>5. s + 2 \in s + 2..Lim + 1 /\ (s + 2) - 1 = s + 1
      BY <1>0, <2>2
    <3> QED
      BY <2>2, <3>1, <3>3, <3>4, <3>5 DEF EndsInComment
  <2>3. CASE s + 1 # Lim
    <3>1. CommentEnd(s) = Lim /\ Lim - 1 \in s + 1..Lim /\ Lim \in s + 2..Lim + 1
      BY <1>0, <2>1, <2>3 DEF Max
    <3>2. \A k \in s + 2..Lim - 1 : Byte(k) # "\n"
      BY <1>3
    <3>3. Inside[s] = "slash" /\ \A k \in s + 1..Lim - 1 : Inside[k] = "comment"
      BY <3>1, <3>2, CommentRun
    <3>4. ASSUME NEW k \in s..Lim - 1 PROVE ~IsTokenText(k)
      <4>1. k \in 1..Lim /\ (k = s \/ k \in s + 1..Lim - 1)
        BY <1>0, <3>1
      <4>2. k \in InComment
        BY <1>1, <3>3, <4>1 DEF InComment
      <4> QED
        BY <4>2 DEF IsTokenText
    <3>5. Inside[Lim - 1] = "comment" /\ Lim \in 1..Lim
      BY <1>0, <3>1, <3>3
    <3>6. Inside[Lim] = GoesOn(Inside[Lim - 1], Byte(Lim))
      BY <3>5, InsideSteps
    <3>7. EndsInComment \/ InSync(Lim)
      BY <3>5, <3>6 DEF GoesOn, EndsInComment, InSync
    <3> QED
      BY <3>1, <3>4, <3>7
  <2> QED
    BY <2>2, <2>3
<1> QED
  BY <1>2, <1>3

-----------------------------------------------------------------------------
(* Constants.                                                              *)

NumberBytes == HexDigits \cup {"x", ".", "E", "+", "-"}

LEMMA NumbersArePlain ==
    /\ NumberBytes \cap (White \cup Marks) = {}
    /\ InIdentifier \cap (White \cup Marks) = {} /\ Quote \notin InIdentifier
    /\ {"$", "%"} \cap (White \cup Marks) = {}
    /\ "-" \notin White \cup Marks
    /\ Letters \cap (Digits \cup {"$", "%"}) = {}
<1>1. NumberBytes \cap (White \cup Marks) = {}
  BY Zenon DEF NumberBytes, HexDigits, Digits, White, Marks, Quote
<1>2. InIdentifier \cap (White \cup Marks) = {} /\ Quote \notin InIdentifier
  BY ZenonT(40) DEF InIdentifier, Letters, Digits, White, Marks, Quote
<1>3. {"$", "%"} \cap (White \cup Marks) = {}
  BY Zenon DEF White, Marks, Quote
<1>4. "-" \notin White \cup Marks
  BY Zenon DEF White, Marks, Quote
<1>5. Letters \cap (Digits \cup {"$", "%"}) = {}
  BY ZenonT(40) DEF Letters, Digits
<1> QED
  BY <1>1, <1>2, <1>3, <1>4, <1>5

(* A run whose first byte is of its kind is not empty.                     *)
LEMMA RunTakes ==
    ASSUME Text, NEW i \in 1..Lim, NEW bytes, Byte(i) \in bytes
    PROVE  /\ RunEnd(i, bytes) \in i..Lim
           /\ \A k \in i..RunEnd(i, bytes) : Byte(k) \in bytes
<1>0. Lim \in Nat /\ i \in 1..Lim + 1
  BY LimIsNumber
<1>1. /\ RunEnd(i, bytes) \in i - 1..Lim
      /\ \A k \in i..RunEnd(i, bytes) : Byte(k) \in bytes
      /\ RunEnd(i, bytes) < Lim => Byte(RunEnd(i, bytes) + 1) \notin bytes
  BY <1>0, RunEndIs
<1>2. RunEnd(i, bytes) # i - 1
  BY <1>0, <1>1
<1> QED
  BY <1>0, <1>1, <1>2

LEMMA ExponentIs ==
    ASSUME Text, NEW j \in 1..Lim + 1
    PROVE  /\ Exponent(j) \in j - 1..Lim
           /\ \A k \in j..Exponent(j) : Byte(k) \in NumberBytes
<1>0. Lim \in Nat
  BY LimIsNumber
<1> DEFINE signed == IF j + 1 <= Lim /\ Byte(j + 1) \in {"+", "-"} THEN j + 2 ELSE j + 1
<1>1. CASE j <= Lim /\ Byte(j) \in {"e", "E"} /\ RunEnd(signed, Digits) >= signed
  <2>1. signed \in 1..Lim + 1 /\ signed \in {j + 1, j + 2}
    BY <1>0, <1>1
  <2>2. /\ RunEnd(signed, Digits) \in signed - 1..Lim
        /\ \A k \in signed..RunEnd(signed, Digits) : Byte(k) \in Digits
    <3> PICK q : q = signed
      OBVIOUS
    <3>1. q \in 1..Lim + 1
      BY <2>1
    <3>2. /\ RunEnd(q, Digits) \in q - 1..Lim
          /\ \A k \in q..RunEnd(q, Digits) : Byte(k) \in Digits
      BY <3>1, RunEndIs
    <3> QED
      BY <3>2
  <2>3. Exponent(j) = RunEnd(signed, Digits)
    BY <1>1 DEF Exponent
  <2>4. signed = j + 2 => Byte(j + 1) \in {"+", "-"}
    BY <1>0
  <2> HIDE DEF signed
  <2>5. ASSUME NEW k \in j..RunEnd(signed, Digits) PROVE Byte(k) \in NumberBytes
    <3>1. k = j \/ (k = j + 1 /\ signed = j + 2) \/ k \in signed..RunEnd(signed, Digits)
      BY <1>0, <2>1, <2>2
    <3> QED
      BY <1>1, <2>2, <2>4, <3>1 DEF NumberBytes, HexDigits
  <2> QED
    BY <1>0, <1>1, <2>1, <2>2, <2>3, <2>5
<1>2. CASE ~(j <= Lim /\ Byte(j) \in {"e", "E"} /\ RunEnd(signed, Digits) >= signed)
  <2>1. Exponent(j) = j - 1
    BY <1>2 DEF Exponent
  <2>2. j..j - 1 = {}
    BY <1>0
  <2> QED
    BY <1>0, <2>1, <2>2
<1> QED
  BY <1>1, <1>2

LEMMA RealIs ==
    ASSUME Text, NEW i \in 1..Lim, Byte(i) \in Digits, NEW last \in Real(i)
    PROVE  last \in i..Lim /\ \A k \in i..last : Byte(k) \in NumberBytes
<1>0. Lim \in Nat
  BY LimIsNumber
<1> DEFINE whole == RunEnd(i, Digits)
           mantissa == IF whole < Lim /\ Byte(whole + 1) = "."
                       THEN RunEnd(whole + 2, Digits) ELSE whole
<1>1. whole \in i..Lim /\ \A k \in i..whole : Byte(k) \in Digits
  BY RunTakes
<1>2. last = Exponent(mantissa + 1)
  BY DEF Real
<1> HIDE DEF whole
<1>3. mantissa \in whole..Lim /\ \A k \in i..mantissa : Byte(k) \in NumberBytes
  <2>1. Digits \subseteq NumberBytes /\ "." \in NumberBytes
    BY DEF NumberBytes, HexDigits
  <2>2. CASE whole < Lim /\ Byte(whole + 1) = "."
    <3>1. whole + 2 \in 1..Lim + 1
      BY <1>0, <1>1, <2>2
    <3>2. /\ RunEnd(whole + 2, Digits) \in (whole + 2) - 1..Lim
          /\ \A k \in whole + 2..RunEnd(whole + 2, Digits) : Byte(k) \in Digits
      BY <3>1, RunEndIs
    <3>3. mantissa = RunEnd(whole + 2, Digits)
      BY <2>2
    <3> HIDE DEF mantissa
    <3>4. ASSUME NEW k \in i..mantissa PROVE Byte(k) \in NumberBytes
      <4>1. k \in i..whole \/ k = whole + 1 \/ k \in whole + 2..mantissa
        BY <1>0, <1>1, <3>2, <3>3
      <4> QED
        BY <1>1, <2>1, <2>2, <3>2, <3>3, <4>1
    <3> QED
      BY <1>0, <1>1, <3>2, <3>3, <3>4
  <2>3. CASE ~(whole < Lim /\ Byte(whole + 1) = ".")
    BY <1>0, <1>1, <2>1, <2>3
  <2> QED
    BY <2>2, <2>3
<1> HIDE DEF mantissa
<1>4. mantissa + 1 \in 1..Lim + 1 /\ (mantissa + 1) - 1 = mantissa
  BY <1>0, <1>1, <1>3
<1>5. /\ last \in mantissa..Lim
      /\ \A k \in mantissa + 1..last : Byte(k) \in NumberBytes
  BY <1>2, <1>4, ExponentIs
<1>6. ASSUME NEW k \in i..last PROVE Byte(k) \in NumberBytes
  <2>1. k \in i..mantissa \/ k \in mantissa + 1..last
    BY <1>0, <1>1, <1>3, <1>5
  <2> QED
    BY <1>3, <1>5, <2>1
<1> QED
  BY <1>0, <1>1, <1>3, <1>5, <1>6

(* Bytes of a constant without a point.                                    *)
WholeBytes == NumberBytes \ {"."}

LEMMA PrefixedIs ==
    ASSUME Text, NEW i \in 1..Lim, i < Lim, Byte(i) \in Digits, Byte(i + 1) \in {"x", "b"},
           NEW digits \in SUBSET WholeBytes, NEW last \in AfterPrefix(i, digits)
    PROVE  \/ last = 0
           \/ last \in i..Lim /\ \A k \in i..last : Byte(k) \in WholeBytes
<1>0. Lim \in Nat /\ i + 2 \in 1..Lim + 1
  BY LimIsNumber
<1>1. /\ RunEnd(i + 2, digits) \in (i + 2) - 1..Lim
      /\ \A k \in i + 2..RunEnd(i + 2, digits) : Byte(k) \in digits
  BY <1>0, RunEndIs
<1>2. Digits \cup {"x", "b"} \subseteq WholeBytes
  BY DEF WholeBytes, NumberBytes, HexDigits, Digits
<1>3. last \in {0, i} \/ last = RunEnd(i + 2, digits)
  BY DEF AfterPrefix, Integer
<1>4. CASE last = i
  BY <1>0, <1>2, <1>4
<1>5. CASE last = RunEnd(i + 2, digits)
  <2>1. ASSUME NEW k \in i..last PROVE Byte(k) \in WholeBytes
    <3>1. k = i \/ k = i + 1 \/ k \in i + 2..last
      BY <1>0, <1>1, <1>5
    <3> QED
      BY <1>1, <1>2, <1>5, <3>1
  <2> QED
    BY <1>0, <1>1, <1>5, <2>1
<1> QED
  BY <1>3, <1>4, <1>5

(* What a constant takes of the text.                                      *)
LEMMA LiteralIs ==
    ASSUME Text, NEW i \in 1..Lim, Byte(i) \in Digits, NEW last \in Literal(i).ends
    PROVE  /\ \/ last = 0 /\ i < Lim /\ Byte(i) = "0" /\ Byte(i + 1) \in {"x", "b"}
              \/ last \in i..Lim /\ \A k \in i..last : Byte(k) \in NumberBytes
           /\ \/ /\ Literal(i).type = "integer"
                 /\ last # 0 => \A k \in i..last : Byte(k) # "."
              \/ Literal(i).type = "float" /\ IsFloat(i)
<1>0. Lim \in Nat
  BY LimIsNumber
<1>1. WholeBytes \subseteq NumberBytes /\ "." \notin WholeBytes
  BY DEF WholeBytes
<1> DEFINE Prefix(bytes) == Byte(i) = "0" /\ i < Lim /\ Byte(i + 1) \in bytes
<1>2. ASSUME NEW digits \in SUBSET WholeBytes, Prefix({"x", "b"}),
             Literal(i) = [type |-> "integer", ends |-> AfterPrefix(i, digits)]
      PROVE  /\ \/ last = 0 /\ i < Lim /\ Byte(i) = "0" /\ Byte(i + 1) \in {"x", "b"}
                \/ last \in i..Lim /\ \A k \in i..last : Byte(k) \in NumberBytes
             /\ Literal(i).type = "integer"
             /\ last # 0 => \A k \in i..last : Byte(k) # "."
  <2>1. last \in AfterPrefix(i, digits) /\ Literal(i).type = "integer"
    BY <1>2
  <2>2. \/ last = 0
        \/ last \in i..Lim /\ \A k \in i..last : Byte(k) \in WholeBytes
    BY <1>2, <2>1, PrefixedIs
  <2> QED
    BY <1>1, <1>2, <2>1, <2>2
<1>3. ASSUME NEW digits \in SUBSET WholeBytes, Byte(i) \in digits,
             Literal(i) = [type |-> "integer", ends |-> Integer(i, digits)]
      PROVE  /\ last \in i..Lim /\ \A k \in i..last : Byte(k) \in NumberBytes
             /\ Literal(i).type = "integer"
             /\ \A k \in i..last : Byte(k) # "."
  <2>1. last = RunEnd(i, digits) /\ Literal(i).type = "integer"
    BY <1>3 DEF Integer
  <2>2. last \in i..Lim /\ \A k \in i..last : Byte(k) \in digits
    BY <1>3, <2>1, RunTakes
  <2> QED
    BY <1>1, <2>1, <2>2
<1>4. /\ HexDigits \subseteq WholeBytes /\ {"0", "1"} \subseteq WholeBytes
      /\ Digits \subseteq WholeBytes /\ Digits \ {"8", "9"} \subseteq WholeBytes
      /\ "0" \in Digits \ {"8", "9"} /\ {"x", "b"} \cap Digits = {}
  BY DEF WholeBytes, NumberBytes, HexDigits, Digits
<1>5. CASE Prefix({"x"})
  <2>1. ~Prefix({"b"}) /\ ~Prefix(Digits)
    BY <1>4, <1>5
  <2>2. Literal(i) = [type |-> "integer", ends |-> AfterPrefix(i, HexDigits)]
    BY <1>5, <2>1 DEF Literal
  <2> QED
    BY <1>2, <1>4, <1>5, <2>2
<1>6. CASE Prefix({"b"})
  <2>1. ~Prefix({"x"}) /\ ~Prefix(Digits)
    BY <1>4, <1>6
  <2>2. Literal(i) = [type |-> "integer", ends |-> AfterPrefix(i, {"0", "1"})]
    BY <1>6, <2>1 DEF Literal
  <2> QED
    BY <1>2, <1>4, <1>6, <2>2
<1>7. CASE Prefix(Digits)
  <2>1. ~Prefix({"x"}) /\ ~Prefix({"b"})
    BY <1>4, <1>7
  <2>2. Literal(i) = [type |-> "integer", ends |-> Integer(i, Digits \ {"8", "9"})]
    BY <1>7, <2>1 DEF Literal
  <2> QED
    BY <1>3, <1>4, <1>7, <2>2
<1>8. CASE ~Prefix({"x"}) /\ ~Prefix({"b"}) /\ ~Prefix(Digits)
  <2>1. Literal(i) = IF IsFloat(i) THEN [type |-> "float", ends |-> Real(i)]
                     ELSE [type |-> "integer", ends |-> Integer(i, Digits)]
    BY <1>8 DEF Literal
  <2>2. CASE IsFloat(i)
    <3>1. Literal(i).type = "float" /\ last \in Real(i)
      BY <2>1, <2>2
    <3> QED
      BY <2>2, <3>1, RealIs
  <2>3. CASE ~IsFloat(i)
    BY <1>3, <1>4, <2>1, <2>3
  <2> QED
    BY <2>2, <2>3
<1> QED
  BY <1>5, <1>6, <1>7, <1>8

-----------------------------------------------------------------------------
(* Lexemes and lines.                                                      *)

LEMMA LexemeIs ==
    ASSUME Text, NEW i \in 1..Lim, NEW j \in 1..Lim, i < j, Bytes(i, j) \in Lexemes
    PROVE  \/ Byte(i) \in Letters /\ Byte(j) \in Letters
           \/ /\ j = i + 1 /\ Byte(i) \notin Letters \cup {"$", "%"}
              /\ Byte(j) \notin White \cup Marks
              /\ Bytes(i, i) \in Lexemes => Ambiguous(Byte(i))
BY LexemesByBytes DEF Text, Bytes, Byte, Lim, Lexemes, Ambiguous, Marks

LEMMA NewLinesAreFinite ==
    ASSUME NEW a \in Int, NEW b \in Int
    PROVE  IsFiniteSet(NewLines(a, b)) /\ Cardinality(NewLines(a, b)) \in Nat
<1>1. IsFiniteSet(a..b) /\ NewLines(a, b) \in SUBSET (a..b)
  BY FS_Interval DEF NewLines
<1>2. IsFiniteSet(NewLines(a, b))
  BY <1>1, FS_Subset
<1> QED
  BY <1>2, FS_CardinalityType

(* The lines before a place further down.                                  *)
LEMMA LinesGoOn ==
    ASSUME NEW a \in Nat, NEW b \in Nat, 1 <= a, a <= b
    PROVE  /\ LinesBefore(a) \in Nat
           /\ LinesBefore(b) = LinesBefore(a)
                + Cardinality(NewLines(a, b - 1))
<1> DEFINE A == NewLines(1, a - 1)
           B == NewLines(a, b - 1)
<1>1. LinesBefore(a) = Cardinality(A) /\ LinesBefore(b) = Cardinality(NewLines(1, b - 1))
  BY DEF LinesBefore
<1>2. NewLines(a, b - 1) = B
  OBVIOUS
<1>3. A \cup B = NewLines(1, b - 1) /\ A \cap B = {}
  BY DEF NewLines
<1>4. IsFiniteSet(A) /\ IsFiniteSet(B) /\ Cardinality(A) \in Nat /\ Cardinality(B) \in Nat
  BY NewLinesAreFinite
<1> HIDE DEF A, B
<1>5. Cardinality(A \cup B) = Cardinality(A) + Cardinality(B) - Cardinality(A \cap B)
  BY <1>4, FS_Union
<1>6. Cardinality(A \cap B) = 0
  BY <1>3, FS_EmptySet
<1>7. Cardinality(NewLines(1, b - 1)) = Cardinality(A) + Cardinality(B)
  <2>1. Cardinality(NewLines(1, b - 1)) = Cardinality(A \cup B)
    BY <1>3
  <2>2. Cardinality(A \cup B) = Cardinality(A) + Cardinality(B)
    BY <1>4, <1>5, <1>6
  <2> QED
    BY <2>1, <2>2
<1> QED
  BY <1>1, <1>2, <1>4, <1>7

(* The table of the lines finds the line of a byte: the lines that begin   *)
(* up to it are the first one and those behind a new line before it.       *)
LEMMA LineIsCounted ==
    ASSUME Text, NEW i \in 1..Lim
    PROVE  LineOf(i) = LinesBefore(i) /\ LineOf(i) \in Nat
<1>0. Lim \in Nat /\ i \in Nat
  BY LimIsNumber
<1> DEFINE A == NewLines(1, i - 1)
           Shifted == {k + 1 : k \in A}
           starts == {1} \cup {k + 1 : k \in NewLines(1, Lim)}
           begun == {s \in starts : s <= i}
           f == [k \in A |-> k + 1]
<1>1. LinesBefore(i) = Cardinality(A)
  BY DEF LinesBefore
<1>2. IsFiniteSet(A) /\ Cardinality(A) \in Nat
  BY <1>0, NewLinesAreFinite
<1>3. A \in SUBSET Nat
  BY <1>0 DEF NewLines
<1>4. begun = Shifted \cup {1}
  <2>1. ASSUME NEW s \in starts, s <= i PROVE s \in Shifted \cup {1}
    <3>1. CASE s # 1
      <4>1. PICK k \in 1..Lim : s = k + 1 /\ Byte(k) = "\n"
        BY <2>1, <3>1 DEF NewLines
      <4>2. k \in A
        BY <1>0, <2>1, <4>1 DEF NewLines
      <4> HIDE DEF A
      <4> QED
        BY <4>1, <4>2
    <3> QED
      BY <3>1
  <2>2. ASSUME NEW s \in Shifted \cup {1} PROVE s \in starts /\ s <= i
    <3>1. CASE s # 1
      <4>1. PICK k \in A : s = k + 1
        BY <2>2, <3>1
      <4>2. k \in 1..i - 1 /\ Byte(k) = "\n" /\ k \in 1..Lim
        BY <1>0, <4>1 DEF NewLines
      <4> QED
        BY <1>0, <4>1, <4>2 DEF NewLines
    <3>2. CASE s = 1
      BY <1>0, <3>2
    <3> QED
      BY <3>1, <3>2
  <2> HIDE DEF starts, Shifted
  <2> QED
    BY <2>1, <2>2
<1>5. LineOf(i) = Cardinality(begun) - 1
  BY DEF LineOf
<1> HIDE DEF starts, A, begun
<1>6. f \in Bijection(A, Shifted)
  <2>1. f \in [A -> Shifted] /\ \A x \in A : f[x] = x + 1
    OBVIOUS
  <2>2. \A t \in Shifted : \E x \in A : f[x] = t
    OBVIOUS
  <2>3. \A x, y \in A : f[x] = f[y] => x = y
    <3> SUFFICES ASSUME NEW x \in A, NEW y \in A, f[x] = f[y] PROVE x = y
      OBVIOUS
    <3>1. x \in Nat /\ y \in Nat /\ x + 1 = y + 1
      BY <1>3, <2>1
    <3> QED
      BY <3>1
  <2> HIDE DEF f, Shifted
  <2> QED
    BY <2>1, <2>2, <2>3 DEF Bijection, Injection, Surjection, IsInjective
<1>7. IsFiniteSet(Shifted) /\ Cardinality(Shifted) = Cardinality(A)
  <2>1. ExistsBijection(A, Shifted)
    BY <1>6 DEF ExistsBijection
  <2> HIDE DEF Shifted
  <2> QED
    BY <1>2, <2>1, FS_Bijection
<1>8. 1 \notin Shifted
  <2>1. ASSUME NEW k \in A PROVE k + 1 # 1
    <3>1. k \in 1..i - 1
      BY DEF A, NewLines
    <3> QED
      BY <1>0, <3>1
  <2> QED
    BY <2>1
<1> HIDE DEF Shifted
<1>9. Cardinality(Shifted \cup {1}) = Cardinality(Shifted) + 1
  BY <1>7, <1>8, FS_AddElement
<1> QED
  BY <1>1, <1>2, <1>4, <1>5, <1>7, <1>9

-----------------------------------------------------------------------------
(* The invariant.                                                          *)

(* Where the text ends that is tokens already.                             *)
Reached == IF at_eof THEN Lim + 1 ELSE pos

(* What is right of a token whatever the scan does next.                   *)
IsLongest(x) ==
    x.last < Lim /\ x.type \notin {"integer", "float", "string literal"}
    => /\ Bytes(x.first, x.last + 1) \notin Lexemes
       /\ IdentifierBegins(Byte(x.first)) => Byte(x.last + 1) \notin InIdentifier
IsReadRight(x) ==
    /\ x.type = "integer" => ~HasPoint(x)
    /\ x.type = "float" /\ Alone(x) => HasPoint(x)
TokenIsRight(x) ==
    /\ x \in TokensOfFile /\ x.first <= x.last
    /\ x.line = LinesBefore(x.first)
    /\ IsLongest(x) /\ IsReadRight(x)

TokensInv ==
    /\ tokens \in Seq(TokensOfFile)
    /\ \A t \in DOMAIN tokens :
        /\ TokenIsRight(tokens[t])
        /\ tokens[t].last < Reached
        /\ t > 1 => tokens[t - 1].last < tokens[t].first
PlaceInv ==
    /\ pos \in 1..Lim + 1 /\ at_eof \in BOOLEAN /\ stage \in {"scan", "done", "failed"}
    /\ lines = LinesBefore(pos)
    /\ stage = "done" => Reached = Lim + 1
    /\ stage # "failed" => messages = <<>>
(* Every byte the scan went past is in a token, or is not to be.           *)
CoverInv ==
    ~EndsInComment
    => \A i \in 1..Reached - 1 : i \in Covered <=> IsTokenText(i)
SyncInv == ~EndsInComment /\ stage = "scan" /\ ~at_eof => InSync(pos)
FailureInv == ScanFailureIsExplained
ScanIInv == Text /\ TokensInv /\ PlaceInv /\ CoverInv /\ SyncInv /\ FailureInv

(* The file is not changed, nor what depends on it.                        *)
LEMMA SameText ==
    ASSUME file' = file
    PROVE  /\ Lim' = Lim /\ Inside' = Inside /\ InComment' = InComment
           /\ Lexemes' = Lexemes /\ (EndsInComment' <=> EndsInComment)
           /\ \A k : Byte(k)' = Byte(k)
<1>1. Lim' = Lim
  BY DEF Lim
<1>2. \A k : Byte(k)' = Byte(k)
  BY DEF Byte, Bytes
<1>3. Inside' = Inside
  BY Zenon DEF Inside, Lim, Byte, Bytes
<1>4. Lexemes' = Lexemes
  BY DEF Lexemes
<1>5. InComment' = InComment
  BY <1>1, <1>3 DEF InComment
<1> QED
  BY <1>1, <1>2, <1>3, <1>4, <1>5 DEF EndsInComment

LEMMA SameTokens ==
    ASSUME file' = file
    PROVE  /\ TokensOfFile' = TokensOfFile
           /\ \A x : TokenIsRight(x)' <=> TokenIsRight(x)
           /\ \A k : IsTokenText(k)' <=> IsTokenText(k)
           /\ \A k : InSync(k)' <=> InSync(k)
           /\ \A k : LinesBefore(k)' = LinesBefore(k)
<1>1. TokensOfFile' = TokensOfFile
  <2>1. \A i, j : Bytes(i, j)' = Bytes(i, j)
    BY DEF Bytes
  <2>2. \A x : x \in TextsOfFile' <=> x \in TextsOfFile
    BY <2>1, SameText DEF TextsOfFile
  <2>3. TextsOfFile' = TextsOfFile
    BY <2>2
  <2> QED
    BY <2>3, SameText DEF TokensOfFile
<1>2. \A k : LinesBefore(k)' = LinesBefore(k)
  <2>1. ASSUME NEW a, NEW b PROVE NewLines(a, b)' = NewLines(a, b)
    BY SameText DEF NewLines
  <2> QED
    BY <2>1 DEF LinesBefore
<1>3. \A k : IsTokenText(k)' <=> IsTokenText(k)
  BY SameText DEF IsTokenText
<1>4. \A k : InSync(k)' <=> InSync(k)
  BY SameText DEF InSync, Calm
<1>5. \A x : TokenIsRight(x)' <=> TokenIsRight(x)
  <2>1. \A x : IsLongest(x)' <=> IsLongest(x)
    BY SameText DEF IsLongest, IdentifierBegins, Bytes
  <2>2. \A x : IsReadRight(x)' <=> IsReadRight(x)
    <3>1. \A i : UpToWhite(i)' = UpToWhite(i)
      BY SameText DEF UpToWhite, Before
    <3>2. \A x : HasPoint(x)' <=> HasPoint(x)
      BY SameText DEF HasPoint
    <3>3. \A x : Alone(x)' <=> Alone(x)
      BY SameText, <3>1 DEF Alone
    <3> QED
      BY <3>2, <3>3 DEF IsReadRight
  <2> QED
    BY <1>1, <1>2, <2>1, <2>2 DEF TokenIsRight
<1> QED
  BY <1>1, <1>2, <1>3, <1>4, <1>5

-----------------------------------------------------------------------------
(* The moves of the scan.                                                  *)

LEMMA StartIs ==
    ASSUME Text, pos \in 1..Lim + 1
    PROVE  Start \in pos..Lim + 1 /\ (Start <= Lim => Byte(Start) \notin White)
<1>0. Lim \in Nat
  BY LimIsNumber
<1> DEFINE e == RunEnd(pos, White)
<1>1. /\ e \in pos - 1..Lim
      /\ e < Lim => Byte(e + 1) \notin White
  BY RunEndIs
<1>2. Start = e + 1
  BY DEF Start
<1> HIDE DEF e
<1> QED
  BY <1>0, <1>1, <1>2

LEMMA MovesOn ==
    ASSUME Text, PlaceInv, NEW to \in pos..Lim + 1, MoveTo(to), file' = file
    PROVE  /\ Text' /\ pos' = to /\ pos' \in (1..Lim + 1)'
           /\ lines' = LinesBefore(pos)'
<1>0. Lim \in Nat /\ pos \in 1..Lim + 1 /\ lines = LinesBefore(pos)
  BY LimIsNumber DEF PlaceInv
<1>1. pos' = to /\ lines' = lines + Cardinality(NewLines(pos, to - 1))
  BY DEF MoveTo
<1>2. LinesBefore(to) = LinesBefore(pos) + Cardinality(NewLines(pos, to - 1))
  <2> PICK p : p = pos
    OBVIOUS
  <2>1. p \in Nat /\ to \in Nat /\ 1 <= p /\ p <= to
    BY <1>0
  <2>2. LinesBefore(to) = LinesBefore(p) + Cardinality(NewLines(p, to - 1))
    BY <2>1, LinesGoOn
  <2> QED
    BY <2>2
<1>3. LinesBefore(pos)' = LinesBefore(to)
  <2>1. LinesBefore(to)' = LinesBefore(to)
    BY SameTokens
  <2>2. LinesBefore(pos)' = LinesBefore(to)'
    BY <1>1 DEF LinesBefore, NewLines
  <2> QED
    BY <2>1, <2>2
<1>4. Text' /\ Lim' = Lim
  BY SameText DEF Text
<1> QED
  BY <1>0, <1>1, <1>2, <1>3, <1>4

LEMMA CoveredIs ==
    ASSUME tokens \in Seq(TokensOfFile)
    PROVE  \A i : i \in Covered
                  <=> \E t \in 1..Len(tokens) : i \in tokens[t].first..tokens[t].last
BY DEF Covered

LEMMA CoveredGrows ==
    ASSUME tokens \in Seq(TokensOfFile), NEW x, tokens' = Append(tokens, x)
    PROVE  \A i : i \in Covered' <=> i \in Covered \/ i \in x.first..x.last
<1>1. /\ Len(tokens) \in Nat /\ DOMAIN tokens = 1..Len(tokens)
      /\ DOMAIN tokens' = 1..Len(tokens) + 1
      /\ \A t \in 1..Len(tokens) : tokens'[t] = tokens[t]
      /\ tokens'[Len(tokens) + 1] = x
  BY DEF TokensOfFile
<1>2. ASSUME NEW i PROVE i \in Covered' <=> i \in Covered \/ i \in x.first..x.last
  <2>1. i \in Covered' <=> \E t \in 1..Len(tokens) + 1 :
                               i \in tokens'[t].first..tokens'[t].last
    BY <1>1 DEF Covered
  <2>2. i \in Covered <=> \E t \in 1..Len(tokens) : i \in tokens[t].first..tokens[t].last
    BY <1>1 DEF Covered
  <2>3. \A t : t \in 1..Len(tokens) + 1 <=> t \in 1..Len(tokens) \/ t = Len(tokens) + 1
    BY <1>1
  <2> QED
    BY <1>1, <2>1, <2>2, <2>3
<1> QED
  BY <1>2

(* What is in a token is behind the scan.                                  *)
LEMMA CoveredIsReached ==
    ASSUME Text, TokensInv, PlaceInv, NEW i \in Covered
    PROVE  i \in 1..Lim /\ i < Reached
<1>0. Lim \in Nat /\ Reached \in Nat
  BY LimIsNumber DEF PlaceInv, Reached
<1>1. PICK t \in DOMAIN tokens : i \in tokens[t].first..tokens[t].last
  BY DEF Covered
<1>2. TokenIsRight(tokens[t]) /\ tokens[t].last < Reached
  BY DEF TokensInv
<1>3. tokens[t].first \in 1..Lim /\ tokens[t].last \in 1..Lim
  BY <1>2 DEF TokenIsRight, TokensOfFile
<1> QED
  BY <1>0, <1>1, <1>2, <1>3

(* A token is taken.                                                       *)
LEMMA TakesToken ==
    ASSUME ScanIInv, Scanning, NEW type \in KindsOfToken \cup TextsOfFile,
           NEW e \in Start..Lim, Added(type, e),
           TakenTo(e) \/ (MoveTo(e + 1) /\ UNCHANGED at_eof),
           ~EndsInComment => (\A k \in Start..e : IsTokenText(k)) /\ InSync(e + 1),
           NEW x, x.type = type, x.first = Start, x.last = e,
           x = [type |-> type, first |-> Start, last |-> e, line |-> LineOf(Start)],
           IsLongest(x), IsReadRight(x)
    PROVE  ScanIInv'
<1>0. /\ Text /\ TokensInv /\ PlaceInv /\ CoverInv /\ SyncInv /\ FailureInv
      /\ Lim \in Nat /\ pos \in 1..Lim + 1
  BY LimIsNumber DEF ScanIInv, PlaceInv
<1>1. /\ stage = "scan" /\ at_eof = FALSE /\ Start <= Lim /\ Start \in pos..Lim
      /\ Start \in 1..Lim /\ e \in 1..Lim /\ Start <= e
  BY <1>0, StartIs DEF Scanning, PlaceInv
<1>2. /\ file' = file /\ stage' = stage /\ messages' = messages
      /\ tokens' = Append(tokens, x)
  BY DEF Added
<1>3. /\ e = Lim => \/ pos' = e /\ at_eof' = TRUE /\ MoveTo(e)
                    \/ pos' = e + 1 /\ at_eof' = FALSE /\ MoveTo(e + 1)
      /\ e # Lim => pos' = e + 1 /\ at_eof' = FALSE /\ MoveTo(e + 1)
  BY <1>1 DEF TakenTo, MoveTo
<1>4. Lim' = Lim /\ (EndsInComment' <=> EndsInComment)
  BY <1>2, SameText
<1>5. Reached' = e + 1 /\ Reached = pos
  BY <1>0, <1>1, <1>3, <1>4 DEF Reached
<1>6. PICK to \in {e, e + 1} : MoveTo(to)
  BY <1>3
<1>7. Text' /\ pos' \in (1..Lim + 1)' /\ lines' = LinesBefore(pos)'
  <2>1. to \in pos..Lim + 1
    BY <1>0, <1>1
  <2> QED
    BY <1>0, <1>2, <1>6, <2>1, MovesOn
<1>8. PlaceInv'
  BY <1>0, <1>1, <1>2, <1>3, <1>7 DEF PlaceInv
<1>9. TokenIsRight(x)
  <2>1. LineOf(Start) = LinesBefore(Start) /\ LineOf(Start) \in Nat
    <3> PICK s \in 1..Lim : s = Start
      BY <1>1
    <3>1. LineOf(s) = LinesBefore(s) /\ LineOf(s) \in Nat
      BY <1>0, LineIsCounted
    <3> QED
      BY <3>1
  <2>2. x \in TokensOfFile
    BY <1>1, <2>1 DEF TokensOfFile
  <2>3. x.line = LinesBefore(x.first)
    BY <2>1
  <2> QED
    BY <1>1, <2>2, <2>3 DEF TokenIsRight
<1>10. /\ Len(tokens) \in Nat /\ DOMAIN tokens = 1..Len(tokens)
       /\ DOMAIN tokens' = 1..Len(tokens) + 1
       /\ \A t \in 1..Len(tokens) : tokens'[t] = tokens[t]
       /\ tokens'[Len(tokens) + 1] = x
       /\ tokens' \in Seq(TokensOfFile)
  BY <1>0, <1>2, <1>9 DEF TokensInv, TokenIsRight
<1>11. TokensInv'
  <2>1. tokens' \in Seq(TokensOfFile')
    BY <1>2, <1>10, SameTokens
  <2>2. \A y : TokenIsRight(y) => TokenIsRight(y)'
    BY <1>2, SameTokens
  <2>3. ASSUME NEW t \in 1..Len(tokens) + 1
        PROVE  /\ TokenIsRight(tokens'[t])
               /\ tokens'[t].last < e + 1
               /\ t > 1 => tokens'[t - 1].last < tokens'[t].first
    <3>1. CASE t = Len(tokens) + 1
      <4>1. tokens'[t] = x /\ x.last < e + 1
        BY <1>1, <1>10, <3>1
      <4>2. ASSUME t > 1 PROVE tokens'[t - 1].last < tokens'[t].first
        <5>1. t - 1 \in 1..Len(tokens) /\ tokens'[t - 1] = tokens[t - 1]
          BY <1>10, <3>1, <4>2
        <5>2. TokenIsRight(tokens[t - 1]) /\ tokens[t - 1].last < pos
          BY <1>0, <1>5, <1>10, <5>1 DEF TokensInv
        <5>3. tokens[t - 1].last \in 1..Lim
          BY <5>2 DEF TokenIsRight, TokensOfFile
        <5> QED
          BY <1>0, <1>1, <4>1, <5>1, <5>2, <5>3
      <4> QED
        BY <1>9, <4>1, <4>2
    <3>2. CASE t # Len(tokens) + 1
      <4>1. t \in 1..Len(tokens) /\ tokens'[t] = tokens[t]
        BY <1>10, <3>2
      <4>2. /\ TokenIsRight(tokens[t]) /\ tokens[t].last < pos
            /\ t > 1 => tokens[t - 1].last < tokens[t].first
        BY <1>0, <1>5, <1>10, <4>1 DEF TokensInv
      <4>3. tokens[t].last \in 1..Lim
        BY <4>2 DEF TokenIsRight, TokensOfFile
      <4>4. t > 1 => tokens'[t - 1] = tokens[t - 1]
        BY <1>10, <4>1
      <4> QED
        BY <1>0, <1>1, <4>1, <4>2, <4>3, <4>4
    <3> QED
      BY <3>1, <3>2
  <2>4. ASSUME NEW t \in DOMAIN tokens' PROVE TokenIsRight(tokens[t])'
    <3> PICK y : y = tokens'[t]
      OBVIOUS
    <3>1. TokenIsRight(y)'
      BY <1>10, <2>2, <2>3
    <3> QED
      BY <3>1 DEF TokenIsRight, IsLongest, IsReadRight, HasPoint, Alone
  <2> QED
    BY <1>5, <1>10, <2>1, <2>3, <2>4 DEF TokensInv
<1>12. CoverInv'
  <2> SUFFICES ASSUME ~EndsInComment, NEW i \in 1..e
               PROVE  i \in Covered' <=> IsTokenText(i)'
    BY <1>4, <1>5 DEF CoverInv
  <2>1. i \in Covered' <=> i \in Covered \/ i \in Start..e
    BY <1>0, <1>2, CoveredGrows DEF TokensInv
  <2>2. IsTokenText(i)' <=> IsTokenText(i)
    BY <1>2, SameTokens
  <2>3. CASE i \in 1..pos - 1
    <3>1. i \in Covered <=> IsTokenText(i)
      BY <1>0, <1>5, <2>3 DEF CoverInv
    <3>2. i \notin Start..e
      BY <1>0, <1>1, <2>3
    <3> QED
      BY <2>1, <2>2, <3>1, <3>2
  <2>4. CASE i \in pos..Start - 1
    <3>1. ~IsTokenText(i)
      BY <1>0, <1>1, <2>4, WhiteSpace DEF SyncInv
    <3>2. i \notin Start..e /\ ~(i < pos)
      BY <1>0, <1>1, <2>4
    <3>3. i \notin Covered
      BY <1>0, <1>5, <3>2, CoveredIsReached
    <3> QED
      BY <2>1, <2>2, <3>1, <3>2, <3>3
  <2>5. CASE i \in Start..e
    BY <2>1, <2>2, <2>5
  <2> QED
    BY <1>0, <1>1, <2>3, <2>4, <2>5
<1>13. SyncInv'
  <2> SUFFICES ASSUME ~EndsInComment, ~at_eof' PROVE InSync(pos)'
    BY <1>4 DEF SyncInv
  <2>1. pos' = e + 1
    BY <1>1, <1>3
  <2>2. InSync(e + 1)'
    BY <1>2, SameTokens
  <2> QED
    BY <2>1, <2>2 DEF InSync, Calm
<1>14. FailureInv'
  BY <1>0, <1>1, <1>2 DEF FailureInv, ScanFailureIsExplained, PlaceInv
<1> QED
  BY <1>7, <1>8, <1>11, <1>12, <1>13, <1>14 DEF ScanIInv

(* The scan goes over text that is no token's, and may stop.               *)
LEMMA SkipsText ==
    ASSUME ScanIInv, NEW to \in pos..Lim + 1, MoveTo(to),
           UNCHANGED <<file, tokens, at_eof>>, at_eof => to = pos,
           ~EndsInComment /\ ~at_eof => \A k \in pos..to - 1 : ~IsTokenText(k)
    PROVE  /\ Text' /\ TokensInv' /\ CoverInv'
           /\ pos' = to /\ pos' \in (1..Lim + 1)' /\ lines' = LinesBefore(pos)'
           /\ Reached' = IF at_eof THEN Lim + 1 ELSE to
<1>0. /\ Text /\ TokensInv /\ PlaceInv /\ CoverInv
      /\ Lim \in Nat /\ pos \in 1..Lim + 1
  BY LimIsNumber DEF ScanIInv, PlaceInv
<1>1. file' = file /\ tokens' = tokens /\ at_eof' = at_eof
  OBVIOUS
<1>2. /\ Text' /\ pos' = to /\ pos' \in (1..Lim + 1)'
      /\ lines' = LinesBefore(pos)'
  BY <1>0, <1>1, MovesOn
<1>3. Lim' = Lim /\ (EndsInComment' <=> EndsInComment)
  BY <1>1, SameText
<1>4. /\ Reached' = IF at_eof THEN Lim + 1 ELSE to
      /\ Reached = IF at_eof THEN Lim + 1 ELSE pos
  BY <1>1, <1>2, <1>3 DEF Reached
<1>5. TokensInv'
  <2>1. tokens' \in Seq(TokensOfFile')
    BY <1>0, <1>1, SameTokens DEF TokensInv
  <2>2. ASSUME NEW t \in DOMAIN tokens' PROVE TokenIsRight(tokens[t])'
    <3> PICK y : y = tokens[t]
      OBVIOUS
    <3>1. TokenIsRight(y)
      BY <1>0, <1>1, <2>2 DEF TokensInv
    <3>2. TokenIsRight(y)' /\ y = tokens'[t]
      BY <1>1, <3>1, SameTokens
    <3> QED
      BY <3>2 DEF TokenIsRight, IsLongest, IsReadRight, HasPoint, Alone
  <2>3. ASSUME NEW t \in DOMAIN tokens
        PROVE  /\ tokens[t].last < Reached'
               /\ t > 1 => tokens[t - 1].last < tokens[t].first
    <3>1. /\ TokenIsRight(tokens[t]) /\ tokens[t].last < Reached
          /\ t > 1 => tokens[t - 1].last < tokens[t].first
      BY <1>0 DEF TokensInv
    <3>2. tokens[t].last \in 1..Lim
      BY <3>1 DEF TokenIsRight, TokensOfFile
    <3> QED
      BY <1>0, <1>4, <3>1, <3>2
  <2> QED
    BY <1>1, <2>1, <2>2, <2>3 DEF TokensInv
<1>6. CoverInv'
  <2> SUFFICES ASSUME ~EndsInComment, NEW i \in 1..Reached' - 1
               PROVE  i \in Covered' <=> IsTokenText(i)'
    BY <1>3 DEF CoverInv
  <2>1. Covered' = Covered
    BY <1>1 DEF Covered
  <2>2. IsTokenText(i)' <=> IsTokenText(i)
    BY <1>1, SameTokens
  <2>3. CASE i \in 1..Reached - 1
    BY <1>0, <2>1, <2>2, <2>3 DEF CoverInv
  <2>4. CASE i \notin 1..Reached - 1
    <3>1. ~at_eof /\ i \in pos..to - 1 /\ ~(i < Reached)
      BY <1>0, <1>4, <2>4
    <3>2. i \notin Covered
      BY <1>0, <3>1, CoveredIsReached
    <3> QED
      BY <2>1, <2>2, <3>1, <3>2
  <2> QED
    BY <2>3, <2>4
<1> QED
  BY <1>2, <1>4, <1>5, <1>6

(* Why a scan fails where it stands.                                       *)
Explained(p) ==
    \/ Inside[Lim] \in {"string", "escape"}
    \/ \E k \in {p, p + 1} : k < Lim /\ Byte(k) = "0" /\ Byte(k + 1) \in {"x", "b"}
    \/ \A last \in p..Lim : Bytes(p, last) \notin Lexemes

LEMMA SayingSomething ==
    ASSUME NEW a
    PROVE  <<>> \o <<a>> # <<>> /\ <<>> \o <<a, a>> # <<>>
<1>1. Len(<<>> \o <<a>>) = 1 /\ Len(<<>> \o <<a, a>>) = 2
  OBVIOUS
<1>2. Len(<<>>) = 0
  OBVIOUS
<1> QED
  BY <1>1, <1>2

(* Where the next token begins.                                            *)
LEMMA TokenBegins ==
    ASSUME ScanIInv, Scanning
    PROVE  /\ Start \in 1..Lim /\ Start \in pos..Lim + 1 /\ Byte(Start) \notin White
           /\ ~EndsInComment => Calm(Start)
           /\ ~EndsInComment => \A k \in pos..Start - 1 : ~IsTokenText(k)
<1>0. Text /\ SyncInv /\ Lim \in Nat /\ pos \in 1..Lim + 1
  BY LimIsNumber DEF ScanIInv, PlaceInv
<1>1. Start <= Lim /\ (~EndsInComment => InSync(pos))
  BY <1>0 DEF Scanning, SyncInv
<1>2. Start \in pos..Lim + 1 /\ Byte(Start) \notin White
  BY <1>0, <1>1, StartIs
<1> QED
  BY <1>0, <1>1, <1>2, WhiteSpace

LEMMA Fails ==
    ASSUME ScanIInv, Scanning, NEW at, Failed(at),
           at \in {<<LastToken>>, <<LastToken, LastToken>>, <<Start>>},
           ~EndsInComment => Explained(Start)
    PROVE  ScanIInv'
<1>0. /\ Text /\ PlaceInv /\ stage = "scan" /\ at_eof = FALSE /\ Lim \in Nat
      /\ pos \in 1..Lim + 1
  BY LimIsNumber DEF ScanIInv, PlaceInv, Scanning
<1>1. /\ stage' = "failed" /\ messages' = messages \o at /\ MoveTo(Start)
      /\ file' = file /\ tokens' = tokens /\ at_eof' = at_eof
  BY DEF Failed
<1>2. Start \in pos..Lim + 1 /\ (~EndsInComment => \A k \in pos..Start - 1 : ~IsTokenText(k))
  BY TokenBegins
<1>3. /\ Text' /\ TokensInv' /\ CoverInv'
      /\ pos' = Start /\ pos' \in (1..Lim + 1)' /\ lines' = LinesBefore(pos)'
  BY <1>0, <1>1, <1>2, SkipsText
<1>4. PlaceInv'
  BY <1>0, <1>1, <1>3 DEF PlaceInv
<1>5. SyncInv'
  BY <1>1 DEF SyncInv
<1>6. messages' # <<>>
  <2>1. messages = <<>>
    BY <1>0 DEF PlaceInv
  <2> QED
    BY <1>1, <2>1, SayingSomething
<1>7. ~EndsInComment' => Explained(pos)'
  <2> SUFFICES ASSUME ~EndsInComment' PROVE Explained(pos)'
    OBVIOUS
  <2> PICK s : s = Start
    OBVIOUS
  <2>1. Explained(s) /\ s = pos'
    BY <1>1, <1>3, SameText
  <2>2. Explained(s)'
    BY <1>1, <2>1, SameText DEF Explained, Bytes
  <2> QED
    BY <2>1, <2>2 DEF Explained
<1>8. FailureInv'
  BY <1>1, <1>6, <1>7 DEF FailureInv, ScanFailureIsExplained, Explained
<1> QED
  BY <1>3, <1>4, <1>5, <1>8 DEF ScanIInv

-----------------------------------------------------------------------------
(* The actions.                                                            *)

LEMMA LexemesAreNoConstants ==
    ASSUME NEW x \in Lexemes \cup {"identifier", "variable", "label", "string literal"}
    PROVE  x # "integer" /\ x # "float"
<1>1. "integer" \notin Keywords \cup Symbols /\ "float" \notin Keywords \cup Symbols
  BY Zenon DEF Keywords, Symbols, Quote
<1>2. /\ "integer" \notin RirKeywords \cup RirSymbols
      /\ "float" \notin RirKeywords \cup RirSymbols
  BY Zenon DEF RirKeywords, RirSymbols, Quote
<1>3. "integer" \notin Lexemes /\ "float" \notin Lexemes
  BY <1>1, <1>2 DEF Lexemes, LexemesOf
<1> QED
  BY <1>3

LEMMA AnIdentifier ==
    ASSUME ScanIInv, ScanIdentifier
    PROVE  ScanIInv'
<1>0. Text /\ Scanning /\ Lim \in Nat /\ IdentifierBegins(Byte(Start))
  BY LimIsNumber DEF ScanIInv, ScanIdentifier
<1> PICK s : s = Start
  OBVIOUS
<1>1. /\ s \in 1..Lim /\ Byte(s) \notin White
      /\ ~EndsInComment => Calm(s)
  BY <1>0, TokenBegins
<1> PICK e : e = Word(s)
  OBVIOUS
<1>2. /\ e \in s..Lim /\ \A k \in s + 1..e : Byte(k) \in InIdentifier
      /\ e < Lim => Byte(e + 1) \notin InIdentifier
  <2>1. s + 1 \in 1..Lim + 1 /\ (s + 1) - 1 = s
    BY <1>0, <1>1
  <2> QED
    BY <1>0, <2>1, RunEndIs DEF Word
<1>3. Byte(s) \in Letters \/ Byte(s) \in {"$", "%"}
  BY <1>0 DEF IdentifierBegins
<1>4. ASSUME NEW k \in s..e PROVE Byte(k) \notin White \cup Marks
  <2>1. k = s \/ k \in s + 1..e
    BY <1>0, <1>1, <1>2
  <2>2. Byte(k) \in InIdentifier \cup {"$", "%"}
    BY <1>2, <1>3, <2>1 DEF InIdentifier
  <2> QED
    BY <2>2, NumbersArePlain
<1>5. ~EndsInComment => (\A k \in s..e : IsTokenText(k)) /\ InSync(e + 1)
  BY <1>0, <1>1, <1>2, <1>4, PlainText
<1> DEFINE type == NameType(s)
           x == [type |-> type, first |-> s, last |-> e, line |-> LineOf(s)]
<1>6. Added(type, e) /\ TakenTo(e)
  BY DEF ScanIdentifier
<1>7. /\ type \in Lexemes \cup {"identifier", "variable", "label"}
      /\ type \in KindsOfToken \cup TextsOfFile
  <2>1. Bytes(s, e) \in TextsOfFile
    BY <1>0, <1>1, <1>2 DEF TextsOfFile
  <2>2. type \in {Bytes(s, e), "variable", "label", "identifier"}
        /\ (type \in Lexemes \/ type \in {"variable", "label", "identifier"})
    BY DEF NameType
  <2> QED
    BY <2>1, <2>2 DEF KindsOfToken
<1>8. IsReadRight(x)
  BY <1>7, LexemesAreNoConstants DEF IsReadRight
<1>9. IsLongest(x)
  <2> SUFFICES ASSUME e < Lim
               PROVE  Bytes(s, e + 1) \notin Lexemes /\ Byte(e + 1) \notin InIdentifier
    BY DEF IsLongest
  <2>1. s \in 1..Lim /\ e + 1 \in 1..Lim /\ s < e + 1
    BY <1>0, <1>1, <1>2
  <2>2. Byte(e + 1) \notin Letters
    BY <1>2 DEF InIdentifier
  <2> QED
    BY <1>0, <1>2, <1>3, <2>1, <2>2, LexemeIs
<1> PICK y : y = x
  OBVIOUS
<1>10. /\ y.type = type /\ y.first = s /\ y.last = e
       /\ IsLongest(y) /\ IsReadRight(y)
  BY <1>8, <1>9
<1> HIDE DEF type
<1> QED
  BY <1>0, <1>2, <1>5, <1>6, <1>7, <1>10, TakesToken

(* White space does not come between the digits of a constant: what is up  *)
(* to the next white space from its begin is so from its end.              *)
LEMMA SameWhite ==
    ASSUME Text, NEW i \in 1..Lim, NEW e \in i..Lim,
           \A k \in i..e : Byte(k) \notin White
    PROVE  UpToWhite(i) = UpToWhite(e) /\ UpToWhite(i) <= Lim /\ UpToWhite(i) \in Nat
<1>0. Lim \in Nat
  BY LimIsNumber
<1> DEFINE stops(j) == {k \in j + 1..Lim : Byte(k) \in White}
<1>1. stops(i) = stops(e)
  <2>1. ASSUME NEW k \in stops(i) PROVE k \in stops(e)
    <3>1. k \in i + 1..Lim /\ Byte(k) \in White /\ k \notin i..e
      OBVIOUS
    <3> QED
      BY <1>0, <3>1
  <2>2. ASSUME NEW k \in stops(e) PROVE k \in stops(i)
    BY <1>0
  <2> QED
    BY <2>1, <2>2
<1>2. UpToWhite(i) = Before(stops(i)) /\ UpToWhite(e) = Before(stops(e))
  BY DEF UpToWhite
<1>3. i + 1 \in 1..Lim + 1 /\ stops(i) \in SUBSET (i + 1..Lim)
  BY <1>0
<1> HIDE DEF stops
<1>4. Before(stops(i)) \in (i + 1) - 1..Lim
  BY <1>3, BeforeIs
<1> QED
  BY <1>0, <1>1, <1>2, <1>4

LEMMA AConstant ==
    ASSUME ScanIInv, Scanning, NEW i \in {Start, Start + 1},
           i = Start + 1 => i <= Lim /\ Byte(Start) = "-",
           Byte(i) \in Digits, ScanLiteral(i)
    PROVE  ScanIInv'
<1>0. Text /\ Lim \in Nat
  BY LimIsNumber DEF ScanIInv
<1> PICK s : s = Start
  OBVIOUS
<1>1. s \in 1..Lim /\ ~EndsInComment => Calm(s)
  BY TokenBegins
<1>2. s \in 1..Lim /\ i \in 1..Lim /\ i \in {s, s + 1} /\ (i = s + 1 => Byte(s) = "-")
  BY <1>0, TokenBegins
<1> PICK e \in Literal(i).ends :
        IF e = 0 THEN Failed(<<LastToken>>)
        ELSE Added(Literal(i).type, e) /\ TakenTo(e)
  BY DEF ScanLiteral
<1>3. /\ \/ e = 0 /\ i < Lim /\ Byte(i) = "0" /\ Byte(i + 1) \in {"x", "b"}
         \/ e \in i..Lim /\ \A k \in i..e : Byte(k) \in NumberBytes
      /\ \/ /\ Literal(i).type = "integer"
            /\ e # 0 => \A k \in i..e : Byte(k) # "."
         \/ Literal(i).type = "float" /\ IsFloat(i)
  BY <1>0, <1>2, LiteralIs
<1>4. CASE e = 0
  <2>1. Explained(s)
    BY <1>0, <1>2, <1>3, <1>4 DEF Explained
  <2> QED
    BY <1>4, <2>1, Fails
<1>5. CASE e # 0
  <2>1. e \in i..Lim /\ e \in s..Lim /\ \A k \in i..e : Byte(k) \in NumberBytes
    BY <1>0, <1>2, <1>3, <1>5
  <2>2. ASSUME NEW k \in s..e PROVE Byte(k) \in NumberBytes
    <3>1. k \in i..e \/ (k = s /\ i = s + 1)
      BY <1>0, <1>2, <2>1
    <3> QED
      BY <1>2, <2>1, <3>1 DEF NumberBytes
  <2>3. \A k \in s..e : Byte(k) \notin White \cup Marks
    BY <2>2, NumbersArePlain
  <2>4. ~EndsInComment => (\A k \in s..e : IsTokenText(k)) /\ InSync(e + 1)
    BY <1>0, <1>1, <1>2, <2>1, <2>3, PlainText
  <2> DEFINE type == Literal(i).type
             x == [type |-> type, first |-> s, last |-> e, line |-> LineOf(s)]
  <2>5. Added(type, e) /\ TakenTo(e) /\ type \in {"integer", "float"}
    BY <1>3, <1>5
  <2>6. IsLongest(x)
    BY <2>5 DEF IsLongest
  <2>7. type = "integer" => ~HasPoint(x)
    <3> SUFFICES ASSUME type = "integer", NEW k \in s..e, Byte(k) = "." PROVE FALSE
      BY DEF HasPoint
    <3>1. \A j \in i..e : Byte(j) # "."
      BY <1>3, <1>5
    <3>2. k = s /\ i = s + 1
      BY <1>0, <1>2, <2>1, <3>1
    <3> QED
      BY <1>2, <3>2
  <2>8. type = "float" /\ Alone(x) => HasPoint(x)
    <3> SUFFICES ASSUME type = "float", Alone(x) PROVE HasPoint(x)
      OBVIOUS
    <3>1. PICK k \in i..UpToWhite(i) - 1 : Byte(k) \in Digits /\ Byte(k + 1) = "."
      BY <1>3 DEF IsFloat
    <3>2. \A j \in i..e : Byte(j) \notin White
      BY <2>1, NumbersArePlain
    <3>3. UpToWhite(i) = UpToWhite(e) /\ UpToWhite(i) <= Lim /\ UpToWhite(i) \in Nat
      BY <1>0, <1>2, <2>1, <3>2, SameWhite
    <3>4. k + 1 \in i + 1..UpToWhite(e) /\ (k + 1) - 1 = k
      BY <1>0, <1>2, <3>3
    <3>5. CASE k + 1 <= e
      <4>1. k + 1 \in s..e
        BY <1>0, <1>2, <2>1, <3>4, <3>5
      <4> QED
        BY <3>1, <4>1 DEF HasPoint
    <3>6. CASE ~(k + 1 <= e)
      <4>1. k + 1 \in e + 1..UpToWhite(e)
        BY <1>0, <1>2, <2>1, <3>4, <3>6
      <4> QED
        BY <3>1, <3>4, <4>1 DEF Alone
    <3> QED
      BY <3>5, <3>6
  <2>9. IsReadRight(x)
    BY <2>7, <2>8 DEF IsReadRight
  <2> PICK y : y = x
    OBVIOUS
  <2>10. /\ y.type = type /\ y.first = s /\ y.last = e
         /\ IsLongest(y) /\ IsReadRight(y)
    BY <2>6, <2>9
  <2>11. type \in KindsOfToken \cup TextsOfFile
    BY <2>5 DEF KindsOfToken
  <2> HIDE DEF type
  <2> QED
    BY <2>1, <2>4, <2>5, <2>10, <2>11, TakesToken
<1> QED
  BY <1>4, <1>5

LEMMA ANumber ==
    ASSUME ScanIInv, ScanNumber
    PROVE  ScanIInv'
<1>1. Scanning /\ Byte(Start) \in Digits /\ ScanLiteral(Start)
  BY DEF ScanNumber
<1> PICK i : i = Start
  OBVIOUS
<1>2. Start \in 1..Lim /\ i # Start + 1
  BY <1>1, TokenBegins
<1> QED
  BY <1>1, <1>2, AConstant

LEMMA ANegativeNumber ==
    ASSUME ScanIInv, ScanNegative
    PROVE  ScanIInv'
<1>0. Lim \in Nat
  BY LimIsNumber DEF ScanIInv
<1>1. /\ Scanning /\ Byte(Start) = "-" /\ Start < Lim /\ Byte(Start + 1) \in Digits
      /\ ScanLiteral(Start + 1)
  BY DEF ScanNegative, Begins, FollowedBy
<1> PICK i : i = Start + 1
  OBVIOUS
<1>2. Start \in 1..Lim /\ i <= Lim
  BY <1>0, <1>1, TokenBegins
<1> QED
  BY <1>1, <1>2, AConstant

LEMMA AComment ==
    ASSUME ScanIInv, ScanComment
    PROVE  ScanIInv'
<1>0. Text /\ PlaceInv /\ FailureInv /\ Lim \in Nat /\ pos \in 1..Lim + 1
  BY LimIsNumber DEF ScanIInv, PlaceInv
<1>1. /\ Scanning /\ Byte(Start) = "/" /\ Start < Lim /\ Byte(Start + 1) = "/"
      /\ MoveTo(CommentEnd(Start))
      /\ UNCHANGED <<file, tokens, at_eof, stage, messages>>
  BY DEF ScanComment, Begins, FollowedBy
<1> PICK s : s = Start
  OBVIOUS
<1>2. /\ s \in 1..Lim /\ s \in pos..Lim + 1
      /\ ~EndsInComment => Calm(s) /\ \A k \in pos..s - 1 : ~IsTokenText(k)
  BY <1>1, TokenBegins
<1> PICK to : to = CommentEnd(s)
  OBVIOUS
<1>3. to \in s + 2..Lim + 1
  BY <1>0, <1>1, <1>2, CommentMovesOn
<1>4. ~EndsInComment => (\A k \in s..to - 1 : ~IsTokenText(k)) /\ InSync(to)
  BY <1>0, <1>1, <1>2, CommentText
<1>5. ~EndsInComment => \A k \in pos..to - 1 : ~IsTokenText(k)
  <2> SUFFICES ASSUME ~EndsInComment, NEW k \in pos..to - 1 PROVE ~IsTokenText(k)
    OBVIOUS
  <2>1. k \in pos..s - 1 \/ k \in s..to - 1
    BY <1>0, <1>2, <1>3
  <2> QED
    BY <1>2, <1>4, <2>1
<1>6. to \in pos..Lim + 1 /\ at_eof = FALSE /\ stage = "scan"
  BY <1>0, <1>1, <1>2, <1>3 DEF Scanning, PlaceInv
<1>7. /\ Text' /\ TokensInv' /\ CoverInv'
      /\ pos' = to /\ pos' \in (1..Lim + 1)' /\ lines' = LinesBefore(pos)'
  BY <1>1, <1>5, <1>6, SkipsText
<1>8. PlaceInv'
  BY <1>0, <1>1, <1>6, <1>7 DEF PlaceInv
<1>9. SyncInv'
  <2> SUFFICES ASSUME ~EndsInComment PROVE InSync(pos)'
    BY <1>1, SameText DEF SyncInv
  <2>1. InSync(to)'
    BY <1>1, <1>4, SameTokens
  <2> QED
    BY <1>7, <2>1 DEF InSync, Calm
<1>10. FailureInv'
  BY <1>0, <1>1, <1>6 DEF FailureInv, ScanFailureIsExplained, PlaceInv
<1> QED
  BY <1>7, <1>8, <1>9, <1>10 DEF ScanIInv

LEMMA AString ==
    ASSUME ScanIInv, ScanString
    PROVE  ScanIInv'
<1>0. Text /\ Lim \in Nat
  BY LimIsNumber DEF ScanIInv
<1> PICK s : s = Start
  OBVIOUS
<1> PICK e : e = Min(Closing(s))
  OBVIOUS
<1>1. /\ Scanning /\ Byte(s) = Quote /\ Closing(s) # {}
      /\ Added("string literal", e) /\ TakenTo(e)
  BY DEF ScanString, Begins
<1>2. s \in 1..Lim /\ (~EndsInComment => Calm(s))
  BY <1>1, TokenBegins
<1>3. e \in s..Lim
  <2>1. Closing(s) \in SUBSET Nat /\ Closing(s) \subseteq s + 1..Lim
    BY <1>0, <1>2 DEF Closing
  <2>2. e \in Closing(s)
    BY <1>1, <2>1, LeastIs
  <2> QED
    BY <1>0, <1>2, <2>1, <2>2
<1>4. ~EndsInComment => (\A k \in s..e : IsTokenText(k)) /\ InSync(e + 1)
  BY <1>0, <1>1, <1>2, StringText
<1> PICK x : x = [type |-> "string literal", first |-> s, last |-> e, line |-> LineOf(s)]
  OBVIOUS
<1>5. /\ x.type = "string literal" /\ x.first = s /\ x.last = e
      /\ IsLongest(x) /\ IsReadRight(x)
  BY DEF IsLongest, IsReadRight
<1>6. "string literal" \in KindsOfToken \cup TextsOfFile
  BY DEF KindsOfToken
<1> QED
  BY <1>1, <1>3, <1>4, <1>5, <1>6, TakesToken

LEMMA AnOpenString ==
    ASSUME ScanIInv, Unterminated
    PROVE  ScanIInv'
<1>0. Text
  BY DEF ScanIInv
<1> PICK s : s = Start
  OBVIOUS
<1>1. /\ Scanning /\ Byte(s) = Quote /\ Closing(s) = {}
      /\ Failed(<<LastToken, LastToken>>)
  BY DEF Unterminated, Begins
<1>2. s \in 1..Lim /\ (~EndsInComment => Calm(s))
  BY <1>1, TokenBegins
<1>3. ~EndsInComment => Explained(s)
  BY <1>0, <1>1, <1>2, OpenStringText DEF Explained
<1> QED
  BY <1>1, <1>3, Fails

(* A symbol's length, by the lexemes that are at its place.                *)
LEMMA SymbolLengthIs ==
    ASSUME NEW i
    PROVE  \/ SymbolLength(i) = 2 /\ i < Lim /\ Bytes(i, i + 1) \in Lexemes
           \/ /\ SymbolLength(i) = 1 /\ Bytes(i, i) \in Lexemes
              /\ i < Lim /\ Bytes(i, i + 1) \in Lexemes => ~Ambiguous(Byte(i))
           \/ /\ SymbolLength(i) = 0 /\ Bytes(i, i) \notin Lexemes
              /\ i < Lim => Bytes(i, i + 1) \notin Lexemes
BY DEF SymbolLength

LEMMA ASymbol ==
    ASSUME ScanIInv, ScanSymbol
    PROVE  ScanIInv'
<1>0. Text /\ Lim \in Nat
  BY LimIsNumber DEF ScanIInv
<1> PICK s : s = Start
  OBVIOUS
<1> PICK e : e = s + SymbolLength(s) - 1
  OBVIOUS
<1>1. /\ Scanning /\ ~IdentifierBegins(Byte(s)) /\ Byte(s) # Quote
      /\ ~(Byte(s) = "/" /\ s < Lim /\ Byte(s + 1) = "/")
      /\ SymbolLength(s) > 0
  BY DEF ScanSymbol, AtSymbol, FollowedBy
<1>2. /\ Added(Bytes(s, e), e) /\ MoveTo(e + 1) /\ UNCHANGED at_eof
  BY DEF ScanSymbol
<1>3. /\ s \in 1..Lim /\ Byte(s) \notin White /\ (~EndsInComment => Calm(s))
      /\ Byte(s) \notin Letters
  BY <1>1, TokenBegins DEF IdentifierBegins
<1>4. \/ /\ e = s + 1 /\ s < Lim /\ Bytes(s, s + 1) \in Lexemes
      \/ /\ e = s /\ Bytes(s, s) \in Lexemes
         /\ s < Lim /\ Bytes(s, s + 1) \in Lexemes => ~Ambiguous(Byte(s))
  <2>1. SymbolLength(s) = 2 => s + SymbolLength(s) - 1 = s + 1
    BY <1>3
  <2>2. SymbolLength(s) = 1 => s + SymbolLength(s) - 1 = s
    BY <1>3
  <2> QED
    BY <1>1, <2>1, <2>2, SymbolLengthIs
<1>5. e \in s..Lim /\ e \in {s, s + 1} /\ e \in 1..Lim
  BY <1>0, <1>3, <1>4
<1>6. e = s + 1 => Byte(s + 1) \notin White \cup Marks
  <2> SUFFICES ASSUME e = s + 1 PROVE Byte(s + 1) \notin White \cup Marks
    OBVIOUS
  <2>1. s + 1 \in 1..Lim /\ s < s + 1 /\ Bytes(s, s + 1) \in Lexemes
    BY <1>0, <1>3, <1>4
  <2> QED
    BY <1>0, <1>3, <2>1, LexemeIs
<1>7. ~EndsInComment => (\A k \in s..e : IsTokenText(k)) /\ InSync(e + 1)
  BY <1>0, <1>1, <1>3, <1>5, <1>6, SymbolText
<1>8. Bytes(s, e) \in Lexemes /\ Bytes(s, e) \in TextsOfFile
  BY <1>3, <1>4, <1>5 DEF TextsOfFile
<1> PICK x : x = [type |-> Bytes(s, e), first |-> s, last |-> e, line |-> LineOf(s)]
  OBVIOUS
<1>9. x.type = Bytes(s, e) /\ x.first = s /\ x.last = e
  OBVIOUS
<1>10. IsReadRight(x)
  BY <1>8, <1>9, LexemesAreNoConstants DEF IsReadRight
<1>11. IsLongest(x)
  <2> SUFFICES ASSUME e < Lim, Bytes(s, e + 1) \in Lexemes PROVE FALSE
    BY <1>1, <1>9 DEF IsLongest
  <2>1. e + 1 \in 1..Lim /\ s < e + 1
    BY <1>0, <1>3, <1>5
  <2>2. e + 1 = s + 1 /\ (Bytes(s, s) \in Lexemes => Ambiguous(Byte(s)))
    BY <1>0, <1>3, <2>1, LexemeIs
  <2>3. e = s
    BY <1>3, <1>5, <2>2
  <2> QED
    BY <1>0, <1>3, <1>4, <2>2, <2>3
<1> PICK type : type = Bytes(s, e)
  OBVIOUS
<1> QED
  BY <1>1, <1>2, <1>5, <1>7, <1>8, <1>9, <1>10, <1>11, TakesToken

LEMMA NoSymbol ==
    ASSUME ScanIInv, UnknownToken
    PROVE  ScanIInv'
<1>0. Text /\ Lim \in Nat
  BY LimIsNumber DEF ScanIInv
<1> PICK s : s = Start
  OBVIOUS
<1>1. /\ Scanning /\ ~IdentifierBegins(Byte(s)) /\ SymbolLength(s) = 0
      /\ Failed(<<Start>>)
  BY DEF UnknownToken, AtSymbol
<1>2. s \in 1..Lim /\ Byte(s) \notin Letters
  BY <1>1, TokenBegins DEF IdentifierBegins
<1>3. Bytes(s, s) \notin Lexemes /\ (s < Lim => Bytes(s, s + 1) \notin Lexemes)
  BY <1>1, SymbolLengthIs
<1>4. ASSUME NEW last \in s..Lim PROVE Bytes(s, last) \notin Lexemes
  <2>1. CASE last = s \/ last = s + 1
    BY <1>0, <1>2, <1>3, <2>1
  <2>2. CASE ~(last = s \/ last = s + 1)
    <3>1. last \in 1..Lim /\ s < last
      BY <1>0, <1>2, <2>2
    <3> QED
      BY <1>0, <1>2, <2>2, <3>1, LexemeIs
  <2> QED
    BY <2>1, <2>2
<1>5. Explained(s)
  BY <1>4 DEF Explained
<1> QED
  BY <1>1, <1>5, Fails

LEMMA TheEnd ==
    ASSUME ScanIInv, ScanEnds
    PROVE  ScanIInv'
<1>0. Text /\ PlaceInv /\ SyncInv /\ FailureInv /\ Lim \in Nat /\ pos \in 1..Lim + 1
  BY LimIsNumber DEF ScanIInv, PlaceInv
<1> PICK to : to = IF at_eof THEN pos ELSE Start
  OBVIOUS
<1>1. /\ stage = "scan" /\ (at_eof \/ Start > Lim) /\ stage' = "done" /\ MoveTo(to)
      /\ UNCHANGED <<file, tokens, at_eof, messages>>
  BY DEF ScanEnds
<1>2. Start \in pos..Lim + 1
  BY <1>0, StartIs
<1>3. to \in pos..Lim + 1 /\ (at_eof => to = pos) /\ (~at_eof => to = Lim + 1)
  BY <1>0, <1>1, <1>2
<1>4. ~EndsInComment /\ ~at_eof => \A k \in pos..to - 1 : ~IsTokenText(k)
  <2> SUFFICES ASSUME ~EndsInComment, ~at_eof
               PROVE  \A k \in pos..Start - 1 : ~IsTokenText(k)
    OBVIOUS
  <2>1. InSync(pos)
    BY <1>0, <1>1 DEF SyncInv
  <2> QED
    BY <1>0, <2>1, WhiteSpace
<1>5. /\ Text' /\ TokensInv' /\ CoverInv'
      /\ pos' = to /\ pos' \in (1..Lim + 1)' /\ lines' = LinesBefore(pos)'
      /\ Reached' = IF at_eof THEN Lim + 1 ELSE to
  BY <1>1, <1>3, <1>4, SkipsText
<1>6. PlaceInv'
  BY <1>0, <1>1, <1>3, <1>5, SameText DEF PlaceInv
<1>7. SyncInv' /\ FailureInv'
  BY <1>0, <1>1 DEF SyncInv, FailureInv, ScanFailureIsExplained, PlaceInv
<1> QED
  BY <1>5, <1>6, <1>7 DEF ScanIInv

-----------------------------------------------------------------------------
(* The theorems.                                                           *)

LEMMA ScanStarts == ScannerInit => ScanIInv
<1> SUFFICES ASSUME ScannerInit PROVE ScanIInv
  OBVIOUS
<1>1. /\ Text /\ pos = 1 /\ lines = 0 /\ tokens = <<>> /\ at_eof = FALSE
      /\ stage = "scan" /\ messages = <<>>
  BY DEF ScannerInit, Text
<1>2. Lim \in Nat
  BY <1>1, LimIsNumber
<1>3. TokensInv
  BY <1>1 DEF TokensInv
<1>4. LinesBefore(1) = 0
  <2>1. NewLines(1, 1 - 1) = {}
    BY DEF NewLines
  <2> QED
    BY <2>1, FS_EmptySet DEF LinesBefore
<1>5. PlaceInv
  <2>1. lines = LinesBefore(pos)
    BY <1>1, <1>4
  <2>2. at_eof \in BOOLEAN
    BY <1>1
  <2>3. pos \in 1..Lim + 1
    BY <1>1, <1>2
  <2> QED
    BY <1>1, <2>1, <2>2, <2>3 DEF PlaceInv
<1>6. CoverInv
  BY <1>1 DEF CoverInv, Reached
<1>7. SyncInv
  <2>1. Inside[1 - 1] = "code"
    BY <1>1, InsideSteps
  <2> QED
    BY <1>1, <2>1 DEF SyncInv, InSync, Calm, Between
<1>8. FailureInv
  BY <1>1 DEF FailureInv, ScanFailureIsExplained
<1> QED
  BY <1>1, <1>3, <1>5, <1>6, <1>7, <1>8 DEF ScanIInv

LEMMA ScanGoesOn == ScanIInv /\ [ScannerNext]_svars => ScanIInv'
<1> SUFFICES ASSUME ScanIInv, [ScannerNext]_svars PROVE ScanIInv'
  OBVIOUS
<1>1. CASE ScanIdentifier
  BY <1>1, AnIdentifier
<1>2. CASE ScanNumber
  BY <1>2, ANumber
<1>3. CASE ScanNegative
  BY <1>3, ANegativeNumber
<1>4. CASE ScanComment
  BY <1>4, AComment
<1>5. CASE ScanString
  BY <1>5, AString
<1>6. CASE Unterminated
  BY <1>6, AnOpenString
<1>7. CASE ScanSymbol
  BY <1>7, ASymbol
<1>8. CASE UnknownToken
  BY <1>8, NoSymbol
<1>9. CASE ScanEnds
  BY <1>9, TheEnd
<1>10. CASE UNCHANGED svars
  <2>1. /\ file' = file /\ pos' = pos /\ lines' = lines /\ tokens' = tokens
        /\ at_eof' = at_eof /\ stage' = stage /\ messages' = messages
    BY <1>10 DEF svars
  <2>2. Text' /\ PlaceInv' /\ SyncInv' /\ FailureInv'
    <3>1. Lim' = Lim /\ Reached' = Reached /\ LinesBefore(pos)' = LinesBefore(pos)
      BY <2>1, SameText DEF Reached, LinesBefore, NewLines
    <3>2. Text' /\ PlaceInv'
      BY <2>1, <3>1 DEF ScanIInv, Text, PlaceInv
    <3>3. SyncInv'
      BY <2>1, SameText DEF ScanIInv, SyncInv, InSync, Calm
    <3>4. FailureInv'
      BY <2>1, SameText DEF ScanIInv, FailureInv, ScanFailureIsExplained, Bytes
    <3> QED
      BY <3>2, <3>3, <3>4
  <2>3. TokensInv' /\ CoverInv'
    <3>1. Lim' = Lim /\ Reached' = Reached /\ Covered' = Covered
      BY <2>1, SameText DEF Reached, Covered
    <3>2. CoverInv'
      BY <2>1, <3>1, SameText, SameTokens DEF ScanIInv, CoverInv
    <3>3. ASSUME NEW t \in DOMAIN tokens' PROVE TokenIsRight(tokens[t])'
      <4> PICK y : y = tokens[t]
        OBVIOUS
      <4>1. TokenIsRight(y)
        BY <2>1, <3>3 DEF ScanIInv, TokensInv
      <4>2. TokenIsRight(y)' /\ y = tokens'[t]
        BY <2>1, <4>1, SameTokens
      <4> QED
        BY <4>2 DEF TokenIsRight, IsLongest, IsReadRight, HasPoint, Alone
    <3>4. TokensInv'
      BY <2>1, <3>1, <3>3, SameTokens DEF ScanIInv, TokensInv
    <3> QED
      BY <3>2, <3>4
  <2> QED
    BY <2>2, <2>3 DEF ScanIInv
<1>11. CASE ScannerDone
  BY <1>10, <1>11 DEF ScannerDone
<1> QED
  BY <1>1, <1>2, <1>3, <1>4, <1>5, <1>6, <1>7, <1>8, <1>9, <1>10, <1>11 DEF ScannerNext

LEMMA ScanStays == ScannerSpec => []ScanIInv
BY ScanStarts, ScanGoesOn, PTL DEF ScannerSpec

(* The tokens of an accepted file are its text, in its order and at its    *)
(* lines, each byte once, and a scan that fails stands where the text is   *)
(* at fault.                                                               *)
THEOREM ScanIsRight == ScannerSpec => []ScanInv
<1>1. ScanIInv => ScannerTypeOK
  <2> SUFFICES ASSUME ScanIInv PROVE ScannerTypeOK
    OBVIOUS
  <2>1. TokensInv /\ PlaceInv
    BY DEF ScanIInv
  <2> QED
    BY <2>1 DEF TokensInv, PlaceInv, TokenIsRight, ScannerTypeOK
<1>2. ScanIInv => NothingIsLost
  <2> SUFFICES ASSUME ScanIInv, stage = "done", ~EndsInComment, NEW i \in 1..Lim
               PROVE  IsScannedOnce(i)
    BY DEF NothingIsLost
  <2>0. Lim \in Nat /\ CoverInv /\ Reached = Lim + 1
    BY LimIsNumber DEF ScanIInv, PlaceInv
  <2>1. i \in Covered <=> IsTokenText(i)
    BY <2>0 DEF CoverInv
  <2> QED
    <3>1. CASE i \in InComment
      <4>1. Inside[i] \notin {"string", "escape", "close"}
        BY <3>1 DEF InComment
      <4> QED
        BY <2>1, <3>1, <4>1 DEF IsTokenText, IsScannedOnce
    <3>2. CASE i \notin InComment /\ Inside[i] \in Quoted
      BY <2>1, <3>2 DEF IsTokenText, IsScannedOnce, Quoted
    <3>3. CASE i \notin InComment /\ Inside[i] \notin Quoted
      BY <2>1, <3>3 DEF IsTokenText, IsScannedOnce, Quoted
    <3> QED
      BY <3>1, <3>2, <3>3
<1>3. ScanIInv => LinesAreCounted
  BY DEF ScanIInv, PlaceInv, TokensInv, TokenIsRight, LinesAreCounted
<1>4. ScanIInv => ScanFailureIsExplained
  BY DEF ScanIInv, FailureInv
<1>5. ScanIInv => ScanInv
  BY <1>1, <1>2, <1>3, <1>4 DEF ScanInv
<1> QED
  BY <1>5, ScanStays, PTL

(* No word and no symbol is cut short.                                     *)
THEOREM TokensStayLongest == ScannerSpec => []TokensAreLongest
<1>1. ScanIInv => TokensAreLongest
  BY DEF ScanIInv, TokensInv, TokenIsRight, IsLongest, TokensAreLongest
<1> QED
  BY <1>1, ScanStays, PTL

(* A constant is an integer or a float for the digits it has.              *)
THEOREM ConstantsStayRight == ScannerSpec => []ConstantsAreRead
<1>1. ScanIInv => ConstantsAreRead
  BY DEF ScanIInv, TokensInv, TokenIsRight, IsReadRight, ConstantsAreRead
<1> QED
  BY <1>1, ScanStays, PTL
=============================================================================
