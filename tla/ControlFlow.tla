---------------------------- MODULE ControlFlow -----------------------------
(***************************************************************************)
(* What the statements of FunctionBlocks mean: the runs of a list of them, *)
(* each a sequence of events, with the loop turns it leaves of those it    *)
(* may take and whether it has ended in a return.                          *)
(***************************************************************************)
EXTENDS Integers, SequencesExt

Run(events, left) == [events |-> events, left |-> left, ended |-> FALSE]
After(r, s) == [s EXCEPT !.events = r.events \o @]
Sequel(runs, Next(_)) ==
    UNION {IF r.ended THEN {r} ELSE {After(r, s) : s \in Next(r.left)} :
           r \in runs}

Outcomes(m) ==
    {[j \in 1..(k - 1) |-> <<"is", m.id, j, FALSE>>]
        \o (IF k < m.cases THEN <<<<"is", m.id, k, TRUE>>>> ELSE <<>>)
        \o <<<<"case", m.id, k>>>> : k \in 1..m.cases}

RECURSIVE Runs(_, _), RunsOf(_, _), Loop(_, _)

Runs(list, left) ==
    IF list = <<>> THEN {Run(<<>>, left)}
    ELSE Sequel(RunsOf(Head(list), left), LAMBDA l : Runs(Tail(list), l))

Loop(s, left) ==
    {Run(<<<<"for", s.id, TRUE>>>>, left)} \cup
    IF left = 0 THEN {}
    ELSE Sequel(Sequel({Run(<<<<"for", s.id, FALSE>>>>, left - 1)},
                       LAMBDA l : Runs(s.body, l)),
                LAMBDA l : {After(Run(<<<<"step", s.id>>>>, l), r) :
                            r \in Loop(s, l)})

RunsOf(s, left) ==
    CASE s.is = "do" -> {Run(<<<<"do", s.id>>>>, left)}
      [] s.is = "return" ->
            {[Run(<<<<"return", s.id>>>>, left) EXCEPT !.ended = TRUE]}
      [] s.is \in {"if", "elif"} ->
            {After(Run(<<<<"if", s.id, TRUE>>>>, left), r) :
                r \in Runs(s.then, left)}
            \cup {After(Run(<<<<"if", s.id, FALSE>>>>, left), r) :
                r \in Runs(s.else, left)}
      [] s.is = "else" -> Runs(s.then, left)
      [] s.is = "for" ->
            {After(Run(<<<<"init", s.id>>>>, left), r) : r \in Loop(s, left)}
      [] s.is = "match" -> {Run(events, left) : events \in Outcomes(s)}
=============================================================================
