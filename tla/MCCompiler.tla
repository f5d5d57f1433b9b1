----------------------------- MODULE MCCompiler -----------------------------
(***************************************************************************)
(* Compiler on command lines over a small library of source files.  The    *)
(* files differ in what the phases of the driver tell apart: they import   *)
(* each other, share a name, share a file with main(), call backwards,     *)
(* forwards, themselves and across modules, use the empty list, or do not  *)
(* parse.                                                                  *)
(***************************************************************************)
EXTENDS Compiler

Fn(name, calls) ==
    [is |-> "fn", name |-> name, foreign |-> FALSE, calls |-> calls,
     untyped |-> FALSE]
Untyped(name, calls) == [Fn(name, calls) EXCEPT !.untyped = TRUE]
Foreign(name) == [Fn(name, <<>>) EXCEPT !.foreign = TRUE]
Imp(names) == [is |-> "import", names |-> names]
Mod(name, body) == [is |-> "module", name |-> name, body |-> body]

File(items) == [lang |-> "ast", items |-> items, tail |-> "eof"]
Broken(items) == [lang |-> "ast", items |-> items, tail |-> "junk"]
Lone(items) == [lang |-> "ast", items |-> items, tail |-> "lone"]
RirFile == [lang |-> "rir", items |-> <<>>, tail |-> "eof"]
BrokenRirFile == [RirFile EXCEPT !.tail = "junk"]

MCStdlib ==
    File(<<Mod("stdlib", <<Foreign("io"), Fn("print", <<"io">>)>>)>>)

(* Main files: alone, importing, and with each kind of call.               *)
MainImportsA == File(<<Imp(<<"a">>), Fn("main", <<>>)>>)
MainPrintsA == File(<<Imp(<<"a">>), Fn("main", <<"print">>)>>)
MainImportsStdlib == File(<<Imp(<<"stdlib", "a">>), Fn("main", <<"f">>)>>)
MainFiles == {
    MainImportsA, MainPrintsA, MainImportsStdlib,
    File(<<Fn("main", <<>>)>>),
    File(<<Fn("main", <<"print">>)>>),
    File(<<Foreign("g"), Fn("f", <<"g">>), Fn("main", <<"f">>)>>),
    File(<<Fn("main", <<"f">>), Fn("f", <<>>)>>),
    File(<<Fn("f", <<"f">>), Fn("main", <<>>)>>),
    File(<<Fn("print", <<>>), Fn("main", <<"print">>)>>),
    File(<<Fn("main", <<"q">>)>>),
    File(<<Untyped("main", <<"print">>)>>),
    File(<<Imp(<<"c">>), Fn("main", <<>>)>>),
    File(<<Mod("a", <<Fn("f", <<>>)>>), Fn("main", <<>>)>>),
    File(<<Mod("b", <<>>), Imp(<<"b">>), Fn("main", <<>>)>>)}

(* Files of modules.                                                       *)
ALeaf == File(<<Mod("a", <<Fn("f", <<>>)>>)>>)
AImportsB == File(<<Mod("a", <<Imp(<<"b">>)>>)>>)
ACallsB == File(<<Mod("a", <<Imp(<<"b">>), Fn("f", <<"g">>)>>)>>)
APrintsB == File(<<Mod("a", <<Imp(<<"stdlib", "b">>), Fn("f", <<"g">>)>>)>>)
BLeaf == File(<<Mod("b", <<Fn("g", <<>>)>>)>>)
BImportsA == File(<<Mod("b", <<Imp(<<"a">>)>>)>>)
Both == File(<<Mod("a", <<Imp(<<"b">>)>>), Mod("b", <<Fn("f", <<>>)>>)>>)
LibraryFiles == {
    ALeaf, AImportsB, ACallsB, APrintsB, BLeaf, BImportsA, Both,
    File(<<Mod("a", <<Fn("f", <<>>), Fn("f", <<>>)>>)>>),
    File(<<Mod("b", <<Imp(<<"a">>), Fn("f", <<>>)>>)>>),
    File(<<Mod("a", <<Imp(<<"main">>)>>)>>),
    File(<<Mod("a", <<Imp(<<"stdlib">>), Fn("f", <<"print">>),
                      Fn("print", <<>>)>>)>>),
    File(<<Mod("a", <<Untyped("f", <<>>)>>)>>),
    File(<<Mod("b", <<Untyped("g", <<"q">>)>>)>>),
    File(<<Mod("stdlib", <<>>)>>),
    File(<<Fn("f", <<>>)>>),
    Broken(<<Mod("a", <<>>)>>),
    Lone(<<Mod("a", <<Fn("f", <<>>)>>)>>)}

Files == MainFiles \cup LibraryFiles

(* Three files at a time, of those that import each other.                 *)
Linked == {MainImportsA, MainPrintsA, MainImportsStdlib, ALeaf, AImportsB,
           ACallsB, APrintsB, BLeaf, BImportsA}

AstInputs ==
    UNION {[1..n -> Files] : n \in 0..2} \cup [1..3 -> Linked]
RirInputs == UNION {[1..n -> {RirFile, BrokenRirFile}] : n \in 1..2}

MCCommandLines ==
    [inputs : AstInputs \cup RirInputs, print : BOOLEAN]
=============================================================================
