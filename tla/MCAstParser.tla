---------------------------- MODULE MCAstParser ----------------------------
(***************************************************************************)
(* The parser on small files: a few of each construct, and everything that *)
(* is one edit away from one of them.                                      *)
(***************************************************************************)
EXTENDS AstParser

MCKinds ==
    {"id", "num", "str", "true", "const", "fn", "type", "module", "import",
     "foreign_import", "if", "elif", "else", "for", "in", "match", "return",
     "(", ")", "{", "}", "[", "]", "<", ">", ",", ":", "->", "=>", "|", "=",
     "+", "-", ".", "++"}

Declarations ==
    {<<"type", "id", "{", "id", ":", "id", ",", "id", ":", "id", "|", "id", "}">>,
     <<"type", "id", "{", "id", ":", "(", "id", "->", "id", ")", "}">>,
     <<"import", "id", ",", "id">>,
     <<"foreign_import", "id", "(", "id", ")", "->", "id", ",", "id">>,
     <<"module", "id", "{", "import", "id", "fn", "id", "(", ")", "{", "id", "}", "}">>,
     <<"module", "id", "(", "id", ":", "id", ")", "{", "type", "id", "{", "id", "}", "}">>,
     <<"id", ":", "const", "id", "[", "num", "]", "[", "]">>,
     <<"fn", "id", "<", "id", "id", ",", "id", "id", ">", "(", "id", ":", "id", ")", "->", "id", "{", "return", "id", "}">>,
     <<"fn", "id", "(", ")", "{", "}", "fn", "id", "(", ")", "{", "num", "}">>}

Expressions ==
    {<<"{", "id", ":", "id", "<", "id", ",", "(", "id", ")", ">", "=", "num", "+", "num", "}">>,
     <<"{", "id", "<", "id", ">", "(", "id", ")", "id", "<", "num", "}">>,
     <<"{", "id", "(", "id", ",", "num", ")", "[", "id", "]", ".", "id", "++", "}">>,
     <<"{", "-", "(", "id", ")", "[", "num", ",", "str", "]", "}">>,
     <<"{", "if", "id", "{", "num", "}", "elif", "id", "{", "num", "}", "else", "{", "num", "}", "}">>,
     <<"{", "for", "id", "in", "num", ":", "num", ":", "id", "{", "id", "}", "}">>,
     <<"{", "for", "id", "in", "id", "{", "true", "}", "}">>,
     <<"{", "match", "id", "{", "id", "=>", "id", "(", "id", ")", "=>", "num", "}", "}">>,
     <<"fn", "id", "(", "id", ":", "id", "|", "id", ")", "id", "=>", "num", "id", "=>", "{", "num", "}">>,
     <<"fn", "id", "(", ")", "{", "id", "<", "id", ">", "(", "{", "}", ")", "}">>,
     <<"{", "match", "id", "{", "id", "=>", "match", "id", "}", "}">>}

\* The edits: the file cut short, one token left out, put in or replaced.
CutShort(file) == {SubSeq(file, 1, n) : n \in 0..Len(file)}
LeftOut(file) == {RemoveAt(file, i) : i \in DOMAIN file}
PutIn(file, ks) == {InsertAt(file, i, k) : i \in DOMAIN file, k \in ks}
Replaced(file, ks) == {[file EXCEPT ![i] = k] : i \in DOMAIN file, k \in ks}

MCEdits ==
    {"id", ",", "<", "(", ")", "{", "}", "]", "return", "const"}

MCFiles ==
    UNION {CutShort(file) \cup LeftOut(file) \cup PutIn(file, MCEdits)
               \cup Replaced(file, MCEdits)
           : file \in Declarations \cup Expressions}
=============================================================================
