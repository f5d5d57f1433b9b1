----------------------------- MODULE ScopeRules -----------------------------
(***************************************************************************)
(* The source as trees, and what its names should mean: a name is bound to *)
(* the declaration in the innermost scope around it that has one, and else *)
(* to what the modules it uses declare.  Nothing here walks a tree or      *)
(* keeps a table: scopes are prefixes of paths.                            *)
(*                                                                         *)
(* A node is [k, name, ty, ch]: its kind, the name it declares or uses,    *)
(* the name of the type it mentions, its children.  A path is a sequence   *)
(* of child numbers.  A program is a sequence of modules [tree, deps,      *)
(* file], in the order in which they are analyzed.                         *)
(***************************************************************************)
EXTENDS Integers, SequencesExt, FiniteSets

CONSTANT MaxDepth   \* what no tree is as deep as

VARIABLE prog       \* the program that is analyzed

NoName == ""
NoWhere == <<0, <<>>>>
Elementary == {"i32", "i64", "i32[]"}

NodeOf(tree, p) ==
    LET node[k \in 0..Len(p)] == IF k = 0 THEN tree ELSE node[k - 1].ch[p[k]]
    IN  node[Len(p)]
Node(m, p) == NodeOf(prog[m].tree, p)
Kind(m, p) == Node(m, p).k
Children(m, p) == Node(m, p).ch
Above(p) == Front(p)
ModuleName(m) == prog[m].tree.name

(* All paths of a tree, and what the parser hands over.                    *)
PathsOf(tree) ==
    LET below[p \in Seq(Nat)] ==
            {p} \cup (IF Len(p) < MaxDepth
                     THEN UNION {below[Append(p, i)] :
                                 i \in 1..Len(NodeOf(tree, p).ch)}
                     ELSE {})
    IN  below[<<>>]
Paths(m) == PathsOf(prog[m].tree)

IsSeq(s) == s \in Seq(Range(s))
IsTree(tree) ==
    \A p \in PathsOf(tree) : Len(p) < MaxDepth /\ IsSeq(NodeOf(tree, p).ch)

(* What the parser makes of a file, as far as scopes depend on it: the head *)
(* of a function, the pattern of a case and the variable of a loop are the *)
(* first child of it, a variable declaration has one name, and nothing     *)
(* that opens a scope is below a pattern or a list of arguments.           *)
IsHead(node) == node.k = "fndecl" /\ node.ty = "impl"
IsSource(tree) ==
    \A p \in PathsOf(tree) :
        LET node == NodeOf(tree, p)
        IN  /\ node.k \in {"root", "module"} <=> p = <<>>
            /\ node.k \in {"fnimpl", "fndecl", "case", "vardecl", "for"}
                    => node.ch # <<>>
            /\ node.k \in {"leaf", "xid", "loopvar", "iter"} => node.ch = <<>>
            /\ node.k = "fndecl" => node.ty \in {"impl", "foreign"}
            /\ \A i \in DOMAIN node.ch :
                /\ IsHead(node.ch[i]) <=> node.k = "fnimpl" /\ i = 1
                /\ node.ch[i].k = "typedesc" => i = 1
                /\ node.k = "case" /\ i = 1 => node.ch[i].k = "typedesc"
                /\ node.k = "fndecl" => node.ch[i].k \in {"typedesc", "xid"}
                /\ node.ch[i].k = "leaf" <=> node.k \in {"typedesc", "vardecl"}
                /\ node.k = "vardecl" => i = 1
                /\ node.ch[i].k = "loopvar" <=> node.k = "for" /\ i = 1
                /\ node.k = "for" => node.ch[i].k \in {"loopvar", "iter", "block"}

-----------------------------------------------------------------------------
(* Scopes and what is declared in them.  A function and its head are one   *)
(* scope, a case and its pattern too.                                      *)

OpensScope == {"root", "module", "fnimpl", "typedesc", "block", "for", "case"}
IsScope(m, p) == Kind(m, p) \in OpensScope
Beginnings(p) == {SubSeq(p, 1, k) : k \in 0..Len(p)}
Longest(paths) == CHOOSE q \in paths : \A r \in paths : Len(r) <= Len(q)
ScopesAround(m, p) == {q \in Beginnings(p) : IsScope(m, q)}
ScopeAround(m, p) == Longest(ScopesAround(m, p))

(* The scopes that see a declaration: an argument is seen by its function, *)
(* the names of a pattern by the case, and both by the description.        *)
VisibleIn(m, p) ==
    LET scope == ScopeAround(m, Above(p))
        owner == Above(scope)
    IN  CASE Kind(m, p) = "fndecl" /\ Node(m, p).ty = "impl" ->
                {ScopeAround(m, Above(Above(p)))}
          [] Kind(m, p) = "leaf" /\ Kind(m, scope) = "typedesc"
             /\ Kind(m, owner) = "case" -> {scope, owner}
          [] Kind(m, p) = "leaf" /\ Kind(m, scope) = "typedesc"
             /\ Kind(m, owner) = "fndecl" /\ Node(m, owner).ty = "impl" ->
                {scope, Above(owner)}
          [] OTHER -> {scope}

Declarators == {"fndecl", "typedecl", "leaf", "loopvar"}
Declarations(m, name) ==
    {p \in Paths(m) :
        Kind(m, p) \in Declarators /\ Node(m, p).name = name}
In(m, scope, name) ==
    {p \in Declarations(m, name) : scope \in VisibleIn(m, p)}

(* Declarations a name at a place may mean: those of the innermost scope   *)
(* with any.                                                               *)
Innermost(m, p, name) ==
    LET with == {q \in ScopesAround(m, p) : In(m, q, name) # {}}
    IN  IF with = {} THEN {}
        ELSE {<<m, q>> : q \in In(m, Longest(with), name)}

(* The modules of a file that were analyzed so far are known by name.      *)
InFile(m, name) ==
    {<<n, <<>>>> : n \in {n \in 1..m : prog[n].file = prog[m].file
                        /\ Kind(n, <<>>) = "module" /\ ModuleName(n) = name}}

(* What all of the file of n sees while m is analyzed: its modules so far, *)
(* by name, and the names at the top of its main module.                   *)
AtFile(m, n, name) ==
    UNION {IF Kind(k, <<>>) = "root" THEN {<<k, p>> : p \in In(k, <<>>, name)}
           ELSE IF ModuleName(k) = name THEN {<<k, <<>>>>} ELSE {} :
               k \in {k \in 1..m : prog[k].file = prog[n].file}}

(* What a module gets from those it uses, the first one first.  A module   *)
(* keeps what has its own name to itself, and main what it gets.           *)
FromUsed(n, name, exported) ==
    LET deps == prog[n].deps
        used == {i \in DOMAIN deps :
                    name # ModuleName(deps[i]) /\ exported[deps[i]] # {}}
    IN  IF used = {} THEN {} ELSE exported[deps[Min(used)]]
Inherited(m, name) ==
    LET exported[d \in 1..Len(prog)] ==
            IF Innermost(d, <<>>, name) # {} THEN Innermost(d, <<>>, name)
            ELSE IF AtFile(m, d, name) # {} THEN AtFile(m, d, name)
            ELSE IF Kind(d, <<>>) = "root" THEN {}
            ELSE FromUsed(d, name, exported)
    IN  FromUsed(m, name, exported)

Meanings(m, p, name) ==
    IF Innermost(m, p, name) # {} THEN Innermost(m, p, name)
    ELSE IF AtFile(m, m, name) # {} THEN AtFile(m, m, name)
    ELSE Inherited(m, name)

FunctionAround(m, p) ==
    LET around == {q \in ScopesAround(m, p) : Kind(m, q) = "fnimpl"}
    IN  IF around = {} THEN NoWhere ELSE <<m, Append(Longest(around), 1)>>
=============================================================================
