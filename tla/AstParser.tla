----------------------------- MODULE AstParser -----------------------------
(***************************************************************************)
(* ast_parser_parse_file() over the tokens of one file: the accept         *)
(* functions of AcceptFunctions running on the lexer's cursor              *)
(* (lexer_push, lexer_pop, lexer_rollback), the parser's sticky error flag *)
(* and the messages of its info_ctx.  Positions count from 1, so tok_index *)
(* here is one more than in the code.                                      *)
(***************************************************************************)
EXTENDS AcceptFunctions, FiniteSets, SequencesExt

CONSTANT Files  \* the token sequences of the files that are parsed

ASSUME FilesAreTokens == Files \subseteq Seq(Kinds)

VARIABLES
    toks,        \* lexer.tokens
    tok_index,   \* lexer.tok_index
    indices,     \* lexer.indices, the marks that were pushed
    owned,       \* the value tokens with owned_by_lexer set
    have_syntax_err,
    posted,      \* how many messages are in the info_ctx
    infoMarks,   \* info_ctx.last_msgs_arr, as counts of messages
    stack,       \* the accept functions in progress, the innermost last
    taken,       \* how many tokens the statements of the root reach over
    verdict      \* "parsing", what ast_parser_parse_file() returned, or how
                 \* it broke off: on an assertion of the lexer ("misused"),
                 \* or otherwise ("crashed")

lexVars == <<tok_index, indices, owned>>
infoVars == <<have_syntax_err, posted, infoMarks>>
parseVars == <<toks, lexVars, infoVars, stack, taken, verdict>>

\* A call: the function and its operator level, the next step of it, tok, and
\* the value tokens of the nodes it holds.  base and from are how many marks
\* there were and where the cursor stood when it was called.
Call(f, lvl, base, from) ==
    [f |-> f, lvl |-> lvl, label |-> "start", at |-> 1, tok |-> from,
     got |-> {}, base |-> base, from |-> from]

ParseInit ==
    /\ toks \in Files
    /\ tok_index = 1
    /\ indices = <<>>
    /\ owned = {i \in DOMAIN toks : toks[i] \in ValueKinds}
    /\ have_syntax_err = FALSE
    /\ posted = 0
    /\ infoMarks = <<>>
    /\ stack = <<Call("parse_file", 0, 0, 1)>>
    /\ taken = 0
    /\ verdict = "parsing"

-----------------------------------------------------------------------------
Top == Last(stack)
Step == Steps(Top.f, Top.lvl, Top.label)[Top.at]
Does(what) == verdict = "parsing" /\ Step.do = what

\* lexer_lookahead(): the kind of token i, or that there is none.
Kind(i) == IF i \in DOMAIN toks THEN toks[i] ELSE "NULL"

After(call) == [call EXCEPT !.at = @ + 1]
To(call, l) == IF l = "next" THEN After(call)
               ELSE [call EXCEPT !.label = l, !.at = 1]
Resume(call) == stack' = [stack EXCEPT ![Len(stack)] = call]
Branch(call, test) ==
    Resume(IF test THEN After(call) ELSE To(call, Step.fail))

\* The innermost function returns a node, or NULL, and what it held is lost.
Return(found) ==
    LET calls == Front(stack)
        caller == Last(calls)
        call == Steps(caller.f, caller.lvl, caller.label)[caller.at]
    IN stack' = [calls EXCEPT ![Len(calls)] =
                    IF found
                    THEN To([caller EXCEPT !.got = @ \cup Top.got], call.ok)
                    ELSE To(caller, call.fail)]

Stop(v) == verdict' = v /\ UNCHANGED <<toks, lexVars, infoVars, stack, taken>>
-----------------------------------------------------------------------------
(* The lexer's cursor.                                                     *)

LexerPush ==
    /\ Does("push")
    /\ indices' = Append(indices, tok_index)
    /\ Resume(After(Top))
    /\ UNCHANGED <<toks, tok_index, owned, infoVars, taken, verdict>>

LexerPop ==
    /\ Does("pop")
    /\ IF indices = <<>> THEN Stop("misused")
       ELSE /\ indices' = Front(indices)
            /\ Resume(After(Top))
            /\ UNCHANGED <<toks, tok_index, owned, infoVars, taken, verdict>>

\* A mutation of GivenBack: every node read so far goes back.
AllGivenBack(mark) == {i \in 1..tok_index : Kind(i) \in ValueKinds}

\* The value tokens from the mark to the cursor, both included, go back to
\* the lexer.
GivenBack(mark) ==
    {i \in mark..tok_index : Kind(i) \in ValueKinds}

\* A mutation of LexerRollback: the cursor goes back to the first mark.
LexerRollbackToFirst ==
    /\ Does("undo")
    /\ IF indices = <<>> \/ Last(indices) > tok_index THEN Stop("misused")
       ELSE /\ tok_index' = Head(indices)
            /\ indices' = Front(indices)
            /\ owned' = owned \cup GivenBack(Last(indices))
            /\ Return(FALSE)
            /\ UNCHANGED <<toks, infoVars, taken, verdict>>

LexerRollback ==
    /\ Does("undo")
    /\ IF indices = <<>> \/ Last(indices) > tok_index THEN Stop("misused")
       ELSE /\ tok_index' = Last(indices)
            /\ indices' = Front(indices)
            /\ owned' = owned \cup GivenBack(Last(indices))
            /\ Return(FALSE)
            /\ UNCHANGED <<toks, infoVars, taken, verdict>>

\* lexer_curr_token_advance(), which stays put at the end of the tokens.
NextIndex == IF tok_index \in DOMAIN toks THEN tok_index + 1 ELSE tok_index

AdvanceOver ==
    /\ Does("advance")
    /\ tok_index' = NextIndex
    /\ Resume(After(Top))
    /\ UNCHANGED <<toks, indices, owned, infoVars, taken, verdict>>

\* tok = lexer_curr_token_advance(), and then a look at it.
TakeToken ==
    /\ Does("take")
    /\ tok_index' = NextIndex
    /\ Branch([Top EXCEPT !.tok = tok_index], Kind(tok_index) \in Step.kinds)
    /\ UNCHANGED <<toks, indices, owned, infoVars, taken, verdict>>

\* lexer_expect_token()
ExpectToken ==
    /\ Does("expect")
    /\ IF Kind(tok_index) \in Step.kinds
       THEN /\ tok_index' = NextIndex
            /\ Resume(After([Top EXCEPT !.tok = tok_index]))
       ELSE UNCHANGED tok_index /\ Resume(To(Top, Step.fail))
    /\ UNCHANGED <<toks, indices, owned, infoVars, taken, verdict>>

\* The tests that move nothing: of the next token, which "mark" and "look"
\* remember as tok, of tok, and of the token after tok.
LookAtToken ==
    /\ \/ Does("mark") /\ Resume(After([Top EXCEPT !.tok = tok_index]))
       \/ /\ Does("look")
          /\ Branch([Top EXCEPT !.tok = tok_index], Kind(tok_index) \in Step.kinds)
       \/ Does("ahead") /\ Branch(Top, Kind(tok_index) \in Step.kinds)
       \/ Does("is") /\ Branch(Top, Kind(Top.tok) \in Step.kinds)
       \/ Does("is2") /\ Branch(Top, Kind(Top.tok + 1) \in Step.kinds)
       \/ Does("goto") /\ Resume(To(Top, Step.fail))
    /\ UNCHANGED <<toks, lexVars, infoVars, taken, verdict>>

\* lexer_token_get_value(): the node of the token leaves the lexer.
TokenGetValue ==
    /\ Does("value")
    /\ owned' = owned \ {Top.tok}
    /\ Resume(After([Top EXCEPT !.got = @ \cup {Top.tok}]))
    /\ UNCHANGED <<toks, tok_index, indices, infoVars, taken, verdict>>
-----------------------------------------------------------------------------
(* Errors: parser_synerr(), the flag, and the info_ctx.                    *)

PostSyntaxError ==
    /\ Does("post")
    /\ posted' = posted + 1
    /\ have_syntax_err' = TRUE
    /\ Resume(After(Top))
    /\ UNCHANGED <<toks, lexVars, infoMarks, taken, verdict>>

HasSyntaxError ==
    /\ Does("if_error") \/ Does("if_error_reset")
    /\ Branch(Top, ~have_syntax_err)
    /\ have_syntax_err' = (have_syntax_err /\ Step.do = "if_error")
    /\ UNCHANGED <<toks, lexVars, posted, infoMarks, taken, verdict>>

InfoCtxPush ==
    /\ Does("info_push")
    /\ infoMarks' = Append(infoMarks, posted)
    /\ Resume(After(Top))
    /\ UNCHANGED <<toks, lexVars, have_syntax_err, posted, taken, verdict>>

\* info_ctx_pop(), and ast_parser_info_rollback(), which clears the flag too.
InfoCtxPop ==
    /\ infoMarks # <<>>
    /\ \/ Does("info_pop") /\ UNCHANGED <<have_syntax_err, posted>>
       \/ /\ Does("info_rollback")
          /\ posted' = Last(infoMarks)
          /\ have_syntax_err' = FALSE
    /\ infoMarks' = Front(infoMarks)
    /\ Resume(After(Top))
    /\ UNCHANGED <<toks, lexVars, taken, verdict>>
-----------------------------------------------------------------------------
(* Calls and returns.                                                      *)

Chosen ==
    \/ Step.do = "call"
    \/ /\ Step.do \in {"when", "when2"}
       /\ Kind(Top.tok) \in Step.kinds
       /\ Step.do = "when2" => Kind(Top.tok + 1) \in Step.second

CallAccept ==
    /\ Does("call") \/ Does("when") \/ Does("when2")
    /\ IF Chosen
       THEN stack' = Append(stack, Call(Step.f, Step.lvl, Len(indices), tok_index))
       ELSE Resume(After(Top))
    /\ UNCHANGED <<toks, lexVars, infoVars, taken, verdict>>

ReturnNode ==
    /\ Does("ok")
    /\ Return(TRUE)
    /\ UNCHANGED <<toks, lexVars, infoVars, taken, verdict>>

ReturnNull ==
    /\ Does("fail")
    /\ Return(FALSE)
    /\ UNCHANGED <<toks, lexVars, infoVars, taken, verdict>>

\* The loop of ast_parser_parse_file() adds the statement to the root.
AdoptStatement ==
    /\ Does("adopt")
    /\ taken' = tok_index - 1
    /\ Resume(After(Top))
    /\ UNCHANGED <<toks, lexVars, infoVars, verdict>>

FinishFile == Does("finish") /\ Stop(Step.verdict)

\* A NULL token is used.
UseToken ==
    /\ Does("must_exist")
    /\ IF Kind(tok_index) = "NULL" THEN Stop("crashed")
       ELSE Resume(After(Top)) /\ UNCHANGED <<toks, lexVars, infoVars, taken, verdict>>

\* What was read since tok is an identifier, in parentheses or not.
IsIdentifier(from, to) ==
    \E i \in from..to :
        /\ Kind(i) = "id"
        /\ i - from = to - i
        /\ \A j \in from..to : /\ j < i => Kind(j) = "("
                               /\ j > i => Kind(j) = ")"

\* ast_node_get_name_str() asserts that it is.
NameOfNode ==
    /\ Does("name_of")
    /\ IF IsIdentifier(Top.tok + 1, tok_index - 1)
       THEN Resume(After(Top)) /\ UNCHANGED <<toks, lexVars, infoVars, taken, verdict>>
       ELSE Stop("crashed")

\* The unset pointer is followed: it may or may not be a place to read from.
ReadUnsetLocal ==
    /\ Does("read_unset")
    /\ \/ Stop("crashed")
       \/ Resume(After(Top)) /\ UNCHANGED <<toks, lexVars, infoVars, taken, verdict>>

ParseStep ==
    \/ LexerPush \/ LexerPop \/ LexerRollback \/ AdvanceOver \/ TakeToken
    \/ ExpectToken \/ LookAtToken \/ TokenGetValue \/ PostSyntaxError
    \/ HasSyntaxError \/ InfoCtxPush \/ InfoCtxPop \/ CallAccept \/ ReturnNode
    \/ ReturnNull \/ AdoptStatement \/ FinishFile \/ UseToken \/ NameOfNode
    \/ ReadUnsetLocal

Parsed == verdict # "parsing"
ParseNext == ParseStep \/ (Parsed /\ UNCHANGED parseVars)
ParseSpec == ParseInit /\ [][ParseNext]_parseVars /\ WF_parseVars(ParseStep)
-----------------------------------------------------------------------------
(* Properties.                                                             *)

ParseTypeOK ==
    /\ tok_index \in 1..Len(toks) + 1
    /\ \A m \in DOMAIN indices : indices[m] \in 1..Len(toks) + 1
    /\ owned \subseteq DOMAIN toks
    /\ have_syntax_err \in BOOLEAN
    /\ posted \in Nat
    /\ taken \in 0..Len(toks)
    /\ verdict \in {"parsing", "accepted", "rejected", "misused", "crashed"}
    /\ \A c \in DOMAIN stack : stack[c].got \subseteq DOMAIN toks

\* The assertion of lexer_rollback(), "asked to rollback to a token ahead of
\* us?": no mark on the stack is ahead of the cursor, and a mark is never
\* ahead of one that was set after it, which keeps this true of the marks below.
MarksAscend ==
    /\ \A m \in DOMAIN indices : indices[m] <= tok_index
    /\ \A m, n \in DOMAIN indices : m <= n => indices[m] <= indices[n]

\* No accept function takes away a mark of its callers: whatever it pops or
\* rolls back to was set since it was called, at or after the token where it
\* was called.  So there always is a mark, as lexer_pop() and lexer_rollback()
\* assert.
CallersMarksSurvive ==
    /\ verdict # "misused"
    /\ \A c \in DOMAIN stack :
        /\ Len(indices) >= stack[c].base
        /\ \A m \in DOMAIN indices :
            m > stack[c].base => indices[m] >= stack[c].from

\* An assertion of the parser fails, or a missing token is read, only where the
\* file ends too early, where an index that is not a name is not closed, or
\* where the body of a function is a single case.
CrashIsExplained ==
    verdict = "crashed" =>
        \/ tok_index = Len(toks) + 1
        \/ /\ Kind(tok_index) # "]"
           /\ \E i \in 1..tok_index - 2 :
                toks[i] = "[" /\ ~IsIdentifier(i + 1, tok_index - 1)
        \/ \E i \in 1..tok_index - 1 : toks[i] = "=>"

\* Whatever way an accept function takes, the state it hands back is one its
\* callers can go on with, but for the files that CrashIsExplained names.
ParserInv == ParseTypeOK /\ CallersMarksSurvive /\ CrashIsExplained

\* The two functions that return a node and leave their mark behind are the
\* block with nothing in it and the match expression without a body.
LeavesMark ==
    \E i \in DOMAIN toks :
        \/ toks[i] = "{" /\ Kind(i + 1) \in {"}", "return"}
        \/ toks[i] = "match" /\ "{" \notin {Kind(i + 2), Kind(i + 4)}

\* "failure in this means syntax error" (generics.c), "will always post a
\* syntax error if it fails" (ifexpr.c): the callers of these functions give
\* up without a message of their own.
FailureIsPosted ==
    Top.f \in {"genrtype", "condbranch", "ifexpr", "elifexpr"}
        /\ (Does("fail") \/ Does("undo"))
        => have_syntax_err

\* The node of a value token belongs to one owner: the lexer, which frees it
\* in lexer_deinit(), or one of the nodes under construction.
OneOwner ==
    \A c \in DOMAIN stack :
        /\ stack[c].got \cap owned = {}
        /\ c < Len(stack) => stack[c].got \cap Top.got = {}

Count(k) == Cardinality({i \in 1..taken : toks[i] = k})
BracketsPair ==
    \A p \in {<<"{", "}">>, <<"(", ")">>, <<"[", "]">>} : Count(p[1]) = Count(p[2])

Clean == verdict = "accepted" /\ posted = 0

\* A file that parses without a message is its statements: its brackets pair,
\* the tree holds the value tokens of the statements and the lexer those of
\* the rest, if any.  The rest can only be a function header at the very end.
AcceptedIsComplete ==
    Clean /\ ~LeavesMark =>
        /\ BracketsPair
        /\ Top.got = {i \in 1..taken : toks[i] \in ValueKinds}
        /\ taken < Len(toks) => toks[taken + 1] = "fn"

\* A message of the parser means that the file is refused, but for two errors
\* the parser steps over: a `return' with nothing to return at the end of a
\* block, and a `module' that ends the file.
ErrorIsFatal ==
    verdict = "accepted" /\ posted > 0 /\ ~LeavesMark =>
        \/ taken = Len(toks) - 1 /\ Last(toks) = "module"
        \/ \E i \in 1..taken - 1 : toks[i] = "return" /\ toks[i + 1] = "}"

\* A function that should have posted a message has, and a message that was
\* posted is not lost: no rollback of messages hides an error.
MessagesAreRight == FailureIsPosted /\ ErrorIsFatal

\* The parser comes to an end on every file.
ParserStops == <>Parsed

=============================================================================
