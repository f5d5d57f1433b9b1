------------------------------ MODULE Scanner ------------------------------
(***************************************************************************)
(* lexer_scan(): the text of a file to its tokens, for the language and    *)
(* for the intermediate representation.  One step is one round of the      *)
(* loop, the white space before the token included.  A byte is a string    *)
(* of length one; the type of a keyword or a symbol is its text.           *)
(***************************************************************************)
EXTENDS Integers, Sequences, FiniteSets, FiniteSetsExt

CONSTANT Sources        \* the files, [rir, text]

ASSUME TextsAreFinite == \A s \in Sources : Len(s.text) \in Nat

VARIABLES
    file,       \* lexer.file and lexer.vt: [rir, text]
    pos,        \* where the string of the file begins
    lines,      \* inpfile.offset.lines_moved
    tokens,     \* lexer.tokens, each [type, first, last, line]
    at_eof,     \* lexer.at_eof
    stage,      \* "scan", "done" or "failed"
    messages    \* the syntax errors, each the byte it is reported at

svars == <<file, pos, lines, tokens, at_eof, stage, messages>>

-----------------------------------------------------------------------------
Bytes(first, last) == SubSeq(file.text, first, last)
Byte(i) == Bytes(i, i)
Lim == Len(file.text)

Letters == {"a", "b", "c", "d", "e", "f", "g", "h", "i", "j", "k", "l", "m",
    "n", "o", "p", "q", "r", "s", "t", "u", "v", "w", "x", "y", "z", "A",
    "B", "C", "D", "E", "F", "G", "H", "I", "J", "K", "L", "M", "N", "O",
    "P", "Q", "R", "S", "T", "U", "V", "W", "X", "Y", "Z", "_"}
Quote == "\""
Digits == {"0", "1", "2", "3", "4", "5", "6", "7", "8", "9"}
IdentifierBegins(c) == c \in Letters \/ (file.rir /\ c \in {"$", "%"})
InIdentifier == Letters \cup Digits
White == {" ", "\t", "\n", "\r"}

Keywords == {"const", "type", "fn", "class", "instance", "if", "elif", "else",
    "for", "in", "return", "true", "false", "match", "module", "import",
    "foreign_import"}
Symbols == {":", "{", "}", "[", "]", "(", ")", "\"", "=>", "+", "-", "*", "/",
    "=", "==", "!=", ">", ">=", "<", "<=", "&", "++", "--", "|", ",", "->",
    ".", "&&", "||", "^"}
RirKeywords == {"global", "uniondef", "typedef", "fndef", "fndecl", "return",
    "branch", "condbranch", "convert", "write", "read", "call", "add", "sub",
    "mul", "div", "cmpeq", "cmpne", "cmpgt", "cmpge", "cmplt", "cmple"}
RirSymbols == {"{", "}", "[", "]", "(", ")", "\"", ",", "-", "*", "=", ";"}
LexemesOf(rir) == IF rir THEN RirKeywords \cup RirSymbols
                  ELSE Keywords \cup Symbols
Lexemes == LexemesOf(file.rir)
AmbiguousBytes == {"+", "-", ">", "<", "|", "=", "&"}
Ambiguous(c) == ~file.rir /\ c \in AmbiguousBytes

(* What the tables of lexemes say of a text, byte by byte: a lexeme of     *)
(* several bytes is a word, of letters, or a symbol of two bytes.  A byte  *)
(* that is a symbol and begins a longer one is ambiguous.                  *)
ASSUME LexemesByBytes ==
    \A s \in Sources : \A i, j \in 1..Len(s.text) :
        LET first == SubSeq(s.text, i, i)
            last == SubSeq(s.text, j, j)
        IN  i < j /\ SubSeq(s.text, i, j) \in LexemesOf(s.rir)
            => \/ first \in Letters /\ last \in Letters
               \/ /\ j = i + 1 /\ first \notin Letters \cup {"$", "%"}
                  /\ last \notin White \cup {Quote, "/"}
                  /\ first \in LexemesOf(s.rir)
                     => ~s.rir /\ first \in AmbiguousBytes

(* The last byte of the run of some bytes that begins at i, i - 1 for none.*)
Before(stops) == IF stops = {} THEN Lim ELSE Min(stops) - 1
RunEnd(i, bytes) == Before({k \in i..Lim : Byte(k) \notin bytes})
Word(i) == RunEnd(i + 1, InIdentifier)
UpToWhite(i) == Before({k \in i + 1..Lim : Byte(k) \in White})

NewLines(first, last) == {k \in first..last : Byte(k) = "\n"}

(* inpstr_ptr_to_linecol(): the line whose range holds the byte.           *)
LineOf(i) ==
    LET starts == {1} \cup {k + 1 : k \in NewLines(1, Lim)}
    IN  Cardinality({s \in starts : s <= i}) - 1

-----------------------------------------------------------------------------
ScannerInit ==
    /\ file \in Sources
    /\ pos = 1 /\ lines = 0 /\ tokens = <<>> /\ at_eof = FALSE
    /\ stage = "scan" /\ messages = <<>>

(* The byte the next token begins at.                                      *)
Start == RunEnd(pos, White) + 1
Scanning == stage = "scan" /\ ~at_eof /\ Start <= Lim
Begins(c) == Scanning /\ Byte(Start) = c
FollowedBy(bytes) == Start < Lim /\ Byte(Start + 1) \in bytes

MoveTo(to) ==
    /\ pos' = to
    /\ lines' = lines + Cardinality(NewLines(pos, to - 1))

(* A value or a word that ends the file leaves its last byte unread.       *)
TakenTo(last) ==
    IF last = Lim THEN MoveTo(last) /\ at_eof' = TRUE
    ELSE MoveTo(last + 1) /\ UNCHANGED at_eof

Added(type, last) ==
    /\ tokens' = Append(tokens, [type |-> type, first |-> Start, last |-> last,
                                 line |-> LineOf(Start)])
    /\ UNCHANGED <<file, stage, messages>>

(* Errors are at the last token that was made, or at the file's start.     *)
LastToken == IF tokens = <<>> THEN 0 ELSE tokens[Len(tokens)].first
Failed(at) ==
    /\ stage' = "failed" /\ messages' = messages \o at
    /\ MoveTo(Start) /\ UNCHANGED <<file, tokens, at_eof>>

-----------------------------------------------------------------------------
NameType(i) ==
    IF Bytes(i, Word(i)) \in Lexemes THEN Bytes(i, Word(i))
    ELSE IF file.rir /\ Byte(i) = "$" THEN "variable"
    ELSE IF file.rir /\ Byte(i) = "%" THEN "label"
    ELSE "identifier"

ScanIdentifier ==
    /\ Scanning /\ IdentifierBegins(Byte(Start))
    /\ Added(NameType(Start), Word(Start)) /\ TakenTo(Word(Start))

(* The conversions of the string library take the longest prefix that is a *)
(* number; what they do of a prefix 0x or 0b with no digit is left open (0 *)
(* is a failure).                                                          *)
Integer(i, digits) == {RunEnd(i, digits)}
AfterPrefix(i, digits) ==
    IF RunEnd(i + 2, digits) > i + 1 THEN Integer(i + 2, digits) ELSE {0, i}
Exponent(i) ==
    LET signed == IF i + 1 <= Lim /\ Byte(i + 1) \in {"+", "-"} THEN i + 2 ELSE i + 1
    IN  IF i <= Lim /\ Byte(i) \in {"e", "E"} /\ RunEnd(signed, Digits) >= signed
        THEN RunEnd(signed, Digits) ELSE i - 1
Real(i) ==
    LET whole == RunEnd(i, Digits)
        mantissa == IF whole < Lim /\ Byte(whole + 1) = "."
                    THEN RunEnd(whole + 2, Digits) ELSE whole
    IN  {Exponent(mantissa + 1)}

(* A mutation of IsFloat: a point anywhere before the next white space.    *)
IsFloatIfPoint(i) == \E k \in i..UpToWhite(i) : Byte(k) = "."

(* Up to the next white space a digit stands before a point.               *)
IsFloat(i) ==
    \E k \in i..UpToWhite(i) - 1 : Byte(k) \in Digits /\ Byte(k + 1) = "."

HexDigits == Digits \cup {"a", "b", "c", "d", "e", "f", "A", "B", "C", "D", "E", "F"}

(* lexer_get_numeric(): [type, ends] of the literal whose digits begin at i*)
Literal(i) ==
    LET Whole(ends) == [type |-> "integer", ends |-> ends]
        Prefix(bytes) == Byte(i) = "0" /\ i < Lim /\ Byte(i + 1) \in bytes
    IN  CASE Prefix({"x"}) -> Whole(AfterPrefix(i, HexDigits))
          [] Prefix({"b"}) -> Whole(AfterPrefix(i, {"0", "1"}))
          [] Prefix(Digits) -> Whole(Integer(i, Digits \ {"8", "9"}))
          [] OTHER -> IF IsFloat(i) THEN [type |-> "float", ends |-> Real(i)]
                      ELSE Whole(Integer(i, Digits))

ScanLiteral(i) ==
    \E last \in Literal(i).ends :
        IF last = 0 THEN Failed(<<LastToken>>)
        ELSE Added(Literal(i).type, last) /\ TakenTo(last)
ScanNumber == Scanning /\ Byte(Start) \in Digits /\ ScanLiteral(Start)
ScanNegative == Begins("-") /\ FollowedBy(Digits) /\ ScanLiteral(Start + 1)

(* Behind the new line, or at the last byte of the file.                   *)
CommentEnd(i) ==
    LET ends == NewLines(i + 2, Lim - 1)
    IN  IF ends # {} THEN Min(ends) + 1 ELSE Max({i + 2, Lim})
ScanComment ==
    /\ Begins("/") /\ FollowedBy({"/"})
    /\ MoveTo(CommentEnd(Start))
    /\ UNCHANGED <<file, tokens, at_eof, stage, messages>>

(* A mutation of Closing: the backslash is not looked for.                 *)
ClosingAny(i) == {k \in i + 1..Lim : Byte(k) = Quote}

(* A quote that follows a backslash does not close the literal.            *)
Closing(i) == {k \in i + 1..Lim : Byte(k) = Quote /\ Byte(k - 1) # "\\"}
ScanString ==
    /\ Begins(Quote) /\ Closing(Start) # {}
    /\ Added("string literal", Min(Closing(Start)))
    /\ TakenTo(Min(Closing(Start)))
Unterminated ==
    /\ Begins(Quote) /\ Closing(Start) = {}
    /\ Failed(<<LastToken, LastToken>>)

(* A mutation of SymbolLength: the shortest lexeme, always.                *)
SymbolLengthShort(i) ==
    IF Bytes(i, i) \in Lexemes THEN 1
    ELSE IF i < Lim /\ Bytes(i, i + 1) \in Lexemes THEN 2 ELSE 0

(* The shortest lexeme at i, or the one of two bytes where more than one   *)
(* may begin with its byte; 0 for none.                                    *)
SymbolLength(i) ==
    IF Bytes(i, i) \in Lexemes
    THEN IF i < Lim /\ Ambiguous(Byte(i)) /\ Bytes(i, i + 1) \in Lexemes
         THEN 2 ELSE 1
    ELSE IF i < Lim /\ Bytes(i, i + 1) \in Lexemes THEN 2 ELSE 0

AtSymbol ==
    /\ Scanning /\ ~IdentifierBegins(Byte(Start)) /\ Byte(Start) \notin Digits
    /\ Byte(Start) # Quote /\ ~(Byte(Start) = "-" /\ FollowedBy(Digits))
    /\ ~(Byte(Start) = "/" /\ FollowedBy({"/"}))
ScanSymbol ==
    /\ AtSymbol /\ SymbolLength(Start) > 0
    /\ \E last \in {Start + SymbolLength(Start) - 1} :
        Added(Bytes(Start, last), last) /\ MoveTo(last + 1)
    /\ UNCHANGED at_eof
UnknownToken ==
    AtSymbol /\ SymbolLength(Start) = 0 /\ Failed(<<Start>>)

ScanEnds ==
    /\ stage = "scan" /\ (at_eof \/ Start > Lim)
    /\ stage' = "done"
    /\ MoveTo(IF at_eof THEN pos ELSE Start)
    /\ UNCHANGED <<file, tokens, at_eof, messages>>
ScannerDone == stage # "scan" /\ UNCHANGED svars

ScannerNext ==
    \/ ScanIdentifier \/ ScanNumber \/ ScanNegative \/ ScanComment
    \/ ScanString \/ Unterminated \/ ScanSymbol \/ UnknownToken
    \/ ScanEnds \/ ScannerDone
ScannerSpec == ScannerInit /\ [][ScannerNext]_svars

-----------------------------------------------------------------------------
(* What the text says, without a scan: where a comment or a string literal *)
(* goes on, byte by byte: "code", "string", "escape", "slash", "comment".  *)
GoesOn(before, c) ==
    CASE before = "comment" -> IF c = "\n" THEN "newline" ELSE "comment"
      [] before \in {"string", "escape"} ->
            IF c = "\\" THEN "escape"
            ELSE IF c = Quote /\ before = "string" THEN "close"
            ELSE "string"
      [] OTHER ->
            IF c = Quote THEN "string"
            ELSE IF c # "/" THEN "code"
            ELSE IF before = "slash" THEN "comment" ELSE "slash"
Inside ==
    LET at[i \in 0..Lim] ==
        IF i = 0 THEN "code" ELSE GoesOn(at[i - 1], Byte(i))
    IN  at
InComment == {i \in 1..Lim : Inside[i] \in {"comment", "newline"}
                             \/ (i < Lim /\ Inside[i] = "slash" /\ Inside[i + 1] = "comment")}
Covered == UNION {tokens[t].first..tokens[t].last : t \in DOMAIN tokens}

(* The position and the tokens are of the file, in its order, and a token  *)
(* ends before the next one begins.                                        *)
TextsOfFile == {Bytes(i, j) : i, j \in 1..Lim}
KindsOfToken ==
    {"identifier", "variable", "label", "integer", "float", "string literal"}
TokensOfFile ==
    [type : KindsOfToken \cup TextsOfFile,
     first : 1..Lim, last : 1..Lim, line : Nat]
ScannerTypeOK ==
    /\ pos \in 1..Lim + 1 /\ at_eof \in BOOLEAN
    /\ stage \in {"scan", "done", "failed"} /\ tokens \in Seq(TokensOfFile)
    /\ \A t \in DOMAIN tokens :
        /\ tokens[t].first <= tokens[t].last
        /\ t > 1 => tokens[t - 1].last < tokens[t].first

(* A file that is accepted is its tokens, its white space and its comments,*)
(* each byte once.  The last line is not to be a comment.                  *)
IsScannedOnce(i) ==
    CASE i \in InComment -> i \notin Covered
      [] Inside[i] \in {"string", "escape", "close"} -> i \in Covered
      [] OTHER -> i \in Covered <=> Byte(i) \notin White
EndsInComment == Inside[Lim] = "comment"
NothingIsLost ==
    stage = "done" /\ ~EndsInComment => \A i \in 1..Lim : IsScannedOnce(i)

(* No symbol or word could have been one byte longer.                      *)
TokensAreLongest ==
    \A t \in DOMAIN tokens :
        LET x == tokens[t]
            longer == Bytes(x.first, x.last + 1)
        IN  x.last < Lim /\ x.type \notin {"integer", "float", "string literal"}
            => /\ longer \notin Lexemes
               /\ IdentifierBegins(Byte(x.first)) => Byte(x.last + 1) \notin InIdentifier

(* The type of a constant is that of its own digits, unless another number *)
(* with a point follows before the next white space.                       *)
HasPoint(x) == \E k \in x.first..x.last : Byte(k) = "."
Alone(x) == ~\E k \in x.last + 1..UpToWhite(x.last) :
                Byte(k) = "." /\ Byte(k - 1) \in Digits
ConstantsAreRead ==
    \A t \in DOMAIN tokens :
        LET x == tokens[t]
        IN  /\ x.type = "integer" => ~HasPoint(x)
            /\ x.type = "float" /\ Alone(x) => HasPoint(x)

(* The lines the file was moved over are those before its position, and    *)
(* the line of a token, found in the table of the lines, is their count    *)
(* where it begins.                                                        *)
LinesBefore(i) == Cardinality(NewLines(1, i - 1))
LinesAreCounted ==
    /\ lines = LinesBefore(pos)
    /\ \A t \in DOMAIN tokens : tokens[t].line = LinesBefore(tokens[t].first)

(* A scan that fails says so, and it stands at a string literal with no    *)
(* end, at a prefix of a number with no digits or where no lexeme begins   *)
(* (the last line is not to be a comment).                                 *)
ScanFailureIsExplained ==
    /\ stage = "failed" <=> messages # <<>>
    /\ stage = "failed" /\ ~EndsInComment
       => \/ Inside[Lim] \in {"string", "escape"}
          \/ \E k \in {pos, pos + 1} :
                k < Lim /\ Byte(k) = "0" /\ Byte(k + 1) \in {"x", "b"}
          \/ \A last \in pos..Lim : Bytes(pos, last) \notin Lexemes

(* The tokens are the file, in its order and at its lines, and a scan that *)
(* stops says where the text is at fault.                                  *)
ScanInv == ScannerTypeOK /\ NothingIsLost /\ LinesAreCounted /\ ScanFailureIsExplained
=============================================================================
