----------------------------- MODULE HttpSyntax ------------------------------
(***************************************************************************)
(* What the two HTTP parsers of minet have in common: the input, a sequence*)
(* of symbols, and the helpers on it.  A symbol is a character, or a word  *)
(* whose characters all belong to the classes given here; a word counts as *)
(* one byte of a body.                                                     *)
(***************************************************************************)
EXTENDS Integers, Sequences, FiniteSets

Methods == {"GET", "POST", "PUT"}           \* the methods the enumeration has
Numbers == [n \in {"0", "1", "2", "-1", "9999"} |->
               CASE n = "0" -> 0 [] n = "1" -> 1 [] n = "2" -> 2 [] n = "-1" -> -1 [] OTHER -> 9999]
ContentLength == "Content-Length"
Version11 == "HTTP/1.1"

\* isalpha, IsPathChar, IsHeaderKeyChar and IsHeaderValueChar.  "%" stands for
\* the printable characters that are in none of the first three, "ctl" for
\* control characters.
IsAlpha(ch) == ch \in Methods \cup {"word"}
IsPathChar(ch) == ch \notin {"SP", "CR", "LF", "%", "ctl"}
IsHeaderKeyChar(ch) == IsAlpha(ch) \/ ch \in DOMAIN Numbers \/ ch = ContentLength
IsHeaderValueChar(ch) == ch \notin {"CR", "LF", "ctl"}

\* s without its leading spaces.
SkipSpaces(s) ==
    LET Spaces == {i \in 1 .. Len(s) : \A j \in 1 .. i : s[j] = "SP"}
    IN  [i \in 1 .. Len(s) - Cardinality(Spaces) |-> s[i + Cardinality(Spaces)]]

\* std::stoi: leading spaces are skipped, and so is what follows the number;
\* without a number it throws.
IsNumber(s) == SkipSpaces(s) # <<>> /\ Head(SkipSpaces(s)) \in DOMAIN Numbers
Stoi(s) == Numbers[Head(SkipSpaces(s))]

\* CleanPath: one slash in front, none at the end.
CleanPath(path) ==
    LET p == IF path[1] = "/" THEN path ELSE <<"/">> \o path
    IN  SubSeq(p, 1, CHOOSE n \in 0 .. Len(p) :
                        /\ n > 0 => p[n] # "/"
                        /\ \A i \in n + 1 .. Len(p) : p[i] = "/")

\* The fields a parser fills in: of the headers other than Content-Length, the
\* last one.
EmptyRequest == [method |-> "", path |-> <<>>, length |-> 0, header |-> <<>>, body |-> <<>>]

\* A header is stored in the field it belongs to.
WithHeader(request, key, value) ==
    IF key = <<ContentLength>> THEN [request EXCEPT !.length = Stoi(value)]
    ELSE [request EXCEPT !.header = <<key, value>>]

StoiThrows(key, value) == key = <<ContentLength>> /\ ~ IsNumber(value)

==============================================================================
