------------------------------- MODULE PgText -------------------------------
(***************************************************************************)
(* The SQL rewriting of the Postgres front end (pgwire/translate.go).  A   *)
(* simple query is split at its semicolons, and each command goes through  *)
(* three passes: placeholders, casts, keywords.  Each pass has its own     *)
(* idea of what is quoted.                                                 *)
(*                                                                         *)
(* The text is a sequence of lexemes with blanks between them, read one at *)
(* a time; each pass is a scanner whose region is where its skip functions *)
(* are: a doubled quote closes and opens again.                            *)
(***************************************************************************)
EXTENDS Integers, Sequences, FiniteSets, SequencesExt

CONSTANTS MaxLexemes   \* bound on the length of a query

VARIABLES input,     \* the lexemes read so far
          splits,    \* the region of splitCommands
          rewrites,  \* the region of rewriteSQL
          strips,    \* the region of stripCasts, or "cast" behind a ::
          replaces,  \* the region of replaceKeywords
          commands   \* the commands so far: [in, out, order]; the last is open

vars == <<input, splits, rewrites, strips, replaces, commands>>

Lexeme == {"'", "\"", "$$", "$1", "$2", "::", "word", "SERIAL", ";", "--", "newline", "/*", "*/"}

Words == {"word", "SERIAL"}

NoCommand == [in |-> <<>>, out |-> <<>>, order |-> <<>>]

(* skipSingleQuoted, skipDoubleQuoted, and findDollarQuoteEnd: the region    *)
(* behind lexeme l, where opens are the lexemes that begin one.  No pass     *)
(* knows /* and */: they are bytes like any other.                           *)
Region(r, l, opens) ==
    IF r = "code" THEN IF l \in opens THEN l ELSE "code"
    ELSE IF r = "--" THEN IF l = "newline" THEN "code" ELSE r
    ELSE IF l = r THEN "code" ELSE r

Quotes == {"'", "\""}

-----------------------------------------------------------------------------
(* Mutant: a placeholder is replaced wherever it stands. *)
RewriteQuoted(l) == IF l \in {"$1", "$2"} THEN "?" ELSE l

(* rewriteSQL skips quotes and dollar quotes, and knows no comments. *)
Rewrite(l) == IF rewrites = "code" /\ l \in {"$1", "$2"} THEN "?" ELSE l

Param(l) == IF Rewrite(l) = "?" THEN <<IF l = "$1" THEN 1 ELSE 2>> ELSE <<>>

(* Mutant: what follows :: is kept. *)
StripKeepsType(l) == IF strips \in {"code", "cast"} /\ l = "::" THEN <<>> ELSE <<l>>

(* stripCasts skips quotes only; behind :: it drops all words and blanks. *)
Strip(l) ==
    IF strips \in {"code", "cast"} /\ l = "::" THEN <<>>
    ELSE IF strips = "cast" /\ l \in Words THEN <<>>
    ELSE <<l>>

StripRegion(l) ==
    IF strips \in {"code", "cast"} /\ l = "::" THEN "cast"
    ELSE IF strips = "cast" /\ l \in Words THEN "cast"
    ELSE Region(IF strips = "cast" THEN "code" ELSE strips, l, Quotes)

(* replaceKeywords skips quotes only. *)
Replace(l) == IF replaces = "code" /\ l = "SERIAL" THEN "AUTOINCREMENT" ELSE l

(* translate, one lexeme further: rewriteSQL, stripCasts, replaceKeywords. *)
Translate(l) ==
    LET stripped == Strip(Rewrite(l))
        cmd == commands[Len(commands)]
    IN /\ commands' = [commands EXCEPT ![Len(commands)] =
              [in |-> Append(cmd.in, l),
               out |-> cmd.out \o [i \in 1..Len(stripped) |-> Replace(stripped[i])],
               order |-> cmd.order \o Param(l)]]
       /\ rewrites' = Region(rewrites, l, Quotes \cup {"$$"})
       /\ strips' = StripRegion(Rewrite(l))
       /\ replaces' = IF stripped = <<>> THEN replaces ELSE Region(replaces, stripped[1], Quotes)
       /\ splits' = Region(splits, l, Quotes \cup {"$$", "--"})

(* Mutant: a semicolon in a comment ends the command. *)
SplitsInComment(l) == l = ";" /\ splits \in {"code", "--"}

Splits(l) == l = ";" /\ splits = "code"

(* splitCommands flushes; the next command is translated from the start. *)
Flush ==
    /\ commands' = Append(commands, NoCommand)
    /\ splits' = "code" /\ rewrites' = "code" /\ strips' = "code" /\ replaces' = "code"

Init ==
    /\ input = <<>>
    /\ commands = <<NoCommand>>
    /\ splits = "code" /\ rewrites = "code" /\ strips = "code" /\ replaces = "code"

Next ==
    \E l \in Lexeme :
        /\ Len(input) < MaxLexemes
        /\ input' = Append(input, l)
        /\ \/ Splits(l) /\ Flush
           \/ ~Splits(l) /\ Translate(l)

Spec == Init /\ [][Next]_vars

-----------------------------------------------------------------------------
(* What Postgres reads: the region each lexeme of a text stands in.  A block *)
(* comment ends at the first */ here; the nested ones of Postgres are left   *)
(* out.                                                                      *)
Opened(s) ==
    LET open[i \in 0..Len(s)] ==
            IF i = 0 THEN "code"
            ELSE LET r == open[i - 1]
                 IN CASE r = "code" /\ s[i] \in {"'", "\"", "$$", "--", "/*"} -> s[i]
                      [] r \notin {"code", "--", "/*"} /\ s[i] = r -> "code"
                      [] r = "--" /\ s[i] = "newline" -> "code"
                      [] r = "/*" /\ s[i] = "*/" -> "code"
                      [] OTHER -> r
    IN open

InCode(s, i) == Opened(s)[i - 1] = "code"

(* Whether the text has a region that begins with l. *)
Opens(s, l) == \E i \in 1..Len(s) : s[i] = l /\ InCode(s, i)

IsCast(s, i) == i \in 1..Len(s) /\ InCode(s, i) /\ s[i] = "::"

Wanted(s, i) ==
    IF ~InCode(s, i) THEN <<s[i]>>
    ELSE IF s[i] = "::" \/ (s[i] \in Words /\ IsCast(s, i - 1)) THEN <<>>
    ELSE IF s[i] \in {"$1", "$2"} THEN <<"?">>
    ELSE IF s[i] = "SERIAL" THEN <<"AUTOINCREMENT">>
    ELSE <<s[i]>>

TwoWordsBehindCast(s) ==
    \E i \in 1..Len(s) : IsCast(s, i) /\ i + 2 <= Len(s) /\ s[i + 1] \in Words /\ s[i + 2] \in Words

Binds(s, i) ==
    IF InCode(s, i) /\ s[i] \in {"$1", "$2"} THEN <<IF s[i] = "$1" THEN 1 ELSE 2>> ELSE <<>>

Cuts(s) == {i \in 1..Len(s) : s[i] = ";" /\ InCode(s, i)}

(* A command without comments binds its parameters as Postgres would: the    *)
(* order lists the placeholders outside quotes, first to last, one for each  *)
(* ? of the output, however quotes, dollar quotes and casts surround them.   *)
(* rewriteSQL knows no comments: a $1 in one is bound as well, which this    *)
(* leaves out.                                                               *)
ParamOrder ==
    \A k \in 1..Len(commands) :
        LET s == commands[k].in
        IN ~Opens(s, "--") /\ ~Opens(s, "/*") =>
              commands[k].order = FlattenSeq([i \in 1..Len(s) |-> Binds(s, i)])

(* "String literals and quoted identifiers are skipped so substitutions      *)
(* don't rewrite their contents" (translate.go:17): the output is the input  *)
(* with the placeholders, casts and keywords outside quotes rewritten.  Left *)
(* out are the commands where the scanners disagree with Postgres: those     *)
(* with comments, which none of the passes knows, with dollar quotes, which  *)
(* only the first of them knows, and with two words behind a cast.           *)
TranslatesCode ==
    \A k \in 1..Len(commands) :
        LET s == commands[k].in
        IN ~Opens(s, "--") /\ ~Opens(s, "/*") /\ ~Opens(s, "$$") /\ ~TwoWordsBehindCast(s) =>
              commands[k].out = FlattenSeq([i \in 1..Len(s) |-> Wanted(s, i)])

(* A query without block comments is cut at the semicolons Postgres would    *)
(* cut it at, and nowhere inside a string, a dollar quote or a line comment. *)
SplitsCode == ~Opens(input, "/*") => Len(commands) = 1 + Cardinality(Cuts(input))

(* translate.go:149: "Conservative - only removes the pattern ::IDENT": the  *)
(* words behind the type stay.                                               *)
CastOnly ==
    \A k \in 1..Len(commands) :
        LET s == commands[k].in
        IN ~Opens(s, "--") /\ ~Opens(s, "/*") /\ ~Opens(s, "$$") =>
              commands[k].out = FlattenSeq([i \in 1..Len(s) |-> Wanted(s, i)])

(* translate.go:237: splitCommands splits "on `;`, ignoring semicolons       *)
(* inside strings, dollar quotes or comments": a text in which all that is   *)
(* opened is closed, and no comment is inside another, is cut at the         *)
(* semicolons of its code.                                                   *)
SplitsIgnoreComments ==
    /\ Opened(input)[Len(input)] = "code"
    /\ \A i \in 1..Len(input) : Opened(input)[i - 1] = "/*" => input[i] # "/*"
    => Len(commands) = 1 + Cardinality(Cuts(input))
=============================================================================
