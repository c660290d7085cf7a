----------------------------- MODULE MySQLText ------------------------------
(***************************************************************************)
(* The SQL rewriting of the MySQL front end (mysqlwire/translate.go): one  *)
(* pass that skips quotes and comments, moves AUTO_INCREMENT behind        *)
(* PRIMARY KEY of its column, renames types and drops table options.       *)
(*                                                                         *)
(* The text is a sequence of lexemes with blanks between them, read one at *)
(* a time.  INT stands for a type with or without its size hint,           *)
(* ENGINE=InnoDB for what is dropped (a KEYWORD=VALUE option, UNSIGNED),   *)
(* escaped for a quote behind a backslash, -- for both kinds of comment.   *)
(***************************************************************************)
EXTENDS Integers, Sequences, FiniteSets, SequencesExt

CONSTANTS MaxLexemes   \* bound on the length of a statement

VARIABLES input,       \* the lexemes read so far
          region,      \* "code", or the lexeme that opened what is skipped
          parenDepth,
          autoInc,     \* the depths where AUTO_INCREMENT is pending: at most one
          primaryKey,  \* the depths where PRIMARY KEY was seen: at most one
          out,         \* the lexemes emitted
          params       \* what countParams has counted

vars == <<input, region, parenDepth, autoInc, primaryKey, out, params>>

Lexeme == {"'", "escaped", "backtick", "--", "newline", "(", ")", ",",
           "AUTO_INCREMENT", "PRIMARY KEY", "ENGINE=InnoDB", "INT", "?"}

Opens == {"'", "backtick", "--"}

Closer(r) == IF r = "--" THEN "newline" ELSE r

(* skipSingleQuoted, skipBackquoted, skipLineComment: the region behind      *)
(* lexeme l.  In a string an escaped quote does not close it; outside, the   *)
(* backslash is one character more and the quote opens a string.             *)
Region(l) ==
    IF region = "code" THEN IF l \in Opens THEN l ELSE IF l = "escaped" THEN "'" ELSE "code"
    ELSE IF l = Closer(region) THEN "code"
    ELSE region

(* Mutant: the column state survives the end of the column. *)
ColumnStateKept(depths, l) == depths

(* The end of a column at the depth of the state resets it. *)
ColumnState(depths, l) == IF l \in {",", ")"} THEN depths \ {parenDepth} ELSE depths

(* Mutant: ? counts in quotes and comments too. *)
CountParamsAnywhere(l) == IF l = "?" THEN 1 ELSE 0

(* countParams: ? counts where the scanner skips nothing. *)
CountParams(l) == IF region = "code" /\ l = "?" THEN 1 ELSE 0

(* A quoted or commented lexeme, or one of no interest, is copied. *)
Copy(l) ==
    /\ region # "code" \/ l \notin {"AUTO_INCREMENT", "PRIMARY KEY", "ENGINE=InnoDB", "INT"}
    /\ out' = Append(out, l)
    /\ IF region # "code" THEN UNCHANGED <<parenDepth, autoInc, primaryKey>>
       ELSE /\ parenDepth' = parenDepth + (CASE l = "(" -> 1 [] l = ")" -> -1 [] OTHER -> 0)
            /\ autoInc' = ColumnState(autoInc, l)
            /\ primaryKey' = ColumnState(primaryKey, l)

(* AUTO_INCREMENT is emitted if the column had its PRIMARY KEY, else pending. *)
AutoIncrement(l) ==
    /\ region = "code" /\ l = "AUTO_INCREMENT"
    /\ IF parenDepth \in primaryKey
         THEN out' = Append(out, "AUTOINCREMENT") /\ UNCHANGED autoInc
         ELSE autoInc' = {parenDepth} /\ UNCHANGED out
    /\ UNCHANGED <<parenDepth, primaryKey>>

PrimaryKey(l) ==
    /\ region = "code" /\ l = "PRIMARY KEY"
    /\ out' = out \o IF parenDepth \in autoInc THEN <<l, "AUTOINCREMENT">> ELSE <<l>>
    /\ primaryKey' = {parenDepth}
    /\ autoInc' = autoInc \ {parenDepth}
    /\ UNCHANGED parenDepth

(* typeReplacements. *)
TypeName(l) ==
    /\ region = "code" /\ l = "INT"
    /\ out' = Append(out, "INTEGER")
    /\ UNCHANGED <<parenDepth, autoInc, primaryKey>>

(* Mutant: options go wherever they stand. *)
DropAnywhere(l) ==
    /\ l = "ENGINE=InnoDB"
    /\ UNCHANGED <<out, parenDepth, autoInc, primaryKey>>

(* matchTableOption, and the modifiers sqlite does not know. *)
Drop(l) ==
    /\ region = "code" /\ l = "ENGINE=InnoDB"
    /\ UNCHANGED <<out, parenDepth, autoInc, primaryKey>>

Init ==
    /\ input = <<>> /\ out = <<>>
    /\ region = "code" /\ parenDepth = 0
    /\ autoInc = {} /\ primaryKey = {}
    /\ params = 0

Next ==
    \E l \in Lexeme :
        /\ Len(input) < MaxLexemes
        /\ input' = Append(input, l)
        /\ region' = Region(l)
        /\ params' = params + CountParams(l)
        /\ \/ Copy(l)
           \/ AutoIncrement(l)
           \/ PrimaryKey(l)
           \/ TypeName(l)
           \/ Drop(l)

Spec == Init /\ [][Next]_vars

-----------------------------------------------------------------------------
(* What MySQL reads: where each lexeme stands, how deep, in which column.    *)
Opened(s) ==
    LET open[i \in 0..Len(s)] ==
            IF i = 0 THEN "code"
            ELSE LET r == open[i - 1]
                 IN CASE r = "code" /\ s[i] \in Opens -> s[i]
                      [] r = "code" /\ s[i] = "escaped" -> "'"
                      [] r # "code" /\ s[i] = Closer(r) -> "code"
                      [] OTHER -> r
    IN open

Code(s) == {i \in 1..Len(s) : Opened(s)[i - 1] = "code"}

At(s, l) == {i \in Code(s) : s[i] = l}

Before(S, i) == {j \in S : j < i}

DepthAt(s, i) ==
    Cardinality(Before(At(s, "("), i)) - Cardinality(Before(At(s, ")"), i))

(* i and j lie in one column: nothing at their depth ends it between them.   *)
SameColumn(s, i, j) ==
    /\ DepthAt(s, i) = DepthAt(s, j)
    /\ \A k \in At(s, ",") \cup At(s, ")") : i < k /\ k < j => DepthAt(s, k) > DepthAt(s, i)

OneDepth(s) ==
    \A i, j \in At(s, "AUTO_INCREMENT") \cup At(s, "PRIMARY KEY") : DepthAt(s, i) = DepthAt(s, j)

Commas(s, i) == Cardinality(Before(At(s, ","), i))

(* The PRIMARY KEYs of the column that lexeme i of s stands in.              *)
KeysOf(s, i) == {j \in At(s, "PRIMARY KEY") : SameColumn(s, i, j) /\ SameColumn(s, j, i)}

(* "Column-level AUTO_INCREMENT is reordered to land after PRIMARY KEY in    *)
(* the same column definition ... if the column has no inline PRIMARY KEY    *)
(* the keyword is dropped" (translate.go:18), whichever comes first, however *)
(* parentheses nest in the column and whatever is quoted in between.         *)
AutoIncrementPlaced ==
    /\ \A i \in At(out, "AUTOINCREMENT") :
           \E j \in At(out, "PRIMARY KEY") : j < i /\ SameColumn(out, j, i)
    /\ OneDepth(input) =>
           \A i \in At(input, "AUTO_INCREMENT") :
               KeysOf(input, i) # {} =>
                   \E j \in KeysOf(input, i), k \in At(out, "AUTOINCREMENT") :
                       Commas(out, k) = Commas(input, IF i < j THEN j ELSE i)

Wanted(s, i) ==
    IF i \notin Code(s) THEN <<s[i]>>
    ELSE CASE s[i] = "INT" -> <<"INTEGER">>
           [] s[i] \in {"AUTO_INCREMENT", "ENGINE=InnoDB"} -> <<>>
           [] OTHER -> <<s[i]>>

(* "Contents like 'ENGINE=InnoDB failed' are never mangled" (:13): apart     *)
(* from AUTOINCREMENT, the output is the input with types renamed and        *)
(* options dropped where MySQL reads code.                                   *)
QuotedKept ==
    FlattenSeq([i \in 1..Len(out) |-> IF out[i] = "AUTOINCREMENT" THEN <<>> ELSE <<out[i]>>])
        = FlattenSeq([i \in 1..Len(input) |-> Wanted(input, i)])

(* A prepared statement reports as many parameters as sqlite will bind: the  *)
(* ? of the translated text that stand in code.                              *)
ParamsCounted == params = Cardinality(At(out, "?"))
=============================================================================
