----------------------------- MODULE LogFilter ------------------------------
(***************************************************************************)
(* The filter language of Cloud Logging (logging/filter.go).  A filter is  *)
(* read lexeme by lexeme; the tokeniser rejects some, and the parser wants *)
(* field, operator, value, then AND or the end.  The predicate it builds   *)
(* is compared with what the filter means on every entry.                  *)
(*                                                                         *)
(* A lexeme is [kind, text].  The words stand for the kinds of words that  *)
(* buildPredicate tells apart; digits are the bytes of a quoted number.    *)
(***************************************************************************)
EXTENDS Integers, Sequences

CONSTANTS MaxLexemes   \* bound on the length of a filter

VARIABLES input,    \* the lexemes read so far
          expects,  \* what the parser takes next, or "error"
          clause,   \* the tokens of the predicate that is being read
          pred      \* the predicates read, all of which an entry must satisfy

vars == <<input, expects, clause, pred>>

Fields == {"severity", "logName", "resource.type", "resource.labels.", "resource.labels.k",
           "timestamp", "textPayload"}
Ops == {"=", "!=", ">", ">=", "<", "<=", "=="}
Levels == [ERROR |-> 500, INFO |-> 200]
Bytes == [w \in {"200", "+7"} |-> IF w = "200" THEN <<50, 48, 48>> ELSE <<43, 55>>]
Times == [t1 |-> 1, t2 |-> 2]
Words == {"ERROR", "INFO", "200", "+7", "t1", "t2", "a"}

Entry == [severity : {"ERROR", "INFO", ""}, logName : {"a", "t1"}, type : {"a", ""},
          label : {"a", ""}, timestamp : 1..2]

Lexeme ==
    [kind : {"ident"}, text : Fields \cup {"ERROR", "a"}]
    \cup [kind : {"string"}, text : Words]
    \cup [kind : {"op"}, text : Ops]
    \cup [kind : {"and"}, text : {"AND"}]
    \cup [kind : {"number"}, text : {"200"}]   \* not quoted
    \cup [kind : {"refused"}, text : {"(", "OR", "!"}]

-----------------------------------------------------------------------------
(* tokenize: parentheses, OR, NOT and a lone ! are errors, and so is a digit  *)
(* where a token begins: isIdentStart does not take it, so that the branch    *)
(* that makes number tokens is never reached.                                 *)
Tokenizes(l) == l.kind \notin {"refused", "number"}

IsDigit(b) == b \in 48..57

IsNumber(w) ==
    /\ w \in DOMAIN Bytes
    /\ \A i \in 1..Len(Bytes[w]) : IsDigit(Bytes[w][i]) \/ (i = 1 /\ Bytes[w][i] \in {43, 45})

(* The value of the digits, in byte arithmetic: a sign counts as a digit. *)
Value(w) ==
    LET n[i \in 0..Len(Bytes[w])] ==
            IF i = 0 THEN 0 ELSE 10 * n[i - 1] + ((Bytes[w][i] - 48) % 256)
    IN n[Len(Bytes[w])]

(* Mutant: >= without the equality. *)
NumericCmpStrict(op, a, b) ==
    CASE op = "=" -> a = b [] op = "!=" -> a # b [] op = ">" -> a > b
      [] op = ">=" -> a > b [] op = "<" -> a < b [] op = "<=" -> a <= b

(* numericCmp and timeCmp. *)
NumericCmp(op, a, b) ==
    CASE op = "=" -> a = b [] op = "!=" -> a # b [] op = ">" -> a > b
      [] op = ">=" -> a >= b [] op = "<" -> a < b [] op = "<=" -> a <= b

(* Mutant: the operators of a label are not checked. *)
BuildsAnyOp(f, op, w) ==
    \/ f = "severity" /\ (w \in DOMAIN Levels \/ IsNumber(w)) /\ op # "=="
    \/ f \in {"logName", "resource.type"} /\ op \in {"=", "!="}
    \/ f = "resource.labels.k"
    \/ f = "timestamp" /\ w \in DOMAIN Times /\ op # "=="

(* buildPredicate: whether the triple is accepted ... *)
Builds(f, op, w) ==
    \/ f = "severity" /\ (w \in DOMAIN Levels \/ IsNumber(w)) /\ op # "=="
    \/ f \in {"logName", "resource.type", "resource.labels.k"} /\ op \in {"=", "!="}
    \/ f = "timestamp" /\ w \in DOMAIN Times /\ op # "=="

Rank(s) == IF s \in DOMAIN Levels THEN Levels[s] ELSE 0

(* ... and its evaluator. *)
Evaluate(c, e) ==
    LET eq(x) == IF c.op = "=" THEN x = c.word ELSE x # c.word
    IN CASE c.field = "severity" ->
                NumericCmp(c.op, Rank(e.severity),
                           IF c.word \in DOMAIN Levels THEN Levels[c.word] ELSE Value(c.word))
         [] c.field = "logName" -> eq(e.logName)
         [] c.field = "resource.type" -> eq(e.type)
         [] c.field = "resource.labels.k" -> eq(e.label)
         [] c.field = "timestamp" -> NumericCmp(c.op, e.timestamp, Times[c.word])

-----------------------------------------------------------------------------
Rejected == expects' = "error" /\ UNCHANGED <<clause, pred>>

(* parsePredicate. *)
ParseField(l) ==
    /\ expects = "field"
    /\ \/ /\ Tokenizes(l) /\ l.kind = "ident"
          /\ expects' = "op" /\ clause' = [field |-> l.text] /\ UNCHANGED pred
       \/ ~(Tokenizes(l) /\ l.kind = "ident") /\ Rejected

ParseOp(l) ==
    /\ expects = "op"
    /\ \/ /\ l.kind = "op"
          /\ expects' = "value" /\ clause' = [field |-> clause.field, op |-> l.text]
          /\ UNCHANGED pred
       \/ l.kind # "op" /\ Rejected

ParseValue(l) ==
    /\ expects = "value"
    /\ LET c == [field |-> clause.field, op |-> clause.op, word |-> l.text]
           ok == /\ Tokenizes(l) /\ l.kind \in {"string", "ident"}
                 /\ Builds(c.field, c.op, c.word)
       IN \/ ok /\ expects' = "and" /\ clause' = <<>> /\ pred' = Append(pred, c)
          \/ ~ok /\ Rejected

(* The loop of parseExpr; parseFilter refuses whatever is left after it. *)
ParseAnd(l) ==
    /\ expects = "and"
    /\ \/ l.kind = "and" /\ expects' = "field" /\ UNCHANGED <<clause, pred>>
       \/ l.kind # "and" /\ Rejected

Init == input = <<>> /\ expects = "field" /\ clause = <<>> /\ pred = <<>>

Next ==
    \E l \in Lexeme :
        /\ Len(input) < MaxLexemes
        /\ input' = Append(input, l)
        /\ ParseField(l) \/ ParseOp(l) \/ ParseValue(l) \/ ParseAnd(l)

Spec == Init /\ [][Next]_vars

(* parseFilter: the empty filter matches everything. *)
Accepted == input = <<>> \/ expects = "and"

Matches(e) == \A i \in 1..Len(pred) : Evaluate(pred[i], e)

-----------------------------------------------------------------------------
(* What a filter means: clauses at the places 1-3, 5-7, ... and AND between.  *)
(* A value is quoted or a word; filter.go:12 has an unquoted number as well,  *)
(* "severity {= != > >= < <=} <LEVEL|number>".                                *)
WellFormed ==
    /\ input = <<>> \/ Len(input) % 4 = 3
    /\ \A i \in 1..Len(input) :
          CASE i % 4 = 1 -> input[i].kind = "ident"
            [] i % 4 = 2 -> input[i].kind = "op" /\ input[i].text # "=="
            [] i % 4 = 3 -> \/ input[i].kind \in {"ident", "string"}
                            \/ input[i].kind = "number" /\ input[i - 2].text = "severity"
            [] OTHER -> input[i].kind = "and"

Clauses ==
    {[field |-> input[i].text, op |-> input[i + 1].text, word |-> input[i + 2].text] :
        i \in {j \in 1..Len(input) : j % 4 = 1}}

Orders(c) == c.op \notin {"=", "!="}

Meaningful(c) ==
    \/ c.field = "severity" /\ c.word \in {"ERROR", "INFO", "200", "+7"}
    \/ c.field = "timestamp" /\ c.word \in {"t1", "t2"}
    \/ c.field \in {"logName", "resource.type", "resource.labels.k"} /\ ~Orders(c)

Number(w) ==
    CASE w = "ERROR" -> 500 [] w \in {"INFO", "200"} -> 200 [] w = "+7" -> 7
      [] w = "t1" -> 1 [] w = "t2" -> 2 [] OTHER -> 0

Difference(c, e) ==
    CASE c.field = "severity" -> Number(e.severity) - Number(c.word)
      [] c.field = "timestamp" -> e.timestamp - Number(c.word)
      [] c.field = "logName" -> IF e.logName = c.word THEN 0 ELSE 1
      [] c.field = "resource.type" -> IF e.type = c.word THEN 0 ELSE 1
      [] OTHER -> IF e.label = c.word THEN 0 ELSE 1

Meant(c, e) ==
    CASE Difference(c, e) < 0 -> c.op \in {"!=", "<", "<="}
      [] Difference(c, e) = 0 -> c.op \in {"=", "<=", ">="}
      [] OTHER -> c.op \in {"!=", ">", ">="}

UnquotedNumber == \E i \in 1..Len(input) : i % 4 = 3 /\ input[i].kind = "number"

(* filter.go:19: what is not in the subset "is reported as an error rather   *)
(* than silently dropped": a filter is accepted exactly when it consists of  *)
(* predicates of the supported fields and operators with AND between them.   *)
(* Filters with an unquoted number for a value are left out: the tokeniser   *)
(* refuses them, the documented ones too (NumbersAccepted).                  *)
FilterAccepted ==
    ~UnquotedNumber => (Accepted <=> WellFormed /\ \A c \in Clauses : Meaningful(c))

(* filter.go:12 lists "severity {= != > >= < <=} <LEVEL|number>", and        *)
(* buildPredicate means to "allow plain numeric ranks too" (filter.go:241):  *)
(* every filter of the documented grammar is accepted.                       *)
NumbersAccepted == WellFormed /\ (\A c \in Clauses : Meaningful(c)) => Accepted

(* An accepted filter selects exactly the entries that satisfy each of its   *)
(* predicates.  A quoted number with a sign is left out: byte arithmetic     *)
(* makes 2517 of +7.                                                         *)
FilterHonoured ==
    Accepted /\ (\A c \in Clauses : c.word # "+7") =>
        \A e \in Entry : Matches(e) <=> \A c \in Clauses : Meant(c, e)
=============================================================================
