-------------------------------- MODULE Expr --------------------------------
(***************************************************************************)
(* evalExpression, the language of condition nodes.  It has no syntax      *)
(* tree: the recursive descent evaluates as it reads, and an operand that  *)
(* a logical operator need not evaluate is skipped by a second family of   *)
(* functions that only move the position.  Whether the two families agree  *)
(* on where an operand ends is what is checked here, against a reference   *)
(* that cuts the token list at its top-level operators.                    *)
(*                                                                         *)
(* The lexer is reduced to the tokens it may produce.  A value carries its *)
(* Go type: <<"float64", 0>>; a string is reduced to its length, and       *)
(* strings are ordered by it ("", "a", "aa").                              *)
(***************************************************************************)
EXTENDS Integers, Sequences, FiniteSets, FiniteSetsExt, SequencesExt

CONSTANTS
  Literals,   \* values of string, number, bool and null tokens
  Words,      \* texts of identifier tokens
  Operators,  \* kinds of the other tokens
  Inputs,     \* values the variable `result` may have
  Starts      \* bound: beginnings of expressions, and the number of tokens
              \* that may follow: [tokens, room]

Comparisons == {"==", "!=", ">", "<", ">=", "<="}
Nil == <<"nil", 0>>
Bool(b) == <<"bool", b>>

ASSUME TokensAssumption ==
  /\ Operators \subseteq Comparisons \cup {"&&", "||", "!", ".", "(", ")"}
  /\ \A s \in Starts : s.room \in Nat

VARIABLES
  tokens,   \* what lex has produced
  room,     \* tokens it may still produce
  input,    \* the binding of `result`
  outcome   \* how evalExpression ended: [kind, val]

exprVars == <<tokens, room, input, outcome>>

Token ==
  [kind : {"lit"}, val : Literals] \cup [kind : {"ident"}, text : Words]
    \cup [kind : Operators]
EOF == [kind |-> "EOF"]

-----------------------------------------------------------------------------
(* Values *)

lengthOf(v) ==
  CASE v[1] = "string" -> v[2]
    [] v[1] = "map"    -> Cardinality(DOMAIN v[2])
    [] OTHER           -> 0

field(v, name) ==
  CASE name = "length" -> <<"int", lengthOf(v)>>
    [] name # "length" /\ v[1] = "map" /\ name \in DOMAIN v[2] -> v[2][name]
    [] OTHER -> Nil

(* An int, which only .length produces, is true whatever its value. *)
truthy(v) ==
  CASE v[1] = "nil" -> FALSE
    [] v[1] = "bool" -> v[2]
    [] v[1] \in {"string", "float64"} -> v[2] # 0
    [] OTHER -> TRUE

IsNumber(v) == v[1] \in {"float64", "int", "bool"}
toFloat(v) == IF v[1] = "bool" THEN (IF v[2] THEN 1 ELSE 0) ELSE v[2]

deepEqual(a, b) ==
  IF IsNumber(a) /\ IsNumber(b) THEN toFloat(a) = toFloat(b) ELSE a = b

orderBy(op, a, b) ==
  CASE op = ">"  -> a > b
    [] op = "<"  -> a < b
    [] op = ">=" -> a >= b
    [] op = "<=" -> a <= b

-----------------------------------------------------------------------------
(* Results of the parser's methods: a value and the position after it, an
   error, or the panic of an index past the token list. *)
Ok(p, v) == [kind |-> "value", val |-> v, pos |-> p]
Error == [kind |-> "error"]
Panic == [kind |-> "panic"]

compare(op, a, b, p) ==
  CASE op = "==" -> Ok(p, Bool(deepEqual(a, b)))
    [] op = "!=" -> Ok(p, Bool(~deepEqual(a, b)))
    [] op \notin {"==", "!="} /\ IsNumber(a) /\ IsNumber(b) ->
         Ok(p, Bool(orderBy(op, toFloat(a), toFloat(b))))
    [] op \notin {"==", "!="} /\ a[1] = "string" /\ b[1] = "string" ->
         Ok(p, Bool(orderBy(op, a[2], b[2])))
    [] OTHER -> Error

(* peek().kind; there is nothing to peek at past the EOF token. *)
Kind(ts, p) == IF p <= Len(ts) THEN ts[p].kind ELSE "past"

-----------------------------------------------------------------------------
(* The skip functions map the position of an operand to the one after it.
   A position past the list stays: each of them is followed by a peek, which
   panics there. *)

RECURSIVE SkipParen(_, _, _), SkipDots(_, _), skipUnary(_, _), SkipAnds(_, _),
          SkipOrs(_, _)

MutSkipParen(ts, p, depth) ==
  IF Kind(ts, p) \in {"EOF", ")"} THEN p + 1 ELSE SkipParen(ts, p + 1, depth)

(* skipPrimary's loop over a parenthesis: the EOF token is consumed too. *)
SkipParen(ts, p, depth) ==
  CASE depth = 0 \/ p > Len(ts) -> p
    [] depth # 0 /\ Kind(ts, p) = "EOF" -> p + 1
    [] depth # 0 /\ Kind(ts, p) = "(" -> SkipParen(ts, p + 1, depth + 1)
    [] depth # 0 /\ Kind(ts, p) = ")" -> SkipParen(ts, p + 1, depth - 1)
    [] OTHER -> SkipParen(ts, p + 1, depth)

(* The token after a dot is consumed whatever it is. *)
SkipDots(ts, p) == IF Kind(ts, p) = "." THEN SkipDots(ts, p + 2) ELSE p

MutOpensTwice(ts, p) ==
  CASE Kind(ts, p) = "(" -> SkipParen(ts, p, 1)
    [] Kind(ts, p) \in {"EOF", "past"} -> p
    [] OTHER -> SkipDots(ts, p + 1)

skipPrimary(ts, p) ==
  CASE Kind(ts, p) = "(" -> SkipParen(ts, p + 1, 1)
    [] Kind(ts, p) \in {"EOF", "past"} -> p
    [] OTHER -> SkipDots(ts, p + 1)

SkipRight(ts, p) == IF Kind(ts, p) \in Comparisons THEN skipPrimary(ts, p + 1) ELSE p

skipUnary(ts, p) ==
  IF Kind(ts, p) = "!" THEN skipUnary(ts, p + 1) ELSE SkipRight(ts, skipPrimary(ts, p))

(* The loop of skipAnd, and of parseAnd after a falsy operand. *)
SkipAnds(ts, p) ==
  IF Kind(ts, p) = "&&" THEN SkipAnds(ts, skipUnary(ts, p + 1)) ELSE p

skipAnd(ts, p) == SkipAnds(ts, skipUnary(ts, p))

(* The loop of parseOr after a truthy operand. *)
SkipOrs(ts, p) ==
  IF Kind(ts, p) = "||" THEN SkipOrs(ts, skipAnd(ts, p + 1)) ELSE p

-----------------------------------------------------------------------------
(* The evaluating functions.  res is the binding of `result`. *)

RECURSIVE FieldPath(_, _, _), OrChain(_, _, _), AndChain(_, _, _),
          parseUnary(_, _, _), parsePrimary(_, _, _)

FieldPath(ts, p, v) ==
  CASE Kind(ts, p) # "." -> Ok(p, v)
    [] Kind(ts, p) = "." /\ Kind(ts, p + 1) # "ident" -> Error
    [] OTHER -> FieldPath(ts, p + 2, field(v, ts[p + 1].text))

parseFieldAccess(ts, p, res) ==
  IF ts[p].text = "result" THEN FieldPath(ts, p + 1, res) ELSE Error

(* The rest of parseComparison, with l the left operand. *)
Compared(op, l, r) ==
  IF r.kind # "value" THEN r ELSE compare(op, l.val, r.val, r.pos)
CompareRest(ts, l, res) ==
  IF l.kind # "value" \/ Kind(ts, l.pos) \notin Comparisons THEN l
  ELSE Compared(Kind(ts, l.pos), l, parsePrimary(ts, l.pos + 1, res))

parseComparison(ts, p, res) == CompareRest(ts, parsePrimary(ts, p, res), res)

Negated(r) == IF r.kind # "value" THEN r ELSE Ok(r.pos, Bool(~truthy(r.val)))

parseUnary(ts, p, res) ==
  IF Kind(ts, p) = "!" THEN Negated(parseUnary(ts, p + 1, res))
                       ELSE parseComparison(ts, p, res)

(* The value of a short circuit, once the rest has been skipped up to p. *)
Shorted(ts, p, v) == IF Kind(ts, p) = "past" THEN Panic ELSE Ok(p, v)

(* The rest of parseAnd, with l the operand read last. *)
AndChain(ts, l, res) ==
  CASE l.kind # "value" -> l
    [] l.kind = "value" /\ Kind(ts, l.pos) # "&&" -> l
    [] l.kind = "value" /\ Kind(ts, l.pos) = "&&" /\ truthy(l.val) ->
         AndChain(ts, parseUnary(ts, l.pos + 1, res), res)
    [] OTHER -> Shorted(ts, SkipAnds(ts, l.pos), l.val)

parseAnd(ts, p, res) == AndChain(ts, parseUnary(ts, p, res), res)

(* The rest of parseOr. *)
OrChain(ts, l, res) ==
  CASE l.kind # "value" -> l
    [] l.kind = "value" /\ Kind(ts, l.pos) # "||" -> l
    [] l.kind = "value" /\ Kind(ts, l.pos) = "||" /\ ~truthy(l.val) ->
         OrChain(ts, parseAnd(ts, l.pos + 1, res), res)
    [] OTHER -> Shorted(ts, SkipOrs(ts, l.pos), l.val)

parseOr(ts, p, res) == OrChain(ts, parseAnd(ts, p, res), res)

MutUnclosed(ts, r) ==
  CASE r.kind # "value" -> r
    [] r.kind = "value" /\ Kind(ts, r.pos) = ")" -> Ok(r.pos + 1, r.val)
    [] OTHER -> r

(* The closing parenthesis after what is inside. *)
Closed(ts, r) ==
  CASE r.kind # "value" -> r
    [] r.kind = "value" /\ Kind(ts, r.pos) = ")" -> Ok(r.pos + 1, r.val)
    [] OTHER -> Error

parsePrimary(ts, p, res) ==
  CASE Kind(ts, p) = "lit" -> Ok(p + 1, ts[p].val)
    [] Kind(ts, p) = "(" -> Closed(ts, parseOr(ts, p + 1, res))
    [] Kind(ts, p) = "ident" -> parseFieldAccess(ts, p, res)
    [] OTHER -> Error

(* Nothing may follow the expression. *)
Complete(ts, r) ==
  CASE r.kind # "value" -> r
    [] r.kind = "value" /\ Kind(ts, r.pos) = "EOF" -> [kind |-> "value", val |-> r.val]
    [] OTHER -> Error

evalExpression(ts, res) == Complete(ts, parseOr(ts, 1, res))

-----------------------------------------------------------------------------
Running == [kind |-> "none"]

ExprInit ==
  /\ \E s \in Starts : tokens = s.tokens /\ room = s.room
  /\ input \in Inputs
  /\ outcome = Running

(* lex reads one more token, *)
Lex(t) ==
  /\ outcome = Running
  /\ room > 0
  /\ room' = room - 1
  /\ tokens' = Append(tokens, t)
  /\ UNCHANGED <<input, outcome>>

(* or meets a character, a string or a number it cannot read. *)
LexFails ==
  /\ outcome = Running
  /\ outcome' = Error
  /\ tokens' = <<>>
  /\ UNCHANGED <<room, input>>

Evaluate ==
  /\ outcome = Running
  /\ outcome' = evalExpression(Append(tokens, EOF), input)
  /\ UNCHANGED <<tokens, room, input>>

Returned == outcome # Running /\ UNCHANGED exprVars

ExprNext == (\E t \in Token : Lex(t)) \/ LexFails \/ Evaluate \/ Returned

-----------------------------------------------------------------------------
(* The reference.  An expression is a chain of operands at parenthesis depth
   0; the rules below are the grammar of the file's head comment. *)

Depth(s, i) ==
  Cardinality({j \in 1..(i - 1) : s[j].kind = "("})
    - Cardinality({j \in 1..(i - 1) : s[j].kind = ")"})
Cuts(s, ops) == {i \in DOMAIN s : s[i].kind \in ops /\ Depth(s, i) = 0}

(* The pieces of s between its top-level operators ops. *)
Operands(s, ops) ==
  LET c == <<0>> \o SetToSortSeq(Cuts(s, ops), <) \o <<Len(s) + 1>> IN
    [i \in 1..(Len(c) - 1) |-> SubSeq(s, c[i] + 1, c[i + 1] - 1)]

Inner(s) == SubSeq(s, 2, Len(s) - 1)
IsPath(s) ==
  /\ Len(s) % 2 = 1
  /\ \A i \in DOMAIN s : s[i].kind = IF i % 2 = 1 THEN "ident" ELSE "."

RECURSIVE IsExpr(_), IsUnary(_), Meaning(_, _), UnaryMeaning(_, _)

IsPrimary(s) ==
  \/ Len(s) = 1 /\ s[1].kind = "lit"
  \/ IsPath(s)
  \/ /\ Len(s) > 2
     /\ s[1].kind = "(" /\ Last(s).kind = ")"
     /\ \A i \in 2..Len(s) : Depth(s, i) > 0
     /\ IsExpr(Inner(s))

IsUnary(s) ==
  IF s # <<>> /\ s[1].kind = "!" THEN IsUnary(Tail(s))
  ELSE LET ps == Operands(s, Comparisons) IN
         Len(ps) <= 2 /\ \A i \in DOMAIN ps : IsPrimary(ps[i])

IsExpr(s) ==
  LET ands == Operands(s, {"||"}) IN
    \A i \in DOMAIN ands :
      LET us == Operands(ands[i], {"&&"}) IN \A j \in DOMAIN us : IsUnary(us[j])

Value(v) == [kind |-> "value", val |-> v]

PathMeaning(s, res) ==
  IF s[1].text = "result"
    THEN Value(FoldLeft(LAMBDA v, t : IF t.kind = "." THEN v ELSE field(v, t.text),
                        res, Tail(s)))
    ELSE Error

PrimaryMeaning(s, res) ==
  CASE s[1].kind = "lit" -> Value(s[1].val)
    [] s[1].kind = "ident" -> PathMeaning(s, res)
    [] OTHER -> Meaning(Inner(s), res)

UnaryMeaning(s, res) ==
  IF s[1].kind = "!"
  THEN LET m == UnaryMeaning(Tail(s), res) IN
         IF m.kind = "error" THEN m ELSE Value(Bool(~truthy(m.val)))
  ELSE LET ps == Operands(s, Comparisons)
           m == [i \in DOMAIN ps |-> PrimaryMeaning(ps[i], res)]
           wrong == {i \in DOMAIN m : m[i].kind = "error"}
           op == s[Len(ps[1]) + 1].kind
       IN IF Len(ps) = 1 \/ wrong # {} THEN m[IF wrong = {} THEN 1 ELSE Min(wrong)]
          ELSE LET c == compare(op, m[1].val, m[2].val, 0) IN
                 IF c.kind = "error" THEN Error ELSE Value(c.val)

(* A chain has the meaning of the operand that decides it: the first one
   that is in error or decisive, else the last. *)
Decided(m, Decisive(_)) ==
  LET stop == {i \in DOMAIN m : m[i].kind = "error" \/ Decisive(m[i].val)} IN
    m[IF stop = {} THEN Len(m) ELSE Min(stop)]

AndMeaning(s, res) ==
  LET us == Operands(s, {"&&"}) IN
    Decided([i \in DOMAIN us |-> UnaryMeaning(us[i], res)], LAMBDA v : ~truthy(v))

Meaning(s, res) ==
  LET ands == Operands(s, {"||"}) IN
    Decided([i \in DOMAIN ands |-> AndMeaning(ands[i], res)], truthy)

-----------------------------------------------------------------------------
Evaluated == outcome # Running /\ tokens # <<>>

(* "logical && || with short-circuit evaluation" (head comment): the value of
   a well-formed expression is that of the operand that decides it, whatever
   the operands after it would do; each skip ends where its operand ends. *)
MatchesReference ==
  Evaluated /\ IsExpr(tokens) => outcome = Meaning(tokens, input)

(* Some logical operator has a left operand that makes it skip the right one. *)
SomethingSkipped ==
  \E i \in DOMAIN tokens, h \in DOMAIN tokens :
    /\ h < i
    /\ tokens[i].kind \in {"&&", "||"}
    /\ LET left == SubSeq(tokens, h, i - 1) IN
         /\ IsExpr(left)
         /\ LET m == Meaning(left, input) IN
              m.kind = "value" /\ truthy(m.val) = (tokens[i].kind = "||")

(* A malformed expression is refused, unless a short circuit has skipped what
   follows a decided operand. *)
MalformedIsRefused ==
  Evaluated /\ ~IsExpr(tokens) /\ outcome.kind = "value" => SomethingSkipped

OpenParenthesis ==
  \E i \in DOMAIN tokens :
    /\ tokens[i].kind = "("
    /\ \A j \in (i + 1)..(Len(tokens) + 1) : Depth(tokens, j) > Depth(tokens, i)

(* The parser leaves the token list only from a skip, in an expression that
   ends inside a parenthesis or in a dot; every other malformed expression
   ends in a value or an error, and no well-formed one panics. *)
PanicsOnlyAtOpenEnd ==
  outcome.kind = "panic" =>
    SomethingSkipped /\ (OpenParenthesis \/ Last(tokens).kind = ".")
=============================================================================
