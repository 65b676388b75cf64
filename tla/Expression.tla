----------------------------- MODULE Expression -----------------------------
(* Expression evaluation (src/src/executor/expression.rs): the value         *)
(* domain, the three-valued logic, the binary, unary, cast and function      *)
(* operations, aggregate states, column lookup and subqueries.               *)
(*                                                                           *)
(* A value is a pair <<kind, payload>>.  A string is a sequence of character *)
(* codes, a float counts units of 1/Scale, a boolean is 0 or 1.  Err stands  *)
(* for every Err(_) an evaluation can return; the message is left out.       *)
(* Expressions are records tagged by "op".                                   *)
EXTENDS Integers, SequencesExt, TLC

CONSTANT HashFirst(_)      \* the element of a non-empty set that a HashMap yields first

Scale == 6                 \* floats are multiples of 1/6: exact for averages of 1, 2 or 3 integers

Null    == <<"null", 0>>
Err     == <<"err", 0>>
Integer(i) == <<"int", i>>
Float(x) == <<"float", x>>
Bool(b) == <<"bool", IF b THEN 1 ELSE 0>>
Str(s)  == <<"str", s>>
Ts(t)   == <<"ts", t>>
List(s) == <<"list", s>>

Kind(v)  == v[1]
IsNull(v) == Kind(v) = "null"
IsNum(v) == Kind(v) \in {"int", "float"}
Sixths(v) == IF Kind(v) = "int" THEN v[2] * Scale ELSE v[2]

(* A float that is a whole number is returned as an integer by SUM and AVG. *)
WholeOrFloat(x) == IF x % Scale = 0 THEN Integer(x \div Scale) ELSE Float(x)

(* Character codes: the digits are themselves; 'a'..'z' are 10..35 and 'A'..'Z' 40..65. *)
MinusSign == 70
PlusSign  == 71
Percent   == 72
Underscore == 73
LowerChar(c) == IF c \in 40..65 THEN c - 30 ELSE c
Lower(s) == [i \in DOMAIN s |-> LowerChar(s[i])]
TrueText  == {<<29, 27, 30, 14>>, <<29>>, <<1>>}            \* "true", "t", "1"
FalseText == {<<15, 10, 21, 28, 14>>, <<15>>, <<0>>}        \* "false", "f", "0"

-----------------------------------------------------------------------------
(* ThreeValuedLogic *)

Truth(v) ==
    CASE IsNull(v) -> "unknown"
      [] Kind(v) = "ts" -> "true"
      [] Kind(v) \in {"str", "list"} -> IF v[2] = <<>> THEN "false" ELSE "true"
      [] OTHER -> IF v[2] = 0 THEN "false" ELSE "true"

OfTruth(t) == CASE t = "true" -> Bool(TRUE) [] t = "false" -> Bool(FALSE) [] OTHER -> Null

And3(a, b) == IF "false" \in {a, b} THEN "false" ELSE IF "unknown" \in {a, b} THEN "unknown" ELSE "true"
Or3(a, b)  == IF "true" \in {a, b} THEN "true" ELSE IF "unknown" \in {a, b} THEN "unknown" ELSE "false"
Not3(a)    == CASE a = "true" -> "false" [] a = "false" -> "true" [] OTHER -> "unknown"

-----------------------------------------------------------------------------
(* Arithmetic, text and comparison *)

Trunc(a, b) ==              \* Rust's integer division, which rounds towards zero
    LET q == (IF a < 0 THEN -a ELSE a) \div (IF b < 0 THEN -b ELSE b)
    IN  IF (a < 0) = (b < 0) THEN q ELSE -q

Arithmetic(op, l, r) ==
    CASE op = "+" /\ Kind(l) = "str" /\ Kind(r) = "str" -> Str(l[2] \o r[2])
      [] ~(IsNum(l) /\ IsNum(r)) -> Err
      [] op = "/" /\ r[2] = 0 -> Null
      [] Kind(l) = "int" /\ Kind(r) = "int" ->
            Integer(CASE op = "+" -> l[2] + r[2] [] op = "-" -> l[2] - r[2]
                  [] op = "*" -> l[2] * r[2] [] OTHER -> Trunc(l[2], r[2]))
      [] OTHER -> LET x == Sixths(l)  y == Sixths(r)
                  IN  Float(CASE op = "+" -> x + y [] op = "-" -> x - y
                              [] op = "*" -> Trunc(x * y, Scale) [] OTHER -> Trunc(x * Scale, y))

(* The Debug text of a non-string operand of ||: distinct values give distinct texts. *)
DebugText(v) == IF Kind(v) = "str" THEN v[2] ELSE <<-1, IF Kind(v) = "list" THEN 0 ELSE v[2]>>
Concatenate(l, r) == Str(DebugText(l) \o DebugText(r))

TextLess(a, b) ==
    \E n \in 0 .. Len(b) - 1 :
        /\ n <= Len(a)
        /\ SubSeq(a, 1, n) = SubSeq(b, 1, n)
        /\ n = Len(a) \/ a[n + 1] < b[n + 1]

Equal(l, r) ==
    \/ Kind(l) = Kind(r) /\ Kind(l) \in {"int", "float", "str", "bool"} /\ l = r
    \/ IsNum(l) /\ IsNum(r) /\ Sixths(l) = Sixths(r)

(* evaluate_less_than; NULL for incompatible types. *)
LessThan(l, r) ==
    CASE IsNum(l) /\ IsNum(r) -> Bool(Sixths(l) < Sixths(r))
      [] Kind(l) = "str" /\ Kind(r) = "str" -> Bool(TextLess(l[2], r[2]))
      [] Kind(l) = Kind(r) /\ Kind(l) \in {"bool", "ts"} -> Bool(l[2] < r[2])
      [] OTHER -> Null

LessOrEqual(l, r) == IF IsNull(LessThan(l, r)) THEN Null
                     ELSE Bool(LessThan(l, r) = Bool(TRUE) \/ Equal(l, r))
GreaterOrEqual(l, r) == OfTruth(Not3(Truth(LessThan(l, r))))

(* LIKE: '%' becomes ".*" and '_' becomes "." of an anchored regular expression. *)
RECURSIVE LikeMatch(_, _)
LikeMatch(s, p) ==
    IF p = <<>> THEN s = <<>>
    ELSE IF Head(p) = Percent
         THEN LikeMatch(s, Tail(p)) \/ (s # <<>> /\ LikeMatch(Tail(s), p))
         ELSE s # <<>> /\ Head(p) \in {Head(s), Underscore} /\ LikeMatch(Tail(s), Tail(p))

Like(l, r, fold) ==
    IF Kind(l) = "str" /\ Kind(r) = "str"
    THEN Bool(IF fold THEN LikeMatch(Lower(l[2]), Lower(r[2])) ELSE LikeMatch(l[2], r[2]))
    ELSE Err

In(l, r) == CASE Kind(r) = "list" -> Bool(\E i \in DOMAIN r[2] : Equal(l, r[2][i]))
              [] Kind(r) = "str" -> Bool(Kind(l) = "str" /\ l = r)
              [] OTHER -> Err

Is(l, r) == IF IsNull(l) \/ IsNull(r) THEN IsNull(l) /\ IsNull(r) ELSE Equal(l, r)

(* handle_null_in_binary_operation: NULL for every operator but IS and IS NOT. *)
NullOperand(op) == Null

BinaryOperation(op, l, r) ==
    IF op \notin {"is", "isnot"} /\ (IsNull(l) \/ IsNull(r)) THEN NullOperand(op)
    ELSE CASE op \in {"+", "-", "*", "/"} -> Arithmetic(op, l, r)
           [] op = "||" -> Concatenate(l, r)
           [] op = "=" -> Bool(Equal(l, r))
           [] op = "<>" -> Bool(~Equal(l, r))
           [] op = "<" -> LessThan(l, r)
           [] op = ">" -> LessThan(r, l)
           [] op = "<=" -> LessOrEqual(l, r)
           [] op = ">=" -> GreaterOrEqual(l, r)
           [] op = "and" -> OfTruth(And3(Truth(l), Truth(r)))
           [] op = "or" -> OfTruth(Or3(Truth(l), Truth(r)))
           [] op = "like" -> Like(l, r, FALSE)
           [] op = "ilike" -> Like(l, r, TRUE)
           [] op = "in" -> In(l, r)
           [] op = "is" -> Bool(Is(l, r))
           [] op = "isnot" -> Bool(~Is(l, r))

UnaryOperation(op, v) ==
    CASE op = "not" -> OfTruth(Not3(Truth(v)))
      [] IsNull(v) -> Null
      [] ~IsNum(v) -> Err
      [] op = "minus" -> <<Kind(v), -v[2]>>
      [] OTHER -> v

RECURSIVE Digits(_)
Digits(n) == IF n < 10 THEN <<n>> ELSE Append(Digits(n \div 10), n % 10)
IntText(i) == IF i < 0 THEN <<MinusSign>> \o Digits(-i) ELSE Digits(i)

(* str::parse::<i64>: an optional sign and at least one digit. *)
ParseInt(s) ==
    LET signed == s # <<>> /\ Head(s) \in {MinusSign, PlusSign}
        digits == IF signed THEN Tail(s) ELSE s
        n == FoldLeft(LAMBDA acc, d : 10 * acc + d, 0, digits)
    IN  IF digits = <<>> \/ \E i \in DOMAIN digits : digits[i] \notin 0..9 THEN Null
        ELSE Integer(IF signed /\ Head(s) = MinusSign THEN -n ELSE n)

(* evaluate_cast; the text of a float, a timestamp or a list is only injective. *)
Cast(v, type) ==
    CASE IsNull(v) -> Null
      [] type = "varchar" -> Str(CASE Kind(v) = "str" -> v[2]
                                   [] Kind(v) = "int" -> IntText(v[2])
                                   [] Kind(v) = "bool" -> CHOOSE t \in TrueText \cup FalseText :
                                                Len(t) > 1 /\ (t \in TrueText) = (v[2] = 1)
                                   [] OTHER -> DebugText(v))
      [] type = "integer" -> CASE Kind(v) \in {"int", "bool"} -> Integer(v[2])
                               [] Kind(v) = "float" -> Integer(Trunc(v[2], Scale))
                               [] Kind(v) = "str" -> ParseInt(v[2])
                               [] OTHER -> Null
      [] type = "real" -> CASE IsNum(v) -> Float(Sixths(v))
                            [] Kind(v) = "str" /\ ~IsNull(ParseInt(v[2])) -> Float(Sixths(ParseInt(v[2])))
                            [] OTHER -> Null
      [] type = "boolean" -> CASE Kind(v) \in {"int", "bool"} -> Bool(v[2] # 0)
                               [] Kind(v) = "str" /\ Lower(v[2]) \in TrueText -> Bool(TRUE)
                               [] Kind(v) = "str" /\ Lower(v[2]) \in FalseText -> Bool(FALSE)
                               [] OTHER -> Null
      [] OTHER -> Null

-----------------------------------------------------------------------------
(* AggregateState: new_*, update and result.  A state is the record of what  *)
(* has been folded so far; best = Err stands for None.                       *)

(* compare_values: -1, 0 or 1.  Kinds are ordered when they differ.  A NULL *)
(* on the left is Less even against NULL.                                   *)
Sign(x, y) == IF x < y THEN -1 ELSE IF x > y THEN 1 ELSE 0
KindRank(v) == CASE Kind(v) = "bool" -> 1 [] Kind(v) = "list" -> 2 [] Kind(v) = "ts" -> 3
                 [] Kind(v) = "int" -> 4 [] Kind(v) = "float" -> 5 [] OTHER -> 6
CompareKinded(a, b) ==
    CASE Kind(a) # Kind(b) -> Sign(KindRank(a), KindRank(b))
      [] Kind(a) = "str" -> IF a = b THEN 0 ELSE IF TextLess(a[2], b[2]) THEN -1 ELSE 1
      [] Kind(a) = "list" -> 0
      [] OTHER -> Sign(a[2], b[2])
AggregateCompare(a, b) == IF IsNull(a) THEN -1 ELSE IF IsNull(b) THEN 1 ELSE CompareKinded(a, b)

NewAggregate(f, distinct) ==
    [f |-> f, distinct |-> distinct, count |-> 0, sum |-> 0, seen |-> {}, best |-> Err]

Better(f, v, best) ==
    best = Err \/ AggregateCompare(v, best) = (IF f = "min" THEN -1 ELSE 1)

UpdateAggregate(s, v) ==
    LET fresh == ~s.distinct \/ v \notin s.seen
        seen  == IF s.distinct THEN s.seen \cup {v} ELSE s.seen
    IN  CASE s.f = "count" -> IF IsNull(v) THEN s
                              ELSE [s EXCEPT !.seen = seen, !.count = @ + (IF fresh THEN 1 ELSE 0)]
          [] s.f \in {"sum", "avg"} ->
                IF fresh /\ IsNum(v)
                THEN [s EXCEPT !.seen = seen, !.count = @ + 1, !.sum = @ + Sixths(v)]
                ELSE [s EXCEPT !.seen = seen]
          [] OTHER -> IF ~IsNull(v) /\ Better(s.f, v, s.best) THEN [s EXCEPT !.best = v] ELSE s

AggregateResult(s) ==
    CASE s.f = "count" -> Integer(s.count)
      [] s.f = "sum" -> WholeOrFloat(s.sum)
      [] s.f = "avg" -> IF s.count = 0 THEN Null ELSE WholeOrFloat(Trunc(s.sum, s.count))
      [] OTHER -> IF s.best = Err THEN Null ELSE s.best

-----------------------------------------------------------------------------
(* Evaluation contexts.  A column name is a pair <<table, name>>, with the   *)
(* table "" where the name is not qualified.                                 *)
(*   cols   the column map           left, right  the two sides of a join    *)
(*   aggs   HAVING's aggregates      db    the tables a subquery can scan    *)

NoSide == [cols |-> <<>>, row |-> <<>>]
NoMap  == <<>>
Context(cols, db) ==
    [cols |-> cols, left |-> NoSide, right |-> NoSide, aggs |-> NoMap, db |-> db]

(* Later columns of the same name replace earlier ones, as HashMap::insert does. *)
MapOf(keys, row) ==
    LET n == IF Len(keys) < Len(row) THEN Len(keys) ELSE Len(row)
    IN  [k \in {keys[i] : i \in 1..n} |->
            row[CHOOSE i \in 1..n : keys[i] = k /\ \A j \in i + 1 .. n : keys[j] # k]]

Qualified(alias, cols) == [i \in DOMAIN cols |-> <<alias, cols[i][2]>>]

(* create_basic_evaluation_context: plain names, names under the alias of the *)
(* input when it has one, and the outer row's values, which replace both.     *)
RowMap(cols, row, alias, outer) ==
    outer @@ (IF alias = "" THEN NoMap ELSE MapOf(Qualified(alias, cols), row)) @@ MapOf(cols, row)

SideValue(side, name) == side.row[CHOOSE i \in DOMAIN side.cols :
                            side.cols[i] = <<"", name>> /\ \A j \in 1 .. i - 1 : side.cols[j] # <<"", name>>]
HasSide(side, name) == \E i \in DOMAIN side.cols : side.cols[i] = <<"", name>>

(* Expression::Column: the exact name, then the fallbacks in the code's order. *)
LookupColumn(c, k) ==
    LET named == {x \in DOMAIN c.cols : x[1] # "" /\ x[2] = k[2]}
    IN  CASE k \in DOMAIN c.cols -> c.cols[k]
          [] k[1] = "" -> Null
          [] <<"left", k[2]>> \in named -> c.cols[<<"left", k[2]>>]
          [] <<"right", k[2]>> \in named -> c.cols[<<"right", k[2]>>]
          [] named # {} -> c.cols[HashFirst(named)]
          [] HasSide(c.left, k[2]) -> SideValue(c.left, k[2])
          [] HasSide(c.right, k[2]) -> SideValue(c.right, k[2])
          [] <<"", k[2]>> \in DOMAIN c.cols -> c.cols[<<"", k[2]>>]
          [] OTHER -> Null

(* The text an aggregate call is found under in HAVING's map. *)
AggregateKey(e) ==
    <<e.f, [i \in DOMAIN e.args |-> CASE e.args[i].op = "col" -> e.args[i].key[2]
                                      [] e.args[i].op = "lit" -> "LITERAL" [] OTHER -> "EXPR"]>>

AggregateNames == {"count", "sum", "avg", "min", "max"}

-----------------------------------------------------------------------------
(* Evaluation *)

(* collect_column_references *)
RECURSIVE ColumnReferences(_)
ColumnReferences(e) ==
    CASE e.op = "col" -> {e.key}
      [] e.op = "bin" -> ColumnReferences(e.l) \cup ColumnReferences(e.r)
      [] e.op = "un" -> ColumnReferences(e.e)
      [] e.op = "fn" -> UNION {ColumnReferences(e.args[i]) : i \in DOMAIN e.args}
      [] OTHER -> {}

(* find_correlated_columns_in_subquery *)
CorrelatedColumns(sq) ==
    {k \in ColumnReferences(sq.sel) \cup ColumnReferences(sq.where) : k[1] \notin {"", sq.table, sq.alias}}

(* execute_correlated: each correlated column the outer row has, under its    *)
(* qualified and its bare name.                                               *)
OuterValues(corr, cols) ==
    LET found == {k \in corr : k \in DOMAIN cols \/ <<"", k[2]>> \in DOMAIN cols}
        val(k) == IF k \in DOMAIN cols THEN cols[k] ELSE cols[<<"", k[2]>>]
        bare(n) == {k \in found : k[2] = n}
    IN  [k \in found \cup {<<"", k[2]>> : k \in found} |->
            IF k \in found THEN val(k) ELSE val(HashFirst(bare(k[2])))]

(* The ? operator: an error is passed on, a value goes to what follows. *)
Strict(v, Then(_)) == IF v = Err THEN Err ELSE Then(v)
OrNull(v) == IF v = Err THEN Null ELSE v
OrElse(v, w) == IF IsNull(v) THEN w ELSE v
Passes(v) == v # Err /\ Truth(v) = "true"
Failed(vs) == \E i \in DOMAIN vs : vs[i] = Err
Each(s, F(_)) == [i \in DOMAIN s |-> F(s[i])]

(* evaluate_subquery and evaluate_exists_subquery, given the subquery's values. *)
SubqueryResult(mode, vals) ==
    CASE mode = "in" -> List(vals)
      [] mode = "exists" -> Bool(vals # <<>>)
      [] OTHER -> IF vals = <<>> THEN Null ELSE vals[1]

(* evaluate_function of the functions that take the values of their arguments. *)
ApplyFunction(f, args) ==
    CASE Failed(args) -> Err
      [] f = "abs" -> IF Len(args) # 1 \/ ~IsNum(args[1]) THEN Err
                      ELSE <<Kind(args[1]), IF args[1][2] < 0 THEN -args[1][2] ELSE args[1][2]>>
      [] f = "length" -> IF Len(args) # 1 \/ Kind(args[1]) # "str" THEN Err
                         ELSE Integer(Len(args[1][2]))
      [] f = "nullif" -> IF Len(args) # 2 THEN Err
                         ELSE IF Equal(args[1], args[2]) THEN Null ELSE args[1]
      [] OTHER -> Err

(* SELECT sel FROM table alias WHERE where, the subquery an expression holds; *)
(* an error in WHERE excludes the row, an error in the select list is NULL.   *)
RECURSIVE Evaluate(_, _), FirstNonNull(_, _), EvaluateCase(_, _, _)
SubqueryValues(sq, t, c) ==
    LET ctx(row) == Context(RowMap(t.cols, row, sq.alias, OuterValues(CorrelatedColumns(sq), c.cols)), c.db)
        kept == SelectSeq(t.rows, LAMBDA row : Passes(Evaluate(sq.where, ctx(row))))
    IN  Each(kept, LAMBDA row : OrNull(Evaluate(sq.sel, ctx(row))))
EvaluateSubquery(sq, c, mode) ==
    IF sq.table \notin DOMAIN c.db THEN Err ELSE SubqueryResult(mode, SubqueryValues(sq, c.db[sq.table], c))

EvaluateFunction(e, c) ==
    CASE e.f \in AggregateNames ->
            IF AggregateKey(e) \in DOMAIN c.aggs THEN c.aggs[AggregateKey(e)] ELSE Err
      [] e.f = "coalesce" -> IF e.args = <<>> THEN Err ELSE FirstNonNull(e.args, c)
      [] OTHER -> ApplyFunction(e.f, Each(e.args, LAMBDA x : Evaluate(x, c)))

FirstNonNull(es, c) ==
    IF es = <<>> THEN Null ELSE OrElse(Evaluate(Head(es), c), FirstNonNull(Tail(es), c))

(* The branches of CASE in order; base is a value, or Err for a searched CASE. *)
EvaluateCase(base, e, c) ==
    IF e.branches = <<>> THEN Evaluate(e.else, c)
    ELSE Strict(Evaluate(e.branches[1][1], c), LAMBDA w :
            IF IF base = Err THEN Truth(w) = "true" ELSE Equal(base, w) THEN Evaluate(e.branches[1][2], c)
            ELSE EvaluateCase(base, [e EXCEPT !.branches = Tail(@)], c))

Evaluate(e, c) ==
    CASE e.op = "lit" -> e.v
      [] e.op = "col" -> LookupColumn(c, e.key)
      [] e.op = "bin" ->
            Strict(Evaluate(e.l, c), LAMBDA l :
                Strict(IF e.b = "in" /\ e.r.op = "sub" THEN EvaluateSubquery(e.r.q, c, "in") ELSE Evaluate(e.r, c),
                       LAMBDA r : BinaryOperation(e.b, l, r)))
      [] e.op = "un" -> Strict(Evaluate(e.e, c), LAMBDA v : UnaryOperation(e.u, v))
      [] e.op = "cast" -> Strict(Evaluate(e.e, c), LAMBDA v : Cast(v, e.type))
      [] e.op = "fn" -> EvaluateFunction(e, c)
      [] e.op = "list" -> Strict(List(Each(e.es, LAMBDA x : Evaluate(x, c))),
                                 LAMBDA l : IF Failed(l[2]) THEN Err ELSE l)
      [] e.op = "sub" -> EvaluateSubquery(e.q, c, "scalar")
      [] e.op = "exists" -> Strict(EvaluateSubquery(e.q, c, "exists"),
                                   LAMBDA v : Bool((v = Bool(TRUE)) # e.negated))
      [] e.op = "case" -> IF e.base.op = "none" THEN EvaluateCase(Err, e, c)
                          ELSE Strict(Evaluate(e.base, c), LAMBDA b : EvaluateCase(b, e, c))
      [] OTHER -> Err            \* Star, Parameter and window functions
=============================================================================
