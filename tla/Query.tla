------------------------------- MODULE Query -------------------------------
(***************************************************************************)
(* SELECT over one table (pkg/query): analysis, the optimizer's rules, the *)
(* predicates handed to the storage, and the executor.                     *)
(*                                                                         *)
(* Abstractions.                                                           *)
(*   - a statement is a record; parsing, LIKE, scalar functions (which     *)
(*     every evaluation refuses), DISTINCT-free SQL's other statements and *)
(*     unknown columns (refused by the analyzer) are left out;             *)
(*   - an expression's text names a column of a result: it is the name of  *)
(*     a column, or "expr";                                                *)
(*   - the analyzer never puts a filter above a projection or an           *)
(*     aggregation, and the rules for those cases are left out.            *)
(***************************************************************************)
EXTENDS Segments

CONSTANT MaxInt  \* the greatest INT64; the least is -MaxInt - 1

Lit(x) == [k |-> "lit", val |-> x]
Name(n) == [k |-> "name", name |-> n]
Bin(op, l, r) == [k |-> "bin", op |-> op, l |-> l, r |-> r]
Not(e) == [k |-> "not", e |-> e]
Neg(e) == [k |-> "neg", e |-> e]
Agg(f, e) == [k |-> "agg", f |-> f, e |-> e]
Star == [k |-> "star"]
None == [k |-> "none"]
Column(n) == [k |-> "col", name |-> n, idx |-> Position(n), typ |-> Schema[Position(n)].typ]

Comparisons == {"=", "!=", "<", ">", "<=", ">="}
IsColumn(e) == e.k \in {"name", "col"}
IsValue(e) == e.k = "lit" /\ ~IsNull(e.val)

\* resolveExpr: names become columns, with their places in the table.
RECURSIVE Resolve(_)
Resolve(e) ==
  CASE e.k = "name" -> Column(e.name)
    [] e.k = "bin" -> Bin(e.op, Resolve(e.l), Resolve(e.r))
    [] e.k \in {"not", "neg", "agg"} -> [e EXCEPT !.e = Resolve(@)]
    [] OTHER -> e

\* collectColumnRefsInto
RECURSIVE Refs(_)
Refs(e) ==
  CASE IsColumn(e) -> {e.name}
    [] e.k = "bin" -> Refs(e.l) \cup Refs(e.r)
    [] e.k \in {"not", "neg", "agg"} -> Refs(e.e)
    [] OTHER -> {}

\* splitConjuncts
RECURSIVE Conjuncts(_)
Conjuncts(e) == IF e.k = "bin" /\ e.op = "and" THEN Conjuncts(e.l) \cup Conjuncts(e.r) ELSE {e}

-----------------------------------------------------------------------------
(* Evaluation *)

Failure == [typ |-> "error", raw |-> 0]

\* An operand of an integer operation; a string has a zero there.
IntOf(x) == IF x.typ = "str" THEN 0 ELSE x.raw
InRange(i) == IF -MaxInt - 1 <= i /\ i <= MaxInt THEN IntVal(i) ELSE Failure

\* Quotients are cut towards zero, those of floats to halves.
Quotient(a, b) ==
  LET abs(i) == IF i < 0 THEN -i ELSE i
      q == abs(a) \div abs(b)
  IN IF (a < 0) = (b < 0) THEN q ELSE -q

IntArithmetic(op, a, b) ==
  CASE op = "+" -> InRange(a + b)
    [] op = "-" -> InRange(a - b)
    [] op = "*" -> InRange(a * b)
    [] op = "/" -> IF b = 0 THEN Null ELSE InRange(Quotient(a, b))

FloatArithmetic(op, a, b) ==
  CASE op = "+" -> FloatVal(a + b)
    [] op = "-" -> FloatVal(a - b)
    [] op = "*" -> FloatVal(Quotient(a * b, 2))
    [] op = "/" -> IF b = 0 THEN Null ELSE FloatVal(Quotient(2 * a, b))

Arithmetic(op, x, y) ==
  IF "float" \in {x.typ, y.typ}
  THEN FloatArithmetic(op, IF x.typ = "str" THEN 0 ELSE Halves(x), IF y.typ = "str" THEN 0 ELSE Halves(y))
  ELSE IntArithmetic(op, IntOf(x), IntOf(y))

\* evalUnaryExpr on NOT and on a sign: NOT of a NULL is true.
Negation(x) == IF x = Failure THEN x ELSE BoolVal(~Truthy(x))
Opposite(x) ==
  CASE IsNull(x) -> Null
    [] x.typ = "int" -> IF x.raw = -MaxInt - 1 THEN x ELSE IntVal(-x.raw)
    [] x.typ = "float" -> FloatVal(-x.raw)
    [] OTHER -> Failure

\* AND and OR look at the right operand only when they have to.
RECURSIVE Eval(_, _)
Eval(e, row) ==
  LET l == Eval(e.l, row)
      r == Eval(e.r, row)
      decided == e.op \in {"and", "or"} /\ Truthy(l) = (e.op = "or")
  IN CASE e.k = "lit" -> e.val
       [] IsColumn(e) -> IF e.name \in DOMAIN row THEN row[e.name] ELSE Null
       [] e.k \in {"star", "none"} -> Null
       [] e.k = "not" -> Negation(Eval(e.e, row))
       [] e.k = "neg" -> Opposite(Eval(e.e, row))
       [] e.k = "agg" -> Failure
       [] e.k = "bin" ->
            IF l = Failure THEN Failure
            ELSE IF decided THEN BoolVal(e.op = "or")
            ELSE IF r = Failure THEN Failure
            ELSE IF e.op \in {"and", "or"} THEN BoolVal(Truthy(r))
            ELSE IF IsNull(l) \/ IsNull(r) THEN Null
            ELSE IF e.op \in Comparisons THEN BoolVal(Holds(e.op, l, r))
            ELSE Arithmetic(e.op, l, r)

\* EvalRowPredicate; without WHERE every row matches, an error matches nothing.
Matches(e, row) == e.k = "none" \/ Truthy(Eval(e, row))

-----------------------------------------------------------------------------
(* Analysis.  A statement is [cols: sequence of [e, as], where, groups,     *)
(* limit]; "" is no alias, <<>> no limit.                                   *)

ExprName(e) == CASE IsColumn(e) -> e.name
                 [] e.k = "star" -> "*"
                 [] e.k = "agg" -> e.f \o "(" \o (IF IsColumn(e.e) THEN e.e.name ELSE "*") \o ")"
                 [] OTHER -> "expr"

\* exprReturnType; "none" is TypeNull.
RECURSIVE TypeOf(_)
TypeOf(e) ==
  CASE e.k = "lit" -> e.val.typ
    [] e.k = "col" -> e.typ
    [] e.k = "not" -> "bool"
    [] e.k = "neg" -> TypeOf(e.e)
    [] e.k = "agg" -> CASE e.f = "COUNT" -> "int" [] e.f = "AVG" -> "float" [] OTHER -> TypeOf(e.e)
    [] e.k = "bin" -> IF e.op \in Comparisons \cup {"and", "or"} THEN "bool"
                      ELSE IF "float" \in {TypeOf(e.l), TypeOf(e.r)} THEN "float" ELSE "int"
    [] OTHER -> "none"

\* inferAggReturnType: AVG has the type of its argument, an expression has none.
AggType(a) == IF a.f = "COUNT" THEN "int"
              ELSE IF a.e.k \in {"lit", "col"} THEN TypeOf(a.e) ELSE "none"

\* collectAggregates
RECURSIVE AggregatesIn(_)
AggregatesIn(e) ==
  CASE e.k = "agg" -> <<Resolve(e)>>
    [] e.k = "bin" -> AggregatesIn(e.l) \o AggregatesIn(e.r)
    [] e.k \in {"not", "neg"} -> AggregatesIn(e.e)
    [] OTHER -> <<>>
Aggregates(q) == FlattenSeq([i \in DOMAIN q.cols |-> AggregatesIn(q.cols[i].e)])

\* collectRequiredColumns: in the order of the table, all of them if none is named.
ScanColumns(q) ==
  LET wanted == UNION ({IF q.cols[i].e = Star THEN ColumnNames ELSE Refs(q.cols[i].e) : i \in DOMAIN q.cols}
                       \cup {Refs(q.groups[i]) : i \in DOMAIN q.groups} \cup {Refs(q.where)})
  IN SelectSeq(Schema, LAMBDA c : wanted = {} \/ c.name \in wanted)

AggregateNode(q, child) ==
  LET groups == [i \in DOMAIN q.groups |-> Resolve(q.groups[i])]
      aggs == Aggregates(q)
  IN [k |-> "agg", child |-> child, groups |-> groups, aggs |-> aggs,
      cols |-> [i \in DOMAIN groups |-> [name |-> ExprName(groups[i]), typ |-> TypeOf(groups[i])]]
               \o [i \in DOMAIN aggs |-> [name |-> ExprName(aggs[i]), typ |-> AggType(aggs[i])]]]

\* resolveSelectColumns: * stands for the columns of the table.
Selected(q) ==
  FlattenSeq([i \in DOMAIN q.cols |->
    IF q.cols[i].e = Star THEN [c \in Cols |-> [e |-> Column(Schema[c].name), as |-> ""]]
    ELSE <<[e |-> Resolve(q.cols[i].e), as |-> q.cols[i].as]>>])

\* remapAggregateRefs: an aggregate is a column of the aggregation's result.
Remap(e) == IF e.k = "agg" THEN [k |-> "col", name |-> ExprName(e), idx |-> 1, typ |-> AggType(e)]
            ELSE e

ProjectNode(q, child) ==
  LET out == Selected(q) IN
  [k |-> "project", child |-> child,
   exprs |-> [i \in DOMAIN out |-> IF child.k = "agg" THEN Remap(out[i].e) ELSE out[i].e],
   cols |-> [i \in DOMAIN out |-> [name |-> IF out[i].as # "" THEN out[i].as ELSE ExprName(out[i].e),
                                   typ |-> TypeOf(out[i].e)]]]

\* A plain list of columns is not projected: the result has what the scan reads.
NeedsProjection(q) ==
  /\ ~(Len(q.cols) = 1 /\ q.cols[1].e = Star)
  /\ \E i \in DOMAIN q.cols : q.cols[i].as # "" \/ q.cols[i].e.k \in {"agg", "bin", "not", "neg"}

ScanNode(q) == [k |-> "scan", cols |-> ScanColumns(q), pred |-> Resolve(q.where)]
Filtered(scan) == IF scan.pred = None THEN scan
                  ELSE [k |-> "filter", child |-> scan, cond |-> scan.pred]
Grouped(q, child) ==
  IF q.groups # <<>> \/ Aggregates(q) # <<>> THEN AggregateNode(q, child) ELSE child
Projected(q, child) == IF NeedsProjection(q) THEN ProjectNode(q, child) ELSE child
Limited(q, child) ==
  IF q.limit = <<>> THEN child
  ELSE [k |-> "limit", child |-> child, offset |-> q.limit[1], count |-> q.limit[2]]

\* buildSelectPipeline.  The condition stands in the scan and above it.
Analyze(q) == Limited(q, Projected(q, Grouped(q, Filtered(ScanNode(q)))))

-----------------------------------------------------------------------------
(* Optimizer *)

\* PredicatePushdown: the filter becomes part of the scan.
RECURSIVE PushDown(_)
PushDown(p) ==
  CASE p.k = "scan" -> p
    [] p.k = "filter" ->
         [PushDown(p.child) EXCEPT !.pred = IF @ = None THEN p.cond ELSE Bin("and", @, p.cond)]
    [] OTHER -> [p EXCEPT !.child = PushDown(@)]

\* ConstantFolding: operations on values that are not NULL; arithmetic stays.
RECURSIVE FoldExpr(_)
FoldExpr(e) ==
  CASE e.k = "bin" ->
         LET f == Bin(e.op, FoldExpr(e.l), FoldExpr(e.r)) IN
         IF IsValue(f.l) /\ IsValue(f.r) /\ e.op \in Comparisons \cup {"and", "or"}
         THEN Lit(Eval(f, << >>)) ELSE f
    [] e.k = "not" -> LET f == FoldExpr(e.e) IN
                      IF IsValue(f) THEN Lit(BoolVal(~Truthy(f.val))) ELSE Not(f)
    [] e.k \in {"neg", "agg"} -> [e EXCEPT !.e = FoldExpr(@)]
    [] OTHER -> e

RECURSIVE Fold(_)
Fold(p) ==
  CASE p.k = "scan" -> [p EXCEPT !.pred = FoldExpr(@)]
    [] p.k = "filter" -> [p EXCEPT !.child = Fold(@), !.cond = FoldExpr(@)]
    [] p.k = "project" -> [p EXCEPT !.child = Fold(@),
                                    !.exprs = [i \in DOMAIN @ |-> FoldExpr(@[i])]]
    [] OTHER -> [p EXCEPT !.child = Fold(@)]

RefsOfAll(es) == UNION {Refs(es[i]) : i \in DOMAIN es}

\* gatherNeeded, and what a node needs of its child.
RECURSIVE Needed(_)
Needed(p) ==
  CASE p.k = "scan" -> {}
    [] p.k = "filter" -> Refs(p.cond) \cup Needed(p.child)
    [] p.k = "project" -> RefsOfAll(p.exprs) \cup Needed(p.child)
    [] p.k = "agg" -> RefsOfAll(p.groups) \cup RefsOfAll(p.aggs) \cup Needed(p.child)
    [] p.k = "limit" -> Needed(p.child)

\* Faulty variant: the columns of GROUP BY are not asked for.
ChildNeedsArguments(p, needed) ==
  CASE p.k = "filter" -> needed \cup Refs(p.cond)
    [] p.k = "project" -> RefsOfAll(p.exprs)
    [] p.k = "agg" -> RefsOfAll(p.aggs)
    [] p.k = "limit" -> needed

ChildNeeds(p, needed) ==
  CASE p.k = "filter" -> needed \cup Refs(p.cond)
    [] p.k = "project" -> RefsOfAll(p.exprs)
    [] p.k = "agg" -> RefsOfAll(p.groups) \cup RefsOfAll(p.aggs)
    [] p.k = "limit" -> needed

\* ColumnPruning: with nothing needed the scan keeps its columns.
RECURSIVE Prune(_, _)
Prune(p, needed) ==
  IF p.k = "scan"
  THEN [p EXCEPT !.cols = SelectSeq(@, LAMBDA c : needed = {} \/ c.name \in needed)]
  ELSE [p EXCEPT !.child = Prune(@, ChildNeeds(p, needed))]

Pruned(p) == Prune(p, Needed(p))
Optimize(p) == Pruned(Fold(PushDown(p)))

-----------------------------------------------------------------------------
(* What the scan asks of the storage *)

HighestKey == Lexicon[Len(Lexicon)]   \* "\xff\xff\xff\xff"

RECURSIVE ScanOf(_)
ScanOf(p) == IF p.k = "scan" THEN p ELSE ScanOf(p.child)

\* extractKeyRange takes conditions on the first column of the table for
\* conditions on the key, and compares the literal's text.
KeyRange(pred) ==
  LET bounds(ops) == {Text(c.r.val) : c \in {d \in Conjuncts(pred) :
                        /\ d.k = "bin" /\ d.op \in ops
                        /\ d.l.k = "col" /\ d.l.idx = 1 /\ IsValue(d.r)}}
      highest(S) == CHOOSE x \in S : \A y \in S : ~StrLess(x, y)
      lowest(S) == CHOOSE x \in S : \A y \in S : ~StrLess(y, x)
  IN [start |-> highest({""} \cup bounds({"=", ">=", ">"})),
      end |-> lowest({HighestKey} \cup bounds({"=", "<=", "<"}))]

\* Faulty variant: the operator is not turned around with the operands.
ColumnPredicateStraight(c) ==
  IF IsColumn(c.l) /\ IsValue(c.r) THEN [col |-> c.l.name, op |-> c.op, val |-> c.r.val]
  ELSE [col |-> c.r.name, op |-> c.op, val |-> c.l.val]

\* columnBinaryToPredicate, for a comparison of a column and a value.
ColumnPredicate(c) ==
  IF IsColumn(c.l) /\ IsValue(c.r) THEN [col |-> c.l.name, op |-> c.op, val |-> c.r.val]
  ELSE [col |-> c.r.name, op |-> Flip(c.op), val |-> c.l.val]

\* ExtractColumnPredicates
ColumnPredicates(pred) ==
  {ColumnPredicate(c) : c \in {d \in Conjuncts(pred) :
     /\ d.k = "bin" /\ d.op \in Comparisons
     /\ \/ IsColumn(d.l) /\ IsValue(d.r)
        \/ IsColumn(d.r) /\ IsValue(d.l)}}
=============================================================================
