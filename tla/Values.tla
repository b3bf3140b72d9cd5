------------------------------- MODULE Values -------------------------------
(***************************************************************************)
(* common.Value: what a column of a row holds, and how values are compared *)
(* and converted (pkg/common/types.go, pkg/query/compare.go).              *)
(*                                                                         *)
(* Abstractions.                                                           *)
(*   - every integer type is "int": they share one field and one           *)
(*     comparison; timestamps are left out;                                *)
(*   - a FLOAT64 is counted in halves, so that 1.5 is 3 and a cast cuts;   *)
(*   - a string is an atom; its order is its place in Lexicon, which must  *)
(*     hold every string of a run, printed numbers included.               *)
(***************************************************************************)
EXTENDS Integers, Sequences, FiniteSets, TLC

CONSTANT Lexicon  \* the strings of a run, in the order Go compares them

Null == [typ |-> "null", raw |-> 0]
BoolVal(b) == [typ |-> "bool", raw |-> IF b THEN 1 ELSE 0]
IntVal(i) == [typ |-> "int", raw |-> i]
FloatVal(h) == [typ |-> "float", raw |-> h]
StrVal(s) == [typ |-> "str", raw |-> s]

IsNull(x) == x.typ = "null"
IsNumber(x) == x.typ \in {"int", "float"}

\* A number in halves.
Halves(x) == IF x.typ = "float" THEN x.raw ELSE 2 * x.raw

RankOf == [s \in {Lexicon[i] : i \in DOMAIN Lexicon} |->
             CHOOSE i \in DOMAIN Lexicon : Lexicon[i] = s]
StrLess(a, b) == RankOf[a] < RankOf[b]
StrMax(a, b) == IF StrLess(b, a) THEN a ELSE b
StrMin(a, b) == IF StrLess(a, b) THEN a ELSE b

\* Two NULLs are equal; values of different kinds never are, numbers excepted.
Equal(a, b) ==
  \/ IsNull(a) /\ IsNull(b)
  \/ IsNumber(a) /\ IsNumber(b) /\ Halves(a) = Halves(b)
  \/ a.typ = b.typ /\ ~IsNull(a) /\ ~IsNumber(a) /\ a.raw = b.raw

\* Less is false whenever it makes no sense: with a NULL, between two kinds.
Less(a, b) ==
  \/ IsNumber(a) /\ IsNumber(b) /\ Halves(a) < Halves(b)
  \/ a.typ = "bool" /\ b.typ = "bool" /\ a.raw < b.raw
  \/ a.typ = "str" /\ b.typ = "str" /\ StrLess(a.raw, b.raw)

\* compareValues, on two values that are not NULL.
Holds(op, a, b) ==
  \/ op = "=" /\ Equal(a, b)
  \/ op = "!=" /\ ~Equal(a, b)
  \/ op = "<" /\ Less(a, b)
  \/ op = ">" /\ Less(b, a)
  \/ op = "<=" /\ ~Less(b, a)
  \/ op = ">=" /\ ~Less(a, b)

\* The operator that says the same of the operands exchanged.
Flip(op) ==
  IF op \in {"=", "!="} THEN op
  ELSE [o \in {"<", "<=", ">", ">="} |->
          CASE o = "<" -> ">" [] o = "<=" -> ">=" [] o = ">" -> "<" [] o = ">=" -> "<="][op]

Text(x) ==
  CASE x.typ = "null" -> "NULL"
    [] x.typ = "bool" -> IF x.raw = 1 THEN "true" ELSE "false"
    [] x.typ = "int" -> ToString(x.raw)
    [] x.typ = "float" -> LET size == IF x.raw < 0 THEN -x.raw ELSE x.raw IN
         (IF x.raw < 0 THEN "-" ELSE "") \o ToString(size \div 2)
         \o (IF size % 2 = 0 THEN "" ELSE ".5")
    [] x.typ = "str" -> x.raw

Truthy(x) == ~IsNull(x) /\ x.raw # (IF x.typ = "str" THEN "" ELSE 0)

\* Go's conversion of a float to an integer cuts towards zero.
Truncate(h) == IF h >= 0 THEN h \div 2 ELSE -((-h) \div 2)

\* coerceValue: what cannot be converted comes back as it is.
Coerce(x, typ) ==
  IF IsNull(x) \/ x.typ = typ THEN x
  ELSE IF typ = "int" /\ x.typ = "bool" THEN IntVal(x.raw)
  ELSE IF typ = "int" /\ x.typ = "float" THEN IntVal(Truncate(x.raw))
  ELSE IF typ = "float" /\ x.typ \in {"int", "bool"} THEN FloatVal(2 * x.raw)
  ELSE IF typ = "bool" THEN BoolVal(Truthy(x))
  ELSE x
=============================================================================
