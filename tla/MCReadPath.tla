----------------------------- MODULE MCReadPath -----------------------------
(* Instance of ReadPath for TLC. *)
EXTENDS ReadPath

MCLexicon == <<"", "10", "9", "NULL", "a", "b", "\\xff">>
MCSchema == <<[name |-> "id", typ |-> "int"], [name |-> "s", typ |-> "str"],
              [name |-> "b", typ |-> "bool"], [name |-> "n", typ |-> "int"]>>
RowOf(id, s, b, n) ==
  [c \in ColumnNames |-> CASE c = "id" -> IntVal(id) [] c = "s" -> s [] c = "b" -> b
                           [] c = "n" -> n]
\* Two rows per key; dictionaries in and out of order, a NULL beside a zero and beside
\* the string "NULL", BOOLs of both values and NULL.
MCRowsFor == [k \in {"10", "9"} |->
  IF k = "9" THEN {RowOf(9, StrVal("a"), BoolVal(TRUE), IntVal(0)), RowOf(9, Null, Null, Null)}
  ELSE {RowOf(10, StrVal("b"), BoolVal(FALSE), IntVal(0)),
        RowOf(10, StrVal("NULL"), Null, IntVal(1))}]

Item(e) == [e |-> e, as |-> ""]
Query0(cols, where, groups, limit) ==
  [cols |-> cols, where |-> where, groups |-> groups, limit |-> limit]
Num(i) == Lit(IntVal(i))
MCQueries == {
  Query0(<<Item(Star)>>, None, <<>>, <<>>),
  Query0(<<Item(Star)>>, Bin(">", Name("id"), Num(9)), <<>>, <<>>),
  Query0(<<Item(Name("n"))>>, Bin("=", Name("s"), Lit(StrVal("a"))), <<>>, <<>>),
  Query0(<<Item(Name("s")), Item(Name("n"))>>, Bin("<", Num(0), Name("n")), <<>>, <<>>),
  Query0(<<Item(Name("id"))>>, Bin("and", Bin("<=", Name("n"), Num(0)), Not(Name("b"))),
         <<>>, <<1, 1>>),
  Query0(<<Item(Bin("+", Name("n"), Num(1)))>>, Bin("or", Name("b"), Bin("=", Num(1), Num(2))),
         <<>>, <<>>),
  Query0(<<Item(Name("b")), Item(Name("n"))>>, None, <<>>, <<1, 2>>),
  Query0(<<Item(Name("s")), Item(Agg("COUNT", Star)), Item(Agg("MAX", Name("n")))>>, None,
         <<Name("s")>>, <<>>),
  Query0(<<Item(Agg("SUM", Name("n"))), Item(Agg("AVG", Name("n")))>>, None,
         <<Name("s"), Name("b")>>, <<>>)
}
=============================================================================
