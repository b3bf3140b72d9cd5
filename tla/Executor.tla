------------------------------ MODULE Executor ------------------------------
(***************************************************************************)
(* The executor (pkg/query/executor*.go): a plan and the entries the       *)
(* storage returned for its scan make a result, in chunks.                 *)
(*                                                                         *)
(* A result is [ok, cols, chunks]; a chunk is a sequence of rows and a row *)
(* has one value per column.  AVG is cut to halves, as every FLOAT64 is.   *)
(***************************************************************************)
EXTENDS Query

CONSTANT UintLimit  \* 2^64, where the uint64 sums of LIMIT wrap

Result(cols, chunks) == [ok |-> TRUE, cols |-> cols, chunks |-> chunks]
Failed == [ok |-> FALSE, cols |-> <<>>, chunks |-> <<>>]
NonEmpty(chunks) == SelectSeq(chunks, LAMBDA c : c # <<>>)
RowsOf(r) == FlattenSeq(r.chunks)

\* One value that failed fails the query.
Checked(cols, chunks) ==
  IF \E c \in DOMAIN chunks : \E r \in DOMAIN chunks[c] : Failure \in Range(chunks[c][r])
  THEN Failed ELSE Result(cols, chunks)

\* buildRowValues: of two columns with one name the later one is seen.
RowMap(cols, row) ==
  [n \in {cols[i].name : i \in DOMAIN cols} |->
     row[CHOOSE i \in DOMAIN cols : /\ cols[i].name = n
                                    /\ \A j \in DOMAIN cols : cols[j].name = n => j <= i]]

\* What a vector of a type takes, converted if need be; the rest is a Failure.
Fit(x, typ) == IF x = Failure \/ IsNull(x) THEN x
               ELSE IF Coerce(x, typ).typ = typ THEN Coerce(x, typ) ELSE Failure

-----------------------------------------------------------------------------
(* Scan and filter *)

\* fillColumnValues: what is missing or does not fit is NULL.
Filled(vals, col) ==
  LET x == IF col.name \in DOMAIN vals THEN Fit(vals[col.name], col.typ) ELSE Null
  IN IF x = Failure THEN Null ELSE x

Chunked(rows, size) ==
  [c \in 1..((Len(rows) + size - 1) \div size) |->
     SubSeq(rows, (c - 1) * size + 1, IF c * size < Len(rows) THEN c * size ELSE Len(rows))]

\* buildChunksFromEntries after filterEntriesByPredicate
ScanRows(p, entries, size) ==
  LET kept == SelectSeq(entries, LAMBDA e : Matches(p.pred, e.vals))
  IN Result(p.cols, Chunked([i \in DOMAIN kept |->
                               [c \in DOMAIN p.cols |-> Filled(kept[i].vals, p.cols[c])]], size))

\* resolveColumnIndex: a resolved column is looked up by its place in the table,
\* in a chunk that may hold fewer columns; 0 leaves the condition to Eval.
FastColumn(cols, e) ==
  IF e.k = "col" /\ e.idx <= Len(cols) THEN e.idx
  ELSE IF e.k = "name" /\ \E i \in DOMAIN cols : cols[i].name = e.name
  THEN CHOOSE i \in DOMAIN cols : /\ cols[i].name = e.name
                                  /\ \A j \in DOMAIN cols : cols[j].name = e.name => i <= j
  ELSE 0

FastCondition(cols, c) ==
  /\ c.k = "bin" /\ c.op \in Comparisons /\ IsValue(c.r)
  /\ FastColumn(cols, c.l) # 0

Keeps(cols, c, row) ==
  IF FastCondition(cols, c)
  THEN LET x == row[FastColumn(cols, c.l)] IN ~IsNull(x) /\ Holds(c.op, x, c.r.val)
  ELSE Truthy(Eval(c, RowMap(cols, row)))

FilterRows(in, c) ==
  Result(in.cols, NonEmpty([i \in DOMAIN in.chunks |->
                              SelectSeq(in.chunks[i], LAMBDA row : Keeps(in.cols, c, row))]))

-----------------------------------------------------------------------------
(* Projection: an expression that fails or does not fit fails the query. *)

ProjectRows(in, p) ==
  LET value(row, i) == Fit(Eval(p.exprs[i], RowMap(in.cols, row)), p.cols[i].typ)
  IN Checked(p.cols, [c \in DOMAIN in.chunks |->
                        [r \in DOMAIN in.chunks[c] |->
                           [i \in DOMAIN p.exprs |-> value(in.chunks[c][r], i)]]])

-----------------------------------------------------------------------------
(* Aggregation *)

\* toFloat64, in halves
Float(x) == IF x.typ \in {"int", "float", "bool"} THEN Halves(x) ELSE 0

\* The accumulator of one function over the values of a group: an argument that
\* fails is skipped, COUNT counts every other row, NULL or not.
Accumulated(a, rows) ==
  LET vals == SelectSeq([i \in DOMAIN rows |-> Eval(a.e, rows[i])], LAMBDA x : x # Failure)
      valid == SelectSeq(vals, LAMBDA x : ~IsNull(x))
      sum == FoldLeft(LAMBDA n, x : n + Float(x), 0, valid)
  IN CASE a.f = "COUNT" -> IntVal(Len(vals))
       [] a.f # "COUNT" /\ valid = <<>> -> Null
       [] a.f = "SUM" /\ valid # <<>> -> FloatVal(sum)
       [] a.f = "AVG" /\ valid # <<>> -> FloatVal(Quotient(sum, Len(valid)))
       [] a.f = "MIN" /\ valid # <<>> ->
            FoldLeft(LAMBDA m, x : IF Less(x, m) THEN x ELSE m, Head(valid), Tail(valid))
       [] a.f = "MAX" /\ valid # <<>> ->
            FoldLeft(LAMBDA m, x : IF Less(m, x) THEN x ELSE m, Head(valid), Tail(valid))

\* Faulty variant: only the first grouping column tells groups apart.
GroupKeyFirst(groups, row) ==
  [g \in 1..(IF groups = <<>> THEN 0 ELSE 1) |-> Text(Eval(groups[g], row))]

\* buildGroupKey: groups are told apart by the texts of their values, NULL being the
\* text "NULL".  The character that joins them is taken to be in no string.
GroupKey(groups, row) ==
  [g \in DOMAIN groups |-> LET x == Eval(groups[g], row) IN
                           IF x = Failure THEN "<error>" ELSE Text(x)]

\* What the evaluation of a grouping column puts into the result.
OrNull(x) == IF x = Failure THEN Null ELSE x

\* The row of the result for a group and its first row.
GroupRow(p, row, group) ==
  LET cells == [g \in DOMAIN p.groups |-> OrNull(Eval(p.groups[g], row))]
               \o [a \in DOMAIN p.aggs |-> Accumulated(p.aggs[a], group)]
  IN [c \in DOMAIN cells |-> Fit(cells[c], p.cols[c].typ)]

\* The rows of the group that the row at i is the first of.
MembersOf(rows, keys, i) ==
  LET at == SetToSortSeq({j \in DOMAIN rows : keys[j] = keys[i]}, <) IN [m \in DOMAIN at |-> rows[at[m]]]

\* Groups come in the order of their first rows; without rows there is one group.
GroupRows(p, rows, keys) ==
  LET order == SetToSortSeq({i \in DOMAIN rows : \A j \in 1..i - 1 : keys[j] # keys[i]}, <)
  IN IF rows = <<>> THEN <<GroupRow(p, << >>, <<>>)>>
     ELSE [g \in DOMAIN order |-> GroupRow(p, rows[order[g]], MembersOf(rows, keys, order[g]))]

Aggregated(p, rows) ==
  Checked(p.cols, <<GroupRows(p, rows, [i \in DOMAIN rows |-> GroupKey(p.groups, rows[i])])>>)

RowMaps(cols, rows) == [i \in DOMAIN rows |-> RowMap(cols, rows[i])]
AggregateRows(in, p) == Aggregated(p, RowMaps(in.cols, RowsOf(in)))

-----------------------------------------------------------------------------
(* LIMIT *)

\* ColumnVector.Slice of rows from + 1 .. to: the bits of a BOOL column are copied
\* from the beginning of the word of the first row, the NULLs row by row.
Slice(cols, chunk, from, to) ==
  LET word == (from \div WordBits) * WordBits
      bit(r, c) == IF IsNull(chunk[r][c]) THEN BoolVal(FALSE) ELSE chunk[r][c]
  IN [r \in 1..to - from |->
        [c \in DOMAIN cols |-> IF IsNull(chunk[from + r][c]) THEN Null
                               ELSE IF cols[c].typ = "bool" THEN bit(word + r, c)
                               ELSE chunk[from + r][c]]]

Plus(a, b) == (a + b) % UintLimit

\* The rows of a chunk that are returned: none, and the end of the loop, when the sum
\* of the first row and the count wraps.
Taken(s, chunk, p, cols) ==
  LET from == p.offset - s.skipped
      to == Min({Len(chunk), Plus(from, p.count - s.returned)})
      returned == Plus(s.returned, to - from)
  IN IF from >= to THEN [s EXCEPT !.done = TRUE]
     ELSE [skipped |-> p.offset, returned |-> returned,
           out |-> Append(s.out, Slice(cols, chunk, from, to)),
           done |-> returned >= p.count]

\* Faulty variant: a chunk skipped as a whole is not counted.
LimitChunkUncounted(s, chunk, p, cols) ==
  IF s.done \/ Plus(s.skipped, Len(chunk)) <= p.offset THEN s ELSE Taken(s, chunk, p, cols)

\* One chunk of executeLimit's loop.
LimitChunk(s, chunk, p, cols) ==
  IF s.done THEN s
  ELSE IF Plus(s.skipped, Len(chunk)) <= p.offset
  THEN [s EXCEPT !.skipped = Plus(@, Len(chunk))]
  ELSE Taken(s, chunk, p, cols)

LimitRows(in, p) ==
  LET start == [skipped |-> 0, returned |-> 0, out |-> <<>>, done |-> FALSE]
  IN Result(in.cols, FoldLeft(LAMBDA s, c : LimitChunk(s, c, p, in.cols), start, in.chunks).out)

-----------------------------------------------------------------------------
\* executeNode: a failure below is the failure of the query.
RECURSIVE Execute(_, _, _)
Execute(p, entries, size) ==
  IF p.k = "scan" THEN ScanRows(p, entries, size)
  ELSE LET in == Execute(p.child, entries, size) IN
       IF ~in.ok THEN Failed
       ELSE CASE p.k = "filter" -> FilterRows(in, p.cond)
              [] p.k = "project" -> ProjectRows(in, p)
              [] p.k = "agg" -> AggregateRows(in, p)
              [] p.k = "limit" -> LimitRows(in, p)
=============================================================================
