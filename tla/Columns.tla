------------------------------ MODULE Columns ------------------------------
(***************************************************************************)
(* Column vectors and their encodings (pkg/storage/column.go, encoding.go, *)
(* encoding_dict.go).  Rows are counted from 1.                            *)
(*                                                                         *)
(* An encoded column keeps its data as the code lays it out: plain values, *)
(* dictionary indices, runs or bits; compression (zstd) gives back what it *)
(* got and is left out.  WordBits and ByteValues stand for 64 and 256.     *)
(***************************************************************************)
EXTENDS Values

CONSTANTS
  WordBits,   \* rows in one word of a BOOL vector
  ByteValues  \* values of the narrowest dictionary index

ASSUME WidthAssumption == WordBits \in Nat \ {0} /\ ByteValues \in Nat \ {0, 1}

\* What a vector holds where nothing was set.
Zero(typ) == IF typ = "str" THEN "" ELSE 0

\* A vector: its raw data and the set of its NULL rows.
VectorOf(typ, vals) ==
  [typ |-> typ,
   data |-> [i \in DOMAIN vals |-> IF IsNull(vals[i]) THEN Zero(typ) ELSE vals[i].raw],
   nulls |-> {i \in DOMAIN vals : IsNull(vals[i])}]

\* A BOOL vector packs its rows into words; a word is the set of its true rows.
Words(vec) ==
  [w \in 1..((Len(vec.data) + WordBits - 1) \div WordBits) |->
     {i \in DOMAIN vec.data : (i - 1) \div WordBits = w - 1 /\ vec.data[i] = 1}]

-----------------------------------------------------------------------------
(* Encoding *)

RunStarts(data) == {i \in DOMAIN data : i = 1 \/ data[i] # data[i - 1]}

\* selectEncoding: integers with at most half as many runs as rows are
\* run-length encoded.  It looks at the raw data, zeros of NULL rows included.
Select(vec) ==
  IF vec.typ = "bool" THEN "bitmap"
  ELSE IF vec.typ = "str" THEN "dict"
  ELSE IF /\ vec.typ = "int" /\ Len(vec.data) >= 2
          /\ 2 * Cardinality(RunStarts(vec.data)) <= Len(vec.data) THEN "rle"
  ELSE "plain"

EncodePlain(vec) ==
  [enc |-> "plain", typ |-> vec.typ, rows |-> Len(vec.data), nulls |-> vec.nulls,
   data |-> vec.data, dict |-> <<>>]

\* Faulty variant: a NULL continues a run of zeros.
SameRunRaw(vec, i, j) == vec.data[i] = vec.data[j]

\* Runs keep NULL and zero apart, and carry the NULLs themselves.
SameRun(vec, i, j) ==
  vec.data[i] = vec.data[j] /\ (i \in vec.nulls <=> j \in vec.nulls)
EncodeRLE(vec) ==
  LET n == Len(vec.data)
      starts == {i \in 1..n : i = 1 \/ ~SameRun(vec, i - 1, i)}
      first(r) == CHOOSE i \in starts : Cardinality({j \in starts : j <= i}) = r
      next(i) == IF \E j \in starts : j > i
                 THEN CHOOSE j \in starts : j > i /\ \A h \in starts : h > i => j <= h
                 ELSE n + 1
  IN [enc |-> "rle", typ |-> vec.typ, rows |-> n, nulls |-> {},
      data |-> [r \in 1..Cardinality(starts) |->
                  [value |-> vec.data[first(r)], count |-> next(first(r)) - first(r),
                   isNull |-> first(r) \in vec.nulls]],
      dict |-> <<>>]

\* The index width leaves room for the NULL marker.
IndexWidth(size) == IF size + 1 <= ByteValues THEN 1
                    ELSE IF size + 1 <= ByteValues * ByteValues THEN 2 ELSE 4
NullMarker(width) == CASE width = 1 -> ByteValues - 1
                       [] width = 2 -> ByteValues * ByteValues - 1
                       [] OTHER -> ByteValues * ByteValues * ByteValues * ByteValues - 1

\* The dictionary lists the strings in the order of their first rows; indices
\* count from 0.
EncodeDict(vec) ==
  LET rows == DOMAIN vec.data \ vec.nulls
      firsts == {i \in rows : \A j \in rows : vec.data[j] = vec.data[i] => i <= j}
      place(i) == Cardinality({j \in firsts : j < i})
      dict == [p \in 1..Cardinality(firsts) |->
                 vec.data[CHOOSE i \in firsts : place(i) = p - 1]]
      index(i) == place(CHOOSE j \in firsts : vec.data[j] = vec.data[i])
  IN [enc |-> "dict", typ |-> vec.typ, rows |-> Len(vec.data), nulls |-> {},
      data |-> [i \in DOMAIN vec.data |->
                  IF i \in vec.nulls THEN NullMarker(IndexWidth(Len(dict))) ELSE index(i)],
      dict |-> dict]

\* encodeBitmap reads its argument as one word per row, and gets the packed words
\* of the vector.
EncodeBitmap(vec) ==
  LET words == Words(vec) IN
  [enc |-> "bitmap", typ |-> "bool", rows |-> Len(vec.data), nulls |-> vec.nulls,
   data |-> [i \in DOMAIN vec.data |-> i <= Len(words) /\ words[i] # {}],
   dict |-> <<>>]

Encode(typ, vals) ==
  LET vec == VectorOf(typ, vals) IN
  CASE Select(vec) = "plain" -> EncodePlain(vec)
    [] Select(vec) = "rle" -> EncodeRLE(vec)
    [] Select(vec) = "dict" -> EncodeDict(vec)
    [] Select(vec) = "bitmap" -> EncodeBitmap(vec)

-----------------------------------------------------------------------------
(* Decoding gives back a vector. *)

DecodeRLE(e) ==
  LET before == [r \in 0..Len(e.data) |->
                   IF r = 0 THEN 0
                   ELSE LET c == [q \in 1..r |-> e.data[q].count]
                            sum[q \in 0..r] == IF q = 0 THEN 0 ELSE sum[q - 1] + c[q]
                        IN sum[r]]
      run(i) == CHOOSE r \in DOMAIN e.data : before[r - 1] < i /\ i <= before[r]
  IN [typ |-> e.typ,
      data |-> [i \in 1..e.rows |-> e.data[run(i)].value],
      nulls |-> {i \in 1..e.rows : e.data[run(i)].isNull}]

\* An index outside the dictionary is an error.
DecodeDict(e) ==
  LET marker == NullMarker(IndexWidth(Len(e.dict))) IN
  [typ |-> e.typ,
   data |-> [i \in 1..e.rows |-> IF e.data[i] = marker THEN "" ELSE e.dict[e.data[i] + 1]],
   nulls |-> {i \in 1..e.rows : e.data[i] = marker}]

Decode(e) ==
  CASE e.enc = "plain" -> [typ |-> e.typ, data |-> e.data, nulls |-> e.nulls]
    [] e.enc = "rle" -> DecodeRLE(e)
    [] e.enc = "dict" -> DecodeDict(e)
    [] e.enc = "bitmap" -> [typ |-> "bool",
                            data |-> [i \in 1..e.rows |-> IF e.data[i] THEN 1 ELSE 0],
                            nulls |-> e.nulls]

\* extractValue
ValueAt(vec, i) == IF i \in vec.nulls THEN Null ELSE [typ |-> vec.typ, raw |-> vec.data[i]]

-----------------------------------------------------------------------------
(* Column statistics: the least and the greatest value, Null when there is none *)

Least(S) == CHOOSE x \in S : \A y \in S : ~Less(y, x)
Greatest(S) == CHOOSE x \in S : \A y \in S : ~Less(x, y)

Bounds(S) == IF S = {} THEN [min |-> Null, max |-> Null]
             ELSE [min |-> Least(S), max |-> Greatest(S)]

PlainStat(e) == Bounds({[typ |-> e.typ, raw |-> e.data[i]] : i \in DOMAIN e.data \ e.nulls})
RLEStat(e) == Bounds({[typ |-> e.typ, raw |-> e.data[r].value] :
                        r \in {q \in DOMAIN e.data : ~e.data[q].isNull}})
\* The first and the last entry of the dictionary, which is not sorted.
DictStat(e) == IF e.dict = <<>> THEN Bounds({})
               ELSE [min |-> StrVal(e.dict[1]), max |-> StrVal(e.dict[Len(e.dict)])]
BitmapStat(e) == IF Cardinality(e.nulls) < e.rows THEN [min |-> BoolVal(FALSE), max |-> BoolVal(TRUE)]
                 ELSE Bounds({})

StatOf(e) ==
  CASE e.enc = "plain" -> PlainStat(e)
    [] e.enc = "rle" -> RLEStat(e)
    [] e.enc = "dict" -> DictStat(e)
    [] e.enc = "bitmap" -> BitmapStat(e)
=============================================================================
