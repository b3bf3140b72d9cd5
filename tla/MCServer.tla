------------------------------- MODULE MCServer -------------------------------
(* Instance of Server for TLC: five loads. *)
EXTENDS Server

CONSTANTS c1, c2, h1, h2, p1

\* As texts "10" is before "2"; the JSON text of id 3 is after "3".
Texts == <<-1, -2, 0, 1, 10, 11, 2, 3, 4, 5, 6, 7, 8, 9>>
TextOrder(k, l) ==
  \E i, j \in DOMAIN Texts : /\ Texts[i] = k.id /\ Texts[j] = l.id
                             /\ i < j \/ (i = j /\ ~k.json /\ l.json)

Row(id, v) == [id |-> id, v |-> v]
Table(S) == [k \in {Key(r.id) : r \in S} |-> CHOOSE r \in S : r.id = k.id]
Insert(seq) == [op |-> "insert", rows |-> seq]
Write(seq) == [op |-> "write", rows |-> seq]
ById1(half) == [col |-> "id", lit |-> half]
ByV(v) == [col |-> "v", lit |-> v]
Delete(w) == [op |-> "delete", where |-> w]
Update(w, col, add) == [op |-> "update", where |-> w, set |-> [col |-> col, add |-> add]]
DDL(op) == [op |-> op]

\* Id 3 is the number with two texts; literals are in halves.
Menu == {Insert(<<Row(1, 0), Row(2, 0)>>), Insert(<<Row(2, 0), Row(2, 1)>>),
         Write(<<Row(3, 0)>>), Write(<<Row(2, 1)>>),
         Delete(ById1(2)), Delete(ById1(3)), Delete(ById1(6)), Delete(ByV(0)),
         Update(ById1(2), "id", 1), Update(ById1(2), "v", 1),
         Update(ByV(0), "id", -1), Update(ByV(0), "v", 1)}
Tables == {Empty, Table({Row(1, 0), Row(2, 0)}), Table({Row(2, 0), Row(3, 1)}),
           Table({Row(9, 0), Row(10, 0)})}

Message(kind) == [kind |-> kind]
Messages == {Message("bind"), Message("execute"), Message("sync"),
             [kind |-> "describe", portal |-> TRUE], [kind |-> "close", portal |-> FALSE],
             [kind |-> "close", portal |-> TRUE], [kind |-> "query", sql |-> NoSQL],
             [kind |-> "query", sql |-> Write(<<Row(1, 0)>>)],
             [kind |-> "parse", sql |-> Insert(<<Row(1, 0)>>)],
             [kind |-> "parse", sql |-> Delete(ById1(2))]}

Load(clients, menu, max, tables, messages, stops, crashes) ==
  [clients |-> clients, menu |-> menu, max |-> max, tables |-> tables,
   messages |-> messages, stops |-> stops, crashes |-> crashes]
One == {Table({Row(1, 0)})}
MCLoads == {
  Load({h1, h2}, Menu, 2, Tables, {}, FALSE, TRUE),
  Load({c1, c2, h1}, {Update(ById1(2), "id", 1)}, 2, One, {}, TRUE, FALSE),
  Load({p1}, {}, 2, One, Messages, FALSE, FALSE),
  Load({p1}, {}, 1, One, {Message("sync"), [kind |-> "query", sql |-> Write(<<Row(1, 0)>>)]}, TRUE, FALSE),
  Load({c1, h1, h2}, {DDL("create"), DDL("drop")}, 2, One, {}, TRUE, FALSE)}
=============================================================================
