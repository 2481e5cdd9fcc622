---------------------------- MODULE LedgerProofs ----------------------------
(***************************************************************************)
(* What TLAPS proves of Ledger, for any clients, requests and start.       *)
(*                                                                         *)
(* The argument: what a request has read or checked stays true of the      *)
(* things it concerns until it writes, unless they are raced.  A request   *)
(* writes only rows it names, or rows of things it concerns (RowsBelong,   *)
(* DraftBelongs), so two requests of which one may spoil what the other    *)
(* has checked have overlapping scopes, and then all of both is raced      *)
(* (Exclusive).                                                            *)
(***************************************************************************)
EXTENDS Ledger, SequenceTheorems, TLAPS

-----------------------------------------------------------------------------
(* The inductive invariant.  s is the state of a handler, tables stands for *)
(* db and R for raced.                                                      *)

Labels == {"read", "exists", "parent", "unique", "count", "begin", "rows",
           "deleteLogs", "deletePayments", "insert", "update", "flag", "delete", "commit"}

\* Every handler issues its statements in this order; one of those with the
\* highest rank ends it.
Rank == [read |-> 1, exists |-> 2, parent |-> 3, unique |-> 4, count |-> 5, begin |-> 6,
         rows |-> 7, deleteLogs |-> 8, deletePayments |-> 9,
         insert |-> 10, update |-> 10, flag |-> 10, delete |-> 10, commit |-> 10]
Ranked(todo) == \A m, n \in 1 .. Len(todo) : m < n => Rank[todo[m]] < Rank[todo[n]]

In(todo) == {todo[n] : n \in 1 .. Len(todo)}
Left(s) == In(s.todo)

Issues(q) ==
  CASE q.op = "create" -> {"parent", "unique", "insert"}
    [] q.op = "patch" -> {"read", "exists", "parent", "unique", "update"}
    [] q.op = "setClosed" -> {"exists", "flag"}
    [] q.op = "delete" ->
         {"exists", "delete"}
         \cup (IF q.table \in {"class", "asset"} THEN {"count"} ELSE {})
         \cup (IF q.table = "asset" /\ q.force THEN {"deleteLogs", "deletePayments"} ELSE {})
    [] q.op = "batch" -> {"begin", "rows", "commit"}

IsTable(f, t, n) ==
  /\ f = [i \in DOMAIN f |-> f[i]]
  /\ DOMAIN f \subseteq 1 .. n - 1
  /\ \A i \in DOMAIN f : f[i] \in Rows[t]
AreTables(tables, ids) ==
  /\ tables = [t \in Tables |-> tables[t]]
  /\ \A t \in Tables : IsTable(tables[t], t, ids[t])

IsHandler(s, ids) ==
  /\ DOMAIN s = {"req", "todo", "draft", "scope", "row", "seen", "wrote"}
  /\ s = [f \in DOMAIN s |-> s[f]]
  /\ s.req \in Requests \cup {NoRequest}
  /\ s.todo \in Seq(Labels) /\ Ranked(s.todo)
  /\ IF s.req = NoRequest THEN s = Idle ELSE s.todo # <<>> /\ Left(s) \subseteq Issues(s.req)
  /\ AreTables(s.seen, ids) /\ AreTables(s.wrote, ids)
  /\ s.row \in Nat

Types ==
  /\ next \in [Tables -> Nat \ {0}]
  /\ AreTables(db, next)
  /\ client = [c \in Clients |-> client[c]]
  /\ \A c \in Clients : IsHandler(client[c], next)
  /\ sent \in 0 .. MaxRequests

Thing(t, row) == <<Ref[t], row[Ref[t]]>>
Belongs(s, R, k) == k \in s.scope \/ s.scope \cup {k} \subseteq R

\* The scope holds what the request names; a POST writes the row it names.
ScopeNames(s) ==
  /\ s.req.op = "create" => s.scope = {Thing(s.req.table, s.req.row)} /\ s.draft = s.req.row
  /\ s.req.op = "batch" => \A n \in 1 .. Len(s.req.rows) : <<"asset", s.req.rows[n].asset>> \in s.scope
  /\ s.req.op \notin {"create", "batch"} => <<s.req.table, s.req.id>> \in s.scope
  /\ s.req.op = "patch" => Refs(s.req.table, s.req.set) \subseteq s.scope

\* It also holds what the rows it names belong to, or all of it is raced.
RowsBelong(s, tables, R) ==
  \A i \in DOMAIN tables[s.req.table] :
    <<s.req.table, i>> \in s.scope => Belongs(s, R, Thing(s.req.table, tables[s.req.table][i]))

Writes(s) == s.req.op \in {"create", "patch"}

\* A PATCH checks what it has read.
ChecksLeft(s) ==
  "read" \in Left(s) => /\ s.req.table # "class" => "parent" \in Left(s)
                        /\ s.req.table # "payment" => "unique" \in Left(s)

DraftBelongs(s, R) ==
  Writes(s) /\ "read" \notin Left(s) =>
    s.draft \in Rows[s.req.table] /\ Belongs(s, R, Thing(s.req.table, s.draft))

\* A PATCH is about to write the row it names as it is, but for the fields given.
DraftCurrent(s, tables, R) ==
  s.req.op = "patch" /\ "read" \notin Left(s) /\ s.req.id \in DOMAIN tables[s.req.table] =>
    s.draft = Over(s.req.set, tables[s.req.table][s.req.id]) \/ s.scope \cap R # {}

\* What the checks of a POST or a PATCH have established.
ParentThere(s, tables, R) ==
  Writes(s) /\ s.req.table # "class" /\ "parent" \notin Left(s) =>
    \/ s.draft[Ref[s.req.table]] \in DOMAIN tables[Ref[s.req.table]]
    \/ Thing(s.req.table, s.draft) \in R
KeyFree(s, tables, R) ==
  Writes(s) /\ s.req.table # "payment" /\ "unique" \notin Left(s) =>
    \/ \A i \in DOMAIN tables[s.req.table] :
         SameKey(s.req.table, tables[s.req.table][i], s.draft) =>
           s.req.op = "patch" /\ i = s.req.id
    \/ Thing(s.req.table, s.draft) \in R

\* What the count of a DELETE has established, or its first DELETEs.
Cleared(s, tables, R) ==
  s.req.op = "delete" /\ "delete" \in Left(s) =>
    \/ <<s.req.table, s.req.id>> \in R
    \/ /\ s.req.table = "class" => Dependents(tables, "asset", "class", s.req.id) = {}
       /\ s.req.table = "asset" =>
            /\ "deleteLogs" \notin Left(s) => Dependents(tables, "log", "asset", s.req.id) = {}
            /\ "deletePayments" \notin Left(s) => Dependents(tables, "payment", "asset", s.req.id) = {}

\* Two databases agree on k: on the row it is, and on the rows that belong to it.
AgreeOn(k, tables, others) ==
  /\ \A t \in {"class", "asset"}, i \in Nat : k = <<t, i>> =>
       /\ i \in DOMAIN tables[t] <=> i \in DOMAIN others[t]
       /\ i \in DOMAIN tables[t] => tables[t][i] = others[t][i]
  /\ \A t \in Tables, i \in Nat :
       /\ i \in DOMAIN tables[t] /\ Thing(t, tables[t][i]) = k =>
            i \in DOMAIN others[t] /\ others[t][i] = tables[t][i]
       /\ i \in DOMAIN others[t] /\ Thing(t, others[t][i]) = k =>
            i \in DOMAIN tables[t] /\ tables[t][i] = others[t][i]

\* Where a batch is.
BatchAt(s) ==
  IF s.req.op = "batch"
  THEN /\ s.row \in 1 .. Len(s.req.rows) + 1
       /\ "commit" \in Left(s)
       /\ "rows" \in Left(s) <=> s.row <= Len(s.req.rows)
       /\ "begin" \in Left(s) =>
            /\ s.wrote = NoTables /\ s.row = 1
            /\ \A k \in s.scope : k[1] = "asset"
       /\ \A t \in {"class", "asset"} : s.wrote[t] = NoRows
  ELSE s.wrote = NoTables

Begun(s) == s.req.op = "batch" /\ "begin" \notin Left(s)

\* What a batch has seen is still there.
SeenCurrent(s, tables, R) ==
  Begun(s) => \A n \in 1 .. Len(s.req.rows) :
                LET k == <<"asset", s.req.rows[n].asset>> IN k \in R \/ AgreeOn(k, tables, s.seen)

EntryFor(q, n) == [asset |-> q.rows[n].asset, month |-> q.month, value |-> q.rows[n].value]

\* The entries a batch has written are those of the rows handled, of open assets
\* and at most one for each: an entry it has seen, or a new one where it has seen
\* none.
WroteEntries(s) ==
  Begun(s) =>
    /\ \A i \in DOMAIN s.wrote.log :
         /\ \E n \in 1 .. s.row - 1 : s.wrote.log[i] = EntryFor(s.req, n)
         /\ ~s.seen.asset[s.wrote.log[i].asset].closed
         /\ IF i \in DOMAIN s.seen.log
            THEN /\ s.seen.log[i].asset = s.wrote.log[i].asset
                 /\ s.seen.log[i].month = s.req.month
            ELSE EntriesOf(s.seen, s.wrote.log[i].asset, s.req.month) = {}
    /\ \A i, j \in DOMAIN s.wrote.log : s.wrote.log[i].asset = s.wrote.log[j].asset => i = j
    /\ \A i \in DOMAIN s.wrote.payment :
         \E n \in 1 .. s.row - 1 : s.wrote.payment[i].asset = s.req.rows[n].asset
    /\ \A i \in DOMAIN s.seen.log :
         s.seen.log[i].month = s.req.month /\ <<"asset", s.seen.log[i].asset>> \in s.scope
           => <<"log", i>> \in s.scope

\* New rows are not in the database before the batch is.
WroteFresh(s, tables) ==
  Begun(s) => /\ \A i \in DOMAIN s.wrote.log : i \in DOMAIN s.seen.log \/ i \notin DOMAIN tables.log
              /\ \A i \in DOMAIN s.wrote.payment : i \notin DOMAIN tables.payment

\* A row that a batch has handled is of an asset there is, and closed, or has
\* its entry.
HandledRows(s, R) ==
  Begun(s) =>
    \A n \in 1 .. s.row - 1 :
      LET a == s.req.rows[n].asset  entries == EntriesOf(s.seen, a, s.req.month) IN
      /\ a \in DOMAIN s.seen.asset
      /\ \/ s.seen.asset[a].closed
         \/ <<"asset", a>> \in R
         \/ /\ entries # {} \/ \E i \in DOMAIN s.wrote.log : s.wrote.log[i].asset = a
            /\ s.req.replace => entries \subseteq DOMAIN s.wrote.log

HandlerOK(s, tables, R) ==
  s.req # NoRequest =>
    /\ ScopeNames(s) /\ RowsBelong(s, tables, R) /\ ChecksLeft(s)
    /\ DraftBelongs(s, R) /\ DraftCurrent(s, tables, R)
    /\ ParentThere(s, tables, R) /\ KeyFree(s, tables, R)
    /\ Cleared(s, tables, R)
    /\ BatchAt(s) /\ SeenCurrent(s, tables, R)
    /\ WroteEntries(s) /\ WroteFresh(s, tables) /\ HandledRows(s, R)

\* Requests with something in common are raced.
Exclusive ==
  \A c, d \in Clients :
    c # d /\ client[c].scope \cap client[d].scope # {} =>
      client[c].scope \cup client[d].scope \subseteq raced

\* No two transactions have written the same row.
Apart ==
  \A c, d \in Clients : c # d =>
    \A t \in Tables : DOMAIN client[c].wrote[t] \cap DOMAIN client[d].wrote[t] = {}

IInv ==
  /\ Types
  /\ \A c \in Clients : HandlerOK(client[c], db, raced)
  /\ Exclusive /\ Apart
  /\ Unique(db, raced) /\ Anchored(db, raced)

-----------------------------------------------------------------------------
(* Functions and sequences.                                                *)

\* What Over, Only and Without are.
LEMMA OverIs ==
  ASSUME NEW f, NEW g
  PROVE  /\ DOMAIN Over(f, g) = DOMAIN f \cup DOMAIN g
         /\ \A x \in DOMAIN f : Over(f, g)[x] = f[x]
         /\ \A x \in DOMAIN g \ DOMAIN f : Over(f, g)[x] = g[x]
BY DEF Over

LEMMA OnlyIs ==
  ASSUME NEW i, NEW row
  PROVE  DOMAIN Only(i, row) = {i} /\ Only(i, row)[i] = row
BY DEF Only

LEMMA NoRowsIs == DOMAIN NoRows = {} /\ \A t \in Tables : NoTables[t] = NoRows
BY DEF NoRows, NoTables

\* Tables over tables, and tables with fewer rows, are tables.
LEMMA TableOver ==
  ASSUME NEW t, NEW n, NEW f, NEW g, IsTable(f, t, n), IsTable(g, t, n)
  PROVE  IsTable(Over(f, g), t, n)
<1>1. /\ DOMAIN f \subseteq 1 .. n - 1 /\ DOMAIN g \subseteq 1 .. n - 1
      /\ \A i \in DOMAIN f : f[i] \in Rows[t]
      /\ \A i \in DOMAIN g : g[i] \in Rows[t]
  BY Zenon DEF IsTable
<1>2. DOMAIN Over(f, g) \subseteq 1 .. n - 1
  BY <1>1 DEF Over
<1>3. \A i \in DOMAIN Over(f, g) : Over(f, g)[i] \in Rows[t]
  BY <1>1 DEF Over
<1>4. Over(f, g) = [x \in DOMAIN Over(f, g) |-> Over(f, g)[x]]
  BY DEF Over
<1> QED BY <1>2, <1>3, <1>4 DEF IsTable

LEMMA TableOnly ==
  ASSUME NEW t, NEW n \in Nat, NEW i \in 1 .. n - 1, NEW row \in Rows[t]
  PROVE  IsTable(Only(i, row), t, n)
BY DEF IsTable, Only

LEMMA TableNoRows ==
  ASSUME NEW t, NEW n
  PROVE  IsTable(NoRows, t, n)
BY DEF IsTable, NoRows

LEMMA TableWithout ==
  ASSUME NEW t, NEW n, NEW f, NEW I, IsTable(f, t, n)
  PROVE  IsTable(Without(f, I), t, n)
BY DEF IsTable, Without

LEMMA TablePut ==
  ASSUME NEW t, NEW n, NEW f, NEW i, NEW row, i \in DOMAIN f => row \in Rows[t], IsTable(f, t, n)
  PROVE  IsTable(Put(f, i, row), t, n)
BY DEF IsTable, Put

LEMMA TableGrows ==
  ASSUME NEW t, NEW n \in Nat, NEW m \in Nat, n <= m, NEW f, IsTable(f, t, n)
  PROVE  IsTable(f, t, m)
BY DEF IsTable

LEMMA TablesGrow ==
  ASSUME NEW ids \in [Tables -> Nat \ {0}], NEW more \in [Tables -> Nat \ {0}],
         \A t \in Tables : ids[t] <= more[t],
         NEW tables, AreTables(tables, ids)
  PROVE  AreTables(tables, more)
<1>1. \A t \in Tables : ids[t] \in Nat /\ more[t] \in Nat
  OBVIOUS
<1>2. \A t \in Tables : IsTable(tables[t], t, more[t])
  BY <1>1, TableGrows DEF AreTables
<1> QED BY <1>2 DEF AreTables

LEMMA TablesWith ==
  ASSUME NEW ids, NEW tables, AreTables(tables, ids), NEW u \in Tables, NEW f, IsTable(f, u, ids[u])
  PROVE  AreTables([tables EXCEPT ![u] = f], ids)
<1>1. tables = [t \in Tables |-> tables[t]]
  BY DEF AreTables
<1>2. \A t \in Tables : [tables EXCEPT ![u] = f][t] = IF t = u THEN f ELSE tables[t]
  BY <1>1
<1>3. \A t \in Tables : IsTable([tables EXCEPT ![u] = f][t], t, ids[t])
  BY <1>2 DEF AreTables
<1> QED BY <1>1, <1>3 DEF AreTables

LEMMA TablesNone ==
  ASSUME NEW ids
  PROVE  AreTables(NoTables, ids)
BY TableNoRows DEF AreTables, NoTables

\* The statements left after the first one: all others, and none of those has
\* its rank or a lower one.
LEMMA TailLeft ==
  ASSUME NEW todo \in Seq(Labels), todo # <<>>, Ranked(todo)
  PROVE  /\ Tail(todo) \in Seq(Labels) /\ Ranked(Tail(todo))
         /\ In(Tail(todo)) = In(todo) \ {Head(todo)}
         /\ Head(todo) \in In(todo)
         /\ \A l \in In(Tail(todo)) : Rank[Head(todo)] < Rank[l]
         /\ Tail(todo) = <<>> <=> In(Tail(todo)) = {}
<1>1. /\ Tail(todo) \in Seq(Labels) /\ Len(todo) \in Nat \ {0} /\ Len(Tail(todo)) = Len(todo) - 1
      /\ Head(todo) = todo[1] /\ \A n \in 1 .. Len(todo) - 1 : Tail(todo)[n] = todo[n + 1]
  BY EmptySeq, HeadTailProperties
<1>2. Ranked(Tail(todo))
  BY <1>1 DEF Ranked
<1>3. \A l \in Labels : Rank[l] \in Nat
  BY DEF Rank, Labels
<1>4. \A n \in 1 .. Len(todo) : todo[n] \in Labels
  BY ElementOfSeq
<1>5. \A n \in 2 .. Len(todo) : Rank[todo[1]] < Rank[todo[n]]
  BY <1>1 DEF Ranked
<1>6. \A n \in 2 .. Len(todo) : todo[1] # todo[n]
  BY <1>1, <1>3, <1>4, <1>5
<1>7. In(Tail(todo)) = In(todo) \ {Head(todo)}
  <2>1. ASSUME NEW l \in In(Tail(todo)) PROVE l \in In(todo) \ {Head(todo)}
    <3>1. PICK n \in 1 .. Len(todo) - 1 : l = todo[n + 1]
      BY <2>1, <1>1 DEF In
    <3>2. n + 1 \in 2 .. Len(todo) /\ n + 1 \in 1 .. Len(todo)
      BY <1>1
    <3> QED BY <3>1, <3>2, <1>1, <1>6 DEF In
  <2>2. ASSUME NEW l \in In(todo) \ {Head(todo)} PROVE l \in In(Tail(todo))
    <3>1. PICK n \in 1 .. Len(todo) : l = todo[n]
      BY <2>2 DEF In
    <3>2. n # 1
      BY <3>1, <2>2, <1>1
    <3>3. n - 1 \in 1 .. Len(todo) - 1 /\ (n - 1) + 1 = n
      BY <3>2, <1>1
    <3>4. Tail(todo)[n - 1] = todo[n]
      BY <3>3, <1>1
    <3> QED BY <3>1, <3>3, <3>4, <1>1 DEF In
  <2> QED BY <2>1, <2>2
<1>8. Head(todo) \in In(todo)
  BY <1>1 DEF In
<1>9. \A l \in In(Tail(todo)) : Rank[Head(todo)] < Rank[l]
  <2> SUFFICES ASSUME NEW l \in In(Tail(todo)) PROVE Rank[Head(todo)] < Rank[l]
    OBVIOUS
  <2>1. PICK n \in 1 .. Len(todo) - 1 : l = todo[n + 1]
    BY <1>1 DEF In
  <2>2. n + 1 \in 2 .. Len(todo)
    BY <1>1
  <2> QED BY <2>1, <2>2, <1>1, <1>5
<1>10. Tail(todo) = <<>> <=> In(Tail(todo)) = {}
  <2>1. CASE Len(todo) = 1
    <3>1. Len(Tail(todo)) = 0
      BY <2>1, <1>1
    <3> QED BY <3>1, <1>1, EmptySeq DEF In
  <2>2. CASE Len(todo) # 1
    <3>1. 1 \in 1 .. Len(Tail(todo))
      BY <2>2, <1>1
    <3>2. Tail(todo)[1] \in In(Tail(todo))
      BY <3>1 DEF In
    <3>3. Tail(todo) # <<>>
      <4>1. Len(Tail(todo)) # 0
        BY <2>2, <1>1
      <4>2. Len(<<>>) = 0
        OBVIOUS
      <4> QED BY <4>1, <4>2, Zenon
    <3> QED BY <3>2, <3>3
  <2> QED BY <2>1, <2>2
<1> QED BY <1>1, <1>2, <1>7, <1>8, <1>9, <1>10

\* A statement of the highest rank is a handler's last.
LEMMA LastLeft ==
  ASSUME NEW todo \in Seq(Labels), todo # <<>>, Ranked(todo),
         Head(todo) \in {"insert", "update", "flag", "delete", "commit"}
  PROVE  Tail(todo) = <<>>
<1>1. Rank[Head(todo)] = 10
  BY DEF Rank
<1>2. In(Tail(todo)) \subseteq Labels
  BY TailLeft, ElementOfSeq DEF In
<1>3. \A l \in Labels : Rank[l] \in 1 .. 10
  BY DEF Rank, Labels
<1>4. \A l \in In(Tail(todo)) : FALSE
  BY <1>1, <1>2, <1>3, TailLeft
<1> QED BY <1>4, TailLeft

-----------------------------------------------------------------------------
(* The programs.                                                           *)

\* A program lists the labels L, in the order of their ranks.
Lists(todo, L) == todo \in Seq(Labels) /\ todo # <<>> /\ Ranked(todo) /\ In(todo) = L

LEMMA Listings ==
  /\ Lists(<<"unique", "insert">>, {"unique", "insert"})
  /\ Lists(<<"read", "exists", "unique", "update">>, {"read", "exists", "unique", "update"})
  /\ Lists(<<"exists", "count">>, {"exists", "count"})
  /\ Lists(<<"parent", "unique", "insert">>, {"parent", "unique", "insert"})
  /\ Lists(<<"read", "exists", "parent", "unique", "update">>, {"read", "exists", "parent", "unique", "update"})
  /\ Lists(<<"exists", "flag">>, {"exists", "flag"})
  /\ Lists(<<"exists", "delete">>, {"exists", "delete"})
  /\ Lists(<<"parent", "insert">>, {"parent", "insert"})
  /\ Lists(<<"read", "exists", "parent", "update">>, {"read", "exists", "parent", "update"})
  /\ Lists(<<"begin", "rows", "commit">>, {"begin", "rows", "commit"})
  /\ Lists(<<"delete">>, {"delete"})
  /\ Lists(<<"deleteLogs", "delete">>, {"deleteLogs", "delete"})
  /\ Lists(<<"deletePayments", "delete">>, {"deletePayments", "delete"})
  /\ Lists(<<"deleteLogs", "deletePayments", "delete">>, {"deleteLogs", "deletePayments", "delete"})
<1>1. Lists(<<"unique", "insert">>, {"unique", "insert"})
  BY DEF Lists, Labels, Ranked, Rank, In
<1>2. Lists(<<"read", "exists", "unique", "update">>, {"read", "exists", "unique", "update"})
  BY DEF Lists, Labels, Ranked, Rank, In
<1>3. Lists(<<"exists", "count">>, {"exists", "count"})
  BY DEF Lists, Labels, Ranked, Rank, In
<1>4. Lists(<<"parent", "unique", "insert">>, {"parent", "unique", "insert"})
  BY DEF Lists, Labels, Ranked, Rank, In
<1>5. Lists(<<"read", "exists", "parent", "unique", "update">>, {"read", "exists", "parent", "unique", "update"})
  BY DEF Lists, Labels, Ranked, Rank, In
<1>6. Lists(<<"exists", "flag">>, {"exists", "flag"})
  BY DEF Lists, Labels, Ranked, Rank, In
<1>7. Lists(<<"exists", "delete">>, {"exists", "delete"})
  BY DEF Lists, Labels, Ranked, Rank, In
<1>8. Lists(<<"parent", "insert">>, {"parent", "insert"})
  BY DEF Lists, Labels, Ranked, Rank, In
<1>9. Lists(<<"read", "exists", "parent", "update">>, {"read", "exists", "parent", "update"})
  BY DEF Lists, Labels, Ranked, Rank, In
<1>10. Lists(<<"begin", "rows", "commit">>, {"begin", "rows", "commit"})
  BY DEF Lists, Labels, Ranked, Rank, In
<1>11. Lists(<<"delete">>, {"delete"})
  BY DEF Lists, Labels, Ranked, Rank, In
<1>12. Lists(<<"deleteLogs", "delete">>, {"deleteLogs", "delete"})
  BY DEF Lists, Labels, Ranked, Rank, In
<1>13. Lists(<<"deletePayments", "delete">>, {"deletePayments", "delete"})
  BY DEF Lists, Labels, Ranked, Rank, In
<1>14. Lists(<<"deleteLogs", "deletePayments", "delete">>, {"deleteLogs", "deletePayments", "delete"})
  BY DEF Lists, Labels, Ranked, Rank, In
<1> QED BY <1>1, <1>2, <1>3, <1>4, <1>5, <1>6, <1>7, <1>8, <1>9, <1>10, <1>11, <1>12, <1>13, <1>14

\* What a request is made of.
LEMMA RequestParts ==
  ASSUME NEW q, IsRequest(q)
  PROVE  /\ q.op \in {"create", "patch", "setClosed", "delete", "batch"}
         /\ q.table \in Tables
         /\ q.op = "create" => q.table # "log" /\ q.row \in Rows[q.table]
         /\ q.op = "patch" => IsPatch(q)
         /\ q.op = "setClosed" => q.table = "asset" /\ q.id \in Nat /\ q.set \in [closed : BOOLEAN]
         /\ q.op = "delete" => q.id \in Nat /\ q.force \in BOOLEAN
         /\ q.op = "batch" => q \in BatchRequest /\ q.table = "log"
<1>1. CASE q.op = "create"
  <2>1. PICK t \in Tables \ {"log"} : q \in CreateRequest(t)
    BY <1>1 DEF IsRequest
  <2> QED BY <2>1, <1>1 DEF CreateRequest
<1>2. CASE q.op = "patch"
  BY <1>2 DEF IsRequest, IsPatch
<1>3. CASE q.op = "setClosed"
  BY <1>3 DEF IsRequest, CloseRequest, Tables
<1>4. CASE q.op = "delete"
  BY <1>4 DEF IsRequest, DeleteRequest
<1>5. CASE q.op = "batch"
  BY <1>5 DEF IsRequest, BatchRequest, Tables
<1>6. q.op \in {"create", "patch", "setClosed", "delete", "batch"}
  BY DEF IsRequest
<1> QED BY <1>1, <1>2, <1>3, <1>4, <1>5, <1>6

LEMMA BatchParts ==
  ASSUME NEW q, IsRequest(q), q.op = "batch"
  PROVE  /\ q.month \in Months /\ q.replace \in BOOLEAN
         /\ q.rows \in Seq([asset : Nat, value : Values, payment : BOOLEAN])
         /\ Len(q.rows) \in Nat \ {0}
         /\ \A n \in 1 .. Len(q.rows) : q.rows[n].asset \in Nat /\ q.rows[n].value \in Values
         /\ \A m, n \in 1 .. Len(q.rows) : q.rows[m].asset = q.rows[n].asset => m = n
<1>1. /\ q \in BatchRequest /\ q.rows # <<>>
      /\ \A m, n \in 1 .. Len(q.rows) : q.rows[m].asset = q.rows[n].asset => m = n
  BY DEF IsRequest
<1>2. /\ q.month \in Months /\ q.replace \in BOOLEAN
      /\ q.rows \in Seq([asset : Nat, value : Values, payment : BOOLEAN])
  BY <1>1 DEF BatchRequest
<1>3. Len(q.rows) \in Nat \ {0}
  BY <1>1, <1>2, EmptySeq
<1>4. \A n \in 1 .. Len(q.rows) : q.rows[n] \in [asset : Nat, value : Values, payment : BOOLEAN]
  BY <1>2, ElementOfSeq
<1> QED BY <1>1, <1>2, <1>3, <1>4

\* A program checks what must be checked, and all handlers but those of entries
\* and payments count before they delete.
LEMMA Programs ==
  ASSUME NEW q, IsRequest(q)
  PROVE  /\ Program(q) \in Seq(Labels) /\ Program(q) # <<>> /\ Ranked(Program(q))
         /\ In(Program(q)) \subseteq Issues(q)
         /\ q.op = "patch" => "read" \in In(Program(q))
         /\ q.op \in {"create", "patch"} /\ q.table # "class" => "parent" \in In(Program(q))
         /\ q.op \in {"create", "patch"} /\ q.table # "payment" => "unique" \in In(Program(q))
         /\ q.op = "delete" /\ "delete" \in In(Program(q)) => q.table \in {"log", "payment"}
         /\ q.op = "batch" => In(Program(q)) = {"begin", "rows", "commit"}
<1> USE DEF Lists
<1> DEFINE p == Program(q)
<1>t. q.table \in Tables
  BY RequestParts
<1>1. CASE q.op = "create"
  <2>0. q.table # "log"
    BY <1>1, RequestParts
  <2>1. CASE q.table = "class"
    <3>1. p = <<"unique", "insert">>
      BY <1>1, <2>1 DEF Program, handleClassesCreate, ClassCreate
    <3>2. Lists(p, {"unique", "insert"})
      BY <3>1, Listings
    <3> QED BY <3>2, <1>1, <2>1 DEF Issues
  <2>2. CASE q.table = "asset"
    <3>1. p = <<"parent", "unique", "insert">>
      BY <1>1, <2>2 DEF Program, handleAssetsCreate, AssetCreate
    <3>2. Lists(p, {"parent", "unique", "insert"})
      BY <3>1, Listings
    <3> QED BY <3>2, <1>1, <2>2 DEF Issues
  <2>3. CASE q.table = "payment"
    <3>1. p = <<"parent", "insert">>
      BY <1>1, <2>3 DEF Program, handlePaymentsCreate, PaymentCreate
    <3>2. Lists(p, {"parent", "insert"})
      BY <3>1, Listings
    <3> QED BY <3>2, <1>1, <2>3 DEF Issues
  <2> QED BY <2>0, <2>1, <2>2, <2>3, <1>t DEF Tables
<1>2. CASE q.op = "patch"
  <2>1. CASE q.table = "class"
    <3>1. p = <<"read", "exists", "unique", "update">>
      BY <1>2, <2>1 DEF Program, handleClassesUpdate
    <3>2. Lists(p, {"read", "exists", "unique", "update"})
      BY <3>1, Listings
    <3> QED BY <3>2, <1>2, <2>1 DEF Issues
  <2>2. CASE q.table \in {"asset", "log"}
    <3>1. p = <<"read", "exists", "parent", "unique", "update">>
      BY <1>2, <2>2 DEF Program, handleAssetsUpdate, handleLogsUpdate
    <3>2. Lists(p, {"read", "exists", "parent", "unique", "update"})
      BY <3>1, Listings
    <3> QED BY <3>2, <1>2, <2>2 DEF Issues
  <2>3. CASE q.table = "payment"
    <3>1. p = <<"read", "exists", "parent", "update">>
      BY <1>2, <2>3 DEF Program, handlePaymentsUpdate
    <3>2. Lists(p, {"read", "exists", "parent", "update"})
      BY <3>1, Listings
    <3> QED BY <3>2, <1>2, <2>3 DEF Issues
  <2> QED BY <2>1, <2>2, <2>3, <1>t DEF Tables
<1>3. CASE q.op = "setClosed"
  <2>1. p = <<"exists", "flag">>
    BY <1>3 DEF Program, setAssetClosed, AssetSetClosed
  <2>2. Lists(p, {"exists", "flag"})
    BY <2>1, Listings
  <2> QED BY <2>2, <1>3 DEF Issues
<1>4. CASE q.op = "delete"
  <2>1. CASE q.table \in {"class", "asset"}
    <3>1. p = <<"exists", "count">>
      BY <1>4, <2>1 DEF Program, handleClassesDelete, handleAssetsDelete, ClassDelete, AssetDelete
    <3>2. Lists(p, {"exists", "count"})
      BY <3>1, Listings
    <3> QED BY <3>2, <1>4, <2>1 DEF Issues
  <2>2. CASE q.table \in {"log", "payment"}
    <3>1. p = <<"exists", "delete">>
      BY <1>4, <2>2 DEF Program, handleLogsDelete, handlePaymentsDelete, LogDelete, PaymentDelete
    <3>2. Lists(p, {"exists", "delete"})
      BY <3>1, Listings
    <3> QED BY <3>2, <1>4, <2>2 DEF Issues
  <2> QED BY <2>1, <2>2, <1>t DEF Tables
<1>5. CASE q.op = "batch"
  <2>1. p = <<"begin", "rows", "commit">>
    BY <1>5 DEF Program, handleLogsCreate
  <2>2. Lists(p, {"begin", "rows", "commit"})
    BY <2>1, Listings
  <2> QED BY <2>2, <1>5 DEF Issues
<1> QED BY <1>1, <1>2, <1>3, <1>4, <1>5, RequestParts

-----------------------------------------------------------------------------
(* What a step of d does to the database, and what the other requests then *)
(* still know.                                                             *)

\* A new row has a new id, or one of d's transaction; a request that named it
\* before it was there is raced.
Creates(d, t, i) ==
  i \in DOMAIN db'[t] /\ i \notin DOMAIN db[t] =>
    /\ i \notin 1 .. next[t] - 1 \/ i \in DOMAIN client[d].wrote[t]
    /\ \A c \in Clients \ {d} : <<t, i>> \in client[c].scope => client[c].scope \cup client[d].scope \subseteq raced'
    /\ Thing(t, db'[t][i]) \in client[d].scope \cup raced'

\* A row is changed by a request that names it, and it leaves and arrives at
\* things the request concerns.
Changes(d, t, i) ==
  i \in DOMAIN db[t] /\ i \in DOMAIN db'[t] =>
    \/ db'[t][i] = db[t][i]
    \/ /\ <<t, i>> \in client[d].scope
       /\ Thing(t, db[t][i]) \in client[d].scope \cup raced'
       /\ Thing(t, db'[t][i]) \in client[d].scope \cup raced'

Removes(d, t, i) ==
  i \in DOMAIN db[t] /\ i \notin DOMAIN db'[t] =>
    /\ t \in {"class", "asset"} => <<t, i>> \in client[d].scope
    /\ Thing(t, db[t][i]) \in client[d].scope \cup raced'

Effect(d) ==
  /\ raced \subseteq raced'
  /\ \A t \in Tables, i \in Nat : Creates(d, t, i) /\ Changes(d, t, i) /\ Removes(d, t, i)

\* What c concerns and is not raced, a step of another client does not touch.
LEMMA Spared ==
  ASSUME Exclusive, NEW c \in Clients, NEW d \in Clients, c # d, Effect(d),
         NEW k \in client[c].scope, k \notin raced'
  PROVE  k \notin client[d].scope /\ AgreeOn(k, db, db')
<1>0. k \notin raced /\ raced \subseteq raced'
  BY DEF Effect
<1>1. k \notin client[d].scope
  <2> SUFFICES ASSUME k \in client[d].scope PROVE FALSE
    OBVIOUS
  <2>1. client[c].scope \cap client[d].scope # {}
    OBVIOUS
  <2>2. client[c].scope \cup client[d].scope \subseteq raced
    BY <2>1, Zenon DEF Exclusive
  <2> QED BY <2>2, <1>0
<1>2. ~(client[c].scope \cup client[d].scope \subseteq raced')
  OBVIOUS
<1>3. ASSUME NEW t \in {"class", "asset"}, NEW i \in Nat, k = <<t, i>>
      PROVE  /\ i \in DOMAIN db[t] <=> i \in DOMAIN db'[t]
             /\ i \in DOMAIN db[t] => db[t][i] = db'[t][i]
  <2>1. t \in Tables
    BY DEF Tables
  <2>2. Creates(d, t, i) /\ Changes(d, t, i) /\ Removes(d, t, i)
    BY <2>1 DEF Effect
  <2>3. i \in DOMAIN db'[t] => i \in DOMAIN db[t]
    BY <2>2, <1>2, <1>3 DEF Creates
  <2>4. i \in DOMAIN db[t] => i \in DOMAIN db'[t]
    BY <2>2, <1>1, <1>3 DEF Removes
  <2>5. i \in DOMAIN db[t] /\ i \in DOMAIN db'[t] => db'[t][i] = db[t][i]
    BY <2>2, <1>1, <1>3 DEF Changes
  <2> QED BY <2>3, <2>4, <2>5
<1>4. ASSUME NEW t \in Tables, NEW i \in Nat
      PROVE  /\ i \in DOMAIN db[t] /\ Thing(t, db[t][i]) = k =>
                  i \in DOMAIN db'[t] /\ db'[t][i] = db[t][i]
             /\ i \in DOMAIN db'[t] /\ Thing(t, db'[t][i]) = k =>
                  i \in DOMAIN db[t] /\ db[t][i] = db'[t][i]
  <2>1. Creates(d, t, i) /\ Changes(d, t, i) /\ Removes(d, t, i)
    BY DEF Effect
  <2>2. i \in DOMAIN db[t] /\ Thing(t, db[t][i]) = k => i \in DOMAIN db'[t] /\ db'[t][i] = db[t][i]
    BY <2>1, <1>1 DEF Changes, Removes
  <2>3. i \in DOMAIN db'[t] /\ Thing(t, db'[t][i]) = k => i \in DOMAIN db[t] /\ db[t][i] = db'[t][i]
    BY <2>1, <1>1 DEF Changes, Creates
  <2> QED BY <2>2, <2>3
<1> QED BY <1>1, <1>3, <1>4 DEF AgreeOn

LEMMA AgreeTrans ==
  ASSUME NEW k, NEW f, NEW g, NEW h, AgreeOn(k, f, g), AgreeOn(k, f, h)
  PROVE  AgreeOn(k, h, g)
<1>1. ASSUME NEW t \in {"class", "asset"}, NEW i \in Nat, k = <<t, i>>
      PROVE  /\ i \in DOMAIN h[t] <=> i \in DOMAIN g[t]
             /\ i \in DOMAIN h[t] => h[t][i] = g[t][i]
  <2>1. /\ i \in DOMAIN f[t] <=> i \in DOMAIN g[t]
        /\ i \in DOMAIN f[t] => f[t][i] = g[t][i]
    BY <1>1, Zenon DEF AgreeOn
  <2>2. /\ i \in DOMAIN f[t] <=> i \in DOMAIN h[t]
        /\ i \in DOMAIN f[t] => f[t][i] = h[t][i]
    BY <1>1, Zenon DEF AgreeOn
  <2> QED BY <2>1, <2>2
<1>2. ASSUME NEW t \in Tables, NEW i \in Nat
      PROVE  /\ i \in DOMAIN h[t] /\ Thing(t, h[t][i]) = k => i \in DOMAIN g[t] /\ g[t][i] = h[t][i]
             /\ i \in DOMAIN g[t] /\ Thing(t, g[t][i]) = k => i \in DOMAIN h[t] /\ h[t][i] = g[t][i]
  <2>1. /\ i \in DOMAIN f[t] /\ Thing(t, f[t][i]) = k => i \in DOMAIN g[t] /\ g[t][i] = f[t][i]
        /\ i \in DOMAIN g[t] /\ Thing(t, g[t][i]) = k => i \in DOMAIN f[t] /\ f[t][i] = g[t][i]
    BY Zenon DEF AgreeOn
  <2>2. /\ i \in DOMAIN f[t] /\ Thing(t, f[t][i]) = k => i \in DOMAIN h[t] /\ h[t][i] = f[t][i]
        /\ i \in DOMAIN h[t] /\ Thing(t, h[t][i]) = k => i \in DOMAIN f[t] /\ f[t][i] = h[t][i]
    BY Zenon DEF AgreeOn
  <2> QED BY <2>1, <2>2
<1> QED BY <1>1, <1>2 DEF AgreeOn

LEMMA AgreeSelf ==
  ASSUME NEW k, NEW f
  PROVE  AgreeOn(k, f, f)
BY DEF AgreeOn

LEMMA BelongsStill ==
  ASSUME NEW s, NEW R, NEW R2, R \subseteq R2, NEW k, Belongs(s, R, k)
  PROVE  Belongs(s, R2, k)
BY DEF Belongs

\* Rows have their types, and ids are numbers.
LEMMA RowsTyped ==
  ASSUME NEW ids \in [Tables -> Nat \ {0}], NEW tables, AreTables(tables, ids)
  PROVE  /\ tables = [t \in Tables |-> tables[t]]
         /\ \A t \in Tables : /\ tables[t] = [i \in DOMAIN tables[t] |-> tables[t][i]]
                              /\ DOMAIN tables[t] \subseteq Nat
                              /\ \A i \in DOMAIN tables[t] : tables[t][i] \in Rows[t] /\ i \in 1 .. ids[t] - 1
<1>1. \A t \in Tables : IsTable(tables[t], t, ids[t])
  BY DEF AreTables
<1>2. \A t \in Tables : ids[t] \in Nat
  OBVIOUS
<1>3. \A t \in Tables : DOMAIN tables[t] \subseteq 1 .. ids[t] - 1
  BY <1>1, Zenon DEF IsTable
<1>4. \A t \in Tables : DOMAIN tables[t] \subseteq Nat
  BY <1>3
<1>5. tables = [t \in Tables |-> tables[t]]
  BY DEF AreTables
<1>6. \A t \in Tables : tables[t] = [i \in DOMAIN tables[t] |-> tables[t][i]]
  BY <1>1, Zenon DEF IsTable
<1>7. \A t \in Tables : \A i \in DOMAIN tables[t] : tables[t][i] \in Rows[t]
  BY <1>1, Zenon DEF IsTable
<1> QED BY <1>3, <1>4, <1>5, <1>6, <1>7, Zenon

\* What the state of a busy handler is made of.
LEMMA BusyTyped ==
  ASSUME NEW ids, NEW s, IsHandler(s, ids), s.req # NoRequest
  PROVE  /\ s.req \in Requests /\ IsRequest(s.req) /\ s.req.table \in Tables
         /\ s.req.op \in {"create", "patch", "setClosed", "delete", "batch"}
         /\ s.req.op \in {"patch", "setClosed", "delete"} => s.req.id \in Nat
         /\ s.todo \in Seq(Labels) /\ s.todo # <<>> /\ Ranked(s.todo) /\ In(s.todo) \subseteq Issues(s.req)
<1>1. s.req \in Requests /\ IsRequest(s.req)
  BY ConstantsAssumption DEF IsHandler
<1>2. s.todo \in Seq(Labels) /\ s.todo # <<>> /\ Ranked(s.todo) /\ In(s.todo) \subseteq Issues(s.req)
  BY DEF IsHandler, Left
<1> HIDE DEF IsHandler
<1>3. s.req.op = "patch" => s.req.id \in Nat
  BY <1>1, RequestParts DEF IsPatch
<1> QED BY <1>1, <1>2, <1>3, RequestParts

LEMMA SameKeySameThing ==
  ASSUME NEW t \in DOMAIN Key, NEW row, NEW other, SameKey(t, row, other)
  PROVE  Thing(t, row) = Thing(t, other)
BY DEF SameKey, Thing, Key, Ref

LEMMA TablesAre ==
  /\ DOMAIN Key = Tables \ {"payment"}
  /\ \A t \in Linked : t \in Tables /\ Ref[t] \in {"class", "asset"} /\ Ref[t] \in Tables
  /\ \A t \in Tables : \A row \in Rows[t] : Refs(t, row) = {Thing(t, row)}
<1>1. ASSUME NEW t \in Tables, NEW row \in Rows[t] PROVE Ref[t] \in DOMAIN row
  <2>1. CASE t = "class"
    BY <2>1 DEF Rows, Ref
  <2>2. CASE t = "asset"
    BY <2>2 DEF Rows, Ref
  <2>3. CASE t = "log"
    BY <2>3 DEF Rows, Ref
  <2>4. CASE t = "payment"
    BY <2>4 DEF Rows, Ref
  <2> QED BY <2>1, <2>2, <2>3, <2>4 DEF Tables
<1>2. \A t \in Tables : \A row \in Rows[t] : Refs(t, row) = {Thing(t, row)}
  BY <1>1 DEF Refs, Thing
<1> QED BY <1>2 DEF Key, Tables, Linked, Ref

\* No step of another client takes from c what it has established.
LEMMA OthersKeep ==
  ASSUME Types, Exclusive, Apart, NEW c \in Clients, NEW d \in Clients, c # d, Effect(d),
         NEW ids \in [Tables -> Nat \ {0}], AreTables(db', ids),
         HandlerOK(client[c], db, raced)
  PROVE  HandlerOK(client[c], db', raced')
<1> DEFINE s == client[c]
<1> DEFINE q == s.req
<1> DEFINE t == q.table
<1> SUFFICES ASSUME q # NoRequest PROVE HandlerOK(s, db', raced')
  BY DEF HandlerOK
<1>0. IsHandler(s, next) /\ next \in [Tables -> Nat \ {0}] /\ AreTables(db, next)
  BY DEF Types
<1>1. /\ q \in Requests /\ IsRequest(q) /\ t \in Tables
      /\ q.op \in {"create", "patch", "setClosed", "delete", "batch"}
      /\ q.op \in {"patch", "setClosed", "delete"} => q.id \in Nat
  BY <1>0, BusyTyped
<1>2. \A u \in Tables : DOMAIN db[u] \subseteq Nat /\ DOMAIN db'[u] \subseteq Nat
  BY <1>0, RowsTyped, Zenon
<1>3. raced \subseteq raced'
  BY DEF Effect
<1>4. \A k \in s.scope : k \in raced' \/ AgreeOn(k, db, db')
  BY Spared
<1>5. \A u \in Tables, i \in Nat : Creates(d, u, i) /\ Changes(d, u, i) /\ Removes(d, u, i)
  BY DEF Effect
<1>6. /\ ScopeNames(s) /\ RowsBelong(s, db, raced) /\ ChecksLeft(s)
      /\ DraftBelongs(s, raced) /\ DraftCurrent(s, db, raced)
      /\ ParentThere(s, db, raced) /\ KeyFree(s, db, raced)
      /\ Cleared(s, db, raced)
      /\ BatchAt(s) /\ SeenCurrent(s, db, raced)
      /\ WroteEntries(s) /\ WroteFresh(s, db) /\ HandledRows(s, raced)
  BY DEF HandlerOK
<1>7. s.scope \cap client[d].scope # {} => s.scope \cup client[d].scope \subseteq raced'
  <2>1. s.scope \cap client[d].scope # {} => s.scope \cup client[d].scope \subseteq raced
    BY Zenon DEF Exclusive
  <2> QED BY <2>1, <1>3
<1> HIDE DEF s
<1>a. RowsBelong(s, db', raced')
  <2> SUFFICES ASSUME NEW i \in DOMAIN db'[t], <<t, i>> \in s.scope
               PROVE  Belongs(s, raced', Thing(t, db'[t][i]))
    BY DEF RowsBelong
  <2>0. i \in Nat
    BY <1>1, <1>2
  <2>1. Creates(d, t, i) /\ Changes(d, t, i)
    BY <1>1, <1>5, <2>0
  <2>2. CASE i \notin DOMAIN db[t]
    <3>1. /\ s.scope \cup client[d].scope \subseteq raced'
          /\ Thing(t, db'[t][i]) \in client[d].scope \cup raced'
      BY <2>1, <2>2 DEF Creates, s
    <3> QED BY <3>1 DEF Belongs
  <2>3. CASE i \in DOMAIN db[t] /\ db'[t][i] = db[t][i]
    <3>1. Belongs(s, raced, Thing(t, db[t][i]))
      BY <1>6, <2>3 DEF RowsBelong
    <3> QED BY <3>1, <2>3, <1>3, BelongsStill
  <2>4. CASE i \in DOMAIN db[t] /\ db'[t][i] # db[t][i]
    <3>1. /\ <<t, i>> \in client[d].scope
          /\ Thing(t, db'[t][i]) \in client[d].scope \cup raced'
      BY <2>1, <2>4 DEF Changes
    <3>2. s.scope \cup client[d].scope \subseteq raced'
      BY <3>1, <1>7
    <3> QED BY <3>1, <3>2 DEF Belongs
  <2> QED BY <2>2, <2>3, <2>4
<1>b. DraftBelongs(s, raced')
  BY <1>6, <1>3, BelongsStill DEF DraftBelongs
<1>c. DraftCurrent(s, db', raced')
  <2> SUFFICES ASSUME q.op = "patch", "read" \notin Left(s), q.id \in DOMAIN db'[t]
               PROVE  s.draft = Over(q.set, db'[t][q.id]) \/ s.scope \cap raced' # {}
    BY DEF DraftCurrent
  <2>1. <<t, q.id>> \in s.scope /\ q.id \in Nat
    BY <1>6, <1>1 DEF ScopeNames
  <2>2. CASE <<t, q.id>> \in raced'
    BY <2>1, <2>2
  <2>3. CASE <<t, q.id>> \notin raced'
    <3>1. ~(s.scope \subseteq raced')
      BY <2>1, <2>3
    <3>2. Creates(d, t, q.id) /\ Changes(d, t, q.id)
      BY <2>1, <1>1, <1>5
    <3>3. q.id \in DOMAIN db[t]
      BY <3>1, <3>2, <2>1 DEF Creates, s
    <3>4. <<t, q.id>> \notin client[d].scope
      BY <2>1, <3>1, <1>7
    <3>5. db'[t][q.id] = db[t][q.id]
      BY <3>2, <3>3, <3>4 DEF Changes
    <3>6. s.draft = Over(q.set, db[t][q.id]) \/ s.scope \cap raced # {}
      BY <1>6, <3>3 DEF DraftCurrent
    <3> QED BY <3>5, <3>6, <1>3
  <2> QED BY <2>2, <2>3
<1>d. ParentThere(s, db', raced')
  <2> SUFFICES ASSUME Writes(s), t # "class", "parent" \notin Left(s), Thing(t, s.draft) \notin raced'
               PROVE  s.draft[Ref[t]] \in DOMAIN db'[Ref[t]]
    BY DEF ParentThere
  <2>0. "read" \notin Left(s) /\ s.draft \in Rows[t] /\ Belongs(s, raced, Thing(t, s.draft))
    <3>1. "read" \notin Left(s)
      BY <1>6 DEF ChecksLeft
    <3> QED BY <3>1, <1>6 DEF DraftBelongs
  <2>1. s.draft[Ref[t]] \in DOMAIN db[Ref[t]]
    BY <1>6, <1>3 DEF ParentThere
  <2>2. AgreeOn(Thing(t, s.draft), db, db')
    BY <2>0, <1>3, <1>4 DEF Belongs
  <2>3. Ref[t] \in {"class", "asset"} /\ Ref[t] \in Tables
    BY <1>1, TablesAre DEF Linked
  <2>4. s.draft[Ref[t]] \in Nat
    BY <2>1, <2>3, <1>2
  <2> QED BY <2>1, <2>2, <2>3, <2>4 DEF AgreeOn, Thing
<1>e. KeyFree(s, db', raced')
  <2> SUFFICES ASSUME Writes(s), t # "payment", "unique" \notin Left(s), Thing(t, s.draft) \notin raced',
                      NEW i \in DOMAIN db'[t], SameKey(t, db'[t][i], s.draft)
               PROVE  q.op = "patch" /\ i = q.id
    BY DEF KeyFree
  <2>0. "read" \notin Left(s) /\ s.draft \in Rows[t] /\ Belongs(s, raced, Thing(t, s.draft))
    <3>1. "read" \notin Left(s)
      BY <1>6 DEF ChecksLeft
    <3> QED BY <3>1, <1>6 DEF DraftBelongs
  <2>1. AgreeOn(Thing(t, s.draft), db, db')
    BY <2>0, <1>3, <1>4 DEF Belongs
  <2>2. t \in DOMAIN Key /\ i \in Nat
    BY <1>1, <1>2, TablesAre
  <2>3. Thing(t, db'[t][i]) = Thing(t, s.draft)
    BY <2>2, SameKeySameThing
  <2>4. i \in DOMAIN db[t] /\ db[t][i] = db'[t][i]
    BY <2>1, <2>2, <2>3, <1>1 DEF AgreeOn
  <2> QED BY <2>4, <1>6, <1>3 DEF KeyFree
<1>f. Cleared(s, db', raced')
  <2> SUFFICES ASSUME q.op = "delete", "delete" \in Left(s), <<t, q.id>> \notin raced'
               PROVE  /\ t = "class" => Dependents(db', "asset", "class", q.id) = {}
                      /\ t = "asset" =>
                           /\ "deleteLogs" \notin Left(s) => Dependents(db', "log", "asset", q.id) = {}
                           /\ "deletePayments" \notin Left(s) => Dependents(db', "payment", "asset", q.id) = {}
    BY DEF Cleared
  <2>1. AgreeOn(<<t, q.id>>, db, db')
    BY <1>6, <1>4 DEF ScopeNames
  <2>2. ASSUME NEW u \in Linked, Ref[u] = t, Dependents(db, u, t, q.id) = {}
        PROVE  Dependents(db', u, t, q.id) = {}
    <3> SUFFICES ASSUME NEW j \in DOMAIN db'[u], db'[u][j][t] = q.id PROVE FALSE
      BY DEF Dependents
    <3>1. u \in Tables /\ j \in Nat
      BY <1>2, TablesAre
    <3>2. Thing(u, db'[u][j]) = <<t, q.id>>
      BY <2>2 DEF Thing
    <3>3. j \in DOMAIN db[u] /\ db[u][j] = db'[u][j]
      BY <3>1, <3>2, <2>1 DEF AgreeOn
    <3> QED BY <3>3, <2>2 DEF Dependents
  <2>3. /\ "asset" \in Linked /\ Ref["asset"] = "class"
        /\ "log" \in Linked /\ Ref["log"] = "asset"
        /\ "payment" \in Linked /\ Ref["payment"] = "asset"
    BY DEF Linked, Tables, Ref
  <2>4. /\ t = "class" => Dependents(db, "asset", "class", q.id) = {}
        /\ t = "asset" =>
             /\ "deleteLogs" \notin Left(s) => Dependents(db, "log", "asset", q.id) = {}
             /\ "deletePayments" \notin Left(s) => Dependents(db, "payment", "asset", q.id) = {}
    BY <1>6, <1>3 DEF Cleared
  <2> QED BY <2>2, <2>3, <2>4
<1>g. SeenCurrent(s, db', raced')
  <2> SUFFICES ASSUME Begun(s), NEW n \in 1 .. Len(q.rows), <<"asset", q.rows[n].asset>> \notin raced'
               PROVE  AgreeOn(<<"asset", q.rows[n].asset>>, db', s.seen)
    BY DEF SeenCurrent
  <2>1. <<"asset", q.rows[n].asset>> \in s.scope
    BY <1>6 DEF ScopeNames, Begun
  <2>2. AgreeOn(<<"asset", q.rows[n].asset>>, db, db')
    BY <2>1, <1>4
  <2>3. AgreeOn(<<"asset", q.rows[n].asset>>, db, s.seen)
    BY <1>6, <1>3 DEF SeenCurrent
  <2> QED BY <2>2, <2>3, AgreeTrans
<1>h. WroteFresh(s, db')
  <2>0. AreTables(s.wrote, next)
    BY <1>0 DEF IsHandler
  <2>1. ASSUME NEW u \in Tables, NEW i \in DOMAIN s.wrote[u], i \notin DOMAIN db[u]
        PROVE  i \notin DOMAIN db'[u]
    <3>1. i \in 1 .. next[u] - 1 /\ i \in Nat
      BY <2>0, <1>0, RowsTyped
    <3>2. i \notin DOMAIN client[d].wrote[u]
      BY DEF Apart, s
    <3>3. Creates(d, u, i)
      BY <3>1, <1>5
    <3> QED BY <3>1, <3>2, <3>3, <2>1 DEF Creates
  <2>2. "log" \in Tables /\ "payment" \in Tables
    BY DEF Tables
  <2> QED BY <2>1, <2>2, <1>6 DEF WroteFresh
<1>i. HandledRows(s, raced')
  BY <1>6, <1>3 DEF HandledRows
<1> QED BY <1>6, <1>a, <1>b, <1>c, <1>d, <1>e, <1>f, <1>g, <1>h, <1>i DEF HandlerOK

-----------------------------------------------------------------------------
(* A step, put together.                                                   *)

LEMMA UniqueStill ==
  ASSUME NEW tables, NEW R, NEW R2, R \subseteq R2
  PROVE  /\ Unique(tables, R) => Unique(tables, R2)
         /\ Anchored(tables, R) => Anchored(tables, R2)
BY DEF Unique, Anchored

LEMMA IdleIs ==
  ASSUME NEW ids
  PROVE  /\ IsHandler(Idle, ids) /\ Idle.req = NoRequest /\ Idle.scope = {} /\ Idle.wrote = NoTables
         /\ \A tables, R : HandlerOK(Idle, tables, R)
<1>1. <<>> \in Seq(Labels) /\ Ranked(<<>>)
  BY EmptySeq DEF Ranked
<1>2. AreTables(NoTables, ids)
  BY TablesNone
<1> QED BY <1>1, <1>2 DEF Idle, IsHandler, HandlerOK

LEMMA NoEffect ==
  ASSUME NEW d, db' = db, raced \subseteq raced'
  PROVE  Effect(d)
BY DEF Effect, Creates, Changes, Removes

LEMMA HandlerLater ==
  ASSUME NEW ids \in [Tables -> Nat \ {0}], NEW more \in [Tables -> Nat \ {0}],
         \A t \in Tables : ids[t] <= more[t],
         NEW s, IsHandler(s, ids)
  PROVE  IsHandler(s, more)
<1>1. AreTables(s.seen, ids) /\ AreTables(s.wrote, ids)
  BY Zenon DEF IsHandler
<1>2. AreTables(s.seen, more) /\ AreTables(s.wrote, more)
  BY <1>1, TablesGrow
<1> QED BY <1>2, Zenon DEF IsHandler

LEMMA RacingIs ==
  ASSUME NEW d \in Clients, NEW S
  PROVE  /\ raced \subseteq Racing(d, S)
         /\ \A c \in Clients \ {d} : client[c].scope \cap S # {} =>
              client[c].scope \cup S \subseteq Racing(d, S)
<1>1. ASSUME NEW c \in Clients \ {d}, client[c].scope \cap S # {}
      PROVE  client[c].scope \cup S \subseteq Racing(d, S)
  <2>1. c \in Overlapping(d, S)
    BY <1>1 DEF Overlapping
  <2> QED BY <2>1 DEF Racing
<1>2. raced \subseteq Racing(d, S)
  BY DEF Racing
<1> QED BY <1>1, <1>2

\* d's step makes s its state.
LEMMA Assemble ==
  ASSUME IInv, NEW d \in Clients, NEW s,
         client' = [client EXCEPT ![d] = s],
         next' \in [Tables -> Nat \ {0}], \A t \in Tables : next[t] <= next'[t],
         AreTables(db', next'), sent' \in 0 .. MaxRequests,
         IsHandler(s, next'), HandlerOK(s, db', raced'), Effect(d),
         s.scope \subseteq client[d].scope \/ raced' = Racing(d, s.scope),
         \A c \in Clients \ {d} : \A t \in Tables : DOMAIN s.wrote[t] \cap DOMAIN client[c].wrote[t] = {},
         Unique(db', raced'), Anchored(db', raced')
  PROVE  IInv'
<1>1. /\ Types /\ Exclusive /\ Apart /\ \A c \in Clients : HandlerOK(client[c], db, raced)
      /\ client = [c \in Clients |-> client[c]] /\ \A c \in Clients : IsHandler(client[c], next)
      /\ next \in [Tables -> Nat \ {0}]
  BY DEF IInv, Types
<1>2. /\ client'[d] = s /\ \A c \in Clients \ {d} : client'[c] = client[c]
      /\ client' = [c \in Clients |-> client'[c]]
  BY <1>1
<1>3. raced \subseteq raced'
  BY DEF Effect
<1>4. Types'
  <2>1. ASSUME NEW c \in Clients PROVE IsHandler(client'[c], next')
    <3>1. CASE c = d
      BY <3>1, <1>2
    <3>2. CASE c # d
      <4>1. IsHandler(client[c], next')
        BY <1>1, HandlerLater
      <4> QED BY <4>1, <3>2, <1>2
    <3> QED BY <3>1, <3>2
  <2> QED BY <2>1, <1>2 DEF Types
<1>5. ASSUME NEW c \in Clients PROVE HandlerOK(client'[c], db', raced')
  <2>1. CASE c = d
    BY <2>1, <1>2
  <2>2. CASE c # d
    <3>1. HandlerOK(client[c], db', raced')
      BY <2>2, <1>1, OthersKeep
    <3> QED BY <3>1, <2>2, <1>2
  <2> QED BY <2>1, <2>2
<1>6. ASSUME NEW c \in Clients, c # d, client[c].scope \cap s.scope # {}
      PROVE  client[c].scope \cup s.scope \subseteq raced'
  <2>1. CASE s.scope \subseteq client[d].scope
    <3>1. client[c].scope \cap client[d].scope # {}
      BY <2>1, <1>6
    <3>2. client[c].scope \cup client[d].scope \subseteq raced
      BY <3>1, <1>6, <1>1, Zenon DEF Exclusive
    <3> QED BY <3>2, <2>1, <1>3
  <2>2. CASE raced' = Racing(d, s.scope)
    BY <2>2, <1>6, RacingIs
  <2> QED BY <2>1, <2>2
<1>7. Exclusive'
  <2> SUFFICES ASSUME NEW c \in Clients, NEW e \in Clients, c # e,
                      client'[c].scope \cap client'[e].scope # {}
               PROVE  client'[c].scope \cup client'[e].scope \subseteq raced'
    BY DEF Exclusive
  <2>1. CASE c = d
    BY <2>1, <1>2, <1>6
  <2>2. CASE e = d
    BY <2>2, <1>2, <1>6
  <2>3. CASE c # d /\ e # d
    <3>1. client[c].scope \cap client[e].scope # {}
      BY <2>3, <1>2
    <3>2. client[c].scope \cup client[e].scope \subseteq raced
      BY <3>1, <1>1, Zenon DEF Exclusive
    <3> QED BY <3>2, <2>3, <1>2, <1>3
  <2> QED BY <2>1, <2>2, <2>3
<1>8. Apart'
  <2> SUFFICES ASSUME NEW c \in Clients, NEW e \in Clients, c # e, NEW t \in Tables
               PROVE  DOMAIN client'[c].wrote[t] \cap DOMAIN client'[e].wrote[t] = {}
    BY DEF Apart
  <2>1. CASE c = d
    BY <2>1, <1>2
  <2>2. CASE e = d
    BY <2>2, <1>2
  <2>3. CASE c # d /\ e # d
    BY <2>3, <1>1, <1>2 DEF Apart
  <2> QED BY <2>1, <2>2, <2>3
<1> QED BY <1>4, <1>5, <1>7, <1>8 DEF IInv

\* A step that reads, or ends the request.
LEMMA AssembleRead ==
  ASSUME IInv, NEW d \in Clients, NEW s,
         client' = [client EXCEPT ![d] = s], db' = db, next' = next,
         sent' \in 0 .. MaxRequests, raced \subseteq raced',
         IsHandler(s, next), HandlerOK(s, db, raced'),
         s.scope \subseteq client[d].scope \/ raced' = Racing(d, s.scope),
         s.wrote \in {client[d].wrote, NoTables}
  PROVE  IInv'
<1>1. /\ next \in [Tables -> Nat \ {0}] /\ AreTables(db, next) /\ Apart
      /\ Unique(db, raced) /\ Anchored(db, raced)
  BY DEF IInv, Types
<1>2. \A t \in Tables : next[t] <= next[t]
  BY <1>1
<1>3. Effect(d)
  BY NoEffect
<1>4. \A c \in Clients \ {d} : \A t \in Tables : DOMAIN s.wrote[t] \cap DOMAIN client[c].wrote[t] = {}
  BY <1>1, NoRowsIs DEF Apart
<1>5. Unique(db, raced') /\ Anchored(db, raced')
  BY <1>1, UniqueStill
<1> QED BY <1>1, <1>2, <1>3, <1>4, <1>5, Assemble

\* A request that ends without writing.
LEMMA EndKeepsIInv ==
  ASSUME IInv, NEW d \in Clients, End(d), UNCHANGED <<db, next, raced, sent>>
  PROVE  IInv'
<1>1. client' = [client EXCEPT ![d] = Idle]
  BY DEF End
<1>2. sent' \in 0 .. MaxRequests
  BY DEF IInv, Types
<1> QED BY <1>1, <1>2, IdleIs, AssembleRead

-----------------------------------------------------------------------------
(* The checks.                                                             *)

\* A handler that is about to issue label.
LEMMA AtLabel ==
  ASSUME IInv, NEW c \in Clients, NEW label, At(c, label)
  PROVE  LET s == client[c] IN
         /\ s.req # NoRequest /\ IsHandler(s, next) /\ HandlerOK(s, db, raced)
         /\ s.req \in Requests /\ IsRequest(s.req) /\ s.req.table \in Tables
         /\ s.req.op \in {"create", "patch", "setClosed", "delete", "batch"}
         /\ s.req.op \in {"patch", "setClosed", "delete"} => s.req.id \in Nat
         /\ label \in Left(s) /\ label \in Issues(s.req) /\ Head(s.todo) = label
         /\ \A l \in Left(s) : l = label \/ Rank[label] < Rank[l]
         /\ Tail(s.todo) \in Seq(Labels) /\ Ranked(Tail(s.todo))
         /\ In(Tail(s.todo)) = Left(s) \ {label}
<1> DEFINE s == client[c]
<1>1. s.req # NoRequest /\ Head(s.todo) = label
  BY DEF At, Busy, Req
<1>2. IsHandler(s, next) /\ HandlerOK(s, db, raced)
  BY DEF IInv, Types
<1>3. /\ s.req \in Requests /\ IsRequest(s.req) /\ s.req.table \in Tables
      /\ s.req.op \in {"create", "patch", "setClosed", "delete", "batch"}
      /\ s.req.op \in {"patch", "setClosed", "delete"} => s.req.id \in Nat
      /\ s.todo \in Seq(Labels) /\ s.todo # <<>> /\ Ranked(s.todo) /\ In(s.todo) \subseteq Issues(s.req)
  BY <1>1, <1>2, BusyTyped
<1> HIDE DEF s
<1>4. /\ Tail(s.todo) \in Seq(Labels) /\ Ranked(Tail(s.todo))
      /\ In(Tail(s.todo)) = Left(s) \ {label}
      /\ label \in Left(s)
      /\ \A l \in In(Tail(s.todo)) : Rank[label] < Rank[l]
  BY <1>1, <1>3, TailLeft DEF Left
<1> QED BY <1>1, <1>2, <1>3, <1>4 DEF Left, s

\* The state of a handler that goes on, with nothing else changed.
LEMMA ProceedTyped ==
  ASSUME NEW ids, NEW s, IsHandler(s, ids), s.req # NoRequest, Tail(s.todo) # <<>>
  PROVE  LET s1 == [s EXCEPT !.todo = Tail(@)] IN
         /\ IsHandler(s1, ids) /\ s1.req = s.req /\ s1.todo = Tail(s.todo) /\ s1.draft = s.draft
         /\ s1.scope = s.scope /\ s1.row = s.row /\ s1.seen = s.seen /\ s1.wrote = s.wrote
<1> DEFINE s1 == [s EXCEPT !.todo = Tail(@)]
<1>1. /\ DOMAIN s = {"req", "todo", "draft", "scope", "row", "seen", "wrote"}
      /\ s = [f \in DOMAIN s |-> s[f]]
  BY Zenon DEF IsHandler
<1>2. /\ s1.req = s.req /\ s1.todo = Tail(s.todo) /\ s1.draft = s.draft
      /\ s1.scope = s.scope /\ s1.row = s.row /\ s1.seen = s.seen /\ s1.wrote = s.wrote
      /\ DOMAIN s1 = {"req", "todo", "draft", "scope", "row", "seen", "wrote"}
      /\ s1 = [f \in DOMAIN s1 |-> s1[f]]
  BY <1>1
<1>3. /\ s.todo \in Seq(Labels) /\ s.todo # <<>> /\ Ranked(s.todo) /\ In(s.todo) \subseteq Issues(s.req)
      /\ s.req \in Requests
  BY BusyTyped
<1>4. Tail(s.todo) \in Seq(Labels) /\ Ranked(Tail(s.todo)) /\ In(Tail(s.todo)) \subseteq Issues(s.req)
  BY <1>3, TailLeft
<1>5. AreTables(s.seen, ids) /\ AreTables(s.wrote, ids) /\ s.row \in Nat
  BY Zenon DEF IsHandler
<1> HIDE DEF s1
<1>6. IsHandler(s1, ids)
  BY <1>2, <1>3, <1>4, <1>5 DEF IsHandler, Left
<1> QED BY <1>2, <1>6 DEF s1

\* A check that passes establishes what it is for; one that fails ends the
\* request.
LEMMA CheckKeepsIInv ==
  ASSUME IInv, NEW c \in Clients, NEW label \in {"exists", "parent", "unique"}, NEW ok,
         Check(c, label, ok),
         NEW s, s = client[c],
         label = "parent" /\ ok /\ Writes(s) /\ s.req.table # "class" =>
           \/ s.draft[Ref[s.req.table]] \in DOMAIN db[Ref[s.req.table]]
           \/ Thing(s.req.table, s.draft) \in raced,
         label = "unique" /\ ok /\ Writes(s) /\ s.req.table # "payment" =>
           \/ \A i \in DOMAIN db[s.req.table] :
                SameKey(s.req.table, db[s.req.table][i], s.draft) => s.req.op = "patch" /\ i = s.req.id
           \/ Thing(s.req.table, s.draft) \in raced
  PROVE  IInv'
<1>0. At(c, label) /\ UNCHANGED <<db, next, raced, sent>>
  BY DEF Check
<1>1. CASE ~ok
  <2>1. End(c)
    BY <1>1 DEF Check
  <2> QED BY <2>1, <1>0, EndKeepsIInv
<1>2. CASE ok
  <2> DEFINE s1 == [s EXCEPT !.todo = Tail(@)]
  <2>1. /\ s.req # NoRequest /\ IsHandler(s, next) /\ HandlerOK(s, db, raced)
        /\ label \in Issues(s.req)
        /\ \A l \in Left(s) : l = label \/ Rank[label] < Rank[l]
        /\ In(Tail(s.todo)) = Left(s) \ {label}
        /\ s.req.op \in {"create", "patch", "setClosed", "delete", "batch"}
    BY <1>0, AtLabel
  <2>2. client' = [client EXCEPT ![c] = IF Tail(s.todo) = <<>> THEN Idle ELSE s1]
    <3>1. s1.todo = Tail(s.todo)
      BY <2>1 DEF IsHandler
    <3> QED BY <1>2, <3>1 DEF Check, Proceed, Become
  <2>3. CASE Tail(s.todo) = <<>>
    BY <2>2, <2>3, <1>0, EndKeepsIInv DEF End
  <2>4. CASE Tail(s.todo) # <<>>
    <3>1. /\ IsHandler(s1, next) /\ s1.req = s.req /\ s1.todo = Tail(s.todo) /\ s1.draft = s.draft
          /\ s1.scope = s.scope /\ s1.row = s.row /\ s1.seen = s.seen /\ s1.wrote = s.wrote
      BY <2>1, <2>4, ProceedTyped
    <3>2. client' = [client EXCEPT ![c] = s1]
      BY <2>2, <2>4
    <3>3. Left(s1) = Left(s) \ {label}
      BY <2>1, <3>1 DEF Left
    <3> HIDE DEF s1
    <3>4. s.req.op # "batch"
      BY <2>1 DEF Issues
    <3>5. "read" \notin Left(s)
      BY <2>1 DEF Rank
    <3>6. /\ ScopeNames(s) /\ RowsBelong(s, db, raced)
          /\ DraftBelongs(s, raced) /\ DraftCurrent(s, db, raced)
          /\ ParentThere(s, db, raced) /\ KeyFree(s, db, raced)
          /\ Cleared(s, db, raced) /\ BatchAt(s)
      BY <2>1 DEF HandlerOK
    <3>7. ScopeNames(s1) /\ RowsBelong(s1, db, raced) /\ ChecksLeft(s1)
      BY <3>1, <3>3, <3>5, <3>6 DEF ScopeNames, RowsBelong, ChecksLeft, Belongs
    <3>8. DraftBelongs(s1, raced) /\ DraftCurrent(s1, db, raced)
      BY <3>1, <3>5, <3>6 DEF DraftBelongs, DraftCurrent, Belongs, Writes
    <3>9. ParentThere(s1, db, raced)
      BY <1>2, <3>1, <3>3, <3>6 DEF ParentThere, Writes
    <3>10. KeyFree(s1, db, raced)
      BY <1>2, <3>1, <3>3, <3>6 DEF KeyFree, Writes
    <3>11. Cleared(s1, db, raced)
      BY <3>1, <3>3, <3>6 DEF Cleared
    <3>12. BatchAt(s1) /\ ~Begun(s1)
      BY <3>1, <3>4, <3>6 DEF BatchAt, Begun
    <3>13. HandlerOK(s1, db, raced)
      BY <3>7, <3>8, <3>9, <3>10, <3>11, <3>12
         DEF HandlerOK, SeenCurrent, WroteEntries, WroteFresh, HandledRows
    <3>14. sent' \in 0 .. MaxRequests
      BY <1>0 DEF IInv, Types
    <3> QED BY <1>0, <3>1, <3>2, <3>13, <3>14, AssembleRead
  <2> QED BY <2>3, <2>4
<1> QED BY <1>1, <1>2

LEMMA ExistsKeepsIInv ==
  ASSUME IInv, NEW c \in Clients, Exists(c)
  PROVE  IInv'
BY CheckKeepsIInv DEF Exists

LEMMA ParentExistsKeepsIInv ==
  ASSUME IInv, NEW c \in Clients, ParentExists(c)
  PROVE  IInv'
<1> DEFINE s == client[c]
<1> DEFINE ok == s.draft[Ref[s.req.table]] \in DOMAIN db[Ref[s.req.table]]
<1>1. Check(c, "parent", ok)
  BY DEF ParentExists, Draft, Req
<1>2. "parent" = "parent" /\ ok /\ Writes(s) /\ s.req.table # "class" =>
           \/ s.draft[Ref[s.req.table]] \in DOMAIN db[Ref[s.req.table]]
           \/ Thing(s.req.table, s.draft) \in raced
  OBVIOUS
<1> HIDE DEF ok
<1> QED BY <1>1, <1>2, CheckKeepsIInv

LEMMA NoOtherKeepsIInv ==
  ASSUME IInv, NEW c \in Clients, NoOther(c)
  PROVE  IInv'
<1> DEFINE s == client[c]
<1> DEFINE ok == Same(c) \cap Others(c) = {}
<1>1. Check(c, "unique", ok)
  BY DEF NoOther
<1>2. "unique" = "unique" /\ ok /\ Writes(s) /\ s.req.table # "payment" =>
        \/ \A i \in DOMAIN db[s.req.table] :
             SameKey(s.req.table, db[s.req.table][i], s.draft) => s.req.op = "patch" /\ i = s.req.id
        \/ Thing(s.req.table, s.draft) \in raced
  BY DEF Same, Others, Writes, Table, Req, Draft
<1> HIDE DEF ok
<1> QED BY <1>1, <1>2, CheckKeepsIInv

\* Where the entry itself is one of several, they are raced.
LEMMA ItselfFoundKeepsIInv ==
  ASSUME IInv, NEW c \in Clients, ItselfFound(c)
  PROVE  IInv'
<1> DEFINE s == client[c]
<1> DEFINE draft == s.draft
<1>1. /\ Check(c, "unique", TRUE) /\ s.req.table = "log"
      /\ Same(c) \ Others(c) # {} /\ Same(c) \cap Others(c) # {}
  BY DEF ItselfFound, Req
<1>2. PICK i \in Same(c) : i \notin Others(c)
  BY <1>1
<1>3. PICK j \in Same(c) : j \in Others(c)
  BY <1>1
<1>4. /\ i \in DOMAIN db["log"] /\ j \in DOMAIN db["log"] /\ i # j
      /\ SameKey("log", db["log"][i], s.draft) /\ SameKey("log", db["log"][j], s.draft)
  BY <1>1, <1>2, <1>3 DEF Same, Table, Req, Draft
<1>5. SameKey("log", db["log"][i], db["log"][j])
  BY <1>4 DEF SameKey
<1>6. "log" \in DOMAIN Key /\ "log" \in Tables
  BY DEF Key, Tables
<1>7. Refs("log", db["log"][i]) \subseteq raced
  BY <1>4, <1>5, <1>6 DEF IInv, Unique
<1>8. db["log"][i] \in Rows["log"]
  BY <1>4, <1>6, RowsTyped DEF IInv, Types
<1>9. Thing("log", db["log"][i]) \in raced
  BY <1>6, <1>7, <1>8, TablesAre
<1>10. Thing("log", s.draft) \in raced
  BY <1>4, <1>6, <1>9, SameKeySameThing
<1> HIDE DEF s
<1> QED BY <1>1, <1>10, CheckKeepsIInv DEF s

\* The fields given over a row are a row.
LEMMA MergeTyped ==
  ASSUME NEW q, IsPatch(q), NEW row \in Rows[q.table]
  PROVE  /\ Over(q.set, row) \in Rows[q.table]
         /\ Thing(q.table, Over(q.set, row)) \in Refs(q.table, q.set) \cup {Thing(q.table, row)}
<1> DEFINE set == q.set
<1> DEFINE new == Over(set, row)
<1>1. /\ q.table \in Tables /\ DOMAIN set \subseteq Fields[q.table]
      /\ \A f \in DOMAIN set : set[f] \in Type[f]
  BY DEF IsPatch
<1>2. new = [x \in DOMAIN set \cup DOMAIN row |-> IF x \in DOMAIN set THEN set[x] ELSE row[x]]
  BY DEF Over
<1> HIDE DEF set, new
<1>3. CASE q.table = "class"
  <2>1. DOMAIN set \subseteq {"name"} /\ row \in [name : Names] /\ ("name" \in DOMAIN set => set["name"] \in Names)
    BY <1>1, <1>3 DEF Fields, Rows, Type
  <2>2. new = [name |-> IF "name" \in DOMAIN set THEN set["name"] ELSE row.name]
    BY <1>2, <2>1
  <2>3. new \in [name : Names]
    BY <2>1, <2>2
  <2> QED BY <2>1, <2>2, <2>3, <1>3 DEF Rows, Thing, Refs, Ref, set, new
<1>4. CASE q.table = "asset"
  <2>1. /\ DOMAIN set \subseteq {"class", "name", "closed"} /\ row \in [class : Nat, name : Names, closed : BOOLEAN]
        /\ "class" \in DOMAIN set => set["class"] \in Nat
        /\ "name" \in DOMAIN set => set["name"] \in Names
        /\ "closed" \in DOMAIN set => set["closed"] \in BOOLEAN
    BY <1>1, <1>4 DEF Fields, Rows, Type
  <2>2. new = [class |-> IF "class" \in DOMAIN set THEN set["class"] ELSE row.class,
               name |-> IF "name" \in DOMAIN set THEN set["name"] ELSE row.name,
               closed |-> IF "closed" \in DOMAIN set THEN set["closed"] ELSE row.closed]
    BY <1>2, <2>1
  <2>3. new \in [class : Nat, name : Names, closed : BOOLEAN]
    BY <2>1, <2>2
  <2> QED BY <2>1, <2>2, <2>3, <1>4 DEF Rows, Thing, Refs, Ref, set, new
<1>5. CASE q.table = "log"
  <2>1. /\ DOMAIN set \subseteq {"asset", "month", "value"} /\ row \in [asset : Nat, month : Months, value : Values]
        /\ "asset" \in DOMAIN set => set["asset"] \in Nat
        /\ "month" \in DOMAIN set => set["month"] \in Months
        /\ "value" \in DOMAIN set => set["value"] \in Values
    BY <1>1, <1>5 DEF Fields, Rows, Type
  <2>2. new = [asset |-> IF "asset" \in DOMAIN set THEN set["asset"] ELSE row.asset,
               month |-> IF "month" \in DOMAIN set THEN set["month"] ELSE row.month,
               value |-> IF "value" \in DOMAIN set THEN set["value"] ELSE row.value]
    BY <1>2, <2>1
  <2>3. new \in [asset : Nat, month : Months, value : Values]
    BY <2>1, <2>2
  <2> QED BY <2>1, <2>2, <2>3, <1>5 DEF Rows, Thing, Refs, Ref, set, new
<1>6. CASE q.table = "payment"
  <2>1. /\ DOMAIN set \subseteq {"asset", "value"} /\ row \in [asset : Nat, value : Values]
        /\ "asset" \in DOMAIN set => set["asset"] \in Nat
        /\ "value" \in DOMAIN set => set["value"] \in Values
    BY <1>1, <1>6 DEF Fields, Rows, Type
  <2>2. new = [asset |-> IF "asset" \in DOMAIN set THEN set["asset"] ELSE row.asset,
               value |-> IF "value" \in DOMAIN set THEN set["value"] ELSE row.value]
    BY <1>2, <2>1
  <2>3. new \in [asset : Nat, value : Values]
    BY <2>1, <2>2
  <2> QED BY <2>1, <2>2, <2>3, <1>6 DEF Rows, Thing, Refs, Ref, set, new
<1> QED BY <1>1, <1>3, <1>4, <1>5, <1>6 DEF Tables

LEMMA ReadKeepsIInv ==
  ASSUME IInv, NEW c \in Clients, Read(c)
  PROVE  IInv'
<1> DEFINE s == client[c]
<1> DEFINE q == s.req
<1> DEFINE t == q.table
<1> DEFINE draft == Over(q.set, db[t][q.id])
<1> DEFINE s1 == [s EXCEPT !.todo = Tail(@), !.draft = draft]
<1>0. At(c, "read") /\ UNCHANGED <<db, next, raced, sent>>
  BY DEF Read
<1>1. /\ q # NoRequest /\ IsHandler(s, next) /\ HandlerOK(s, db, raced)
      /\ q \in Requests /\ IsRequest(q) /\ t \in Tables
      /\ "read" \in Left(s) /\ "read" \in Issues(q)
      /\ In(Tail(s.todo)) = Left(s) \ {"read"}
      /\ q.op \in {"create", "patch", "setClosed", "delete", "batch"}
      /\ Tail(s.todo) \in Seq(Labels) /\ Ranked(Tail(s.todo))
  BY <1>0, AtLabel
<1>2. CASE q.id \notin DOMAIN db[t]
  <2>1. End(c)
    BY <1>2 DEF Read, Table, Req
  <2> QED BY <2>1, <1>0, EndKeepsIInv
<1>3. CASE q.id \in DOMAIN db[t] /\ Tail(s.todo) = <<>>
  <2>1. s1.todo = <<>>
    BY <1>1, <1>3 DEF IsHandler
  <2>2. Become(c, s1)
    BY <1>3 DEF Read, Table, Req, Merge
  <2> HIDE DEF s1
  <2>3. End(c)
    BY <2>1, <2>2 DEF Become, End
  <2> QED BY <2>3, <1>0, EndKeepsIInv
<1>4. CASE q.id \in DOMAIN db[t] /\ Tail(s.todo) # <<>>
  <2>1. /\ s1.req = q /\ s1.todo = Tail(s.todo) /\ s1.draft = draft
        /\ s1.scope = s.scope /\ s1.row = s.row /\ s1.seen = s.seen /\ s1.wrote = s.wrote
        /\ DOMAIN s1 = {"req", "todo", "draft", "scope", "row", "seen", "wrote"}
        /\ s1 = [f \in DOMAIN s1 |-> s1[f]]
    <3>1. /\ DOMAIN s = {"req", "todo", "draft", "scope", "row", "seen", "wrote"}
          /\ s = [f \in DOMAIN s |-> s[f]]
      BY <1>1, Zenon DEF IsHandler
    <3> HIDE DEF s
    <3> QED BY <3>1
  <2>2. client' = [client EXCEPT ![c] = s1]
    <3>1. Become(c, s1)
      BY <1>4 DEF Read, Table, Req, Merge
    <3> QED BY <3>1, <2>1, <1>4 DEF Become
  <2> HIDE DEF s1
  <2>3. /\ Left(s1) = Left(s) \ {"read"} /\ Left(s) \subseteq Issues(q)
        /\ AreTables(s.seen, next) /\ AreTables(s.wrote, next) /\ s.row \in Nat
    BY <1>1, <2>1 DEF Left, IsHandler
  <2>4. IsHandler(s1, next)
    BY <1>1, <1>4, <2>1, <2>3 DEF IsHandler
  <2>5. q.op = "patch" /\ IsPatch(q)
    BY <1>1, RequestParts DEF Issues
  <2>6. /\ ScopeNames(s) /\ RowsBelong(s, db, raced) /\ ChecksLeft(s)
        /\ Cleared(s, db, raced) /\ BatchAt(s)
    BY <1>1 DEF HandlerOK
  <2>7. db[t][q.id] \in Rows[t]
    BY <1>1, <1>4, RowsTyped DEF IInv, Types
  <2>8. /\ draft \in Rows[t]
        /\ Thing(t, draft) \in Refs(t, q.set) \cup {Thing(t, db[t][q.id])}
    BY <2>5, <2>7, MergeTyped
  <2>9. Belongs(s, raced, Thing(t, draft))
    <3>1. Refs(t, q.set) \subseteq s.scope /\ <<t, q.id>> \in s.scope
      BY <2>5, <2>6 DEF ScopeNames
    <3>2. Belongs(s, raced, Thing(t, db[t][q.id]))
      BY <3>1, <2>6, <1>4 DEF RowsBelong
    <3> QED BY <3>1, <3>2, <2>8 DEF Belongs
  <2>10. ScopeNames(s1) /\ RowsBelong(s1, db, raced)
    BY <2>1, <2>5, <2>6 DEF ScopeNames, RowsBelong, Belongs
  <2>11. ChecksLeft(s1) /\ ParentThere(s1, db, raced) /\ KeyFree(s1, db, raced)
    BY <1>1, <2>1, <2>3, <2>6 DEF ChecksLeft, ParentThere, KeyFree
  <2>12. DraftBelongs(s1, raced)
    BY <2>1, <2>8, <2>9 DEF DraftBelongs, Belongs
  <2>13. DraftCurrent(s1, db, raced)
    BY <2>1 DEF DraftCurrent
  <2>14. Cleared(s1, db, raced) /\ BatchAt(s1) /\ ~Begun(s1)
    BY <2>1, <2>5, <2>6 DEF Cleared, BatchAt, Begun
  <2>15. HandlerOK(s1, db, raced)
    BY <2>10, <2>11, <2>12, <2>13, <2>14
       DEF HandlerOK, SeenCurrent, WroteEntries, WroteFresh, HandledRows
  <2>16. sent' \in 0 .. MaxRequests
    BY <1>0 DEF IInv, Types
  <2> QED BY <1>0, <2>1, <2>2, <2>4, <2>15, <2>16, AssembleRead
<1> QED BY <1>2, <1>3, <1>4

LEMMA InterruptedKeepsIInv ==
  ASSUME IInv, NEW c \in Clients, Interrupted(c) \/ LockWaitFails(c)
  PROVE  IInv'
BY EndKeepsIInv DEF Interrupted, LockWaitFails

\* A DELETE goes on to the statements its count has called for.
LEMMA CountKeepsIInv ==
  ASSUME IInv, NEW c \in Clients, Count(c)
  PROVE  IInv'
<1> DEFINE s == client[c]
<1> DEFINE q == s.req
<1> DEFINE t == q.table
<1> DEFINE todo == IF t = "class" THEN <<"delete">> ELSE Cascade(c)
<1> DEFINE s1 == [s EXCEPT !.todo = todo]
<1>0. At(c, "count") /\ UNCHANGED <<db, next, raced, sent>>
  BY DEF Count
<1>1. /\ q # NoRequest /\ IsHandler(s, next) /\ HandlerOK(s, db, raced)
      /\ q \in Requests /\ IsRequest(q) /\ t \in Tables
      /\ "count" \in Left(s) /\ "count" \in Issues(q)
      /\ q.op \in {"create", "patch", "setClosed", "delete", "batch"}
  BY <1>0, AtLabel
<1>2. CASE ~DeleteAllowed(c)
  <2>1. End(c)
    BY <1>2 DEF Count
  <2> QED BY <2>1, <1>0, EndKeepsIInv
<1>3. CASE DeleteAllowed(c)
  <2>1. q.op = "delete" /\ t \in {"class", "asset"}
    BY <1>1 DEF Issues
  <2>2. q.force \in BOOLEAN
    BY <1>1, <2>1, RequestParts
  <2>3. \E L : /\ Lists(todo, L)
               /\ "delete" \in L /\ L \subseteq Issues(q)
               /\ t = "class" => Dependents(db, "asset", "class", q.id) = {}
               /\ t = "asset" =>
                    /\ "deleteLogs" \notin L => Dependents(db, "log", "asset", q.id) = {}
                    /\ "deletePayments" \notin L => Dependents(db, "payment", "asset", q.id) = {}
    <3>1. CASE t = "class"
      <4>1. Lists(todo, {"delete"})
        BY <3>1, Listings
      <4> QED BY <4>1, <3>1, <2>1, <1>3 DEF DeleteAllowed, Req, Issues
    <3>2. CASE t = "asset"
      <4>0. todo = Cascade(c)
        BY <3>2
      <4> HIDE DEF todo
      <4>1. q.force \/ (~Counted(c, "log") /\ ~Counted(c, "payment"))
        BY <3>2, <1>3 DEF DeleteAllowed, Counted, Req
      <4>2. CASE Counted(c, "log") /\ Counted(c, "payment")
        <5>1. Lists(todo, {"deleteLogs", "deletePayments", "delete"})
          BY <4>0, <4>2, Listings DEF Cascade
        <5> QED BY <5>1, <4>1, <4>2, <3>2, <2>1 DEF Issues
      <4>3. CASE Counted(c, "log") /\ ~Counted(c, "payment")
        <5>1. Lists(todo, {"deleteLogs", "delete"})
          BY <4>0, <4>3, Listings DEF Cascade
        <5> QED BY <5>1, <4>1, <4>3, <3>2, <2>1 DEF Issues, Counted, Req
      <4>4. CASE ~Counted(c, "log") /\ Counted(c, "payment")
        <5>1. Lists(todo, {"deletePayments", "delete"})
          BY <4>0, <4>4, Listings DEF Cascade
        <5> QED BY <5>1, <4>1, <4>4, <3>2, <2>1 DEF Issues, Counted, Req
      <4>5. CASE ~Counted(c, "log") /\ ~Counted(c, "payment")
        <5>1. Lists(todo, {"delete"})
          BY <4>0, <4>5, Listings DEF Cascade
        <5> QED BY <5>1, <4>5, <3>2, <2>1 DEF Issues, Counted, Req
      <4> QED BY <4>2, <4>3, <4>4, <4>5
    <3> QED BY <3>1, <3>2, <2>1
  <2>4. Become(c, s1)
    BY <1>3 DEF Count, Req
  <2> HIDE DEF todo
  <2>5. /\ s1.req = q /\ s1.todo = todo /\ s1.draft = s.draft
        /\ s1.scope = s.scope /\ s1.row = s.row /\ s1.seen = s.seen /\ s1.wrote = s.wrote
        /\ DOMAIN s1 = {"req", "todo", "draft", "scope", "row", "seen", "wrote"}
        /\ s1 = [f \in DOMAIN s1 |-> s1[f]]
    <3>1. /\ DOMAIN s = {"req", "todo", "draft", "scope", "row", "seen", "wrote"}
          /\ s = [f \in DOMAIN s |-> s[f]]
      BY <1>1, Zenon DEF IsHandler
    <3> HIDE DEF s
    <3> QED BY <3>1
  <2> HIDE DEF s1
  <2>6. client' = [client EXCEPT ![c] = s1]
    BY <2>3, <2>4, <2>5 DEF Become, Lists
  <2>7. IsHandler(s1, next)
    <3>1. AreTables(s.seen, next) /\ AreTables(s.wrote, next) /\ s.row \in Nat
      BY <1>1, Zenon DEF IsHandler
    <3> QED BY <3>1, <1>1, <2>3, <2>5 DEF IsHandler, Lists, Left
  <2>8. /\ ScopeNames(s) /\ RowsBelong(s, db, raced) /\ BatchAt(s)
    BY <1>1 DEF HandlerOK
  <2>9. ScopeNames(s1) /\ RowsBelong(s1, db, raced)
    BY <2>5, <2>8 DEF ScopeNames, RowsBelong, Belongs
  <2>10. "read" \notin Left(s1)
    BY <2>1, <2>3, <2>5 DEF Issues, Lists, Left
  <2>11. ~Writes(s1) /\ ~Begun(s1)
    BY <2>1, <2>5 DEF Writes, Begun
  <2>12. Cleared(s1, db, raced) /\ BatchAt(s1)
    BY <2>1, <2>3, <2>5, <2>8 DEF Cleared, BatchAt, Lists, Left
  <2>13. DraftCurrent(s1, db, raced)
    BY <2>1, <2>5 DEF DraftCurrent
  <2>14. HandlerOK(s1, db, raced)
    BY <2>9, <2>10, <2>11, <2>12, <2>13
       DEF HandlerOK, ChecksLeft, DraftBelongs, ParentThere, KeyFree,
           SeenCurrent, WroteEntries, WroteFresh, HandledRows
  <2>15. sent' \in 0 .. MaxRequests
    BY <1>0 DEF IInv, Types
  <2> QED BY <1>0, <2>5, <2>6, <2>7, <2>14, <2>15, AssembleRead
<1> QED BY <1>2, <1>3

\* A transaction sees the database, and concerns the entries it may replace.
LEMMA BeginKeepsIInv ==
  ASSUME IInv, NEW c \in Clients, Begin(c)
  PROVE  IInv'
<1> DEFINE s == client[c]
<1> DEFINE q == s.req
<1> DEFINE scope == s.scope \cup {<<"log", i>> : i \in Posted(c)}
<1> DEFINE s1 == [s EXCEPT !.todo = Tail(@), !.seen = db, !.scope = scope]
<1>0. At(c, "begin") /\ UNCHANGED <<db, next, sent>> /\ raced' = Racing(c, scope) /\ Become(c, s1)
  BY DEF Begin
<1>1. /\ q # NoRequest /\ IsHandler(s, next) /\ HandlerOK(s, db, raced)
      /\ q \in Requests /\ IsRequest(q)
      /\ "begin" \in Left(s) /\ "begin" \in Issues(q)
      /\ In(Tail(s.todo)) = Left(s) \ {"begin"}
      /\ q.op \in {"create", "patch", "setClosed", "delete", "batch"}
      /\ Tail(s.todo) \in Seq(Labels) /\ Ranked(Tail(s.todo))
  BY <1>0, AtLabel
<1>2. q.op = "batch" /\ q.table = "log" /\ Len(q.rows) \in Nat \ {0}
  BY <1>1, RequestParts, BatchParts DEF Issues
<1>3. /\ ScopeNames(s) /\ RowsBelong(s, db, raced) /\ BatchAt(s)
  BY <1>1 DEF HandlerOK
<1>4. /\ s.row = 1 /\ s.wrote = NoTables /\ \A k \in s.scope : k[1] = "asset"
      /\ "rows" \in Left(s) /\ "commit" \in Left(s)
  BY <1>1, <1>2, <1>3 DEF BatchAt
<1>5. /\ s1.req = q /\ s1.todo = Tail(s.todo) /\ s1.draft = s.draft
      /\ s1.scope = scope /\ s1.row = s.row /\ s1.seen = db /\ s1.wrote = s.wrote
      /\ DOMAIN s1 = {"req", "todo", "draft", "scope", "row", "seen", "wrote"}
      /\ s1 = [f \in DOMAIN s1 |-> s1[f]]
  <2>1. /\ DOMAIN s = {"req", "todo", "draft", "scope", "row", "seen", "wrote"}
        /\ s = [f \in DOMAIN s |-> s[f]]
    BY <1>1, Zenon DEF IsHandler
  <2> HIDE DEF s, scope
  <2> QED BY <2>1
<1> HIDE DEF s1
<1>6. Left(s1) = Left(s) \ {"begin"} /\ Tail(s.todo) # <<>>
  <2>1. "rows" \in In(Tail(s.todo))
    BY <1>1, <1>4
  <2>2. In(<<>>) = {}
    BY DEF In
  <2> QED BY <2>1, <2>2, <1>1, <1>5 DEF Left
<1>7. client' = [client EXCEPT ![c] = s1]
  BY <1>0, <1>5, <1>6 DEF Become
<1>8. IsHandler(s1, next)
  <2>1. AreTables(db, next) /\ AreTables(s.wrote, next) /\ s.row \in Nat /\ Left(s) \subseteq Issues(q)
    BY <1>1 DEF IsHandler, IInv, Types
  <2> QED BY <2>1, <1>1, <1>5, <1>6 DEF IsHandler
<1>9. raced \subseteq raced'
  BY <1>0, RacingIs
<1>10. ScopeNames(s1)
  BY <1>2, <1>3, <1>5 DEF ScopeNames
<1>11. \A i : <<"log", i>> \in scope => i \in Posted(c)
  BY <1>4
<1>12. RowsBelong(s1, db, raced')
  <2> SUFFICES ASSUME NEW i \in DOMAIN db["log"], <<"log", i>> \in scope
               PROVE  Thing("log", db["log"][i]) \in scope
    BY <1>2, <1>5 DEF RowsBelong, Belongs
  <2> QED BY <1>11 DEF Posted, Thing, Ref
<1>13. ~Writes(s1) /\ "read" \notin Left(s1) /\ Begun(s1)
  BY <1>1, <1>2, <1>5, <1>6, <1>8 DEF Writes, Begun, IsHandler, Issues
<1>14. BatchAt(s1)
  BY <1>2, <1>3, <1>4, <1>5, <1>6 DEF BatchAt
<1>15. SeenCurrent(s1, db, raced')
  BY <1>5, AgreeSelf DEF SeenCurrent
<1>16. WroteEntries(s1) /\ WroteFresh(s1, db)
  <2>1. DOMAIN s1.wrote.log = {} /\ DOMAIN s1.wrote.payment = {}
    BY <1>4, <1>5, NoRowsIs DEF Tables
  <2>2. ASSUME NEW i \in DOMAIN db.log, db.log[i].month = q.month, <<"asset", db.log[i].asset>> \in scope
        PROVE  <<"log", i>> \in scope
    <3>1. <<"asset", db.log[i].asset>> \in s.scope
      BY <2>2
    <3>2. i \in Posted(c)
      BY <3>1, <2>2 DEF Posted, Req
    <3> QED BY <3>2
  <2> HIDE DEF scope
  <2> QED BY <2>1, <2>2, <1>5 DEF WroteEntries, WroteFresh
<1>17. HandledRows(s1, raced')
  BY <1>4, <1>5 DEF HandledRows
<1>18. HandlerOK(s1, db, raced')
  BY <1>2, <1>5, <1>10, <1>12, <1>13, <1>14, <1>15, <1>16, <1>17
     DEF HandlerOK, ChecksLeft, DraftBelongs, DraftCurrent, ParentThere, KeyFree, Cleared
<1>19. sent' \in 0 .. MaxRequests
  BY <1>0 DEF IInv, Types
<1> QED BY <1>0, <1>5, <1>7, <1>8, <1>9, <1>18, <1>19, AssembleRead

\* A new request.
LEMMA SendKeepsIInv ==
  ASSUME IInv, NEW c \in Clients, NEW q \in Requests, Send(c, q)
  PROVE  IInv'
<1> DEFINE t == q.table
<1> DEFINE draft == IF q.op = "create" THEN q.row ELSE NoRows
<1> DEFINE s1 == [Idle EXCEPT !.req = q, !.todo = Program(q), !.scope = Scope(q), !.draft = draft]
<1>0. /\ client[c].req = NoRequest /\ UNCHANGED <<db, next>> /\ raced' = Racing(c, Scope(q))
      /\ client' = [client EXCEPT ![c] = s1] /\ sent < MaxRequests /\ sent' = sent + 1
  BY DEF Send, Busy, Req
<1>1. /\ IsRequest(q) /\ t \in Tables /\ q # NoRequest
      /\ q.op \in {"create", "patch", "setClosed", "delete", "batch"}
      /\ q.op = "create" => t # "log" /\ q.row \in Rows[t]
      /\ q.op = "patch" => IsPatch(q)
      /\ q.op = "batch" => t = "log" /\ Len(q.rows) \in Nat \ {0}
  BY ConstantsAssumption, RequestParts, BatchParts
<1>2. /\ s1.req = q /\ s1.todo = Program(q) /\ s1.draft = draft /\ s1.scope = Scope(q)
      /\ s1.row = 1 /\ s1.seen = NoTables /\ s1.wrote = NoTables
      /\ DOMAIN s1 = {"req", "todo", "draft", "scope", "row", "seen", "wrote"}
      /\ s1 = [f \in DOMAIN s1 |-> s1[f]]
  BY DEF Idle
<1> HIDE DEF s1
<1>3. /\ Program(q) \in Seq(Labels) /\ Program(q) # <<>> /\ Ranked(Program(q))
      /\ Left(s1) \subseteq Issues(q)
      /\ q.op = "patch" => "read" \in Left(s1)
      /\ q.op \in {"create", "patch"} /\ t # "class" => "parent" \in Left(s1)
      /\ q.op \in {"create", "patch"} /\ t # "payment" => "unique" \in Left(s1)
      /\ q.op = "delete" /\ "delete" \in Left(s1) => t \in {"log", "payment"}
      /\ q.op = "batch" => Left(s1) = {"begin", "rows", "commit"}
  BY <1>1, <1>2, Programs DEF Left
<1>4. IsHandler(s1, next)
  BY <1>1, <1>2, <1>3, TablesNone DEF IsHandler
<1>5. Ref[t] \in {"name", "class", "asset"} /\ Ref[t] # t
  BY <1>1 DEF Tables, Ref
<1>6. q.op = "create" => Refs(t, q.row) = {Thing(t, q.row)}
  BY <1>1, TablesAre
<1>7. ScopeNames(s1)
  <2>1. CASE q.op = "create"
    BY <2>1, <1>2, <1>6 DEF ScopeNames, Scope
  <2>2. CASE q.op = "batch"
    BY <2>2, <1>2 DEF ScopeNames, Scope
  <2>3. CASE q.op \in {"patch", "setClosed", "delete"}
    BY <2>3, <1>2 DEF ScopeNames, Scope
  <2> QED BY <2>1, <2>2, <2>3, <1>1
<1>8. RowsBelong(s1, db, raced')
  <2> SUFFICES ASSUME NEW i \in DOMAIN db[t], <<t, i>> \in Scope(q)
               PROVE  Thing(t, db[t][i]) \in Scope(q)
    BY <1>2 DEF RowsBelong, Belongs
  <2>1. CASE q.op = "create"
    <3>1. Scope(q) = {Thing(t, q.row)}
      BY <2>1, <1>6 DEF Scope
    <3> QED BY <3>1, <1>5 DEF Thing
  <2>2. CASE q.op = "batch"
    BY <2>2, <1>1 DEF Scope
  <2>3. CASE q.op \in {"patch", "setClosed", "delete"}
    <3>1. /\ Scope(q) \subseteq {<<t, q.id>>} \cup Refs(t, Stored(q)) \cup Refs(t, q.set)
          /\ Refs(t, Stored(q)) \subseteq Scope(q)
      BY <2>3 DEF Scope
    <3>2. i = q.id
      BY <3>1, <1>5 DEF Refs
    <3>3. Stored(q) = db[t][i]
      BY <3>2 DEF Stored
    <3>4. db[t][i] \in Rows[t]
      BY <1>1, RowsTyped DEF IInv, Types
    <3>5. Refs(t, db[t][i]) = {Thing(t, db[t][i])}
      BY <1>1, <3>4, TablesAre
    <3> QED BY <3>1, <3>3, <3>5
  <2> QED BY <2>1, <2>2, <2>3, <1>1
<1>9. ChecksLeft(s1) /\ ParentThere(s1, db, raced') /\ KeyFree(s1, db, raced') /\ Cleared(s1, db, raced')
  <2>1. "read" \in Left(s1) => q.op = "patch"
    BY <1>1, <1>3 DEF Issues
  <2> QED BY <2>1, <1>2, <1>3 DEF ChecksLeft, ParentThere, KeyFree, Writes, Cleared
<1>10. DraftBelongs(s1, raced')
  <2> SUFFICES ASSUME Writes(s1), "read" \notin Left(s1)
               PROVE  draft \in Rows[t] /\ Thing(t, draft) \in Scope(q)
    BY <1>2 DEF DraftBelongs, Belongs
  <2>1. q.op = "create"
    BY <1>2, <1>3 DEF Writes
  <2> QED BY <2>1, <1>1, <1>6 DEF Scope
<1>11. DraftCurrent(s1, db, raced')
  BY <1>2, <1>3 DEF DraftCurrent
<1>12. BatchAt(s1) /\ ~Begun(s1)
  <2>1. \A u \in {"class", "asset"} : NoTables[u] = NoRows
    BY NoRowsIs DEF Tables
  <2>2. q.op = "batch" => \A k \in Scope(q) : k[1] = "asset"
    BY DEF Scope
  <2> QED BY <2>1, <2>2, <1>1, <1>2, <1>3 DEF BatchAt, Begun
<1>13. HandlerOK(s1, db, raced')
  BY <1>7, <1>8, <1>9, <1>10, <1>11, <1>12
     DEF HandlerOK, SeenCurrent, WroteEntries, WroteFresh, HandledRows
<1>14. sent' \in 0 .. MaxRequests
  BY <1>0, ConstantsAssumption DEF IInv, Types
<1>15. raced \subseteq raced' /\ raced' = Racing(c, s1.scope)
  BY <1>0, <1>2, RacingIs
<1> QED BY <1>0, <1>2, <1>4, <1>13, <1>14, <1>15, AssembleRead

-----------------------------------------------------------------------------
(* The writes outside a transaction.                                       *)

\* A write that is the last thing its request does.
LEMMA AssembleLast ==
  ASSUME IInv, NEW c \in Clients, End(c), UNCHANGED sent,
         next' \in [Tables -> Nat \ {0}], \A t \in Tables : next[t] <= next'[t],
         AreTables(db', next'), Effect(c), Unique(db', raced'), Anchored(db', raced')
  PROVE  IInv'
<1>1. client' = [client EXCEPT ![c] = Idle] /\ sent' \in 0 .. MaxRequests
  BY DEF End, IInv, Types
<1>2. IsHandler(Idle, next') /\ HandlerOK(Idle, db', raced') /\ Idle.scope = {} /\ Idle.wrote = NoTables
  BY IdleIs
<1>3. \A t \in Tables : DOMAIN Idle.wrote[t] = {}
  BY <1>2, NoRowsIs
<1> QED BY <1>1, <1>2, <1>3, Assemble

\* Those statements of the highest rank end their handler.
LEMMA LastEnds ==
  ASSUME IInv, NEW c \in Clients, NEW label \in {"insert", "update", "flag", "delete"},
         At(c, label), Proceed(c)
  PROVE  End(c)
<1> DEFINE s == client[c]
<1> DEFINE s1 == [s EXCEPT !.todo = Tail(@)]
<1>1. /\ s.req # NoRequest /\ IsHandler(s, next) /\ Head(s.todo) = label
  BY AtLabel
<1>2. s.todo \in Seq(Labels) /\ s.todo # <<>> /\ Ranked(s.todo)
  BY <1>1, BusyTyped
<1>3. Tail(s.todo) = <<>>
  BY <1>1, <1>2, LastLeft
<1>4. s1.todo = Tail(s.todo)
  BY <1>1 DEF IsHandler
<1>5. Become(c, s1)
  BY DEF Proceed
<1> HIDE DEF s1, s
<1> QED BY <1>3, <1>4, <1>5 DEF Become, End

\* Row i of table t becomes row.
LEMMA PutKeeps ==
  ASSUME IInv, NEW c \in Clients, NEW t \in Tables, NEW i \in Nat, NEW row,
         db' = [db EXCEPT ![t] = Put(db[t], i, row)], raced' = raced,
         i \in DOMAIN db[t] =>
           /\ row \in Rows[t]
           /\ <<t, i>> \in client[c].scope
           /\ Thing(t, db[t][i]) \in client[c].scope \cup raced
           /\ Thing(t, row) \in client[c].scope \cup raced
           /\ t # "payment" => \/ Thing(t, row) \in raced
                               \/ \A j \in DOMAIN db[t] : SameKey(t, db[t][j], row) => j = i
           /\ t # "class" => Thing(t, row) \in raced \/ row[Ref[t]] \in DOMAIN db[Ref[t]]
  PROVE  AreTables(db', next) /\ Effect(c) /\ Unique(db', raced') /\ Anchored(db', raced')
<1>1. /\ next \in [Tables -> Nat \ {0}] /\ AreTables(db, next)
      /\ Unique(db, raced) /\ Anchored(db, raced)
  BY DEF IInv, Types
<1>2. /\ db = [u \in Tables |-> db[u]]
      /\ \A u \in Tables : DOMAIN db[u] \subseteq Nat /\ \A j \in DOMAIN db[u] : db[u][j] \in Rows[u]
  BY <1>1, RowsTyped, Zenon
<1>3. IsTable(db[t], t, next[t])
  BY <1>1 DEF AreTables
<1>4. IsTable(Put(db[t], i, row), t, next[t])
  BY <1>3, TablePut
<1>5. AreTables(db', next)
  BY <1>1, <1>4, TablesWith
<1>6. /\ \A u \in Tables : u # t => db'[u] = db[u]
      /\ \A u \in Tables : DOMAIN db'[u] = DOMAIN db[u]
      /\ \A j \in DOMAIN db[t] : db'[t][j] = IF j = i THEN row ELSE db[t][j]
  BY <1>2 DEF Put
<1>7. Effect(c)
  <2> SUFFICES ASSUME NEW u \in Tables, NEW j \in Nat
               PROVE  Creates(c, u, j) /\ Changes(c, u, j) /\ Removes(c, u, j)
    BY DEF Effect
  <2>1. Changes(c, u, j)
    BY <1>6 DEF Changes
  <2> QED BY <2>1, <1>6 DEF Creates, Removes
<1>8. ASSUME NEW u \in DOMAIN Key, NEW j \in DOMAIN db[u], NEW k \in DOMAIN db[u],
             SameKey(u, db'[u][j], db'[u][k]), j # k
      PROVE  Refs(u, db'[u][j]) \subseteq raced
  <2>0. u \in Tables /\ u # "payment"
    BY TablesAre
  <2>1. CASE u # t \/ (j # i /\ k # i)
    <3>1. db'[u][j] = db[u][j] /\ db'[u][k] = db[u][k]
      BY <2>0, <2>1, <1>6
    <3> QED BY <3>1, <1>1, <1>8 DEF Unique
  <2>2. CASE u = t /\ j = i
    <3>1. db'[t][j] = row /\ db'[t][k] = db[t][k]
      BY <2>2, <1>6, <1>8
    <3>2. SameKey(t, db[t][k], row)
      BY <3>1, <2>2, <1>8 DEF SameKey
    <3>3. Thing(t, row) \in raced /\ row \in Rows[t]
      BY <3>2, <2>0, <2>2, <1>8
    <3> QED BY <3>1, <3>3, <2>2, TablesAre
  <2>3. CASE u = t /\ k = i
    <3>1. db'[t][j] = db[t][j] /\ db'[t][k] = row
      BY <2>3, <1>6, <1>8
    <3>2. SameKey(t, db[t][j], row)
      BY <3>1, <2>3, <1>8
    <3>3. Thing(t, row) \in raced /\ Thing(t, db[t][j]) = Thing(t, row)
      BY <3>2, <2>0, <2>3, <1>8, SameKeySameThing
    <3>4. db[t][j] \in Rows[t]
      BY <1>2, <1>8, <2>3
    <3> QED BY <3>1, <3>3, <3>4, <2>3, TablesAre
  <2> QED BY <2>1, <2>2, <2>3
<1>9. Unique(db', raced')
  <2>1. \A u \in DOMAIN Key : DOMAIN db'[u] = DOMAIN db[u]
    BY <1>6, TablesAre
  <2> QED BY <2>1, <1>8 DEF Unique
<1>10. ASSUME NEW u \in Linked, NEW j \in DOMAIN db[u]
       PROVE  db'[u][j][Ref[u]] \in DOMAIN db[Ref[u]] \/ Refs(u, db'[u][j]) \subseteq raced
  <2>0. u \in Tables /\ u # "class"
    BY DEF Linked
  <2>1. CASE u # t \/ j # i
    <3>1. db'[u][j] = db[u][j]
      BY <2>0, <2>1, <1>6
    <3> QED BY <3>1, <1>1 DEF Anchored
  <2>2. CASE u = t /\ j = i
    <3>1. db'[u][j] = row /\ row \in Rows[u]
      BY <2>2, <1>6
    <3>2. Refs(u, row) = {Thing(u, row)}
      BY <3>1, <2>0, TablesAre
    <3> QED BY <3>1, <3>2, <2>0, <2>2
  <2> QED BY <2>1, <2>2
<1>11. Anchored(db', raced')
  <2>1. \A u \in Linked : DOMAIN db'[u] = DOMAIN db[u] /\ DOMAIN db'[Ref[u]] = DOMAIN db[Ref[u]]
    BY <1>6, TablesAre
  <2> QED BY <2>1, <1>10 DEF Anchored
<1> QED BY <1>5, <1>7, <1>9, <1>11

LEMMA UpdateKeepsIInv ==
  ASSUME IInv, NEW c \in Clients, Update(c)
  PROVE  IInv'
<1> DEFINE s == client[c]
<1> DEFINE q == s.req
<1> DEFINE t == q.table
<1>0. /\ At(c, "update") /\ UNCHANGED <<next, raced, sent>> /\ Proceed(c)
      /\ db' = [db EXCEPT ![t] = Put(db[t], q.id, s.draft)]
  BY DEF Update, Write, Req, Draft
<1>1. /\ HandlerOK(s, db, raced) /\ t \in Tables /\ IsRequest(q) /\ q # NoRequest
      /\ q.op \in {"create", "patch", "setClosed", "delete", "batch"}
      /\ q.op \in {"patch", "setClosed", "delete"} => q.id \in Nat
      /\ "update" \in Issues(q)
      /\ \A l \in Left(s) : l = "update" \/ Rank["update"] < Rank[l]
  BY <1>0, AtLabel
<1>2. End(c)
  BY <1>0, LastEnds
<1> HIDE DEF s
<1>3. q.op = "patch" /\ q.id \in Nat
  BY <1>1 DEF Issues
<1>4. "read" \notin Left(s) /\ "parent" \notin Left(s) /\ "unique" \notin Left(s)
  BY <1>1 DEF Rank
<1>5. /\ ScopeNames(s) /\ RowsBelong(s, db, raced) /\ DraftBelongs(s, raced)
      /\ ParentThere(s, db, raced) /\ KeyFree(s, db, raced)
  BY <1>1 DEF HandlerOK
<1>6. Writes(s) /\ <<t, q.id>> \in s.scope
  BY <1>3, <1>5 DEF Writes, ScopeNames
<1>7. s.draft \in Rows[t] /\ Thing(t, s.draft) \in s.scope \cup raced
  BY <1>4, <1>5, <1>6 DEF DraftBelongs, Belongs
<1>8. q.id \in DOMAIN db[t] => Thing(t, db[t][q.id]) \in s.scope \cup raced
  BY <1>5, <1>6 DEF RowsBelong, Belongs
<1>9. t # "payment" => \/ Thing(t, s.draft) \in raced
                       \/ \A j \in DOMAIN db[t] : SameKey(t, db[t][j], s.draft) => j = q.id
  BY <1>4, <1>5, <1>6 DEF KeyFree
<1>10. t # "class" => Thing(t, s.draft) \in raced \/ s.draft[Ref[t]] \in DOMAIN db[Ref[t]]
  BY <1>4, <1>5, <1>6 DEF ParentThere
<1>11. AreTables(db', next) /\ Effect(c) /\ Unique(db', raced') /\ Anchored(db', raced')
  BY <1>0, <1>1, <1>3, <1>6, <1>7, <1>8, <1>9, <1>10, PutKeeps DEF s
<1>12. next \in [Tables -> Nat \ {0}] /\ \A u \in Tables : next[u] <= next[u]
  BY DEF IInv, Types
<1> QED BY <1>0, <1>2, <1>11, <1>12, AssembleLast

\* Closing and reopening change neither the class nor the name.
LEMMA SetClosedKeepsIInv ==
  ASSUME IInv, NEW c \in Clients, SetClosed(c)
  PROVE  IInv'
<1> DEFINE s == client[c]
<1> DEFINE q == s.req
<1> DEFINE row == Over(q.set, db["asset"][q.id])
<1>0. /\ At(c, "flag") /\ UNCHANGED <<next, raced, sent>> /\ Proceed(c)
      /\ db' = [db EXCEPT !["asset"] = Put(db["asset"], q.id, row)]
  BY DEF SetClosed, Write, Req
<1>1. /\ HandlerOK(s, db, raced) /\ IsRequest(q) /\ q # NoRequest
      /\ q.op \in {"create", "patch", "setClosed", "delete", "batch"}
      /\ "flag" \in Issues(q)
  BY <1>0, AtLabel
<1>2. End(c)
  BY <1>0, LastEnds
<1> HIDE DEF s
<1>3. q.op = "setClosed" /\ q.table = "asset" /\ q.id \in Nat /\ q.set \in [closed : BOOLEAN]
  BY <1>1, RequestParts DEF Issues
<1>4. ScopeNames(s) /\ RowsBelong(s, db, raced)
  BY <1>1 DEF HandlerOK
<1>5. <<"asset", q.id>> \in s.scope
  BY <1>3, <1>4 DEF ScopeNames
<1>t. "asset" \in Tables /\ "asset" \in Linked /\ "asset" \in DOMAIN Key
  BY DEF Tables, Linked, Key
<1>6. ASSUME q.id \in DOMAIN db["asset"]
      PROVE  /\ row \in Rows["asset"]
             /\ Thing("asset", db["asset"][q.id]) \in s.scope \cup raced
             /\ Thing("asset", row) \in s.scope \cup raced
             /\ \/ Thing("asset", row) \in raced
                \/ \A j \in DOMAIN db["asset"] : SameKey("asset", db["asset"][j], row) => j = q.id
             /\ Thing("asset", row) \in raced \/ row[Ref["asset"]] \in DOMAIN db[Ref["asset"]]
  <2> DEFINE old == db["asset"][q.id]
  <2>1. old \in Rows["asset"]
    BY <1>t, <1>6, RowsTyped DEF IInv, Types
  <2>2. row = [old EXCEPT !.closed = q.set.closed]
    BY <2>1, <1>3 DEF Rows, Over
  <2>3. /\ row \in Rows["asset"] /\ row["class"] = old["class"] /\ row["name"] = old["name"]
    BY <2>1, <2>2, <1>3 DEF Rows
  <2>4. Thing("asset", row) = Thing("asset", old)
    BY <2>3 DEF Thing, Ref
  <2>5. Thing("asset", old) \in s.scope \cup raced
    BY <1>3, <1>4, <1>5, <1>6 DEF RowsBelong, Belongs
  <2> HIDE DEF row, old
  <2>6. ASSUME NEW j \in DOMAIN db["asset"], SameKey("asset", db["asset"][j], row), j # q.id
        PROVE  Thing("asset", row) \in raced
    <3>1. SameKey("asset", db["asset"][q.id], db["asset"][j])
      BY <2>3, <2>6 DEF SameKey, Key, old
    <3>2. Refs("asset", old) \subseteq raced
      BY <3>1, <2>6, <1>6, <1>t DEF IInv, Unique, old
    <3> QED BY <3>2, <2>1, <2>4, <1>t, TablesAre
  <2>7. old[Ref["asset"]] \in DOMAIN db[Ref["asset"]] \/ Refs("asset", old) \subseteq raced
    BY <1>6, <1>t DEF IInv, Anchored, old
  <2>8. Thing("asset", row) \in raced \/ row[Ref["asset"]] \in DOMAIN db[Ref["asset"]]
    BY <2>1, <2>3, <2>4, <2>7, <1>t, TablesAre DEF Ref
  <2> QED BY <2>3, <2>4, <2>5, <2>6, <2>8 DEF old
<1> HIDE DEF row
<1>7. AreTables(db', next) /\ Effect(c) /\ Unique(db', raced') /\ Anchored(db', raced')
  BY <1>0, <1>t, <1>3, <1>5, <1>6, PutKeeps DEF s
<1>8. next \in [Tables -> Nat \ {0}] /\ \A u \in Tables : next[u] <= next[u]
  BY DEF IInv, Types
<1> QED BY <1>0, <1>2, <1>7, <1>8, AssembleLast

\* Some rows of table t go, and none is left that refers to them.
LEMMA WithoutKeeps ==
  ASSUME IInv, NEW c \in Clients, NEW t \in Tables, NEW I,
         db' = [db EXCEPT ![t] = Without(db[t], I)], raced' = raced,
         \A i \in I \cap DOMAIN db[t] :
           /\ t \in {"class", "asset"} => <<t, i>> \in client[c].scope
           /\ Thing(t, db[t][i]) \in client[c].scope \cup raced,
         \A u \in Linked : Ref[u] = t =>
           \A j \in DOMAIN db[u] : db[u][j][t] \notin I \/ Thing(u, db[u][j]) \in raced
  PROVE  AreTables(db', next) /\ Effect(c) /\ Unique(db', raced') /\ Anchored(db', raced')
<1>1. /\ next \in [Tables -> Nat \ {0}] /\ AreTables(db, next)
      /\ Unique(db, raced) /\ Anchored(db, raced)
  BY DEF IInv, Types
<1>2. /\ db = [u \in Tables |-> db[u]]
      /\ \A u \in Tables : \A j \in DOMAIN db[u] : db[u][j] \in Rows[u]
  BY <1>1, RowsTyped, Zenon
<1>3. IsTable(db[t], t, next[t])
  BY <1>1 DEF AreTables
<1>4. IsTable(Without(db[t], I), t, next[t])
  BY <1>3, TableWithout
<1>5. AreTables(db', next)
  BY <1>1, <1>4, TablesWith
<1>6. /\ \A u \in Tables : u # t => db'[u] = db[u]
      /\ DOMAIN db'[t] = DOMAIN db[t] \ I
      /\ \A j \in DOMAIN db'[t] : db'[t][j] = db[t][j]
  BY <1>2 DEF Without
<1>7. \A u \in Tables : DOMAIN db'[u] \subseteq DOMAIN db[u] /\ \A j \in DOMAIN db'[u] : db'[u][j] = db[u][j]
  BY <1>6
<1>8. Effect(c)
  <2> SUFFICES ASSUME NEW u \in Tables, NEW j \in Nat
               PROVE  Creates(c, u, j) /\ Changes(c, u, j) /\ Removes(c, u, j)
    BY DEF Effect
  <2>1. Creates(c, u, j) /\ Changes(c, u, j)
    BY <1>7 DEF Creates, Changes
  <2>2. Removes(c, u, j)
    BY <1>6 DEF Removes
  <2> QED BY <2>1, <2>2
<1>9. Unique(db', raced')
  <2>1. \A u \in DOMAIN Key : u \in Tables
    BY TablesAre
  <2> QED BY <2>1, <1>1, <1>7 DEF Unique
<1>10. Anchored(db', raced')
  <2> SUFFICES ASSUME NEW u \in Linked, NEW j \in DOMAIN db'[u]
               PROVE  db'[u][j][Ref[u]] \in DOMAIN db'[Ref[u]] \/ Refs(u, db'[u][j]) \subseteq raced
    BY DEF Anchored
  <2>0. u \in Tables /\ Ref[u] \in Tables
    BY TablesAre
  <2>1. j \in DOMAIN db[u] /\ db'[u][j] = db[u][j] /\ db[u][j] \in Rows[u]
    BY <2>0, <1>2, <1>7
  <2>2. db[u][j][Ref[u]] \in DOMAIN db[Ref[u]] \/ Refs(u, db[u][j]) \subseteq raced
    BY <2>1, <1>1 DEF Anchored
  <2>3. Refs(u, db[u][j]) = {Thing(u, db[u][j])}
    BY <2>0, <2>1, TablesAre
  <2>4. CASE Ref[u] = t
    BY <2>1, <2>2, <2>3, <2>4, <1>6
  <2>5. CASE Ref[u] # t
    BY <2>0, <2>1, <2>2, <2>5, <1>6
  <2> QED BY <2>4, <2>5
<1> QED BY <1>5, <1>8, <1>9, <1>10

LEMMA DeleteKeepsIInv ==
  ASSUME IInv, NEW c \in Clients, Delete(c)
  PROVE  IInv'
<1> DEFINE s == client[c]
<1> DEFINE q == s.req
<1> DEFINE t == q.table
<1>0. /\ At(c, "delete") /\ UNCHANGED <<next, raced, sent>> /\ Proceed(c)
      /\ db' = [db EXCEPT ![t] = Without(db[t], {q.id})]
  BY DEF Delete, Write, Req
<1>1. /\ HandlerOK(s, db, raced) /\ t \in Tables /\ IsRequest(q) /\ q # NoRequest
      /\ q.op \in {"create", "patch", "setClosed", "delete", "batch"}
      /\ "delete" \in Issues(q) /\ "delete" \in Left(s)
      /\ \A l \in Left(s) : l = "delete" \/ Rank["delete"] < Rank[l]
  BY <1>0, AtLabel
<1>2. End(c)
  BY <1>0, LastEnds
<1> HIDE DEF s
<1>3. q.op = "delete"
  BY <1>1 DEF Issues
<1>4. "deleteLogs" \notin Left(s) /\ "deletePayments" \notin Left(s)
  BY <1>1 DEF Rank
<1>5. ScopeNames(s) /\ RowsBelong(s, db, raced) /\ Cleared(s, db, raced)
  BY <1>1 DEF HandlerOK
<1>6. <<t, q.id>> \in s.scope
  BY <1>3, <1>5 DEF ScopeNames
<1>7. q.id \in DOMAIN db[t] => Thing(t, db[t][q.id]) \in s.scope \cup raced
  BY <1>5, <1>6 DEF RowsBelong, Belongs
<1>8. ASSUME NEW u \in Linked, Ref[u] = t, NEW j \in DOMAIN db[u], db[u][j][t] = q.id
      PROVE  Thing(u, db[u][j]) \in raced
  <2>1. Thing(u, db[u][j]) = <<t, q.id>> /\ j \in Dependents(db, u, t, q.id)
    BY <1>8 DEF Thing, Dependents
  <2>2. /\ t \in {"class", "asset"}
        /\ t = "class" => u = "asset"
        /\ t = "asset" => u \in {"log", "payment"}
    BY <1>8 DEF Linked, Tables, Ref
  <2>3. \/ <<t, q.id>> \in raced
        \/ /\ t = "class" => Dependents(db, "asset", "class", q.id) = {}
           /\ t = "asset" => /\ Dependents(db, "log", "asset", q.id) = {}
                            /\ Dependents(db, "payment", "asset", q.id) = {}
    BY <1>1, <1>3, <1>4, <1>5 DEF Cleared
  <2> HIDE DEF q, t
  <2>4. CASE u = "asset"
    BY <2>1, <2>2, <2>3, <2>4
  <2>5. CASE u \in {"log", "payment"}
    BY <2>1, <2>2, <2>3, <2>5
  <2> QED BY <2>2, <2>4, <2>5
<1>9. AreTables(db', next) /\ Effect(c) /\ Unique(db', raced') /\ Anchored(db', raced')
  <2> DEFINE I == {q.id}
  <2>1. \A i \in I \cap DOMAIN db[t] :
           /\ t \in {"class", "asset"} => <<t, i>> \in client[c].scope
           /\ Thing(t, db[t][i]) \in client[c].scope \cup raced
    BY <1>6, <1>7 DEF s
  <2>2. \A u \in Linked : Ref[u] = t =>
           \A j \in DOMAIN db[u] : db[u][j][t] \notin I \/ Thing(u, db[u][j]) \in raced
    BY <1>8
  <2>3. db' = [db EXCEPT ![t] = Without(db[t], I)] /\ raced' = raced
    BY <1>0
  <2> HIDE DEF I, t
  <2> QED BY <2>1, <2>2, <2>3, <1>1, WithoutKeeps
<1>10. next \in [Tables -> Nat \ {0}] /\ \A u \in Tables : next[u] <= next[u]
  BY DEF IInv, Types
<1> QED BY <1>0, <1>2, <1>9, <1>10, AssembleLast

\* The history of an asset that is deleted by force.
LEMMA DeleteHistoryKeepsIInv ==
  ASSUME IInv, NEW c \in Clients,
         NEW t, NEW label, <<t, label>> \in {<<"log", "deleteLogs">>, <<"payment", "deletePayments">>},
         DeleteHistory(c, label, t)
  PROVE  IInv'
<1> DEFINE s == client[c]
<1> DEFINE q == s.req
<1> DEFINE I == Dependents(db, t, "asset", q.id)
<1> DEFINE s1 == [s EXCEPT !.todo = Tail(@)]
<1>0. /\ At(c, label) /\ UNCHANGED <<next, raced, sent>> /\ Become(c, s1)
      /\ db' = [db EXCEPT ![t] = Without(db[t], I)]
  BY DEF DeleteHistory, Write, Req, Proceed
<1>1. /\ q # NoRequest /\ IsHandler(s, next) /\ HandlerOK(s, db, raced) /\ IsRequest(q)
      /\ q.op \in {"create", "patch", "setClosed", "delete", "batch"}
      /\ label \in Issues(q) /\ label \in Left(s)
      /\ \A l \in Left(s) : l = label \/ Rank[label] < Rank[l]
      /\ In(Tail(s.todo)) = Left(s) \ {label}
      /\ Left(s) \subseteq Issues(q)
  <2>1. /\ q # NoRequest /\ IsHandler(s, next) /\ HandlerOK(s, db, raced) /\ IsRequest(q)
        /\ q.op \in {"create", "patch", "setClosed", "delete", "batch"}
        /\ label \in Issues(q) /\ label \in Left(s)
        /\ \A l \in Left(s) : l = label \/ Rank[label] < Rank[l]
        /\ In(Tail(s.todo)) = Left(s) \ {label}
    BY <1>0, AtLabel
  <2> QED BY <2>1, Zenon DEF IsHandler
<1>2. q.op = "delete" /\ q.table = "asset" /\ q.force
  BY <1>1 DEF Issues
<1>3. t \in Tables /\ t \in Linked /\ Ref[t] = "asset" /\ \A u \in Linked : Ref[u] # t
  BY DEF Tables, Linked, Ref
<1>4. ScopeNames(s) /\ RowsBelong(s, db, raced) /\ Cleared(s, db, raced) /\ BatchAt(s)
  BY <1>1 DEF HandlerOK
<1>5. <<"asset", q.id>> \in s.scope
  BY <1>2, <1>4 DEF ScopeNames
<1>6. \A i \in I : Thing(t, db[t][i]) = <<"asset", q.id>>
  BY <1>3 DEF Thing, Dependents
<1>7. AreTables(db', next) /\ Effect(c) /\ Unique(db', raced') /\ Anchored(db', raced')
  <2>1. \A i \in I \cap DOMAIN db[t] :
           /\ t \in {"class", "asset"} => <<t, i>> \in client[c].scope
           /\ Thing(t, db[t][i]) \in client[c].scope \cup raced
    BY <1>5, <1>6
  <2>2. \A u \in Linked : Ref[u] = t =>
           \A j \in DOMAIN db[u] : db[u][j][t] \notin I \/ Thing(u, db[u][j]) \in raced
    BY <1>3
  <2> HIDE DEF I
  <2> QED BY <2>1, <2>2, <1>0, <1>3, WithoutKeeps
<1>8. next \in [Tables -> Nat \ {0}] /\ \A u \in Tables : next[u] <= next[u]
  BY DEF IInv, Types
<1>s. s1.todo = Tail(s.todo)
  BY <1>1 DEF IsHandler
<1>9. CASE Tail(s.todo) = <<>>
  <2> HIDE DEF s1, I
  <2>1. End(c)
    BY <1>9, <1>s, <1>0 DEF Become, End
  <2> QED BY <2>1, <1>0, <1>7, <1>8, AssembleLast
<1>10. CASE Tail(s.todo) # <<>>
  <2>1. /\ IsHandler(s1, next) /\ s1.req = q /\ s1.todo = Tail(s.todo) /\ s1.draft = s.draft
        /\ s1.scope = s.scope /\ s1.row = s.row /\ s1.seen = s.seen /\ s1.wrote = s.wrote
    BY <1>1, <1>10, ProceedTyped
  <2> HIDE DEF s1, s
  <2>2. client' = [client EXCEPT ![c] = s1]
    BY <1>0, <1>10, <1>s DEF Become
  <2>3. Left(s1) = Left(s) \ {label}
    BY <1>1, <2>1 DEF Left
  <2>4. db'["asset"] = db["asset"] /\ \A u \in Tables : u # t => db'[u] = db[u]
    BY <1>0, RowsTyped, <1>3 DEF IInv, Types, Tables
  <2>5. ScopeNames(s1) /\ RowsBelong(s1, db', raced')
    BY <1>0, <1>2, <1>4, <2>1, <2>4 DEF ScopeNames, RowsBelong, Belongs
  <2>6. ~Writes(s1) /\ ~Begun(s1) /\ "read" \notin Left(s1)
    BY <1>1, <1>2, <2>1, <2>3 DEF Writes, Begun, Issues
  <2>7. BatchAt(s1)
    BY <1>2, <1>4, <2>1 DEF BatchAt
  <2>8. Dependents(db', t, "asset", q.id) = {}
    <3>1. db'[t] = Without(db[t], I)
      BY <1>0, <1>3, RowsTyped DEF IInv, Types
    <3> QED BY <3>1 DEF Without, Dependents
  <2>9. \A u \in {"log", "payment"} : u # t =>
           Dependents(db', u, "asset", q.id) = Dependents(db, u, "asset", q.id)
    BY <2>4 DEF Dependents, Tables
  <2>10. Cleared(s1, db', raced')
    <3> SUFFICES ASSUME "delete" \in Left(s1), <<"asset", q.id>> \notin raced
                 PROVE  /\ "deleteLogs" \notin Left(s1) => Dependents(db', "log", "asset", q.id) = {}
                        /\ "deletePayments" \notin Left(s1) => Dependents(db', "payment", "asset", q.id) = {}
      BY <1>0, <1>2, <2>1 DEF Cleared
    <3>1. /\ "deleteLogs" \notin Left(s) => Dependents(db, "log", "asset", q.id) = {}
          /\ "deletePayments" \notin Left(s) => Dependents(db, "payment", "asset", q.id) = {}
      BY <1>2, <1>4, <2>3 DEF Cleared
    <3> QED BY <3>1, <2>3, <2>8, <2>9
  <2>11. HandlerOK(s1, db', raced')
    BY <1>2, <2>1, <2>5, <2>6, <2>7, <2>10
       DEF HandlerOK, ChecksLeft, DraftBelongs, DraftCurrent, ParentThere, KeyFree,
           SeenCurrent, WroteEntries, WroteFresh, HandledRows
  <2>12. \A e \in Clients \ {c} : \A u \in Tables : DOMAIN s1.wrote[u] \cap DOMAIN client[e].wrote[u] = {}
    BY <2>1 DEF IInv, Apart, s
  <2>13. sent' \in 0 .. MaxRequests
    BY <1>0 DEF IInv, Types
  <2> QED BY <1>0, <1>7, <1>8, <2>1, <2>2, <2>11, <2>12, <2>13, Assemble DEF s
<1> QED BY <1>9, <1>10

LEMMA InsertKeepsIInv ==
  ASSUME IInv, NEW c \in Clients, Insert(c)
  PROVE  IInv'
<1> DEFINE s == client[c]
<1> DEFINE q == s.req
<1> DEFINE t == q.table
<1> DEFINE new == next[t]
<1> DEFINE draft == s.draft
<1> DEFINE scope == s.scope \cup {<<t, new>>}
<1>0. /\ At(c, "insert") /\ UNCHANGED sent /\ Proceed(c)
      /\ db' = [db EXCEPT ![t] = Over(Only(new, draft), db[t])]
      /\ next' = [next EXCEPT ![t] = @ + 1] /\ raced' = Racing(c, scope)
  BY DEF Insert, Write, Req, Draft
<1>1. /\ HandlerOK(s, db, raced) /\ t \in Tables /\ IsRequest(q) /\ q # NoRequest
      /\ q.op \in {"create", "patch", "setClosed", "delete", "batch"}
      /\ "insert" \in Issues(q)
      /\ \A l \in Left(s) : l = "insert" \/ Rank["insert"] < Rank[l]
  BY <1>0, AtLabel
<1>2. End(c)
  BY <1>0, LastEnds
<1>3. q.op = "create"
  BY <1>1 DEF Issues
<1>4. "read" \notin Left(s) /\ "parent" \notin Left(s) /\ "unique" \notin Left(s) /\ Writes(s)
  BY <1>1, <1>3 DEF Rank, Writes
<1>5. DraftBelongs(s, raced) /\ ParentThere(s, db, raced) /\ KeyFree(s, db, raced)
  BY <1>1 DEF HandlerOK
<1>6. draft \in Rows[t] /\ Thing(t, draft) \in s.scope \cup raced
  BY <1>4, <1>5 DEF DraftBelongs, Belongs
<1>7. t # "payment" => \/ Thing(t, draft) \in raced
                       \/ \A j \in DOMAIN db[t] : ~SameKey(t, db[t][j], draft)
  BY <1>3, <1>4, <1>5 DEF KeyFree
<1>8. t # "class" => Thing(t, draft) \in raced \/ draft[Ref[t]] \in DOMAIN db[Ref[t]]
  BY <1>4, <1>5 DEF ParentThere
<1>9. /\ next \in [Tables -> Nat \ {0}] /\ AreTables(db, next)
      /\ Unique(db, raced) /\ Anchored(db, raced)
  BY DEF IInv, Types
<1>10. /\ db = [u \in Tables |-> db[u]]
       /\ \A u \in Tables : DOMAIN db[u] \subseteq Nat /\ \A j \in DOMAIN db[u] : db[u][j] \in Rows[u] /\ j \in 1 .. next[u] - 1
  BY <1>9, RowsTyped, Zenon
<1>11. new \in Nat \ {0}
  BY <1>1, <1>9
<1>12. /\ next' \in [Tables -> Nat \ {0}] /\ next'[t] = new + 1
       /\ \A u \in Tables : next[u] \in Nat /\ next[u] <= next'[u]
  BY <1>0, <1>1, <1>9, <1>11
<1>13. AreTables(db', next')
  <2>1. AreTables(db, next')
    BY <1>9, <1>12, TablesGrow
  <2>2. IsTable(Only(new, draft), t, next'[t])
    <3>1. next'[t] \in Nat /\ new \in 1 .. next'[t] - 1
      BY <1>11, <1>12
    <3> HIDE DEF new, draft
    <3> QED BY <3>1, <1>6, TableOnly
  <2>3. IsTable(db[t], t, next'[t])
    BY <1>1, <2>1 DEF AreTables
  <2>4. IsTable(Over(Only(new, draft), db[t]), t, next'[t])
    BY <2>2, <2>3, TableOver
  <2> QED BY <1>0, <1>1, <2>1, <2>4, TablesWith
<1>14. /\ \A u \in Tables : u # t => db'[u] = db[u]
       /\ new \notin DOMAIN db[t]
       /\ DOMAIN db'[t] = DOMAIN db[t] \cup {new}
       /\ db'[t][new] = draft
       /\ \A j \in DOMAIN db[t] : db'[t][j] = db[t][j]
  <2>1. db'[t] = Over(Only(new, draft), db[t]) /\ \A u \in Tables : u # t => db'[u] = db[u]
    BY <1>0, <1>1, <1>10
  <2>2. new \notin DOMAIN db[t]
    BY <1>1, <1>10, <1>11
  <2>3. DOMAIN Only(new, draft) = {new} /\ Only(new, draft)[new] = draft
    BY OnlyIs
  <2> HIDE DEF new, draft
  <2>4. /\ DOMAIN db'[t] = DOMAIN Only(new, draft) \cup DOMAIN db[t]
        /\ \A j \in DOMAIN Only(new, draft) : db'[t][j] = Only(new, draft)[j]
        /\ \A j \in DOMAIN db[t] \ DOMAIN Only(new, draft) : db'[t][j] = db[t][j]
    <3> DEFINE only == Only(new, draft)
    <3>1. db'[t] = Over(only, db[t])
      BY <2>1
    <3> HIDE DEF only
    <3>2. DOMAIN db'[t] = DOMAIN only \cup DOMAIN db[t]
      BY <3>1 DEF Over
    <3>3. /\ \A j \in DOMAIN only : db'[t][j] = only[j]
          /\ \A j \in DOMAIN db[t] \ DOMAIN only : db'[t][j] = db[t][j]
      BY <3>1 DEF Over
    <3> QED BY <3>2, <3>3 DEF only
  <2> QED BY <2>1, <2>2, <2>3, <2>4
<1> HIDE DEF new, draft, s
<1>15. raced \subseteq raced' /\ \A e \in Clients \ {c} : <<t, new>> \in client[e].scope => client[e].scope \cup scope \subseteq raced'
  <2> HIDE DEF scope
  <2>1. <<t, new>> \in scope
    BY DEF scope
  <2>2. /\ raced \subseteq Racing(c, scope)
        /\ \A e \in Clients \ {c} : client[e].scope \cap scope # {} => client[e].scope \cup scope \subseteq Racing(c, scope)
    BY RacingIs
  <2> QED BY <1>0, <2>1, <2>2
<1>16. Effect(c)
  <2> SUFFICES ASSUME NEW u \in Tables, NEW j \in Nat
               PROVE  Creates(c, u, j) /\ Changes(c, u, j) /\ Removes(c, u, j)
    BY <1>15 DEF Effect
  <2>1. CASE u # t
    BY <2>1, <1>14 DEF Creates, Changes, Removes
  <2>2. CASE u = t
    <3>1. Changes(c, u, j) /\ Removes(c, u, j)
      BY <2>2, <1>14 DEF Changes, Removes
    <3>2. new \notin 1 .. next[t] - 1
      BY <1>1, <1>12 DEF new
    <3>3. Creates(c, t, j)
      BY <3>2, <1>6, <1>14, <1>15 DEF Creates, s
    <3> QED BY <3>1, <3>3, <2>2
  <2> QED BY <2>1, <2>2
<1>17. Unique(db', raced')
  <2> SUFFICES ASSUME NEW u \in DOMAIN Key, NEW j \in DOMAIN db'[u], NEW k \in DOMAIN db'[u],
                      SameKey(u, db'[u][j], db'[u][k]), j # k
               PROVE  Refs(u, db'[u][j]) \subseteq raced'
    BY DEF Unique
  <2>0. u \in Tables /\ u # "payment"
    BY TablesAre
  <2>1. CASE u # t \/ (j # new /\ k # new)
    <3>1. j \in DOMAIN db[u] /\ k \in DOMAIN db[u] /\ db'[u][j] = db[u][j] /\ db'[u][k] = db[u][k]
      BY <2>0, <2>1, <1>14
    <3>2. Refs(u, db[u][j]) \subseteq raced
      BY <3>1, <1>9 DEF Unique
    <3> QED BY <3>1, <3>2, <1>15
  <2>2. CASE u = t /\ j = new
    <3>1. db'[t][j] = draft /\ k \in DOMAIN db[t] /\ db'[t][k] = db[t][k]
      BY <2>2, <1>14
    <3>2. SameKey(t, db[t][k], draft)
      BY <3>1, <2>2 DEF SameKey
    <3>3. Thing(t, draft) \in raced
      BY <3>1, <3>2, <2>0, <2>2, <1>7
    <3> QED BY <3>1, <3>3, <2>2, <1>1, <1>6, <1>15, TablesAre
  <2>3. CASE u = t /\ k = new
    <3>1. db'[t][k] = draft /\ j \in DOMAIN db[t] /\ db'[t][j] = db[t][j]
      BY <2>3, <1>14
    <3>2. SameKey(t, db[t][j], draft)
      BY <3>1, <2>3
    <3>3. Thing(t, draft) \in raced /\ Thing(t, db[t][j]) = Thing(t, draft)
      BY <3>1, <3>2, <2>0, <2>3, <1>7, SameKeySameThing
    <3>4. db[t][j] \in Rows[t]
      BY <3>1, <1>1, <1>10
    <3> QED BY <3>1, <3>3, <3>4, <2>3, <1>1, <1>15, TablesAre
  <2> QED BY <2>1, <2>2, <2>3
<1>18. Anchored(db', raced')
  <2> SUFFICES ASSUME NEW u \in Linked, NEW j \in DOMAIN db'[u]
               PROVE  db'[u][j][Ref[u]] \in DOMAIN db'[Ref[u]] \/ Refs(u, db'[u][j]) \subseteq raced'
    BY DEF Anchored
  <2>0. u \in Tables /\ Ref[u] \in Tables /\ u # "class"
    BY TablesAre DEF Linked
  <2>1. \A v \in Tables : DOMAIN db[v] \subseteq DOMAIN db'[v]
    BY <1>14
  <2>2. CASE u = t /\ j = new
    <3>1. db'[u][j] = draft /\ Refs(t, draft) = {Thing(t, draft)}
      BY <2>2, <1>1, <1>6, <1>14, TablesAre
    <3>2. Thing(t, draft) \in raced \/ draft[Ref[t]] \in DOMAIN db[Ref[t]]
      BY <2>0, <2>2, <1>8
    <3> QED BY <3>1, <3>2, <2>0, <2>1, <2>2, <1>15
  <2>3. CASE u # t \/ j # new
    <3>1. j \in DOMAIN db[u] /\ db'[u][j] = db[u][j]
      BY <2>0, <2>3, <1>14
    <3>2. db[u][j][Ref[u]] \in DOMAIN db[Ref[u]] \/ Refs(u, db[u][j]) \subseteq raced
      BY <3>1, <1>9 DEF Anchored
    <3> QED BY <3>1, <3>2, <2>0, <2>1, <1>15
  <2> QED BY <2>2, <2>3
<1> QED BY <1>0, <1>2, <1>12, <1>13, <1>16, <1>17, <1>18, AssembleLast

-----------------------------------------------------------------------------
(* The rows of a batch.                                                    *)

\* What a batch that is about to handle a row knows.
LEMMA AtRow ==
  ASSUME IInv, NEW c \in Clients, At(c, "rows")
  PROVE  LET s == client[c]  q == s.req IN
         /\ s.req # NoRequest /\ IsHandler(s, next) /\ HandlerOK(s, db, raced)
         /\ IsRequest(q) /\ q.op = "batch" /\ q.table = "log" /\ Begun(s)
         /\ "rows" \in Left(s) /\ "commit" \in Left(s) /\ "begin" \notin Left(s) /\ "read" \notin Left(s)
         /\ AreTables(s.seen, next) /\ AreTables(s.wrote, next)
         /\ Entry(c) = q.rows[s.row] /\ s.row \in 1 .. Len(q.rows) /\ Len(q.rows) \in Nat
         /\ Entry(c).asset \in Nat /\ Entry(c).value \in Values /\ q.month \in Months
         /\ \A n \in 1 .. s.row - 1 : n \in 1 .. Len(q.rows) /\ q.rows[n].asset # Entry(c).asset
         /\ AssetSeen(c) <=> Entry(c).asset \in DOMAIN s.seen.asset
         /\ AssetSeen(c) => ClosedSeen(c) = s.seen.asset[Entry(c).asset].closed
         /\ Found(c) = EntriesOf(s.seen, Entry(c).asset, q.month)
         /\ Found(c) \cap DOMAIN s.wrote.log = {}
<1> DEFINE s == client[c]
<1> DEFINE q == s.req
<1>1. /\ q # NoRequest /\ IsHandler(s, next) /\ HandlerOK(s, db, raced)
      /\ IsRequest(q) /\ q.op \in {"create", "patch", "setClosed", "delete", "batch"}
      /\ "rows" \in Left(s) /\ "rows" \in Issues(q)
      /\ \A l \in Left(s) : l = "rows" \/ Rank["rows"] < Rank[l]
  BY AtLabel
<1>2. q.op = "batch" /\ q.table = "log"
  BY <1>1, RequestParts DEF Issues
<1>3. /\ q.month \in Months /\ Len(q.rows) \in Nat
      /\ \A n \in 1 .. Len(q.rows) : q.rows[n].asset \in Nat /\ q.rows[n].value \in Values
      /\ \A m, n \in 1 .. Len(q.rows) : q.rows[m].asset = q.rows[n].asset => m = n
  BY <1>1, <1>2, BatchParts
<1>4. "begin" \notin Left(s) /\ "read" \notin Left(s)
  BY <1>1 DEF Rank
<1>5. AreTables(s.seen, next) /\ AreTables(s.wrote, next) /\ s.row \in Nat
  BY <1>1, Zenon DEF IsHandler
<1>6. BatchAt(s) /\ WroteEntries(s) /\ Begun(s)
  BY <1>1, <1>2, <1>4 DEF HandlerOK, Begun
<1>7. /\ s.row \in 1 .. Len(q.rows) + 1 /\ s.row <= Len(q.rows) /\ "commit" \in Left(s)
      /\ s.wrote["class"] = NoRows /\ s.wrote["asset"] = NoRows
  BY <1>1, <1>2, <1>6 DEF BatchAt
<1>8. Entry(c) = q.rows[s.row] /\ s.row \in 1 .. Len(q.rows)
  BY <1>3, <1>7 DEF Entry, Req
<1>9. Entry(c).asset \in Nat /\ Entry(c).value \in Values
  BY <1>3, <1>8
<1>10. \A n \in 1 .. s.row - 1 : n \in 1 .. Len(q.rows) /\ q.rows[n].asset # Entry(c).asset
  <2> SUFFICES ASSUME NEW n \in 1 .. s.row - 1
               PROVE  n \in 1 .. Len(q.rows) /\ q.rows[n].asset # Entry(c).asset
    OBVIOUS
  <2>1. n \in 1 .. Len(q.rows) /\ n # s.row
    BY <1>3, <1>5, <1>7
  <2> QED BY <2>1, <1>3, <1>8
<1> DEFINE a == Entry(c).asset
<1> HIDE DEF s, a
<1>11. /\ DOMAIN Seen(c, "asset") = DOMAIN s.seen["asset"]
       /\ \A i \in DOMAIN s.seen["asset"] : Seen(c, "asset")[i] = s.seen["asset"][i]
  <2>1. Seen(c, "asset") = Over(NoRows, s.seen["asset"])
    BY <1>7 DEF Seen, s
  <2> QED BY <2>1 DEF Over, NoRows
<1>12. AssetSeen(c) <=> a \in DOMAIN s.seen.asset
  BY <1>11 DEF AssetSeen, a
<1>13. AssetSeen(c) => ClosedSeen(c) = s.seen.asset[a].closed
  <2>1. AssetSeen(c) => Seen(c, "asset")[a] = s.seen.asset[a]
    BY <1>11, <1>12
  <2> QED BY <2>1, Zenon DEF ClosedSeen, a
<1>14. /\ DOMAIN Seen(c, "log") = DOMAIN s.wrote.log \cup DOMAIN s.seen.log
       /\ \A i \in DOMAIN s.wrote.log : Seen(c, "log")[i] = s.wrote.log[i]
       /\ \A i \in DOMAIN s.seen.log \ DOMAIN s.wrote.log : Seen(c, "log")[i] = s.seen.log[i]
  BY OverIs DEF Seen, s
<1>15. \A i \in DOMAIN s.wrote.log : s.wrote.log[i].asset # a
  <2> SUFFICES ASSUME NEW i \in DOMAIN s.wrote.log PROVE s.wrote.log[i].asset # a
    OBVIOUS
  <2>1. PICK n \in 1 .. s.row - 1 : s.wrote.log[i] = EntryFor(q, n)
    BY <1>6 DEF WroteEntries
  <2> QED BY <2>1, <1>10 DEF EntryFor, a
<1>16. \A i \in DOMAIN s.wrote.log : i \in DOMAIN s.seen.log => s.seen.log[i].asset # a
  BY <1>6, <1>15 DEF WroteEntries
<1>17. Found(c) = {i \in DOMAIN Seen(c, "log") : Seen(c, "log")[i].asset = a /\ Seen(c, "log")[i].month = q.month}
  BY DEF Found, a, s, Req
<1>18. Found(c) \subseteq EntriesOf(s.seen, a, q.month)
  BY <1>14, <1>15, <1>17 DEF EntriesOf
<1>19. EntriesOf(s.seen, a, q.month) \subseteq Found(c)
  BY <1>14, <1>16, <1>17 DEF EntriesOf
<1>20. Found(c) \cap DOMAIN s.wrote.log = {}
  BY <1>14, <1>15, <1>17
<1> QED BY <1>1, <1>2, <1>3, <1>4, <1>5, <1>6, <1>7, <1>8, <1>9, <1>10, <1>12, <1>13, <1>18, <1>19, <1>20
        DEF s, a

\* A transaction that has handled one more row, and has written wrote.
LEMMA RowKeeps ==
  ASSUME IInv, NEW c \in Clients, At(c, "rows"), AssetSeen(c),
         NEW wrote, NextRow(c, wrote), UNCHANGED <<db, raced, sent>>,
         next' \in [Tables -> Nat \ {0}], \A t \in Tables : next[t] <= next'[t],
         AreTables(wrote, next'), \A t \in {"class", "asset"} : wrote[t] = NoRows,
         DOMAIN client[c].wrote.log \subseteq DOMAIN wrote.log,
         \A i \in DOMAIN client[c].wrote.log : wrote.log[i] = client[c].wrote.log[i],
         NEW k, DOMAIN wrote.log \subseteq DOMAIN client[c].wrote.log \cup {k},
         k \in DOMAIN wrote.log \ DOMAIN client[c].wrote.log =>
           /\ wrote.log[k] = NewEntry(c) /\ ~ClosedSeen(c)
           /\ k \in Found(c) \/ (Found(c) = {} /\ k \notin DOMAIN db.log /\ k \notin DOMAIN client[c].seen.log)
           /\ \A d \in Clients \ {c} : k \notin DOMAIN client[d].wrote.log,
         \A i \in DOMAIN wrote.payment :
           \/ i \in DOMAIN client[c].wrote.payment /\ wrote.payment[i] = client[c].wrote.payment[i]
           \/ /\ wrote.payment[i].asset = Entry(c).asset
              /\ i \notin DOMAIN db.payment
              /\ \A d \in Clients \ {c} : i \notin DOMAIN client[d].wrote.payment,
         \/ ClosedSeen(c)
         \/ <<"asset", Entry(c).asset>> \in raced
         \/ /\ Found(c) # {} \/ k \in DOMAIN wrote.log \ DOMAIN client[c].wrote.log
            /\ client[c].req.replace => Found(c) \subseteq DOMAIN wrote.log
  PROVE  IInv'
<1> DEFINE s == client[c]
<1> DEFINE q == s.req
<1> DEFINE a == Entry(c).asset
<1> DEFINE new == k \in DOMAIN wrote.log \ DOMAIN s.wrote.log
<1> DEFINE todo == IF s.row = Len(q.rows) THEN Tail(s.todo) ELSE s.todo
<1> DEFINE s1 == [s EXCEPT !.row = @ + 1, !.todo = todo, !.wrote = wrote]
<1>1. /\ q # NoRequest /\ IsHandler(s, next) /\ HandlerOK(s, db, raced)
      /\ IsRequest(q) /\ q.op = "batch" /\ q.table = "log" /\ Begun(s)
      /\ "rows" \in Left(s) /\ "commit" \in Left(s) /\ "begin" \notin Left(s) /\ "read" \notin Left(s)
      /\ AreTables(s.seen, next) /\ AreTables(s.wrote, next)
  BY AtRow
<1>a. /\ Entry(c) = q.rows[s.row] /\ s.row \in 1 .. Len(q.rows) /\ Len(q.rows) \in Nat
      /\ \A n \in 1 .. s.row - 1 : n \in 1 .. Len(q.rows) /\ q.rows[n].asset # a
  BY AtRow
<1>b. /\ a \in DOMAIN s.seen.asset /\ ClosedSeen(c) = s.seen.asset[a].closed
      /\ Found(c) = EntriesOf(s.seen, a, q.month)
  BY AtRow
<1>2. /\ Tail(s.todo) \in Seq(Labels) /\ Ranked(Tail(s.todo))
      /\ In(Tail(s.todo)) = Left(s) \ {"rows"}
  BY AtLabel
<1>3. /\ s.todo \in Seq(Labels) /\ Ranked(s.todo) /\ Left(s) \subseteq Issues(q) /\ q \in Requests
  BY <1>1, BusyTyped DEF Left
<1>4. /\ ScopeNames(s) /\ RowsBelong(s, db, raced) /\ BatchAt(s) /\ SeenCurrent(s, db, raced)
      /\ WroteEntries(s) /\ WroteFresh(s, db) /\ HandledRows(s, raced)
  BY <1>1 DEF HandlerOK
<1>5. s.row \in Nat /\ s.row + 1 \in 1 .. Len(q.rows) + 1 /\ (s.row + 1) - 1 = s.row
      /\ (s.row + 1 <= Len(q.rows) <=> s.row # Len(q.rows))
  <2>1. s.row \in 1 .. Len(q.rows) /\ Len(q.rows) \in Nat
    BY <1>a
  <2> HIDE DEF s, q
  <2> QED BY <2>1
<1>6. /\ s1.req = q /\ s1.todo = todo /\ s1.draft = s.draft
      /\ s1.scope = s.scope /\ s1.row = s.row + 1 /\ s1.seen = s.seen /\ s1.wrote = wrote
      /\ DOMAIN s1 = {"req", "todo", "draft", "scope", "row", "seen", "wrote"}
      /\ s1 = [f \in DOMAIN s1 |-> s1[f]]
  <2>1. /\ DOMAIN s = {"req", "todo", "draft", "scope", "row", "seen", "wrote"}
        /\ s = [f \in DOMAIN s |-> s[f]]
    BY <1>1, Zenon DEF IsHandler
  <2> HIDE DEF s, todo
  <2> QED BY <2>1
<1>7. Become(c, s1)
  BY DEF NextRow, Req
<1>8. /\ todo \in Seq(Labels) /\ Ranked(todo) /\ "commit" \in In(todo)
      /\ In(todo) \subseteq Left(s)
      /\ "rows" \in In(todo) <=> s.row + 1 <= Len(q.rows)
  BY <1>1, <1>2, <1>3, <1>5 DEF Left
<1> HIDE DEF s1, todo
<1>9. todo # <<>>
  BY <1>8 DEF In
<1>10. client' = [client EXCEPT ![c] = s1]
  BY <1>6, <1>7, <1>9 DEF Become
<1>11. AreTables(s.seen, next') /\ next \in [Tables -> Nat \ {0}] /\ AreTables(db, next) /\ AreTables(db, next')
  <2>1. next \in [Tables -> Nat \ {0}] /\ AreTables(db, next)
    BY DEF IInv, Types
  <2> QED BY <2>1, <1>1, TablesGrow
<1>12. IsHandler(s1, next')
  <2> HIDE DEF s
  <2>1. Left(s1) \subseteq Issues(q)
    BY <1>3, <1>6, <1>8 DEF Left
  <2> QED BY <2>1, <1>1, <1>3, <1>5, <1>6, <1>8, <1>9, <1>11 DEF IsHandler
<1> DEFINE rows == q.rows
<1>13. \A n \in 1 .. s1.row - 1 : n \in 1 .. s.row - 1 \/ (n = s.row /\ rows[n].asset = a)
  <2>1. \A n \in 1 .. s1.row - 1 : n \in 1 .. s.row - 1 \/ n = s.row
    <3>1. s1.row = s.row + 1 /\ s.row \in Nat
      BY <1>5, <1>6
    <3> HIDE DEF s
    <3> QED BY <3>1
  <2> QED BY <2>1, <1>a
<1>14. \A n \in 1 .. s.row - 1 : n \in 1 .. s1.row - 1
  <2>1. s1.row = s.row + 1 /\ s.row \in Nat
    BY <1>5, <1>6
  <2> HIDE DEF s
  <2> QED BY <2>1
<1>15. s.row \in 1 .. s1.row - 1
  <2>1. s1.row = s.row + 1 /\ s.row \in 1 .. Len(q.rows) /\ Len(q.rows) \in Nat
    BY <1>6, <1>a
  <2> HIDE DEF s, q
  <2> QED BY <2>1
<1>16. NewEntry(c) = EntryFor(q, s.row)
  BY <1>a DEF NewEntry, EntryFor, Req
<1>17. \A i \in DOMAIN s.wrote.log : s.wrote.log[i].asset # a
  <2> SUFFICES ASSUME NEW i \in DOMAIN s.wrote.log PROVE s.wrote.log[i].asset # a
    OBVIOUS
  <2>1. PICK n \in 1 .. s.row - 1 : s.wrote.log[i] = EntryFor(q, n)
    BY <1>1, <1>4 DEF WroteEntries
  <2>2. q.rows[n].asset # a
    BY <1>a
  <2> HIDE DEF s, q, a
  <2> QED BY <2>1, <2>2 DEF EntryFor
<1>18. ASSUME new
       PROVE  /\ wrote.log[k] = EntryFor(q, s.row) /\ wrote.log[k].asset = a
              /\ ~s.seen.asset[a].closed
              /\ IF k \in DOMAIN s.seen.log
                 THEN s.seen.log[k].asset = a /\ s.seen.log[k].month = q.month
                 ELSE EntriesOf(s.seen, a, q.month) = {}
              /\ k \in DOMAIN s.seen.log \/ k \notin DOMAIN db.log
  <2>1. /\ wrote.log[k] = EntryFor(q, s.row) /\ EntryFor(q, s.row).asset = a
        /\ ~s.seen.asset[a].closed
    BY <1>16, <1>18, <1>a, <1>b DEF EntryFor
  <2>2. k \in Found(c) \/ (Found(c) = {} /\ k \notin DOMAIN db.log /\ k \notin DOMAIN s.seen.log)
    BY <1>18
  <2>3. Found(c) = {i \in DOMAIN s.seen.log : s.seen.log[i].asset = a /\ s.seen.log[i].month = q.month}
    BY <1>b DEF EntriesOf
  <2> HIDE DEF new, s, q, a
  <2> QED BY <2>1, <2>2, <2>3, <1>b
<1>19. \A i \in DOMAIN wrote.log : (i \in DOMAIN s.wrote.log /\ wrote.log[i] = s.wrote.log[i]) \/ (i = k /\ new)
  OBVIOUS
<1> HIDE DEF s, q, a, new
<1>20. WroteEntries(s1)
  <2>1. Begun(s)
    BY <1>1
  <2>2. ASSUME NEW i \in DOMAIN wrote.log
        PROVE  /\ \E n \in 1 .. s1.row - 1 : wrote.log[i] = EntryFor(q, n)
               /\ ~s.seen.asset[wrote.log[i].asset].closed
               /\ IF i \in DOMAIN s.seen.log
                  THEN s.seen.log[i].asset = wrote.log[i].asset /\ s.seen.log[i].month = q.month
                  ELSE EntriesOf(s.seen, wrote.log[i].asset, q.month) = {}
    <3>1. CASE i \in DOMAIN s.wrote.log /\ wrote.log[i] = s.wrote.log[i]
      <4>1. /\ \E n \in 1 .. s.row - 1 : s.wrote.log[i] = EntryFor(q, n)
            /\ ~s.seen.asset[s.wrote.log[i].asset].closed
            /\ IF i \in DOMAIN s.seen.log
               THEN s.seen.log[i].asset = s.wrote.log[i].asset /\ s.seen.log[i].month = q.month
               ELSE EntriesOf(s.seen, s.wrote.log[i].asset, q.month) = {}
        BY <3>1, <2>1, <1>4 DEF WroteEntries, q
      <4> QED BY <4>1, <3>1, <1>14
    <3>2. CASE i = k /\ new
      BY <3>2, <1>15, <1>18
    <3> QED BY <3>1, <3>2, <1>19
  <2>3. \A i, j \in DOMAIN wrote.log : wrote.log[i].asset = wrote.log[j].asset => i = j
    <3>1. \A i, j \in DOMAIN s.wrote.log : s.wrote.log[i].asset = s.wrote.log[j].asset => i = j
      BY <2>1, <1>4 DEF WroteEntries
    <3> QED BY <3>1, <1>17, <1>18, <1>19
  <2>4. \A i \in DOMAIN wrote.payment : \E n \in 1 .. s1.row - 1 : wrote.payment[i].asset = rows[n].asset
    <3> SUFFICES ASSUME NEW i \in DOMAIN wrote.payment
                 PROVE  \E n \in 1 .. s1.row - 1 : wrote.payment[i].asset = rows[n].asset
      OBVIOUS
    <3>1. CASE i \in DOMAIN s.wrote.payment /\ wrote.payment[i] = s.wrote.payment[i]
      <4>1. \E n \in 1 .. s.row - 1 : s.wrote.payment[i].asset = rows[n].asset
        BY <3>1, <2>1, <1>4 DEF WroteEntries, q
      <4> QED BY <4>1, <3>1, <1>14
    <3>2. CASE wrote.payment[i].asset = a
      BY <3>2, <1>15, <1>a DEF a
    <3> QED BY <3>1, <3>2 DEF s, a
  <2>5. \A i \in DOMAIN s.seen.log :
          s.seen.log[i].month = q.month /\ <<"asset", s.seen.log[i].asset>> \in s.scope
            => <<"log", i>> \in s.scope
    BY <2>1, <1>4 DEF WroteEntries, q
  <2>6. s1.wrote = wrote /\ s1.seen = s.seen /\ s1.req = q /\ s1.scope = s.scope
    BY <1>6
  <2>7. \A i \in DOMAIN s1.wrote.log :
          /\ \E n \in 1 .. s1.row - 1 : s1.wrote.log[i] = EntryFor(s1.req, n)
          /\ ~s1.seen.asset[s1.wrote.log[i].asset].closed
          /\ IF i \in DOMAIN s1.seen.log
             THEN /\ s1.seen.log[i].asset = s1.wrote.log[i].asset
                  /\ s1.seen.log[i].month = s1.req.month
             ELSE EntriesOf(s1.seen, s1.wrote.log[i].asset, s1.req.month) = {}
    BY <2>2, <2>6
  <2>8. \A i, j \in DOMAIN s1.wrote.log : s1.wrote.log[i].asset = s1.wrote.log[j].asset => i = j
    BY <2>3, <2>6
  <2>9. \A i \in DOMAIN s1.wrote.payment :
          \E n \in 1 .. s1.row - 1 : s1.wrote.payment[i].asset = s1.req.rows[n].asset
    BY <2>4, <2>6
  <2>10. \A i \in DOMAIN s1.seen.log :
           s1.seen.log[i].month = s1.req.month /\ <<"asset", s1.seen.log[i].asset>> \in s1.scope
             => <<"log", i>> \in s1.scope
    BY <2>5, <2>6
  <2> QED BY <2>7, <2>8, <2>9, <2>10, Zenon DEF WroteEntries
<1>21. WroteFresh(s1, db)
  <2>1. /\ \A i \in DOMAIN s.wrote.log : i \in DOMAIN s.seen.log \/ i \notin DOMAIN db.log
        /\ \A i \in DOMAIN s.wrote.payment : i \notin DOMAIN db.payment
    BY <1>1, <1>4 DEF WroteFresh
  <2>2. \A i \in DOMAIN wrote.log : i \in DOMAIN s.seen.log \/ i \notin DOMAIN db.log
    BY <2>1, <1>18, <1>19
  <2>3. \A i \in DOMAIN wrote.payment : i \notin DOMAIN db.payment
    BY <2>1 DEF s
  <2> QED BY <2>2, <2>3, <1>6 DEF WroteFresh
<1>22. HandledRows(s1, raced)
  <2> SUFFICES ASSUME NEW n \in 1 .. s1.row - 1
               PROVE  /\ rows[n].asset \in DOMAIN s.seen.asset
                      /\ \/ s.seen.asset[rows[n].asset].closed
                         \/ <<"asset", rows[n].asset>> \in raced
                         \/ /\ \/ EntriesOf(s.seen, rows[n].asset, q.month) # {}
                               \/ \E i \in DOMAIN wrote.log : wrote.log[i].asset = rows[n].asset
                            /\ q.replace => EntriesOf(s.seen, rows[n].asset, q.month) \subseteq DOMAIN wrote.log
    BY <1>6 DEF HandledRows
  <2>1. CASE n \in 1 .. s.row - 1
    <3>1. /\ rows[n].asset \in DOMAIN s.seen.asset
          /\ \/ s.seen.asset[rows[n].asset].closed
             \/ <<"asset", rows[n].asset>> \in raced
             \/ /\ \/ EntriesOf(s.seen, rows[n].asset, q.month) # {}
                   \/ \E i \in DOMAIN s.wrote.log : s.wrote.log[i].asset = rows[n].asset
                /\ q.replace => EntriesOf(s.seen, rows[n].asset, q.month) \subseteq DOMAIN s.wrote.log
      BY <2>1, <1>1, <1>4 DEF HandledRows, q
    <3>2. /\ DOMAIN s.wrote.log \subseteq DOMAIN wrote.log
          /\ \A i \in DOMAIN s.wrote.log : wrote.log[i] = s.wrote.log[i]
      BY DEF s
    <3> HIDE DEF rows
    <3> QED BY <3>1, <3>2
  <2>2. CASE n = s.row /\ rows[n].asset = a
    <3>1. \/ ClosedSeen(c)
          \/ <<"asset", a>> \in raced
          \/ /\ Found(c) # {} \/ new
             /\ q.replace => Found(c) \subseteq DOMAIN wrote.log
      BY DEF a, new, s, q
    <3>2. new => k \in DOMAIN wrote.log /\ wrote.log[k].asset = a
      BY <1>18 DEF new
    <3> HIDE DEF rows
    <3> QED BY <2>2, <3>1, <3>2, <1>b
  <2> QED BY <2>1, <2>2, <1>13
<1>23. BatchAt(s1) /\ Begun(s1) /\ ~Writes(s1)
  <2>1. "begin" \notin Left(s1) /\ "commit" \in Left(s1) /\ ("rows" \in Left(s1) <=> s1.row <= Len(q.rows))
    BY <1>1, <1>6, <1>8 DEF Left
  <2> QED BY <2>1, <1>1, <1>5, <1>6 DEF BatchAt, Begun, Writes, q
<1>24. ScopeNames(s1) /\ RowsBelong(s1, db, raced) /\ SeenCurrent(s1, db, raced)
  BY <1>1, <1>4, <1>6 DEF ScopeNames, RowsBelong, SeenCurrent, Belongs, q
<1>25. "read" \notin Left(s1)
  BY <1>1, <1>6, <1>8 DEF Left
<1>26. HandlerOK(s1, db, raced)
  BY <1>1, <1>6, <1>20, <1>21, <1>22, <1>23, <1>24, <1>25
     DEF HandlerOK, ChecksLeft, DraftBelongs, DraftCurrent, ParentThere, KeyFree, Cleared
<1>27. \A d \in Clients \ {c} : \A t \in Tables : DOMAIN wrote[t] \cap DOMAIN client[d].wrote[t] = {}
  <2> SUFFICES ASSUME NEW d \in Clients \ {c}, NEW t \in Tables, NEW i \in DOMAIN wrote[t], i \in DOMAIN client[d].wrote[t]
               PROVE  FALSE
    OBVIOUS
  <2>1. i \notin DOMAIN s.wrote[t]
    BY DEF IInv, Apart, s
  <2>2. CASE t \in {"class", "asset"}
    BY <2>2, NoRowsIs
  <2>3. CASE t = "log"
    BY <2>1, <2>3, <1>19 DEF new, s
  <2>4. CASE t = "payment"
    BY <2>1, <2>4 DEF s
  <2> QED BY <2>2, <2>3, <2>4 DEF Tables
<1>28. /\ Effect(c) /\ sent' \in 0 .. MaxRequests
       /\ Unique(db', raced') /\ Anchored(db', raced') /\ AreTables(db', next')
       /\ HandlerOK(s1, db', raced')
  BY <1>11, <1>26, NoEffect DEF IInv, Types
<1>29. s1.scope \subseteq client[c].scope
  BY <1>6 DEF s
<1> QED BY <1>6, <1>10, <1>12, <1>27, <1>28, <1>29, Assemble

\* A row whose entry is put under the id k, or that has no entry to put.
LEMMA RowDoneKeeps ==
  ASSUME IInv, NEW c \in Clients, At(c, "rows"), AssetSeen(c), ~ClosedSeen(c),
         NEW logs, RowDone(c, logs), NEW k,
         \/ logs = NoRows
         \/ /\ logs = Only(k, NewEntry(c))
            /\ \/ k \in Found(c) /\ ~Locked(c, "log", {k})
               \/ k = next["log"] /\ Found(c) = {},
         \/ <<"asset", Entry(c).asset>> \in raced
         \/ /\ Found(c) # {} \/ k \in DOMAIN logs
            /\ Req(c).replace => Found(c) \subseteq DOMAIN logs
  PROVE  IInv'
<1> DEFINE s == client[c]
<1> DEFINE a == Entry(c).asset
<1> DEFINE pays == Inserted(c)
<1> DEFINE wrote == [s.wrote EXCEPT !["log"] = Over(logs, s.wrote["log"]), !["payment"] = Over(pays, s.wrote["payment"])]
<1>0. NextRow(c, wrote) /\ next' = Incremented(c, logs) /\ UNCHANGED <<db, raced, sent>>
  BY DEF RowDone
<1>t. "log" \in Tables /\ "payment" \in Tables /\ "class" \in Tables /\ "asset" \in Tables
  BY DEF Tables
<1>1. /\ AreTables(s.seen, next) /\ AreTables(s.wrote, next)
      /\ a \in Nat /\ Entry(c).value \in Values /\ s.req.month \in Months
      /\ Found(c) = EntriesOf(s.seen, a, s.req.month)
      /\ Found(c) \cap DOMAIN s.wrote.log = {}
      /\ HandlerOK(s, db, raced) /\ s.req # NoRequest /\ s.req.op = "batch"
  BY AtRow
<1>2. /\ next \in [Tables -> Nat \ {0}] /\ AreTables(db, next)
      /\ \A d \in Clients : AreTables(client[d].wrote, next)
  BY DEF IInv, Types, IsHandler
<1>3. \A u \in Tables : next[u] \notin DOMAIN db[u] /\ next[u] \notin DOMAIN s.seen[u]
  <2> SUFFICES ASSUME NEW u \in Tables PROVE next[u] \notin DOMAIN db[u] /\ next[u] \notin DOMAIN s.seen[u]
    OBVIOUS
  <2>1. /\ \A i \in DOMAIN db[u] : i \in 1 .. next[u] - 1
        /\ \A i \in DOMAIN s.seen[u] : i \in 1 .. next[u] - 1
    BY <1>1, <1>2, RowsTyped, Zenon
  <2>2. next[u] \in Nat
    BY <1>2
  <2> HIDE DEF s
  <2> QED BY <2>1, <2>2
<1>4. \A d \in Clients : \A u \in Tables : next[u] \notin DOMAIN client[d].wrote[u]
  <2> SUFFICES ASSUME NEW d \in Clients, NEW u \in Tables PROVE next[u] \notin DOMAIN client[d].wrote[u]
    OBVIOUS
  <2>1. \A i \in DOMAIN client[d].wrote[u] : i \in 1 .. next[u] - 1
    <3>1. AreTables(client[d].wrote, next)
      BY <1>2
    <3> QED BY <3>1, <1>2, RowsTyped, Zenon
  <2>2. next[u] \in Nat
    BY <1>2
  <2> QED BY <2>1, <2>2
<1>5. /\ next' \in [Tables -> Nat \ {0}] /\ \A u \in Tables : next[u] <= next'[u]
      /\ next["log"] \in DOMAIN logs => next'["log"] = next["log"] + 1
      /\ Entry(c).payment => next'["payment"] = next["payment"] + 1
      /\ next["log"] \in Nat \ {0} /\ next["payment"] \in Nat \ {0}
      /\ next'["log"] \in Nat \ {0} /\ next'["payment"] \in Nat \ {0}
  <2>1. next' = [next EXCEPT !["log"] = IF next["log"] \in DOMAIN logs THEN next["log"] + 1 ELSE next["log"],
                             !["payment"] = IF Entry(c).payment THEN next["payment"] + 1 ELSE next["payment"]]
    BY <1>0 DEF Incremented
  <2>2. next["log"] \in Nat \ {0} /\ next["payment"] \in Nat \ {0}
    BY <1>2, <1>t
  <2> QED BY <2>1, <2>2, <1>2, <1>t
<1>6. /\ \A d \in Clients : "log" \in DOMAIN client[d].wrote /\ "payment" \in DOMAIN client[d].wrote
      /\ s.wrote = [u \in Tables |-> s.wrote[u]]
  BY <1>2, <1>t DEF AreTables
<1>7. /\ wrote["log"] = Over(logs, s.wrote["log"]) /\ wrote["payment"] = Over(pays, s.wrote["payment"])
      /\ \A u \in Tables \ {"log", "payment"} : wrote[u] = s.wrote[u]
      /\ wrote = [u \in Tables |-> wrote[u]]
  <2> HIDE DEF s, pays
  <2> QED BY <1>6, <1>t
<1>8. DOMAIN logs \subseteq {k} /\ (k \in DOMAIN logs => logs[k] = NewEntry(c) /\ logs # NoRows)
  BY NoRowsIs, OnlyIs
<1>9. k \in DOMAIN logs => \/ k \in Found(c) /\ ~Locked(c, "log", {k})
                           \/ k = next["log"] /\ Found(c) = {}
  BY <1>8
<1>10. /\ DOMAIN pays \subseteq {next["payment"]}
       /\ \A i \in DOMAIN pays : /\ pays[i] = [asset |-> a, value |-> Entry(c).value]
                                 /\ Entry(c).payment
  <2>1. CASE Entry(c).payment
    <3> DEFINE pay == [asset |-> a, value |-> Entry(c).value]
    <3>1. pays = Only(next["payment"], pay)
      BY <2>1 DEF Inserted
    <3> HIDE DEF pays, pay
    <3>2. DOMAIN pays = {next["payment"]} /\ pays[next["payment"]] = pay
      BY <3>1, OnlyIs
    <3> QED BY <3>2, <2>1 DEF pay
  <2>2. CASE ~Entry(c).payment
    BY <2>2, NoRowsIs DEF Inserted
  <2> QED BY <2>1, <2>2
<1>11. Found(c) \subseteq DOMAIN s.seen["log"] /\ Found(c) \subseteq 1 .. next["log"] - 1
  <2>1. Found(c) \subseteq DOMAIN s.seen["log"]
    BY <1>1 DEF EntriesOf
  <2>2. \A i \in DOMAIN s.seen["log"] : i \in 1 .. next["log"] - 1
    BY <1>1, <1>2, <1>t, RowsTyped, Zenon
  <2> QED BY <2>1, <2>2
<1> HIDE DEF s, a, pays, wrote
<1>12. IsTable(logs, "log", next'["log"])
  <2>1. CASE logs = NoRows
    BY <2>1, TableNoRows
  <2>2. CASE k \in DOMAIN logs /\ logs = Only(k, NewEntry(c))
    <3>1. NewEntry(c) \in Rows["log"]
      BY <1>1 DEF NewEntry, Rows, a, s, Req
    <3>2. k \in 1 .. next'["log"] - 1
      <4>1. next["log"] <= next'["log"]
        BY <1>5, <1>t
      <4> QED BY <4>1, <2>2, <1>5, <1>9, <1>11
    <3>3. IsTable(Only(k, NewEntry(c)), "log", next'["log"])
      BY <3>1, <3>2, <1>5, TableOnly
    <3> QED BY <3>3, <2>2
  <2>3. logs = Only(k, NewEntry(c)) => k \in DOMAIN logs
    BY OnlyIs
  <2> QED BY <2>1, <2>2, <2>3
<1>13. IsTable(pays, "payment", next'["payment"])
  <2> DEFINE pay == [asset |-> a, value |-> Entry(c).value]
  <2>1. CASE pays = NoRows
    BY <2>1, TableNoRows
  <2>2. CASE pays = Only(next["payment"], pay) /\ Entry(c).payment
    <3>1. pay \in Rows["payment"]
      BY <1>1 DEF Rows
    <3>2. next["payment"] \in 1 .. next'["payment"] - 1
      BY <2>2, <1>5
    <3> HIDE DEF pay
    <3>3. IsTable(Only(next["payment"], pay), "payment", next'["payment"])
      BY <3>1, <3>2, <1>5, TableOnly
    <3> QED BY <3>3, <2>2
  <2> QED BY <2>1, <2>2 DEF pays, Inserted, a
<1>14. AreTables(wrote, next')
  <2>1. \A u \in Tables : IsTable(s.wrote[u], u, next'[u])
    <3>1. AreTables(s.wrote, next')
      BY <1>1, <1>2, <1>5, TablesGrow
    <3> QED BY <3>1 DEF AreTables
  <2>2. ASSUME NEW u \in Tables PROVE IsTable(wrote[u], u, next'[u])
    <3>1. CASE u = "log"
      <4>1. IsTable(Over(logs, s.wrote["log"]), "log", next'["log"])
        BY <2>1, <1>12, <1>t, TableOver
      <4> QED BY <4>1, <3>1, <1>7
    <3>2. CASE u = "payment"
      <4>1. IsTable(Over(pays, s.wrote["payment"]), "payment", next'["payment"])
        BY <2>1, <1>13, <1>t, TableOver
      <4> QED BY <4>1, <3>2, <1>7
    <3>3. CASE u \notin {"log", "payment"}
      BY <3>3, <2>1, <1>7
    <3> QED BY <3>1, <3>2, <3>3
  <2> QED BY <2>2, <1>7 DEF AreTables
<1>15. \A u \in {"class", "asset"} : wrote[u] = NoRows
  <2>1. BatchAt(s)
    BY <1>1 DEF HandlerOK
  <2> QED BY <2>1, <1>1, <1>7, <1>t DEF BatchAt
<1>16. k \in DOMAIN logs => k \notin DOMAIN s.wrote["log"]
  <2>1. next["log"] \notin DOMAIN s.wrote["log"]
    BY <1>4, <1>t DEF s
  <2> QED BY <2>1, <1>1, <1>9
<1>17. /\ DOMAIN wrote["log"] = DOMAIN logs \cup DOMAIN s.wrote["log"]
       /\ \A i \in DOMAIN logs : wrote["log"][i] = logs[i]
       /\ \A i \in DOMAIN s.wrote["log"] : wrote["log"][i] = s.wrote["log"][i]
  <2>1. /\ DOMAIN wrote["log"] = DOMAIN logs \cup DOMAIN s.wrote["log"]
        /\ \A i \in DOMAIN logs : wrote["log"][i] = logs[i]
        /\ \A i \in DOMAIN s.wrote["log"] \ DOMAIN logs : wrote["log"][i] = s.wrote["log"][i]
    BY <1>7 DEF Over
  <2> QED BY <2>1, <1>8, <1>16
<1>18. /\ DOMAIN wrote["payment"] = DOMAIN pays \cup DOMAIN s.wrote["payment"]
       /\ \A i \in DOMAIN pays : wrote["payment"][i] = pays[i]
       /\ \A i \in DOMAIN s.wrote["payment"] \ DOMAIN pays : wrote["payment"][i] = s.wrote["payment"][i]
  BY <1>7 DEF Over
<1>19. k \in DOMAIN wrote.log \ DOMAIN client[c].wrote.log =>
           /\ wrote.log[k] = NewEntry(c) /\ ~ClosedSeen(c)
           /\ k \in Found(c) \/ (Found(c) = {} /\ k \notin DOMAIN db.log /\ k \notin DOMAIN client[c].seen.log)
           /\ \A d \in Clients \ {c} : k \notin DOMAIN client[d].wrote.log
  <2> SUFFICES ASSUME k \in DOMAIN wrote["log"], k \notin DOMAIN s.wrote["log"]
               PROVE  /\ wrote["log"][k] = NewEntry(c)
                      /\ k \in Found(c) \/ (Found(c) = {} /\ k \notin DOMAIN db["log"] /\ k \notin DOMAIN s.seen["log"])
                      /\ \A d \in Clients \ {c} : k \notin DOMAIN client[d].wrote["log"]
    BY DEF s
  <2>1. k \in DOMAIN logs
    BY <1>17
  <2>2. CASE k \in Found(c) /\ ~Locked(c, "log", {k})
    <3>1. \A d \in Clients \ {c} : k \notin DOMAIN client[d].wrote["log"]
      BY <2>2 DEF Locked
    <3> QED BY <3>1, <2>1, <2>2, <1>8, <1>17
  <2>3. CASE k = next["log"] /\ Found(c) = {}
    BY <2>1, <2>3, <1>3, <1>4, <1>8, <1>17, <1>t
  <2> QED BY <2>1, <2>2, <2>3, <1>9
<1>20. \A i \in DOMAIN wrote.payment :
         \/ i \in DOMAIN client[c].wrote.payment /\ wrote.payment[i] = client[c].wrote.payment[i]
         \/ /\ wrote.payment[i].asset = Entry(c).asset
            /\ i \notin DOMAIN db.payment
            /\ \A d \in Clients \ {c} : i \notin DOMAIN client[d].wrote.payment
  <2> SUFFICES ASSUME NEW i \in DOMAIN wrote["payment"], i \in DOMAIN pays
               PROVE  /\ wrote["payment"][i].asset = Entry(c).asset
                      /\ i \notin DOMAIN db["payment"]
                      /\ \A d \in Clients \ {c} : i \notin DOMAIN client[d].wrote["payment"]
    BY <1>18 DEF s
  <2>1. i = next["payment"] /\ wrote["payment"][i] = [asset |-> a, value |-> Entry(c).value]
    BY <1>10, <1>18
  <2>2. wrote["payment"][i].asset = Entry(c).asset
    BY <2>1 DEF a
  <2> QED BY <2>1, <2>2, <1>3, <1>4, <1>t
<1>21. \/ ClosedSeen(c)
       \/ <<"asset", Entry(c).asset>> \in raced
       \/ /\ Found(c) # {} \/ k \in DOMAIN wrote.log \ DOMAIN client[c].wrote.log
          /\ client[c].req.replace => Found(c) \subseteq DOMAIN wrote.log
  BY <1>16, <1>17 DEF s, Req
<1>22. /\ DOMAIN client[c].wrote.log \subseteq DOMAIN wrote.log
       /\ \A i \in DOMAIN client[c].wrote.log : wrote.log[i] = client[c].wrote.log[i]
       /\ DOMAIN wrote.log \subseteq DOMAIN client[c].wrote.log \cup {k}
  BY <1>8, <1>17 DEF s
<1> QED BY <1>0, <1>5, <1>14, <1>15, <1>19, <1>20, <1>21, <1>22, RowKeeps

LEMMA RowClosedKeepsIInv ==
  ASSUME IInv, NEW c \in Clients, RowClosed(c)
  PROVE  IInv'
<1> DEFINE wrote == client[c].wrote
<1> DEFINE k == 0
<1>0. /\ At(c, "rows") /\ AssetSeen(c) /\ ClosedSeen(c) /\ NextRow(c, wrote)
      /\ UNCHANGED <<db, raced, sent>> /\ next' = next
  BY DEF RowClosed
<1>1. HandlerOK(client[c], db, raced) /\ client[c].req # NoRequest /\ client[c].req.op = "batch" /\ AreTables(wrote, next)
  BY <1>0, AtRow
<1>2. \A u \in {"class", "asset"} : wrote[u] = NoRows
  BY <1>1 DEF HandlerOK, BatchAt
<1>3. next \in [Tables -> Nat \ {0}] /\ \A u \in Tables : next[u] <= next[u]
  BY DEF IInv, Types
<1>4. /\ next' \in [Tables -> Nat \ {0}] /\ \A u \in Tables : next[u] <= next'[u]
      /\ AreTables(wrote, next')
  BY <1>0, <1>1, <1>3
<1>5. /\ DOMAIN client[c].wrote.log \subseteq DOMAIN wrote.log
      /\ \A i \in DOMAIN client[c].wrote.log : wrote.log[i] = client[c].wrote.log[i]
      /\ DOMAIN wrote.log \subseteq DOMAIN client[c].wrote.log \cup {k}
  OBVIOUS
<1>6. k \in DOMAIN wrote.log \ DOMAIN client[c].wrote.log =>
        /\ wrote.log[k] = NewEntry(c) /\ ~ClosedSeen(c)
        /\ k \in Found(c) \/ (Found(c) = {} /\ k \notin DOMAIN db.log /\ k \notin DOMAIN client[c].seen.log)
        /\ \A d \in Clients \ {c} : k \notin DOMAIN client[d].wrote.log
  OBVIOUS
<1>7. \A i \in DOMAIN wrote.payment :
        \/ i \in DOMAIN client[c].wrote.payment /\ wrote.payment[i] = client[c].wrote.payment[i]
        \/ /\ wrote.payment[i].asset = Entry(c).asset
           /\ i \notin DOMAIN db.payment
           /\ \A d \in Clients \ {c} : i \notin DOMAIN client[d].wrote.payment
  OBVIOUS
<1>8. \/ ClosedSeen(c)
      \/ <<"asset", Entry(c).asset>> \in raced
      \/ /\ Found(c) # {} \/ k \in DOMAIN wrote.log \ DOMAIN client[c].wrote.log
         /\ client[c].req.replace => Found(c) \subseteq DOMAIN wrote.log
  BY <1>0
<1> HIDE DEF wrote, k
<1>9. UNCHANGED <<db, raced, sent>> /\ NextRow(c, wrote) /\ At(c, "rows") /\ AssetSeen(c)
  BY <1>0
<1> QED BY <1>2, <1>4, <1>5, <1>6, <1>7, <1>8, <1>9, RowKeeps

LEMMA RowUnknownKeepsIInv ==
  ASSUME IInv, NEW c \in Clients, RowUnknown(c)
  PROVE  IInv'
BY EndKeepsIInv DEF RowUnknown

LEMMA RowSkippedKeepsIInv ==
  ASSUME IInv, NEW c \in Clients, RowSkipped(c)
  PROVE  IInv'
<1>1. At(c, "rows") /\ AssetSeen(c) /\ ~ClosedSeen(c) /\ Found(c) # {} /\ ~Req(c).replace /\ RowDone(c, NoRows)
  BY DEF RowSkipped
<1> QED BY <1>1, RowDoneKeeps

LEMMA RowInsertedKeepsIInv ==
  ASSUME IInv, NEW c \in Clients, RowInserted(c)
  PROVE  IInv'
<1> DEFINE logs == Only(next["log"], NewEntry(c))
<1>1. At(c, "rows") /\ AssetSeen(c) /\ ~ClosedSeen(c) /\ Found(c) = {} /\ RowDone(c, logs)
  BY DEF RowInserted
<1>2. next["log"] \in DOMAIN logs
  BY OnlyIs
<1>3. logs = Only(next["log"], NewEntry(c))
  OBVIOUS
<1> HIDE DEF logs
<1> QED BY <1>1, <1>2, <1>3, RowDoneKeeps

\* Of an asset that is not raced there is one entry, and it is still there.
LEMMA RowReplacedKeepsIInv ==
  ASSUME IInv, NEW c \in Clients, RowReplaced(c)
  PROVE  IInv'
<1> DEFINE s == client[c]
<1> DEFINE a == Entry(c).asset
<1>1. At(c, "rows") /\ AssetSeen(c) /\ ~ClosedSeen(c) /\ Req(c).replace
  BY DEF RowReplaced
<1>2. PICK k \in Found(c) : /\ ~Locked(c, "log", {k})
                            /\ RowDone(c, IF k \in DOMAIN db.log THEN Only(k, NewEntry(c)) ELSE NoRows)
  BY DEF RowReplaced
<1> DEFINE logs == IF k \in DOMAIN db.log THEN Only(k, NewEntry(c)) ELSE NoRows
<1>3. /\ HandlerOK(s, db, raced) /\ s.req # NoRequest /\ Begun(s)
      /\ a = s.req.rows[s.row].asset /\ s.row \in 1 .. Len(s.req.rows) /\ a \in Nat
      /\ Found(c) = EntriesOf(s.seen, a, s.req.month)
      /\ AreTables(s.seen, next)
  BY <1>1, AtRow
<1>4. <<"asset", a>> \in raced \/ AgreeOn(<<"asset", a>>, db, s.seen)
  BY <1>3 DEF HandlerOK, SeenCurrent
<1>t. "log" \in Tables /\ "log" \in DOMAIN Key
  BY DEF Tables, Key
<1>5. ASSUME <<"asset", a>> \notin raced
      PROVE  Found(c) \subseteq DOMAIN logs
  <2>1. ASSUME NEW i \in Found(c)
        PROVE  i \in DOMAIN db["log"] /\ db["log"][i] \in Rows["log"]
               /\ db["log"][i].asset = a /\ db["log"][i].month = s.req.month
    <3>1. i \in DOMAIN s.seen["log"] /\ s.seen["log"][i].asset = a /\ s.seen["log"][i].month = s.req.month
      BY <2>1, <1>3 DEF EntriesOf
    <3>2. i \in Nat
      BY <3>1, <1>3, <1>t, RowsTyped DEF IInv, Types
    <3>3. Thing("log", s.seen["log"][i]) = <<"asset", a>>
      BY <3>1 DEF Thing, Ref
    <3>4. i \in DOMAIN db["log"] /\ db["log"][i] = s.seen["log"][i]
      BY <3>1, <3>2, <3>3, <1>4, <1>5, <1>t DEF AgreeOn
    <3>5. db["log"][i] \in Rows["log"]
      BY <3>4, <1>t, RowsTyped DEF IInv, Types
    <3> QED BY <3>1, <3>4, <3>5
  <2>2. ASSUME NEW i \in Found(c) PROVE i = k
    <3>1. SameKey("log", db["log"][i], db["log"][k])
      BY <2>1 DEF SameKey, Key
    <3>2. i = k \/ Refs("log", db["log"][i]) \subseteq raced
      BY <3>1, <2>1, <1>t DEF IInv, Unique
    <3>3. Refs("log", db["log"][i]) = {<<"asset", a>>}
      BY <2>1, <1>t, TablesAre DEF Thing, Ref
    <3> QED BY <3>2, <3>3, <1>5
  <2>3. k \in DOMAIN db["log"]
    BY <2>1
  <2>4. k \in DOMAIN logs
    BY <2>3, OnlyIs
  <2> QED BY <2>2, <2>4
<1>6. RowDone(c, logs)
  BY <1>2
<1>7. logs = NoRows \/ logs = Only(k, NewEntry(c))
  OBVIOUS
<1> HIDE DEF logs
<1> QED BY <1>1, <1>2, <1>5, <1>6, <1>7, RowDoneKeeps DEF a

-----------------------------------------------------------------------------
(* The commit of a batch.                                                  *)

\* What a batch that is about to commit has written.
LEMMA AtCommit ==
  ASSUME IInv, NEW c \in Clients, At(c, "commit")
  PROVE  LET s == client[c]  q == s.req IN
         /\ q # NoRequest /\ IsRequest(q) /\ q.op = "batch" /\ q.table = "log" /\ Begun(s)
         /\ IsHandler(s, next) /\ HandlerOK(s, db, raced)
         /\ s.wrote["class"] = NoRows /\ s.wrote["asset"] = NoRows
         /\ s.row = Len(q.rows) + 1 /\ Len(q.rows) \in Nat
         /\ AreTables(s.seen, next) /\ AreTables(s.wrote, next)
         /\ \A i \in DOMAIN s.wrote["log"] :
              /\ \E n \in 1 .. Len(q.rows) : s.wrote["log"][i] = EntryFor(q, n)
              /\ s.wrote["log"][i].month = q.month
         /\ \A t \in {"log", "payment"} : \A i \in DOMAIN s.wrote[t] :
              LET k == Thing(t, s.wrote[t][i]) IN
              /\ \E n \in 1 .. Len(q.rows) : k = <<"asset", q.rows[n].asset>>
              /\ k \in s.scope
              /\ k \in raced \/ AgreeOn(k, db, s.seen)
              /\ s.wrote[t][i].asset \in DOMAIN s.seen["asset"]
              /\ s.wrote[t][i].asset \in Nat
<1> DEFINE s == client[c]
<1> DEFINE q == s.req
<1> DEFINE rows == q.rows
<1>1. /\ q # NoRequest /\ IsHandler(s, next) /\ HandlerOK(s, db, raced) /\ IsRequest(q)
      /\ q.op \in {"create", "patch", "setClosed", "delete", "batch"}
      /\ "commit" \in Issues(q)
      /\ \A l \in Left(s) : l = "commit" \/ Rank["commit"] < Rank[l]
  BY AtLabel
<1>2. q.op = "batch" /\ q.table = "log"
  BY <1>1, RequestParts DEF Issues
<1>3. "rows" \notin Left(s) /\ "begin" \notin Left(s)
  BY <1>1 DEF Rank
<1>4. /\ ScopeNames(s) /\ BatchAt(s) /\ SeenCurrent(s, db, raced) /\ WroteEntries(s)
      /\ HandledRows(s, raced) /\ Begun(s)
  BY <1>1, <1>2, <1>3 DEF HandlerOK, Begun
<1>5. /\ Len(rows) \in Nat /\ \A n \in 1 .. Len(rows) : rows[n].asset \in Nat
  BY <1>1, <1>2, BatchParts
<1>6. /\ s.row \in 1 .. Len(rows) + 1 /\ ~(s.row <= Len(rows))
      /\ s.wrote["class"] = NoRows /\ s.wrote["asset"] = NoRows
  BY <1>2, <1>3, <1>4 DEF BatchAt
<1>7. s.row = Len(rows) + 1 /\ s.row - 1 = Len(rows)
  BY <1>5, <1>6
<1>8. AreTables(s.seen, next) /\ AreTables(s.wrote, next)
  BY <1>1, Zenon DEF IsHandler
<1> HIDE DEF s
<1>9. ASSUME NEW i \in DOMAIN s.wrote["log"]
      PROVE  /\ \E n \in 1 .. Len(rows) : s.wrote["log"][i] = EntryFor(q, n)
             /\ s.wrote["log"][i].month = q.month
             /\ \E n \in 1 .. Len(rows) : s.wrote["log"][i].asset = rows[n].asset
  <2>1. PICK n \in 1 .. Len(rows) : s.wrote["log"][i] = EntryFor(q, n)
    BY <1>4, <1>7, <1>9 DEF WroteEntries
  <2>2. s.wrote["log"][i].month = q.month /\ s.wrote["log"][i].asset = rows[n].asset
    BY <2>1 DEF EntryFor
  <2> QED BY <2>1, <2>2
<1>10. ASSUME NEW i \in DOMAIN s.wrote["payment"]
       PROVE  \E n \in 1 .. Len(rows) : s.wrote["payment"][i].asset = rows[n].asset
  BY <1>4, <1>7, <1>10 DEF WroteEntries
<1>11. ASSUME NEW t \in {"log", "payment"}, NEW i \in DOMAIN s.wrote[t]
       PROVE  LET k == Thing(t, s.wrote[t][i]) IN
              /\ \E n \in 1 .. Len(q.rows) : k = <<"asset", q.rows[n].asset>>
              /\ k \in s.scope
              /\ k \in raced \/ AgreeOn(k, db, s.seen)
              /\ s.wrote[t][i].asset \in DOMAIN s.seen["asset"]
              /\ s.wrote[t][i].asset \in Nat
  <2>1. PICK n \in 1 .. Len(rows) : s.wrote[t][i].asset = rows[n].asset
    BY <1>9, <1>10
  <2>2. Thing(t, s.wrote[t][i]) = <<"asset", rows[n].asset>>
    BY <2>1 DEF Thing, Ref
  <2>3. <<"asset", rows[n].asset>> \in s.scope
    BY <1>2, <1>4 DEF ScopeNames
  <2>4. <<"asset", rows[n].asset>> \in raced \/ AgreeOn(<<"asset", rows[n].asset>>, db, s.seen)
    BY <1>4 DEF SeenCurrent
  <2>5. rows[n].asset \in DOMAIN s.seen["asset"]
    BY <1>4, <1>7 DEF HandledRows
  <2> QED BY <2>1, <2>2, <2>3, <2>4, <2>5, <1>5
<1> QED BY <1>1, <1>2, <1>4, <1>5, <1>6, <1>7, <1>8, <1>9, <1>11 DEF s

\* The rows of each table after a commit.
LEMMA Commits ==
  ASSUME IInv, NEW c \in Clients, Commit(c)
  PROVE  LET s == client[c] IN
         /\ db' = [t \in Tables |-> db'[t]]
         /\ \A t \in {"class", "asset"} : db'[t] = db[t]
         /\ \A t \in Tables :
              /\ DOMAIN db'[t] = DOMAIN s.wrote[t] \cup DOMAIN db[t]
              /\ \A i \in DOMAIN s.wrote[t] : db'[t][i] = s.wrote[t][i]
              /\ \A i \in DOMAIN db[t] \ DOMAIN s.wrote[t] : db'[t][i] = db[t][i]
         /\ AreTables(db', next)
<1> DEFINE s == client[c]
<1>1. At(c, "commit") /\ db' = [t \in Tables |-> Over(s.wrote[t], db[t])]
  BY DEF Commit, Committed
<1>2. /\ next \in [Tables -> Nat \ {0}] /\ AreTables(db, next)
      /\ AreTables(s.wrote, next) /\ s.wrote["class"] = NoRows /\ s.wrote["asset"] = NoRows
  BY <1>1, AtCommit DEF IInv, Types
<1>3. \A t \in Tables : db[t] = [i \in DOMAIN db[t] |-> db[t][i]]
  <2>1. \A t \in Tables : IsTable(db[t], t, next[t])
    BY <1>2 DEF AreTables
  <2> QED BY <2>1, Zenon DEF IsTable
<1> HIDE DEF s
<1>4. ASSUME NEW t \in Tables
      PROVE  /\ DOMAIN db'[t] = DOMAIN s.wrote[t] \cup DOMAIN db[t]
             /\ \A i \in DOMAIN s.wrote[t] : db'[t][i] = s.wrote[t][i]
             /\ \A i \in DOMAIN db[t] \ DOMAIN s.wrote[t] : db'[t][i] = db[t][i]
             /\ IsTable(db'[t], t, next[t])
             /\ db'[t] = [i \in DOMAIN db'[t] |-> db'[t][i]]
  <2>1. db'[t] = Over(s.wrote[t], db[t])
    BY <1>1
  <2>2. IsTable(s.wrote[t], t, next[t]) /\ IsTable(db[t], t, next[t])
    BY <1>2 DEF AreTables
  <2>3. IsTable(db'[t], t, next[t])
    BY <2>1, <2>2, TableOver
  <2> QED BY <2>1, <2>3, Zenon DEF Over, IsTable
<1>5. \A t \in {"class", "asset"} : db'[t] = db[t]
  <2> SUFFICES ASSUME NEW t \in {"class", "asset"} PROVE db'[t] = db[t]
    OBVIOUS
  <2>1. t \in Tables /\ DOMAIN s.wrote[t] = {}
    BY <1>2, NoRowsIs DEF Tables
  <2>2. DOMAIN db'[t] = DOMAIN db[t] /\ \A i \in DOMAIN db[t] : db'[t][i] = db[t][i]
    BY <2>1, <1>4
  <2>3. /\ db[t] = [i \in DOMAIN db[t] |-> db[t][i]]
        /\ db'[t] = [i \in DOMAIN db'[t] |-> db'[t][i]]
    BY <2>1, <1>3, <1>4
  <2> QED BY <2>2, <2>3
<1>6. db' = [t \in Tables |-> db'[t]]
  BY <1>1
<1>7. AreTables(db', next)
  BY <1>4, <1>6 DEF AreTables
<1> QED BY <1>4, <1>5, <1>6, <1>7 DEF s

LEMMA CommitKeepsIInv ==
  ASSUME IInv, NEW c \in Clients, Commit(c)
  PROVE  IInv'
<1> DEFINE s == client[c]
<1> DEFINE q == s.req
<1> DEFINE wrote == s.wrote
<1> DEFINE scope == s.scope \cup UNION {{t} \X DOMAIN s.wrote[t] : t \in Tables}
<1>0. At(c, "commit") /\ End(c) /\ next' = next /\ sent' = sent /\ raced' = Racing(c, scope)
  BY DEF Commit
<1>t. /\ "log" \in Tables /\ "payment" \in Tables /\ "log" \in DOMAIN Key
      /\ DOMAIN Key = {"class", "asset", "log"} /\ Linked = {"asset", "log", "payment"}
  BY DEF Tables, Key, Linked
<1>1. /\ HandlerOK(s, db, raced) /\ Begun(s) /\ q # NoRequest /\ q.table = "log"
      /\ AreTables(s.seen, next) /\ AreTables(wrote, next)
      /\ wrote["class"] = NoRows /\ wrote["asset"] = NoRows
      /\ \A i \in DOMAIN wrote["log"] : wrote["log"][i].month = q.month
  BY <1>0, AtCommit
<1>2. \A t \in {"log", "payment"} : \A i \in DOMAIN wrote[t] :
         /\ Thing(t, wrote[t][i]) \in s.scope
         /\ Thing(t, wrote[t][i]) \in raced \/ AgreeOn(Thing(t, wrote[t][i]), db, s.seen)
         /\ wrote[t][i].asset \in DOMAIN s.seen["asset"]
         /\ wrote[t][i].asset \in Nat
  BY <1>0, AtCommit
<1>3. /\ \A t \in {"class", "asset"} : db'[t] = db[t]
      /\ \A t \in Tables :
           /\ DOMAIN db'[t] = DOMAIN wrote[t] \cup DOMAIN db[t]
           /\ \A i \in DOMAIN wrote[t] : db'[t][i] = wrote[t][i]
           /\ \A i \in DOMAIN db[t] \ DOMAIN wrote[t] : db'[t][i] = db[t][i]
      /\ AreTables(db', next)
  BY Commits
<1>4. RowsBelong(s, db, raced) /\ WroteEntries(s) /\ WroteFresh(s, db)
  BY <1>1 DEF HandlerOK
<1>5. /\ next \in [Tables -> Nat \ {0}] /\ \A u \in Tables : next[u] <= next[u]
      /\ AreTables(db, next) /\ Unique(db, raced) /\ Anchored(db, raced)
  BY DEF IInv, Types
<1>6. \A t \in Tables : /\ DOMAIN db[t] \subseteq Nat /\ DOMAIN wrote[t] \subseteq Nat
                        /\ \A i \in DOMAIN db[t] : db[t][i] \in Rows[t]
                        /\ \A i \in DOMAIN wrote[t] : wrote[t][i] \in Rows[t]
                        /\ \A i \in DOMAIN db'[t] : db'[t][i] \in Rows[t]
  BY <1>1, <1>3, <1>5, RowsTyped, Zenon
<1>7. /\ raced \subseteq raced' /\ s.scope \subseteq scope
      /\ \A e \in Clients \ {c} : client[e].scope \cap scope # {} => client[e].scope \cup scope \subseteq raced'
      /\ \A t \in Tables : \A i \in DOMAIN wrote[t] : <<t, i>> \in scope
  <2>1. /\ \A t \in Tables : \A i \in DOMAIN wrote[t] : <<t, i>> \in scope
        /\ s.scope \subseteq scope
    OBVIOUS
  <2> HIDE DEF scope
  <2> QED BY <2>1, <1>0, RacingIs
<1> HIDE DEF scope, wrote
<1>8. \A t \in Tables : \A i \in DOMAIN wrote[t] : t \in {"log", "payment"}
  BY <1>1, NoRowsIs DEF Tables
<1>9. \A i \in DOMAIN wrote["log"] \cap DOMAIN db["log"] :
         /\ i \in DOMAIN s.seen["log"]
         /\ s.seen["log"][i].asset = wrote["log"][i].asset /\ s.seen["log"][i].month = q.month
         /\ <<"log", i>> \in s.scope
  <2> SUFFICES ASSUME NEW i \in DOMAIN wrote["log"], i \in DOMAIN db["log"]
               PROVE  /\ i \in DOMAIN s.seen["log"]
                      /\ s.seen["log"][i].asset = wrote["log"][i].asset /\ s.seen["log"][i].month = q.month
                      /\ <<"log", i>> \in s.scope
    OBVIOUS
  <2>1. i \in DOMAIN s.seen["log"]
    BY <1>1, <1>4 DEF WroteFresh, wrote
  <2>2. s.seen["log"][i].asset = wrote["log"][i].asset /\ s.seen["log"][i].month = q.month
    BY <2>1, <1>1, <1>4 DEF WroteEntries, wrote
  <2>3. <<"asset", s.seen["log"][i].asset>> \in s.scope
    BY <2>2, <1>2 DEF Thing, Ref
  <2> QED BY <2>1, <2>2, <2>3, <1>1, <1>4 DEF WroteEntries
<1>10. Effect(c)
  <2> SUFFICES ASSUME NEW t \in Tables, NEW i \in Nat
               PROVE  Creates(c, t, i) /\ Changes(c, t, i) /\ Removes(c, t, i)
    BY <1>7 DEF Effect
  <2>1. Removes(c, t, i)
    BY <1>3 DEF Removes
  <2>2. Creates(c, t, i)
    <3> SUFFICES ASSUME i \in DOMAIN db'[t], i \notin DOMAIN db[t]
                 PROVE  /\ i \in DOMAIN s.wrote[t]
                        /\ \A e \in Clients \ {c} : <<t, i>> \in client[e].scope => client[e].scope \cup s.scope \subseteq raced'
                        /\ Thing(t, db'[t][i]) \in s.scope
      BY DEF Creates
    <3>1. i \in DOMAIN wrote[t] /\ db'[t][i] = wrote[t][i] /\ t \in {"log", "payment"}
      BY <1>3, <1>8
    <3> QED BY <3>1, <1>2, <1>7 DEF wrote
  <2>3. Changes(c, t, i)
    <3> SUFFICES ASSUME i \in DOMAIN db'[t], i \in DOMAIN db[t], i \in DOMAIN wrote[t]
                 PROVE  /\ <<t, i>> \in s.scope
                        /\ Thing(t, db[t][i]) \in s.scope \cup raced'
                        /\ Thing(t, db'[t][i]) \in s.scope
      BY <1>3 DEF Changes
    <3>1. t = "log"
      BY <1>1, <1>4, <1>8 DEF WroteFresh, wrote
    <3>2. <<t, i>> \in s.scope
      BY <3>1, <1>9
    <3>3. Belongs(s, raced, Thing(t, db[t][i]))
      BY <3>1, <3>2, <1>1, <1>4 DEF RowsBelong
    <3> QED BY <3>1, <3>2, <3>3, <1>2, <1>3, <1>7 DEF Belongs
  <2> QED BY <2>1, <2>2, <2>3
<1>11. ASSUME NEW i \in DOMAIN wrote["log"], NEW j \in DOMAIN db["log"] \ DOMAIN wrote["log"],
              SameKey("log", wrote["log"][i], db["log"][j])
       PROVE  Thing("log", wrote["log"][i]) \in raced
  <2> DEFINE a == wrote["log"][i].asset
  <2> SUFFICES ASSUME Thing("log", wrote["log"][i]) \notin raced PROVE FALSE
    OBVIOUS
  <2>1. db["log"][j].asset = a /\ db["log"][j].month = q.month
    BY <1>1, <1>11 DEF SameKey, Key
  <2>2. Thing("log", wrote["log"][i]) = <<"asset", a>> /\ Thing("log", db["log"][j]) = <<"asset", a>>
    BY <2>1 DEF Thing, Ref
  <2>3. AgreeOn(<<"asset", a>>, db, s.seen)
    BY <2>2, <1>2
  <2>4. i \in Nat /\ j \in Nat
    BY <1>6, <1>t
  <2>5. j \in DOMAIN s.seen["log"] /\ s.seen["log"][j] = db["log"][j]
    BY <2>2, <2>3, <2>4, <1>t DEF AgreeOn
  <2>6. CASE i \notin DOMAIN s.seen["log"]
    <3>1. EntriesOf(s.seen, a, q.month) = {}
      BY <2>6, <1>1, <1>4 DEF WroteEntries, wrote
    <3> QED BY <3>1, <2>1, <2>5 DEF EntriesOf
  <2>7. CASE i \in DOMAIN s.seen["log"]
    <3>1. s.seen["log"][i].asset = a /\ s.seen["log"][i].month = q.month
      BY <2>7, <1>1, <1>4 DEF WroteEntries, wrote
    <3>2. Thing("log", s.seen["log"][i]) = <<"asset", a>>
      BY <3>1 DEF Thing, Ref
    <3>3. i \in DOMAIN db["log"] /\ db["log"][i] = s.seen["log"][i]
      BY <2>3, <2>4, <2>7, <3>2, <1>t DEF AgreeOn
    <3>4. SameKey("log", db["log"][i], db["log"][j])
      BY <2>1, <3>1, <3>3 DEF SameKey, Key
    <3>5. i # j
      OBVIOUS
    <3>6. Refs("log", db["log"][i]) \subseteq raced
      BY <3>3, <3>4, <3>5, <1>5, <1>t DEF Unique
    <3>7. Refs("log", db["log"][i]) = {<<"asset", a>>}
      BY <3>2, <3>3, <1>6, <1>t, TablesAre
    <3> QED BY <3>6, <3>7, <2>2
  <2> QED BY <2>6, <2>7
<1>12. Unique(db', raced')
  <2> SUFFICES ASSUME NEW t \in DOMAIN Key, NEW i \in DOMAIN db'[t], NEW j \in DOMAIN db'[t],
                      SameKey(t, db'[t][i], db'[t][j]), i # j
               PROVE  Refs(t, db'[t][i]) \subseteq raced'
    BY DEF Unique
  <2>0. t \in Tables
    BY TablesAre
  <2>1. CASE i \in DOMAIN db[t] /\ db'[t][i] = db[t][i] /\ j \in DOMAIN db[t] /\ db'[t][j] = db[t][j]
    <3>1. Refs(t, db[t][i]) \subseteq raced
      BY <2>1, <1>5 DEF Unique
    <3> QED BY <3>1, <2>1, <1>7
  <2>2. CASE i \in DOMAIN wrote[t] /\ j \in DOMAIN wrote[t]
    <3>1. t = "log"
      BY <2>0, <2>2, <1>8, <1>t
    <3>2. wrote["log"][i].asset = wrote["log"][j].asset
      BY <3>1, <2>2, <1>3, <1>t DEF SameKey, Key
    <3> QED BY <3>1, <3>2, <2>2, <1>1, <1>4 DEF WroteEntries, wrote
  <2>3. CASE i \in DOMAIN wrote[t] /\ j \in DOMAIN db[t] \ DOMAIN wrote[t]
    <3>1. t = "log" /\ db'[t][i] = wrote[t][i] /\ db'[t][j] = db[t][j]
      BY <2>0, <2>3, <1>3, <1>8, <1>t
    <3>2. Thing(t, wrote[t][i]) \in raced
      BY <3>1, <2>3, <1>11
    <3> QED BY <3>1, <3>2, <2>0, <2>3, <1>6, <1>7, TablesAre
  <2>4. CASE j \in DOMAIN wrote[t] /\ i \in DOMAIN db[t] \ DOMAIN wrote[t]
    <3>1. t = "log" /\ db'[t][j] = wrote[t][j] /\ db'[t][i] = db[t][i]
      BY <2>0, <2>4, <1>3, <1>8, <1>t
    <3>2. SameKey(t, wrote[t][j], db[t][i])
      BY <3>1 DEF SameKey
    <3>3. Thing(t, wrote[t][j]) \in raced
      BY <3>1, <3>2, <2>4, <1>11
    <3>4. Thing(t, db[t][i]) \in raced
      BY <3>2, <3>3, SameKeySameThing
    <3> QED BY <3>1, <3>4, <2>0, <2>4, <1>6, <1>7, TablesAre
  <2> QED BY <2>0, <2>1, <2>2, <2>3, <2>4, <1>3
<1>13. Anchored(db', raced')
  <2> SUFFICES ASSUME NEW t \in Linked, NEW i \in DOMAIN db'[t]
               PROVE  db'[t][i][Ref[t]] \in DOMAIN db'[Ref[t]] \/ Refs(t, db'[t][i]) \subseteq raced'
    BY DEF Anchored
  <2>0. t \in Tables /\ Ref[t] \in {"class", "asset"} /\ db'[Ref[t]] = db[Ref[t]]
    BY <1>3, TablesAre
  <2>1. CASE i \in DOMAIN db[t] \ DOMAIN wrote[t]
    <3>1. db'[t][i] = db[t][i]
      BY <2>0, <2>1, <1>3
    <3>2. db[t][i][Ref[t]] \in DOMAIN db[Ref[t]] \/ Refs(t, db[t][i]) \subseteq raced
      BY <2>1, <1>5 DEF Anchored
    <3> QED BY <3>1, <3>2, <2>0, <1>7
  <2>2. CASE i \in DOMAIN wrote[t]
    <3>1. t \in {"log", "payment"} /\ db'[t][i] = wrote[t][i] /\ Ref[t] = "asset"
      BY <2>0, <2>2, <1>3, <1>8 DEF Ref
    <3> DEFINE a == wrote[t][i]["asset"]
    <3>2. Thing(t, wrote[t][i]) = <<"asset", a>> /\ Refs(t, wrote[t][i]) = {<<"asset", a>>}
      BY <3>1, <2>0, <2>2, <1>6, TablesAre DEF Thing
    <3>3. CASE <<"asset", a>> \in raced
      BY <3>1, <3>2, <3>3, <1>7
    <3>4. CASE <<"asset", a>> \notin raced
      <4>1. AgreeOn(<<"asset", a>>, db, s.seen) /\ a \in DOMAIN s.seen["asset"] /\ a \in Nat
        BY <2>2, <3>1, <3>2, <3>4, <1>2
      <4>2. a \in DOMAIN db["asset"]
        BY <4>1 DEF AgreeOn
      <4> QED BY <4>2, <3>1, <2>0
    <3> QED BY <3>3, <3>4
  <2> QED BY <2>0, <2>1, <2>2, <1>3
<1> QED BY <1>0, <1>3, <1>5, <1>10, <1>12, <1>13, AssembleLast

-----------------------------------------------------------------------------
(* The theorems.                                                           *)

LEMMA InitEstablishesIInv ==
  ASSUME Init
  PROVE  IInv
<1> DEFINE ids == [t \in Tables |-> Len(StartDb[t]) + 1]
<1>1. db = StartDb /\ next = ids /\ client = [c \in Clients |-> Idle] /\ raced = {} /\ sent = 0
  BY DEF Init
<1>2. \A t \in Tables : StartDb[t] \in Seq(Rows[t])
  BY StartAssumption
<1>3. next \in [Tables -> Nat \ {0}] /\ \A t \in Tables : next[t] = Len(StartDb[t]) + 1
  <2>1. \A t \in Tables : Len(StartDb[t]) \in Nat
    BY <1>2
  <2> QED BY <2>1, <1>1
<1>4. ASSUME NEW t \in Tables PROVE IsTable(db[t], t, next[t])
  <2> DEFINE f == StartDb[t]
  <2>1. f \in Seq(Rows[t])
    BY <1>2
  <2> HIDE DEF f
  <2>2. Len(f) \in Nat /\ DOMAIN f = 1 .. Len(f) /\ f \in [1 .. Len(f) -> Rows[t]]
    BY <2>1, LenProperties
  <2>3. f = [i \in DOMAIN f |-> f[i]] /\ \A i \in DOMAIN f : f[i] \in Rows[t]
    BY <2>2
  <2>4. DOMAIN f \subseteq 1 .. (Len(f) + 1) - 1
    BY <2>2
  <2>5. IsTable(f, t, Len(f) + 1)
    BY <2>3, <2>4 DEF IsTable
  <2> QED BY <2>5, <1>1, <1>3 DEF f
<1>5. AreTables(db, next)
  BY <1>1, <1>4, StartAssumption DEF AreTables
<1>6. \A c \in Clients : client[c] = Idle
  BY <1>1
<1>7. Types
  <2>1. sent \in 0 .. MaxRequests
    BY <1>1, ConstantsAssumption
  <2>2. client = [c \in Clients |-> client[c]]
    BY <1>1
  <2>3. \A c \in Clients : IsHandler(client[c], next)
    BY <1>6, IdleIs
  <2> QED BY <2>1, <2>2, <2>3, <1>3, <1>5 DEF Types
<1>8. \A c \in Clients : HandlerOK(client[c], db, raced) /\ client[c].scope = {} /\ client[c].wrote = NoTables
  BY <1>6, IdleIs
<1>9. Exclusive
  BY <1>8 DEF Exclusive
<1>10. Apart
  BY <1>8, NoRowsIs DEF Apart
<1>11. Unique(db, raced) /\ Anchored(db, raced)
  BY <1>1, StartAssumption
<1> QED BY <1>7, <1>8, <1>9, <1>10, <1>11 DEF IInv

LEMMA StutterKeepsIInv ==
  ASSUME IInv, UNCHANGED vars
  PROVE  IInv'
BY DEF vars, IInv, Types, Exclusive, Apart

LEMMA StepKeepsIInv ==
  ASSUME IInv, [Next]_vars
  PROVE  IInv'
<1>1. ASSUME NEW c \in Clients, Step(c) PROVE IInv'
  <2>1. CASE Read(c) \/ Exists(c) \/ ParentExists(c) \/ NoOther(c) \/ ItselfFound(c) \/ Count(c)
    BY <2>1, ReadKeepsIInv, ExistsKeepsIInv, ParentExistsKeepsIInv, NoOtherKeepsIInv,
       ItselfFoundKeepsIInv, CountKeepsIInv
  <2>2. CASE Insert(c) \/ Update(c) \/ SetClosed(c) \/ Delete(c)
    BY <2>2, InsertKeepsIInv, UpdateKeepsIInv, SetClosedKeepsIInv, DeleteKeepsIInv
  <2>3. CASE DeleteLogs(c)
    BY <2>3, DeleteHistoryKeepsIInv DEF DeleteLogs
  <2>4. CASE DeletePayments(c)
    BY <2>4, DeleteHistoryKeepsIInv DEF DeletePayments
  <2>5. CASE Begin(c) \/ RowUnknown(c) \/ RowClosed(c) \/ RowSkipped(c)
    BY <2>5, BeginKeepsIInv, RowUnknownKeepsIInv, RowClosedKeepsIInv, RowSkippedKeepsIInv
  <2>6. CASE RowReplaced(c) \/ RowInserted(c) \/ Commit(c) \/ LockWaitFails(c)
    BY <2>6, RowReplacedKeepsIInv, RowInsertedKeepsIInv, CommitKeepsIInv, InterruptedKeepsIInv
  <2> QED BY <1>1, <2>1, <2>2, <2>3, <2>4, <2>5, <2>6 DEF Step
<1>2. ASSUME NEW c \in Clients, Interrupted(c) PROVE IInv'
  BY <1>2, InterruptedKeepsIInv
<1>3. ASSUME NEW c \in Clients, NEW q \in Requests, Send(c, q) PROVE IInv'
  BY <1>3, SendKeepsIInv
<1>4. CASE Quiet \/ UNCHANGED vars
  BY <1>4, StutterKeepsIInv DEF Quiet
<1> QED BY <1>1, <1>2, <1>3, <1>4 DEF Next

\* In every reachable state, what each request in flight has read or checked is
\* still true, or raced.
THEOREM Invariant == Spec => []IInv
<1>1. Init => IInv
  BY InitEstablishesIInv
<1>2. IInv /\ [Next]_vars => IInv'
  BY StepKeepsIInv
<1> QED BY <1>1, <1>2, PTL DEF Spec

\* Rows, drafts and transactions have the types the handlers rely on.
THEOREM TypeCorrect == Spec => []TypeOK
<1>1. ASSUME IInv PROVE TypeOK
  <2>1. /\ next \in [Tables -> Nat \ {0}] /\ AreTables(db, next) /\ sent \in 0 .. MaxRequests
        /\ \A c \in Clients : IsHandler(client[c], next) /\ HandlerOK(client[c], db, raced)
    BY <1>1 DEF IInv, Types
  <2>2. ASSUME NEW t \in Tables
        PROVE  /\ next[t] \in Nat \ {0}
               /\ DOMAIN db[t] \subseteq 1 .. next[t] - 1
               /\ \A i \in DOMAIN db[t] : db[t][i] \in Rows[t]
    <3>1. IsTable(db[t], t, next[t])
      BY <2>1 DEF AreTables
    <3>2. /\ DOMAIN db[t] \subseteq 1 .. next[t] - 1
          /\ \A i \in DOMAIN db[t] : db[t][i] \in Rows[t]
      BY <3>1, Zenon DEF IsTable
    <3> QED BY <3>2, <2>1
  <2>3. ASSUME NEW c \in Clients
        PROVE  /\ Req(c) \in Requests \cup {NoRequest}
               /\ Busy(c) <=> client[c].todo # <<>>
               /\ \A t \in Tables : /\ DOMAIN client[c].wrote[t] \subseteq 1 .. next[t] - 1
                                    /\ \A i \in DOMAIN client[c].wrote[t] : client[c].wrote[t][i] \in Rows[t]
               /\ \A t \in {"class", "asset"} : client[c].wrote[t] = NoRows
               /\ At(c, "update") => Draft(c) \in Rows[Req(c).table]
    <3> DEFINE s == client[c]
    <3>1. IsHandler(s, next) /\ HandlerOK(s, db, raced)
      BY <2>1
    <3>2. /\ s.req \in Requests \cup {NoRequest} /\ AreTables(s.wrote, next)
          /\ s.req = NoRequest => s = Idle
          /\ s.req # NoRequest => s.todo # <<>>
      BY <3>1, Zenon DEF IsHandler
    <3>3. s.req # NoRequest <=> s.todo # <<>>
      BY <3>2 DEF Idle
    <3>4. ASSUME NEW t \in Tables
          PROVE  DOMAIN s.wrote[t] \subseteq 1 .. next[t] - 1 /\ \A i \in DOMAIN s.wrote[t] : s.wrote[t][i] \in Rows[t]
      <4>1. IsTable(s.wrote[t], t, next[t])
        BY <3>2 DEF AreTables
      <4> QED BY <4>1, Zenon DEF IsTable
    <3>5. \A t \in {"class", "asset"} : s.wrote[t] = NoRows
      <4>1. \A t \in {"class", "asset"} : NoTables[t] = NoRows
        BY NoRowsIs DEF Tables
      <4>2. CASE s.req = NoRequest
        BY <4>1, <4>2, <3>2 DEF Idle
      <4>3. CASE s.req # NoRequest
        BY <4>1, <4>3, <3>1 DEF HandlerOK, BatchAt
      <4> QED BY <4>2, <4>3
    <3>6. ASSUME At(c, "update") PROVE s.draft \in Rows[s.req.table]
      <4>1. /\ s.req # NoRequest /\ s.req.op \in {"create", "patch", "setClosed", "delete", "batch"}
            /\ "update" \in Issues(s.req)
            /\ \A l \in Left(s) : l = "update" \/ Rank["update"] < Rank[l]
        BY <1>1, <3>6, AtLabel
      <4>2. "read" \notin Left(s) /\ s.req.op = "patch"
        BY <4>1 DEF Rank, Issues
      <4> QED BY <4>1, <4>2, <3>1 DEF HandlerOK, DraftBelongs, Writes
    <3> QED BY <3>2, <3>3, <3>4, <3>5, <3>6 DEF Req, Busy, Draft
  <2> QED BY <2>1, <2>2, <2>3 DEF TypeOK
<1> QED BY <1>1, Invariant, PTL

\* What the repositories look for before they write is unique, where no requests
\* have overlapped on it.
THEOREM UniqueKeys == Spec => []KeysAreUnique
<1>1. IInv => KeysAreUnique
  BY DEF IInv, KeysAreUnique
<1> QED BY <1>1, Invariant, PTL

\* No row that is not raced refers to a missing one.
THEOREM NothingOrphaned == Spec => []NoOrphans
<1>1. IInv => NoOrphans
  BY DEF IInv, NoOrphans
<1> QED BY <1>1, Invariant, PTL

-----------------------------------------------------------------------------
(* Action properties.                                                       *)

\* Only these steps change the database, and a step is one handler's.
Alters(c) ==
  \/ Insert(c) \/ Update(c) \/ SetClosed(c) \/ Delete(c)
  \/ DeleteLogs(c) \/ DeletePayments(c) \/ Commit(c)

LEMMA Changer ==
  ASSUME IInv, [Next]_vars, db' # db
  PROVE  \E c \in Clients : Alters(c) /\ \A d \in Clients : By(d) => d = c
<1>1. PICK c \in Clients : Step(c) \/ Interrupted(c) \/ \E q \in Requests : Send(c, q)
  BY DEF Next, Quiet, vars
<1>2. Alters(c)
  BY <1>1 DEF Alters, Step, Read, Exists, ParentExists, NoOther, ItselfFound, Count, Check, Begin,
     RowUnknown, RowClosed, RowSkipped, RowReplaced, RowInserted, RowDone, LockWaitFails,
     Interrupted, Send
<1>3. Proceed(c) \/ End(c)
  BY <1>2 DEF Alters, Insert, Update, SetClosed, Delete, DeleteLogs, DeletePayments, DeleteHistory,
     Write, Commit
<1>4. PICK s : client' = [client EXCEPT ![c] = s]
  BY <1>3 DEF Proceed, End, Become
<1>5. \A d \in Clients : By(d) => d = c
  BY <1>4 DEF By, IInv, Types
<1> QED BY <1>2, <1>5

\* Each of them is of its kind of request.
LEMMA ChangerRequest ==
  ASSUME IInv, NEW c \in Clients, Alters(c)
  PROVE  /\ Req(c) # NoRequest /\ IsRequest(Req(c)) /\ Req(c).table \in Tables
         /\ HandlerOK(client[c], db, raced) /\ IsHandler(client[c], next)
         /\ Insert(c) => Req(c).op = "create"
         /\ Update(c) => Req(c).op = "patch"
         /\ SetClosed(c) => Req(c).op = "setClosed" /\ Req(c).table = "asset"
         /\ Delete(c) => Req(c).op = "delete"
         /\ DeleteLogs(c) \/ DeletePayments(c) =>
              Req(c).op = "delete" /\ Req(c).table = "asset" /\ Req(c).force
         /\ Commit(c) => Req(c).op = "batch"
<1> DEFINE q == client[c].req
<1>1. \A label : At(c, label) =>
         /\ q # NoRequest /\ IsRequest(q) /\ q.table \in Tables
         /\ HandlerOK(client[c], db, raced) /\ IsHandler(client[c], next)
         /\ q.op \in {"create", "patch", "setClosed", "delete", "batch"} /\ label \in Issues(q)
  BY AtLabel
<1>2. /\ Insert(c) => At(c, "insert")
      /\ Update(c) => At(c, "update")
      /\ SetClosed(c) => At(c, "flag")
      /\ Delete(c) => At(c, "delete")
      /\ DeleteLogs(c) => At(c, "deleteLogs")
      /\ DeletePayments(c) => At(c, "deletePayments")
      /\ Commit(c) => At(c, "commit")
  BY DEF Insert, Update, SetClosed, Delete, DeleteLogs, DeletePayments, DeleteHistory, Commit
<1>3. /\ q # NoRequest /\ IsRequest(q) /\ q.table \in Tables
      /\ HandlerOK(client[c], db, raced) /\ IsHandler(client[c], next)
  BY <1>1, <1>2 DEF Alters
<1>4. q.op = "setClosed" => q.table = "asset"
  BY <1>3, RequestParts
<1>5. Insert(c) => q.op = "create"
  BY <1>1, <1>2 DEF Issues
<1>6. Update(c) => q.op = "patch"
  BY <1>1, <1>2 DEF Issues
<1>7. SetClosed(c) => q.op = "setClosed"
  BY <1>1, <1>2 DEF Issues
<1>8. Delete(c) => q.op = "delete"
  BY <1>1, <1>2 DEF Issues
<1>9. DeleteLogs(c) \/ DeletePayments(c) => q.op = "delete" /\ q.table = "asset" /\ q.force
  BY <1>1, <1>2 DEF Issues
<1>10. Commit(c) => q.op = "batch"
  BY <1>1, <1>2 DEF Issues
<1> QED BY <1>3, <1>4, <1>5, <1>6, <1>7, <1>8, <1>9, <1>10 DEF Req

\* What a PATCH writes, it has read as the row still is, or the row is raced.
LEMMA PatchStep ==
  ASSUME IInv, [Next]_vars, NEW c \in Clients, By(c), Busy(c), Req(c).op = "patch", db' # db,
         NEW f \in DOMAIN db[Req(c).table][Req(c).id] \ DOMAIN Req(c).set
  PROVE  \/ db'[Req(c).table][Req(c).id][f] = db[Req(c).table][Req(c).id][f]
         \/ \E k \in client[c].scope : k \in raced
<1> DEFINE s == client[c]
<1> DEFINE q == s.req
<1> DEFINE t == q.table
<1>1. PICK d \in Clients : Alters(d) /\ \A e \in Clients : By(e) => e = d
  BY Changer
<1>2. Alters(c)
  BY <1>1
<1>3. Update(c) /\ IsRequest(q) /\ t \in Tables /\ HandlerOK(s, db, raced)
  BY <1>2, ChangerRequest DEF Alters, Req
<1>4. At(c, "update") /\ db' = [db EXCEPT ![t] = Put(db[t], q.id, s.draft)]
  BY <1>3 DEF Update, Write, Req, Draft
<1>5. "read" \notin Left(s)
  BY <1>4, AtLabel DEF Rank
<1>6. /\ db = [u \in Tables |-> db[u]]
  BY DEF IInv, Types, AreTables
<1>7. q.id \in DOMAIN db[t]
  <2> SUFFICES ASSUME q.id \notin DOMAIN db[t] PROVE FALSE
    OBVIOUS
  <2>1. db' = [db EXCEPT ![t] = db[t]]
    BY <1>4 DEF Put
  <2> QED BY <2>1, <1>6
<1>8. db'[t][q.id] = s.draft
  BY <1>3, <1>4, <1>6, <1>7 DEF Put
<1>9. s.draft = Over(q.set, db[t][q.id]) \/ s.scope \cap raced # {}
  BY <1>3, <1>5, <1>7 DEF HandlerOK, DraftCurrent, Req, Busy
<1>10. f \in DOMAIN db[t][q.id] \ DOMAIN q.set
  BY DEF Req
<1>11. Over(q.set, db[t][q.id])[f] = db[t][q.id][f]
  BY <1>10 DEF Over
<1> QED BY <1>8, <1>9, <1>11 DEF Req

\* A PATCH changes none of the fields it was not given, although it writes the
\* whole row that it read four statements earlier: where no other request has
\* overlapped with it, nobody has changed that row since.
THEOREM PatchKeepsRest == Spec => PatchKeepsTheRest
<1> DEFINE Kept ==
      \A c \in Clients :
        By(c) /\ Busy(c) /\ Req(c).op = "patch" /\ db' # db =>
          LET t == Req(c).table  old == db[t][Req(c).id]  new == db'[t][Req(c).id] IN
          \A f \in DOMAIN old \ DOMAIN Req(c).set :
            new[f] = old[f] \/ \E s \in client[c].scope : s \in raced
<1>1. IInv /\ [Next]_vars => Kept
  BY PatchStep
<1>2. PatchKeepsTheRest <=> [][Kept]_vars
  BY DEF PatchKeepsTheRest
<1> HIDE DEF Kept
<1> QED BY <1>1, <1>2, Invariant, PTL DEF Spec

\* A handler that has issued a statement is not where it was.
LEMMA ProceedMoves ==
  ASSUME IInv, NEW c \in Clients, NEW label, At(c, label), Proceed(c) \/ End(c)
  PROVE  By(c)
<1> DEFINE s == client[c]
<1> DEFINE s1 == [s EXCEPT !.todo = Tail(@)]
<1>1. s.req # NoRequest /\ IsHandler(s, next)
  BY AtLabel
<1>2. s.todo \in Seq(Labels) /\ s.todo # <<>>
  BY <1>1, BusyTyped
<1>3. Len(Tail(s.todo)) # Len(s.todo)
  BY <1>2, HeadTailProperties, LenProperties
<1>4. Tail(s.todo) # s.todo
  BY <1>3, Zenon
<1>5. s1.todo = Tail(s.todo)
  BY <1>1 DEF IsHandler
<1>6. Idle.req = NoRequest
  BY DEF Idle
<1>7. client = [d \in Clients |-> client[d]]
  BY DEF IInv, Types
<1>8. \/ client' = [client EXCEPT ![c] = Idle]
      \/ client' = [client EXCEPT ![c] = s1]
  BY DEF Proceed, Become, End
<1> HIDE DEF s, s1
<1>9. client'[c] = Idle \/ client'[c] = s1
  BY <1>7, <1>8
<1> QED BY <1>1, <1>4, <1>5, <1>6, <1>9 DEF By, s

\* New rows have new ids, or the ids a batch has written.
LEMMA RowsAppear ==
  ASSUME IInv, NEW c \in Clients, Alters(c), NEW t \in Tables, NEW i \in DOMAIN db'[t] \ DOMAIN db[t]
  PROVE  i >= next[t] \/ i \in DOMAIN client[c].wrote[t]
<1>1. db = [u \in Tables |-> db[u]] /\ next \in [Tables -> Nat \ {0}]
  BY DEF IInv, Types, AreTables
<1>2. Req(c).table \in Tables
  BY ChangerRequest
<1> DEFINE u == Req(c).table
<1>3. CASE Insert(c)
  <2>1. db' = [db EXCEPT ![u] = Over(Only(next[u], Draft(c)), db[u])]
    BY <1>3 DEF Insert, Write
  <2>2. DOMAIN Over(Only(next[u], Draft(c)), db[u]) = {next[u]} \cup DOMAIN db[u]
    BY DEF Over, Only
  <2>3. t = u /\ i = next[t]
    BY <2>1, <2>2, <1>1, <1>2
  <2> QED BY <2>3, <1>1
<1>4. CASE Update(c)
  <2>1. db' = [db EXCEPT ![u] = Put(db[u], Req(c).id, Draft(c))]
    BY <1>4 DEF Update, Write
  <2> QED BY <2>1, <1>1, <1>2 DEF Put
<1>5. CASE SetClosed(c)
  <2> DEFINE row == Over(Req(c).set, db["asset"][Req(c).id])
  <2>1. db' = [db EXCEPT !["asset"] = Put(db["asset"], Req(c).id, row)]
    BY <1>5 DEF SetClosed, Write
  <2> HIDE DEF row
  <2>2. \A v \in Tables : DOMAIN db'[v] = DOMAIN db[v]
    BY <2>1, <1>1 DEF Put, Tables
  <2> QED BY <2>2, <1>1
<1>6. CASE Delete(c) \/ DeleteLogs(c) \/ DeletePayments(c)
  <2> DEFINE I(v) == Dependents(db, v, "asset", Req(c).id)
  <2>1. \/ db' = [db EXCEPT ![u] = Without(db[u], {Req(c).id})]
        \/ db' = [db EXCEPT !["log"] = Without(db["log"], I("log"))]
        \/ db' = [db EXCEPT !["payment"] = Without(db["payment"], I("payment"))]
    BY <1>6 DEF Delete, DeleteLogs, DeletePayments, DeleteHistory, Write
  <2> HIDE DEF I
  <2> QED BY <2>1, <1>1, <1>2 DEF Without, Tables
<1>7. CASE Commit(c)
  BY <1>7, Commits
<1> QED BY <1>3, <1>4, <1>5, <1>6, <1>7 DEF Alters

\* Rows go by their own DELETE, or with their asset.
LEMMA RowsGo ==
  ASSUME IInv, NEW c \in Clients, Alters(c), NEW t \in {"log", "payment"}, NEW i \in DOMAIN db[t] \ DOMAIN db'[t]
  PROVE  /\ By(c) /\ Busy(c) /\ Req(c).op = "delete"
         /\ \/ Req(c).table = t /\ Req(c).id = i
            \/ Req(c).table = "asset" /\ Req(c).force
<1>1. db = [u \in Tables |-> db[u]] /\ t \in Tables
  BY DEF IInv, Types, AreTables, Tables
<1>2. Req(c).table \in Tables /\ Busy(c)
  BY ChangerRequest DEF Busy
<1> DEFINE u == Req(c).table
<1>3. ~Insert(c)
  <2> SUFFICES ASSUME Insert(c) PROVE FALSE
    OBVIOUS
  <2>1. db' = [db EXCEPT ![u] = Over(Only(next[u], Draft(c)), db[u])]
    BY DEF Insert, Write
  <2>2. DOMAIN db[u] \subseteq DOMAIN Over(Only(next[u], Draft(c)), db[u])
    BY DEF Over
  <2> QED BY <2>1, <2>2, <1>1, <1>2
<1>4. ~Update(c)
  <2> SUFFICES ASSUME Update(c) PROVE FALSE
    OBVIOUS
  <2>1. db' = [db EXCEPT ![u] = Put(db[u], Req(c).id, Draft(c))]
    BY DEF Update, Write
  <2> QED BY <2>1, <1>1, <1>2 DEF Put
<1>5. ~SetClosed(c)
  <2> SUFFICES ASSUME SetClosed(c) PROVE FALSE
    OBVIOUS
  <2> DEFINE row == Over(Req(c).set, db["asset"][Req(c).id])
  <2>1. db' = [db EXCEPT !["asset"] = Put(db["asset"], Req(c).id, row)]
    BY DEF SetClosed, Write
  <2> HIDE DEF row
  <2>2. \A v \in Tables : DOMAIN db'[v] = DOMAIN db[v]
    BY <2>1, <1>1 DEF Put, Tables
  <2> QED BY <2>2, <1>1
<1>6. ~Commit(c)
  BY <1>1, Commits
<1>7. CASE Delete(c)
  <2>1. db' = [db EXCEPT ![u] = Without(db[u], {Req(c).id})] /\ At(c, "delete") /\ Proceed(c)
    BY <1>7 DEF Delete, Write
  <2>2. u = t /\ i = Req(c).id
    BY <2>1, <1>1, <1>2 DEF Without
  <2>3. By(c)
    BY <2>1, ProceedMoves
  <2> QED BY <2>2, <2>3, <1>2, <1>7, ChangerRequest
<1>8. CASE DeleteLogs(c) \/ DeletePayments(c)
  <2>1. By(c)
    BY <1>8, ProceedMoves DEF DeleteLogs, DeletePayments, DeleteHistory, Write
  <2> QED BY <2>1, <1>2, <1>8, ChangerRequest
<1> QED BY <1>3, <1>4, <1>5, <1>6, <1>7, <1>8 DEF Alters

\* Raced or not, no late PATCH, batch or close brings a deleted row back, and
\* nothing but a DELETE of its own or of its asset takes an entry or a payment
\* away.
THEOREM HistoryIsKept == Spec => HistoryKept
<1> DEFINE Kept ==
      /\ \A t \in Tables : \A i \in DOMAIN db'[t] \ DOMAIN db[t] :
           i >= next[t] \/ \E c \in Clients : i \in DOMAIN client[c].wrote[t]
      /\ \A t \in {"log", "payment"} : \A i \in DOMAIN db[t] \ DOMAIN db'[t] :
           \E c \in Clients : /\ By(c) /\ Busy(c) /\ Req(c).op = "delete"
                              /\ \/ Req(c).table = t /\ Req(c).id = i
                                 \/ Req(c).table = "asset" /\ Req(c).force
<1>1. ASSUME IInv, [Next]_vars, db' # db PROVE Kept
  <2>1. PICK c \in Clients : Alters(c)
    BY <1>1, Changer
  <2> QED BY <1>1, <2>1, RowsAppear, RowsGo
<1>2. IInv /\ [Next]_vars => [Kept]_db
  <2> HIDE DEF Kept
  <2> QED BY <1>1
<1>3. HistoryKept <=> [][Kept]_db
  BY DEF HistoryKept
<1> HIDE DEF Kept
<1> QED BY <1>2, <1>3, Invariant, PTL DEF Spec

\* The entries of an asset in a month are those a batch has seen, if it is not
\* raced.
LEMMA EntriesSeen ==
  ASSUME NEW ids \in [Tables -> Nat \ {0}], NEW tables, AreTables(tables, ids),
         NEW seen, AreTables(seen, ids), NEW a, NEW m, AgreeOn(<<"asset", a>>, tables, seen)
  PROVE  EntriesOf(tables, a, m) = EntriesOf(seen, a, m)
<1>1. "log" \in Tables /\ DOMAIN tables["log"] \subseteq Nat /\ DOMAIN seen["log"] \subseteq Nat
  BY RowsTyped DEF Tables
<1>2. \A i \in Nat :
        /\ i \in DOMAIN tables["log"] /\ Thing("log", tables["log"][i]) = <<"asset", a>> =>
             i \in DOMAIN seen["log"] /\ seen["log"][i] = tables["log"][i]
        /\ i \in DOMAIN seen["log"] /\ Thing("log", seen["log"][i]) = <<"asset", a>> =>
             i \in DOMAIN tables["log"] /\ tables["log"][i] = seen["log"][i]
  BY <1>1 DEF AgreeOn
<1>3. \A row : row.asset = a => Thing("log", row) = <<"asset", a>>
  BY DEF Thing, Ref
<1> QED BY <1>1, <1>2, <1>3 DEF EntriesOf

\* What a commit does to the entries of the asset of its n-th row.
LEMMA BatchStep ==
  ASSUME IInv, NEW c \in Clients, Commit(c), NEW n \in 1 .. Len(Req(c).rows)
  PROVE  LET a == Req(c).rows[n].asset
             before == EntriesOf(db, a, Req(c).month)
             after == EntriesOf(db', a, Req(c).month)
         IN
         \/ <<"asset", a>> \in raced
         \/ db.asset[a].closed
         \/ /\ after # {}
            /\ before = {} \/ Req(c).replace =>
                 \A i \in after : db'.log[i].value = Req(c).rows[n].value
<1> DEFINE s == client[c]
<1> DEFINE q == s.req
<1> DEFINE rows == q.rows
<1> DEFINE a == rows[n].asset
<1> DEFINE m == q.month
<1>0. At(c, "commit")
  BY DEF Commit
<1>1. /\ q # NoRequest /\ IsRequest(q) /\ q.op = "batch" /\ Begun(s) /\ HandlerOK(s, db, raced)
      /\ s.row = Len(rows) + 1 /\ Len(rows) \in Nat
      /\ AreTables(s.seen, next) /\ AreTables(s.wrote, next)
      /\ \A i \in DOMAIN s.wrote["log"] :
           /\ \E l \in 1 .. Len(rows) : s.wrote["log"][i] = EntryFor(q, l)
           /\ s.wrote["log"][i].month = m
  BY <1>0, AtCommit
<1>2. SeenCurrent(s, db, raced) /\ WroteEntries(s) /\ HandledRows(s, raced)
  BY <1>1 DEF HandlerOK
<1>3. /\ \A l \in 1 .. Len(rows) : rows[l].asset \in Nat
      /\ \A k, l \in 1 .. Len(rows) : rows[k].asset = rows[l].asset => k = l
  BY <1>1, BatchParts
<1>4. "log" \in Tables /\ "asset" \in Tables
  BY DEF Tables
<1>5. /\ DOMAIN db'["log"] = DOMAIN s.wrote["log"] \cup DOMAIN db["log"]
      /\ \A i \in DOMAIN s.wrote["log"] : db'["log"][i] = s.wrote["log"][i]
      /\ \A i \in DOMAIN db["log"] \ DOMAIN s.wrote["log"] : db'["log"][i] = db["log"][i]
  BY <1>4, Commits
<1>6. n \in 1 .. Len(rows) /\ s.row - 1 = Len(rows)
  <2>1. n \in 1 .. Len(rows) /\ Len(rows) \in Nat /\ s.row = Len(rows) + 1
    BY <1>1 DEF Req
  <2> HIDE DEF s, rows
  <2> QED BY <2>1
<1> HIDE DEF s
<1>7. SUFFICES ASSUME <<"asset", a>> \notin raced, ~db["asset"][a].closed
               PROVE  /\ EntriesOf(db', a, m) # {}
                      /\ EntriesOf(db, a, m) = {} \/ q.replace =>
                           \A i \in EntriesOf(db', a, m) : db'["log"][i].value = rows[n].value
  BY DEF Req, s
<1>8. AgreeOn(<<"asset", a>>, db, s.seen)
  BY <1>1, <1>2, <1>6, <1>7 DEF SeenCurrent
<1>9. EntriesOf(db, a, m) = EntriesOf(s.seen, a, m)
  <2>1. next \in [Tables -> Nat \ {0}] /\ AreTables(db, next)
    BY DEF IInv, Types
  <2> HIDE DEF a, m
  <2> QED BY <2>1, <1>1, <1>8, EntriesSeen
<1>10. a \in DOMAIN s.seen["asset"] /\ ~s.seen["asset"][a].closed
  <2>1. a \in DOMAIN s.seen["asset"] /\ a \in Nat
    BY <1>1, <1>2, <1>3, <1>6 DEF HandledRows
  <2>2. a \in DOMAIN db["asset"] /\ db["asset"][a] = s.seen["asset"][a]
    BY <2>1, <1>8 DEF AgreeOn
  <2> QED BY <2>1, <2>2, <1>7
<1>11. /\ EntriesOf(s.seen, a, m) # {} \/ \E i \in DOMAIN s.wrote["log"] : s.wrote["log"][i].asset = a
       /\ q.replace => EntriesOf(s.seen, a, m) \subseteq DOMAIN s.wrote["log"]
  BY <1>1, <1>2, <1>6, <1>7, <1>10 DEF HandledRows
<1>12. \A i \in DOMAIN s.wrote["log"] \cap EntriesOf(s.seen, a, m) : s.wrote["log"][i].asset = a
  BY <1>1, <1>2 DEF WroteEntries, EntriesOf
<1>13. EntriesOf(db', a, m) # {}
  <2>1. CASE \E i \in DOMAIN s.wrote["log"] : s.wrote["log"][i].asset = a
    <3>1. PICK i \in DOMAIN s.wrote["log"] : s.wrote["log"][i].asset = a
      BY <2>1
    <3>2. i \in EntriesOf(db', a, m)
      BY <3>1, <1>1, <1>5 DEF EntriesOf
    <3> QED BY <3>2
  <2>2. CASE EntriesOf(s.seen, a, m) # {} /\ ~\E i \in DOMAIN s.wrote["log"] : s.wrote["log"][i].asset = a
    <3>1. PICK i \in EntriesOf(db, a, m) : i \notin DOMAIN s.wrote["log"]
      BY <2>2, <1>9, <1>12
    <3>2. i \in EntriesOf(db', a, m)
      BY <3>1, <1>5 DEF EntriesOf
    <3> QED BY <3>2
  <2> QED BY <2>1, <2>2, <1>11
<1>14. ASSUME EntriesOf(db, a, m) = {} \/ q.replace, NEW i \in EntriesOf(db', a, m)
       PROVE  db'["log"][i].value = rows[n].value
  <2>1. i \in DOMAIN s.wrote["log"]
    <3>1. i \notin DOMAIN s.wrote["log"] => i \in EntriesOf(db, a, m)
      BY <1>5, <1>14 DEF EntriesOf
    <3> QED BY <3>1, <1>9, <1>11, <1>14
  <2>2. s.wrote["log"][i].asset = a /\ db'["log"][i] = s.wrote["log"][i]
    BY <2>1, <1>5, <1>14 DEF EntriesOf
  <2>3. PICK l \in 1 .. Len(rows) : s.wrote["log"][i] = EntryFor(q, l)
    BY <2>1, <1>1
  <2>4. rows[l].asset = a
    BY <2>2, <2>3 DEF EntryFor
  <2>5. l = n
    BY <2>4, <1>3, <1>6
  <2> QED BY <2>2, <2>3, <2>5 DEF EntryFor
<1> QED BY <1>13, <1>14

\* A posted month appears as a whole: each of its rows for an open asset that is
\* not raced has its entry, with the row's value where there was none or it was
\* to be replaced, although the rows were written against an older snapshot.
THEOREM BatchesAreAtomic == Spec => BatchIsAtomic
<1> DEFINE Whole ==
      \A c \in Clients :
        By(c) /\ Busy(c) /\ Req(c).op = "batch" /\ db' # db =>
          \A n \in 1 .. Len(Req(c).rows) :
            LET a == Req(c).rows[n].asset
                before == EntriesOf(db, a, Req(c).month)
                after == EntriesOf(db', a, Req(c).month)
            IN
            <<"asset", a>> \in raced \/ db.asset[a].closed
            \/ /\ after # {}
               /\ before = {} \/ Req(c).replace =>
                    \A i \in after : db'.log[i].value = Req(c).rows[n].value
<1>1. ASSUME IInv, [Next]_vars PROVE Whole
  <2> SUFFICES ASSUME NEW c \in Clients, By(c), Req(c).op = "batch", db' # db, NEW n \in 1 .. Len(Req(c).rows)
               PROVE  LET a == Req(c).rows[n].asset
                          before == EntriesOf(db, a, Req(c).month)
                          after == EntriesOf(db', a, Req(c).month)
                      IN
                      \/ <<"asset", a>> \in raced
                      \/ db.asset[a].closed
                      \/ /\ after # {}
                         /\ before = {} \/ Req(c).replace =>
                              \A i \in after : db'.log[i].value = Req(c).rows[n].value
    OBVIOUS
  <2>1. PICK d \in Clients : Alters(d) /\ \A e \in Clients : By(e) => e = d
    BY <1>1, Changer
  <2>2. Alters(c)
    BY <2>1
  <2>3. Commit(c)
    BY <1>1, <2>2, ChangerRequest DEF Alters
  <2> QED BY <1>1, <2>3, BatchStep
<1>2. IInv /\ [Next]_vars => [Whole]_vars
  <2> HIDE DEF Whole
  <2> QED BY <1>1
<1>3. BatchIsAtomic <=> [][Whole]_vars
  BY DEF BatchIsAtomic
<1> HIDE DEF Whole
<1> QED BY <1>2, <1>3, Invariant, PTL DEF Spec

-----------------------------------------------------------------------------
(* The ledger implements LedgerPromise.                                     *)

Promised == UNCHANGED Promise!vars \/ Promise!Next

Placed(logs) == \A i, j \in DOMAIN logs : Place(logs[i]) = Place(logs[j]) => i = j

\* The entries of a log table without two entries for the same place.
LEMMA EntriesAre ==
  ASSUME NEW logs, Placed(logs)
  PROVE  /\ Entries(logs) = [k \in DOMAIN Entries(logs) |-> Entries(logs)[k]]
         /\ DOMAIN Entries(logs) = {Place(logs[i]) : i \in DOMAIN logs}
         /\ \A i \in DOMAIN logs : Entries(logs)[Place(logs[i])] = logs[i].value
<1>1. ASSUME NEW i \in DOMAIN logs PROVE Entries(logs)[Place(logs[i])] = logs[i].value
  <2> DEFINE k == Place(logs[i])
  <2>1. EntryAt(logs, k) \in DOMAIN logs /\ Place(logs[EntryAt(logs, k)]) = k
    BY DEF EntryAt
  <2>2. EntryAt(logs, k) = i
    BY <2>1 DEF Placed
  <2> QED BY <2>2 DEF Entries
<1> QED BY <1>1 DEF Entries

LEMMA EntriesEqual ==
  ASSUME NEW logs, Placed(logs), NEW g, g = [k \in DOMAIN g |-> g[k]],
         \A i \in DOMAIN logs : Place(logs[i]) \in DOMAIN g /\ g[Place(logs[i])] = logs[i].value,
         \A k \in DOMAIN g : \E i \in DOMAIN logs : k = Place(logs[i])
  PROVE  Entries(logs) = g
<1> DEFINE f == Entries(logs)
<1>1. /\ f = [k \in DOMAIN f |-> f[k]]
      /\ DOMAIN f = {Place(logs[i]) : i \in DOMAIN logs}
      /\ \A i \in DOMAIN logs : f[Place(logs[i])] = logs[i].value
  BY EntriesAre
<1> HIDE DEF f
<1>2. DOMAIN f = DOMAIN g
  BY <1>1
<1>3. \A k \in DOMAIN g : f[k] = g[k]
  BY <1>1
<1>4. f = g
  BY <1>1, <1>2, <1>3
<1> QED BY <1>4 DEF f

\* The database as LedgerPromise sees it, while nothing is raced.
LEMMA Unraced ==
  ASSUME NEW ids \in [Tables -> Nat \ {0}], NEW tables, AreTables(tables, ids),
         Unique(tables, {}), Anchored(tables, {})
  PROVE  /\ tables = [t \in Tables |-> tables[t]]
         /\ Placed(tables["log"])
         /\ \A i \in DOMAIN tables["log"] :
              LET row == tables["log"][i] IN
              /\ row \in Rows["log"]
              /\ row.asset \in DOMAIN tables["asset"] /\ row.month \in Months /\ row.value \in Values
         /\ \A a \in DOMAIN tables["asset"] :
              tables["asset"][a] \in Rows["asset"] /\ tables["asset"][a].closed \in BOOLEAN
<1>1. "log" \in Tables /\ "log" \in Linked /\ "log" \in DOMAIN Key /\ "asset" \in Tables
  BY DEF Tables, Linked, Key
<1>2. \A t \in Tables : \A i \in DOMAIN tables[t] : tables[t][i] \in Rows[t]
  BY RowsTyped
<1>3. \A i \in DOMAIN tables["log"] : Refs("log", tables["log"][i]) # {}
  BY <1>1, <1>2, TablesAre
<1>4. Placed(tables["log"])
  <2> SUFFICES ASSUME NEW i \in DOMAIN tables["log"], NEW j \in DOMAIN tables["log"],
                      Place(tables["log"][i]) = Place(tables["log"][j])
               PROVE  i = j
    BY DEF Placed
  <2>1. SameKey("log", tables["log"][i], tables["log"][j])
    BY DEF Place, SameKey, Key
  <2>2. i = j \/ Refs("log", tables["log"][i]) \subseteq {}
    BY <2>1, <1>1 DEF Unique
  <2> QED BY <2>2, <1>3
<1>5. \A i \in DOMAIN tables["log"] : tables["log"][i]["asset"] \in DOMAIN tables["asset"]
  <2> SUFFICES ASSUME NEW i \in DOMAIN tables["log"]
               PROVE  tables["log"][i]["asset"] \in DOMAIN tables["asset"]
    OBVIOUS
  <2>1. \/ tables["log"][i][Ref["log"]] \in DOMAIN tables[Ref["log"]]
        \/ Refs("log", tables["log"][i]) \subseteq {}
    BY <1>1 DEF Anchored
  <2> QED BY <2>1, <1>3 DEF Ref
<1>6. \A row \in Rows["log"] : row.month \in Months /\ row.value \in Values
  BY DEF Rows
<1>7. \A row \in Rows["asset"] : row.closed \in BOOLEAN
  BY DEF Rows
<1> QED BY <1>1, <1>2, <1>4, <1>5, <1>6, <1>7, RowsTyped

LEMMA AssetsAre ==
  ASSUME NEW assets, \A a \in DOMAIN assets : assets[a].closed \in BOOLEAN
  PROVE  /\ AssetsThat(assets, FALSE) = {a \in DOMAIN assets : ~assets[a].closed}
         /\ AssetsThat(assets, TRUE) = {a \in DOMAIN assets : assets[a].closed}
         /\ AssetsThat(assets, FALSE) \cup AssetsThat(assets, TRUE) = DOMAIN assets
BY DEF AssetsThat

\* Neither the assets nor the entries change.
LEMMA PromiseSame ==
  ASSUME db'["asset"] = db["asset"], db'["log"] = db["log"]
  PROVE  Promised
BY DEF Promised, Promise!vars

\* An asset becomes row.
LEMMA PromiseAssetPut ==
  ASSUME \A a \in DOMAIN db["asset"] : db["asset"][a].closed \in BOOLEAN,
         NEW i, NEW row, row.closed \in BOOLEAN,
         db'["asset"] = Put(db["asset"], i, row), db'["log"] = db["log"]
  PROVE  Promised
<1> DEFINE old == db["asset"]
<1> DEFINE new == db'["asset"]
<1>1. CASE i \notin DOMAIN old
  BY <1>1, PromiseSame DEF Put
<1>2. CASE i \in DOMAIN old
  <2>1. /\ DOMAIN new = DOMAIN old /\ new[i] = row
        /\ \A a \in DOMAIN old \ {i} : new[a] = old[a]
    BY <1>2 DEF Put
  <2>2. /\ AssetsThat(old, FALSE) = {a \in DOMAIN old : ~old[a].closed}
        /\ AssetsThat(old, TRUE) = {a \in DOMAIN old : old[a].closed}
        /\ AssetsThat(old, FALSE) \cup AssetsThat(old, TRUE) = DOMAIN old
    BY AssetsAre
  <2>0. i \in DOMAIN old
    BY <1>2
  <2> HIDE DEF new, old
  <2>3. \A a \in DOMAIN new : new[a].closed \in BOOLEAN
    BY <2>1 DEF old
  <2>4. /\ AssetsThat(new, FALSE) = {a \in DOMAIN new : ~new[a].closed}
        /\ AssetsThat(new, TRUE) = {a \in DOMAIN new : new[a].closed}
    BY <2>3, AssetsAre
  <2>5. Entries(db'["log"]) = Entries(db["log"])
    OBVIOUS
  <2>6. i \in Promise!Assets
    BY <1>2, <2>2 DEF Promise!Assets, old
  <2>11. /\ DOMAIN new = DOMAIN old /\ new[i].closed = row.closed
         /\ \A a \in DOMAIN old : a # i => new[a].closed = old[a].closed
    BY <2>1
  <2>7. CASE row.closed = old[i].closed
    <3>0. \A a \in DOMAIN old : new[a].closed = old[a].closed
      BY <2>11, <2>7
    <3>1. AssetsThat(new, FALSE) = AssetsThat(old, FALSE) /\ AssetsThat(new, TRUE) = AssetsThat(old, TRUE)
      BY <3>0, <2>11, <2>2, <2>4
    <3> QED BY <3>1, <2>5 DEF Promised, Promise!vars, old, new
  <2>8. CASE row.closed /\ ~old[i].closed
    <3>1. AssetsThat(new, FALSE) = AssetsThat(old, FALSE) \ {i}
      BY <2>11, <2>2, <2>4, <2>8
    <3>2. AssetsThat(new, TRUE) = AssetsThat(old, TRUE) \cup {i}
      BY <2>0, <2>11, <2>2, <2>4, <2>8
    <3>3. Promise!Close(i)
      BY <3>1, <3>2, <2>5 DEF Promise!Close, old, new
    <3> QED BY <3>3, <2>6 DEF Promised, Promise!Next
  <2>9. CASE ~row.closed /\ old[i].closed
    <3>1. AssetsThat(new, FALSE) = AssetsThat(old, FALSE) \cup {i}
      BY <2>0, <2>11, <2>2, <2>4, <2>9
    <3>2. AssetsThat(new, TRUE) = AssetsThat(old, TRUE) \ {i}
      BY <2>11, <2>2, <2>4, <2>9
    <3>3. Promise!Reopen(i)
      BY <3>1, <3>2, <2>5 DEF Promise!Reopen, old, new
    <3> QED BY <3>3, <2>6 DEF Promised, Promise!Next
  <2>10. old[i].closed \in BOOLEAN
    BY <1>2 DEF old
  <2> QED BY <2>7, <2>8, <2>9, <2>10
<1> QED BY <1>1, <1>2

LEMMA PromiseAsset ==
  ASSUME \A a \in DOMAIN db["asset"] : db["asset"][a].closed \in BOOLEAN,
         NEW i, i \notin DOMAIN db["asset"], NEW row, row.closed = FALSE,
         db'["asset"] = Over(Only(i, row), db["asset"]), db'["log"] = db["log"]
  PROVE  Promised
<1> DEFINE old == db["asset"]
<1> DEFINE new == db'["asset"]
<1>1. /\ DOMAIN new = DOMAIN old \cup {i} /\ new[i].closed = FALSE /\ i \notin DOMAIN old
      /\ \A a \in DOMAIN old : new[a].closed = old[a].closed
  BY DEF Over, Only
<1>2. /\ AssetsThat(old, FALSE) = {a \in DOMAIN old : ~old[a].closed}
      /\ AssetsThat(old, TRUE) = {a \in DOMAIN old : old[a].closed}
      /\ AssetsThat(old, FALSE) \cup AssetsThat(old, TRUE) = DOMAIN old
  BY AssetsAre
<1>3. \A a \in DOMAIN old : old[a].closed \in BOOLEAN
  OBVIOUS
<1>4. Entries(db'["log"]) = Entries(db["log"])
  OBVIOUS
<1> HIDE DEF new, old
<1>5. \A a \in DOMAIN new : new[a].closed \in BOOLEAN
  BY <1>1, <1>3
<1>6. /\ AssetsThat(new, FALSE) = {a \in DOMAIN new : ~new[a].closed}
      /\ AssetsThat(new, TRUE) = {a \in DOMAIN new : new[a].closed}
  BY <1>5, AssetsAre
<1>7. AssetsThat(new, FALSE) = AssetsThat(old, FALSE) \cup {i}
  BY <1>1, <1>2, <1>6
<1>8. AssetsThat(new, TRUE) = AssetsThat(old, TRUE)
  BY <1>1, <1>2, <1>6
<1>9. i \notin Promise!Assets
  BY <1>1, <1>2 DEF Promise!Assets, old
<1>10. Promise!Add
  BY <1>4, <1>7, <1>8, <1>9 DEF Promise!Add, old, new
<1> QED BY <1>10 DEF Promised, Promise!Next

\* An asset without entries goes.
LEMMA PromiseAssetGone ==
  ASSUME \A a \in DOMAIN db["asset"] : db["asset"][a].closed \in BOOLEAN,
         Placed(db["log"]),
         NEW i, \A j \in DOMAIN db["log"] : db["log"][j].asset # i,
         db'["asset"] = Without(db["asset"], {i}), db'["log"] = db["log"],
         db["asset"] = [a \in DOMAIN db["asset"] |-> db["asset"][a]]
  PROVE  Promised
<1>0. DOMAIN Entries(db["log"]) = {Place(db["log"][j]) : j \in DOMAIN db["log"]}
  <2> DEFINE logs == db["log"]
  <2>1. Placed(logs)
    OBVIOUS
  <2> HIDE DEF logs
  <2>2. DOMAIN Entries(logs) = {Place(logs[j]) : j \in DOMAIN logs}
    BY <2>1, EntriesAre
  <2> QED BY <2>2 DEF logs
<1> DEFINE old == db["asset"]
<1> DEFINE new == db'["asset"]
<1>1. CASE i \notin DOMAIN old
  <2>1. new = old
    BY <1>1 DEF Without
  <2> QED BY <2>1, PromiseSame
<1>2. CASE i \in DOMAIN old
  <2>1. /\ DOMAIN new = DOMAIN old \ {i}
        /\ \A a \in DOMAIN new : new[a] = old[a]
    BY DEF Without
  <2>2. /\ AssetsThat(old, FALSE) = {a \in DOMAIN old : ~old[a].closed}
        /\ AssetsThat(old, TRUE) = {a \in DOMAIN old : old[a].closed}
        /\ AssetsThat(old, FALSE) \cup AssetsThat(old, TRUE) = DOMAIN old
    BY AssetsAre
  <2>3. \A a \in DOMAIN new : new[a].closed \in BOOLEAN
    BY <2>1
  <2>4. /\ AssetsThat(new, FALSE) = {a \in DOMAIN new : ~new[a].closed}
        /\ AssetsThat(new, TRUE) = {a \in DOMAIN new : new[a].closed}
    BY <2>3, AssetsAre
  <2>5. i \in DOMAIN old /\ Entries(db'["log"]) = Entries(db["log"])
    BY <1>2
  <2>6. ~Promise!HasHistory(i)
    <3> SUFFICES ASSUME NEW k \in DOMAIN Entries(db["log"]), k[1] = i PROVE FALSE
      BY Zenon DEF Promise!HasHistory
    <3>0. DOMAIN Entries(db["log"]) = {Place(db["log"][j]) : j \in DOMAIN db["log"]}
      BY <1>0
    <3>1. PICK j \in DOMAIN db["log"] : k = Place(db["log"][j])
      BY <3>0
    <3> QED BY <3>1 DEF Place
  <2> HIDE DEF new, old
  <2>7. AssetsThat(new, FALSE) = AssetsThat(old, FALSE) \ {i}
    BY <2>1, <2>2, <2>4
  <2>8. AssetsThat(new, TRUE) = AssetsThat(old, TRUE) \ {i}
    BY <2>1, <2>2, <2>4
  <2>9. Promise!Discard(i)
    BY <2>5, <2>6, <2>7, <2>8 DEF Promise!Discard, old, new
  <2>10. i \in Promise!Assets
    BY <2>2, <2>5 DEF Promise!Assets, old
  <2> QED BY <2>9, <2>10 DEF Promised, Promise!Next
<1> QED BY <1>1, <1>2

\* An entry goes.
LEMMA PromiseEntryGone ==
  ASSUME Placed(db["log"]), db["log"] = [j \in DOMAIN db["log"] |-> db["log"][j]],
         NEW i, db'["log"] = Without(db["log"], {i}), db'["asset"] = db["asset"]
  PROVE  Promised
<1> DEFINE logs == db["log"]
<1> DEFINE f == Entries(logs)
<1>1. CASE i \notin DOMAIN logs
  <2>1. db'["log"] = logs
    BY <1>1 DEF Without
  <2> QED BY <2>1, PromiseSame
<1>2. CASE i \in DOMAIN logs
  <2> DEFINE k == Place(logs[i])
  <2> DEFINE new == Without(logs, {i})
  <2> DEFINE g == [x \in DOMAIN f \ {k} |-> f[x]]
  <2>1. /\ DOMAIN f = {Place(logs[j]) : j \in DOMAIN logs}
        /\ \A j \in DOMAIN logs : f[Place(logs[j])] = logs[j].value
    BY EntriesAre
  <2>2. DOMAIN new = DOMAIN logs \ {i} /\ \A j \in DOMAIN new : new[j] = logs[j]
    BY DEF Without
  <2>3. \A j \in DOMAIN logs : Place(logs[j]) = k => j = i
    BY <1>2 DEF Placed
  <2>4. Placed(new)
    BY <2>2 DEF Placed
  <2>5. db'["log"] = new
    OBVIOUS
  <2>6. k \in DOMAIN f
    BY <1>2, <2>1
  <2> HIDE DEF new, f, k
  <2>7. /\ DOMAIN g = DOMAIN f \ {k} /\ g = [x \in DOMAIN g |-> g[x]]
        /\ \A x \in DOMAIN g : g[x] = f[x]
    OBVIOUS
  <2> HIDE DEF g, logs
  <2>8. \A j \in DOMAIN new : Place(new[j]) \in DOMAIN g /\ g[Place(new[j])] = new[j].value
    BY <2>1, <2>2, <2>3, <2>7
  <2>9. \A x \in DOMAIN g : \E j \in DOMAIN new : x = Place(new[j])
    <3> SUFFICES ASSUME NEW x \in DOMAIN g PROVE \E j \in DOMAIN new : x = Place(new[j])
      OBVIOUS
    <3>1. PICK j \in DOMAIN logs : x = Place(logs[j])
      BY <2>1, <2>7
    <3>2. j # i
      BY <3>1, <2>7 DEF k
    <3> QED BY <3>1, <3>2, <2>2
  <2>10. Entries(new) = g
    BY <2>4, <2>7, <2>8, <2>9, EntriesEqual
  <2>11. Promise!Remove(k)
    BY <2>5, <2>6, <2>10 DEF Promise!Remove, Promise!Dropping, g, f, logs
  <2> QED BY <2>6, <2>11 DEF Promised, Promise!Next, f, logs
<1> QED BY <1>1, <1>2

\* All entries of an asset go.
LEMMA PromiseHistoryGone ==
  ASSUME Placed(db["log"]), NEW a, a \in Promise!Assets,
         db'["log"] = Without(db["log"], Dependents(db, "log", "asset", a)), db'["asset"] = db["asset"]
  PROVE  Promised
<1> DEFINE logs == db["log"]
<1> DEFINE f == Entries(logs)
<1> DEFINE new == Without(logs, Dependents(db, "log", "asset", a))
<1> DEFINE g == [x \in DOMAIN f \ {k \in DOMAIN f : k[1] = a} |-> f[x]]
<1>1. /\ DOMAIN f = {Place(logs[j]) : j \in DOMAIN logs}
      /\ \A j \in DOMAIN logs : f[Place(logs[j])] = logs[j].value
  BY EntriesAre
<1>2. /\ DOMAIN new = {j \in DOMAIN logs : logs[j].asset # a}
      /\ \A j \in DOMAIN new : new[j] = logs[j]
  BY DEF Without, Dependents
<1>3. Placed(new)
  BY <1>2 DEF Placed
<1>4. \A j \in DOMAIN logs : Place(logs[j])[1] = logs[j].asset
  BY DEF Place
<1>5. db'["log"] = new
  OBVIOUS
<1> HIDE DEF new, f
<1>6. /\ DOMAIN g = {k \in DOMAIN f : k[1] # a} /\ g = [x \in DOMAIN g |-> g[x]]
      /\ \A x \in DOMAIN g : g[x] = f[x]
  OBVIOUS
<1> HIDE DEF g, logs
<1>7. \A j \in DOMAIN new : Place(new[j]) \in DOMAIN g /\ g[Place(new[j])] = new[j].value
  BY <1>1, <1>2, <1>4, <1>6
<1>8. \A x \in DOMAIN g : \E j \in DOMAIN new : x = Place(new[j])
  <2> SUFFICES ASSUME NEW x \in DOMAIN g PROVE \E j \in DOMAIN new : x = Place(new[j])
    OBVIOUS
  <2>1. PICK j \in DOMAIN logs : x = Place(logs[j])
    BY <1>1, <1>6
  <2>2. logs[j].asset # a
    BY <2>1, <1>4, <1>6
  <2> QED BY <2>1, <2>2, <1>2
<1>9. Entries(new) = g
  BY <1>3, <1>6, <1>7, <1>8, EntriesEqual
<1>10. Promise!Clear(a)
  BY <1>5, <1>9 DEF Promise!Clear, Promise!Dropping, g, f, logs
<1> QED BY <1>10 DEF Promised, Promise!Next

\* An entry becomes row: it moves to a place that is free, or stays.
LEMMA PromiseEntryPut ==
  ASSUME Placed(db["log"]), db["log"] = [j \in DOMAIN db["log"] |-> db["log"][j]],
         NEW i, NEW row,
         i \in DOMAIN db["log"] =>
           /\ row.asset \in Promise!Assets /\ row.month \in Months /\ row.value \in Values
           /\ \A j \in DOMAIN db["log"] : Place(db["log"][j]) = Place(row) => j = i,
         db'["log"] = Put(db["log"], i, row), db'["asset"] = db["asset"]
  PROVE  Promised
<1> DEFINE logs == db["log"]
<1> DEFINE f == Entries(logs)
<1>1. CASE i \notin DOMAIN logs
  <2>1. db'["log"] = logs
    BY <1>1 DEF Put
  <2> QED BY <2>1, PromiseSame
<1>2. CASE i \in DOMAIN logs
  <2> DEFINE k == Place(logs[i])
  <2> DEFINE to == Place(row)
  <2> DEFINE v == row.value
  <2> DEFINE new == Put(logs, i, row)
  <2> DEFINE rest == [x \in DOMAIN f \ {k} |-> f[x]]
  <2> DEFINE one == [place \in {to} |-> v]
  <2> DEFINE g == Over(one, rest)
  <2>1. /\ DOMAIN f = {Place(logs[j]) : j \in DOMAIN logs}
        /\ \A j \in DOMAIN logs : f[Place(logs[j])] = logs[j].value
    BY EntriesAre
  <2>2. /\ DOMAIN new = DOMAIN logs /\ new[i] = row /\ i \in DOMAIN logs
        /\ \A j \in DOMAIN logs : j # i => new[j] = logs[j]
    BY <1>2 DEF Put
  <2>3. /\ \A j \in DOMAIN logs : Place(logs[j]) = k => j = i
        /\ \A j \in DOMAIN logs : Place(logs[j]) = to => j = i
    BY <1>2 DEF Placed
  <2>4. \A j, l \in DOMAIN logs : Place(logs[j]) = Place(logs[l]) => j = l
    BY DEF Placed
  <2>5. db'["log"] = new
    OBVIOUS
  <2>6. k \in DOMAIN f /\ Place(row) = to /\ row.value = v /\ Place(logs[i]) = k
    BY <1>2, <2>1
  <2>7. to \in Promise!Assets \X Months /\ v \in Values
    BY <1>2 DEF Place
  <2> HIDE DEF f, k, to, v
  <2>8. /\ DOMAIN g = {to} \cup (DOMAIN f \ {k}) /\ g[to] = v
        /\ \A x \in DOMAIN f : x # k /\ x # to => g[x] = f[x]
    BY DEF Over
  <2>9. g = [x \in DOMAIN g |-> g[x]]
    BY DEF Over
  <2> HIDE DEF g, new, logs, one, rest
  <2>10. Placed(new)
    <3>1. \A j \in DOMAIN logs : j # i => Place(new[j]) = Place(logs[j]) /\ Place(new[j]) # to
      BY <2>2, <2>3
    <3>2. Place(new[i]) = to
      BY <2>2, <2>6
    <3> QED BY <3>1, <3>2, <2>2, <2>4 DEF Placed
  <2>11. \A j \in DOMAIN new : Place(new[j]) \in DOMAIN g /\ g[Place(new[j])] = new[j].value
    <3>1. Place(new[i]) \in DOMAIN g /\ g[Place(new[i])] = new[i].value
      BY <2>2, <2>6, <2>8
    <3>2. ASSUME NEW j \in DOMAIN logs, j # i
          PROVE  Place(new[j]) \in DOMAIN g /\ g[Place(new[j])] = new[j].value
      <4>1. Place(new[j]) = Place(logs[j]) /\ new[j].value = logs[j].value
        BY <3>2, <2>2
      <4>2. Place(logs[j]) # k /\ Place(logs[j]) # to
        BY <3>2, <2>3
      <4> QED BY <4>1, <4>2, <2>1, <2>8
    <3> QED BY <3>1, <3>2, <2>2
  <2>12. \A x \in DOMAIN g : \E j \in DOMAIN new : x = Place(new[j])
    <3> SUFFICES ASSUME NEW x \in DOMAIN g PROVE \E j \in DOMAIN new : x = Place(new[j])
      OBVIOUS
    <3>1. CASE x = to
      BY <3>1, <2>2, <2>6
    <3>2. CASE x \in DOMAIN f /\ x # k
      <4>1. PICK j \in DOMAIN logs : x = Place(logs[j])
        BY <3>2, <2>1
      <4>2. j # i
        BY <4>1, <3>2, <2>6
      <4> QED BY <4>1, <4>2, <2>2
    <3> QED BY <3>1, <3>2, <2>8
  <2>13. Entries(new) = g
    BY <2>9, <2>10, <2>11, <2>12, EntriesEqual
  <2>14. to = k \/ to \notin DOMAIN f
    BY <2>1, <2>3, <2>6
  <2>15. Promise!Amend(k, to, v)
    BY <2>5, <2>6, <2>13, <2>14 DEF Promise!Amend, Promise!Dropping, Promise!Over, Over, g, one, rest, f, logs
  <2> QED BY <2>6, <2>7, <2>15 DEF Promised, Promise!Next, f, logs
<1> QED BY <1>1, <1>2

\* The entries of a month are put over the others.
LEMMA PromisePosted ==
  ASSUME NEW wrote, NEW m \in Months,
         \A i \in DOMAIN wrote :
           /\ wrote[i].month = m /\ wrote[i].value \in Values
           /\ wrote[i].asset \in AssetsThat(db["asset"], FALSE),
         \A i, j \in DOMAIN wrote : wrote[i].asset = wrote[j].asset => i = j,
         \A i \in DOMAIN wrote \cap DOMAIN db["log"] : Place(db["log"][i]) = Place(wrote[i]),
         Placed(db["log"]), Placed(db'["log"]),
         db'["asset"] = db["asset"],
         DOMAIN db'["log"] = DOMAIN wrote \cup DOMAIN db["log"],
         \A i \in DOMAIN wrote : db'["log"][i] = wrote[i],
         \A i \in DOMAIN db["log"] \ DOMAIN wrote : db'["log"][i] = db["log"][i]
  PROVE  Promised
<1> DEFINE logs == db["log"]
<1> DEFINE new == db'["log"]
<1> DEFINE f == Entries(logs)
<1> DEFINE A == {wrote[i].asset : i \in DOMAIN wrote}
<1> DEFINE v == Entries(wrote)
<1> DEFINE g == Over(v, f)
<1>1. /\ f = [x \in DOMAIN f |-> f[x]]
      /\ DOMAIN f = {Place(logs[j]) : j \in DOMAIN logs}
      /\ \A j \in DOMAIN logs : f[Place(logs[j])] = logs[j].value
  BY EntriesAre
<1>2. Placed(wrote)
  BY DEF Placed, Place
<1>3. /\ v = [x \in DOMAIN v |-> v[x]]
      /\ DOMAIN v = {Place(wrote[j]) : j \in DOMAIN wrote}
      /\ \A j \in DOMAIN wrote : v[Place(wrote[j])] = wrote[j].value
  BY <1>2, EntriesAre
<1> HIDE DEF f, v
<1>4. v \in [A \X {m} -> Values]
  <2>1. ASSUME NEW x \in DOMAIN v PROVE x \in A \X {m} /\ v[x] \in Values
    <3>1. PICK j \in DOMAIN wrote : x = Place(wrote[j])
      BY <1>3
    <3> QED BY <3>1, <1>3 DEF Place
  <2>2. ASSUME NEW x \in A \X {m} PROVE x \in DOMAIN v
    <3>1. PICK b \in A : x = <<b, m>>
      OBVIOUS
    <3>2. PICK j \in DOMAIN wrote : b = wrote[j].asset
      OBVIOUS
    <3>3. x = Place(wrote[j])
      BY <3>1, <3>2 DEF Place
    <3> QED BY <3>3, <1>3
  <2> HIDE DEF A
  <2>3. DOMAIN v = A \X {m}
    BY <2>1, <2>2
  <2> QED BY <2>1, <2>3, <1>3
<1>5. A \in SUBSET AssetsThat(db["asset"], FALSE)
  OBVIOUS
<1>6. /\ DOMAIN new = DOMAIN wrote \cup DOMAIN logs
      /\ \A i \in DOMAIN wrote : new[i] = wrote[i]
      /\ \A i \in DOMAIN logs \ DOMAIN wrote : new[i] = logs[i]
  OBVIOUS
<1>7. /\ DOMAIN g = DOMAIN v \cup DOMAIN f /\ g = [x \in DOMAIN g |-> g[x]]
      /\ \A x \in DOMAIN v : g[x] = v[x]
      /\ \A x \in DOMAIN f \ DOMAIN v : g[x] = f[x]
  BY DEF Over
<1>8. \A i \in DOMAIN wrote \cap DOMAIN logs : Place(logs[i]) = Place(wrote[i])
  OBVIOUS
<1>9. \A i, j \in DOMAIN new : Place(new[i]) = Place(new[j]) => i = j
  BY DEF Placed
<1> HIDE DEF logs, new, g, A
<1>10. ASSUME NEW j \in DOMAIN new
       PROVE  Place(new[j]) \in DOMAIN g /\ g[Place(new[j])] = new[j].value
  <2>1. CASE j \in DOMAIN wrote
    BY <2>1, <1>3, <1>6, <1>7
  <2>2. CASE j \in DOMAIN logs \ DOMAIN wrote
    <3>1. new[j] = logs[j] /\ Place(new[j]) \in DOMAIN f /\ f[Place(new[j])] = new[j].value
      BY <2>2, <1>1, <1>6
    <3>2. Place(new[j]) \notin DOMAIN v
      <4> SUFFICES ASSUME Place(new[j]) \in DOMAIN v PROVE FALSE
        OBVIOUS
      <4>1. PICK i \in DOMAIN wrote : Place(new[j]) = Place(wrote[i])
        BY <1>3
      <4>2. i = j
        BY <4>1, <1>6, <1>9
      <4> QED BY <4>2, <2>2
    <3> QED BY <3>1, <3>2, <1>7
  <2> QED BY <2>1, <2>2, <1>6
<1>11. ASSUME NEW x \in DOMAIN g PROVE \E j \in DOMAIN new : x = Place(new[j])
  <2>1. CASE x \in DOMAIN v
    <3>1. PICK i \in DOMAIN wrote : x = Place(wrote[i])
      BY <2>1, <1>3
    <3> QED BY <3>1, <1>6
  <2>2. CASE x \in DOMAIN f
    <3>1. PICK i \in DOMAIN logs : x = Place(logs[i])
      BY <2>2, <1>1
    <3>2. i \in DOMAIN new /\ Place(new[i]) = Place(logs[i])
      BY <1>6, <1>8
    <3> QED BY <3>1, <3>2
  <2> QED BY <2>1, <2>2, <1>7, <1>11
<1>12. Placed(new)
  BY DEF new
<1>13. Entries(new) = g
  BY <1>7, <1>10, <1>11, <1>12, EntriesEqual
<1>14. Promise!Record(m, A)
  BY <1>4, <1>5, <1>13 DEF Promise!Record, Promise!Over, Over, g, f, logs, new
<1> QED BY <1>5, <1>14 DEF Promised, Promise!Next

\* While nothing is raced, each step is one operation of LedgerPromise or none.
LEMMA StepPromised ==
  ASSUME IInv, [Next]_vars, raced' = {}
  PROVE  Promised
<1>1. IInv'
  BY StepKeepsIInv
<1>2. CASE db' = db
  BY <1>2, PromiseSame
<1>3. CASE db' # db
  <2>1. PICK c \in Clients : Alters(c)
    BY <1>3, Changer
  <2> DEFINE s == client[c]
  <2> DEFINE q == s.req
  <2> DEFINE t == q.table
  <2>2. /\ q # NoRequest /\ IsRequest(q) /\ t \in Tables /\ HandlerOK(s, db, raced) /\ IsHandler(s, next)
        /\ Insert(c) => q.op = "create"
        /\ Update(c) => q.op = "patch"
        /\ SetClosed(c) => q.op = "setClosed" /\ t = "asset"
        /\ Delete(c) => q.op = "delete"
        /\ DeleteLogs(c) \/ DeletePayments(c) => q.op = "delete" /\ t = "asset"
    BY <2>1, ChangerRequest DEF Req
  <2>3. raced = {}
    <3>1. raced \subseteq raced'
      BY <2>1, RacingIs DEF Alters, Insert, Update, SetClosed, Delete, DeleteLogs, DeletePayments,
         DeleteHistory, Commit
    <3> QED BY <3>1
  <2>4. /\ next \in [Tables -> Nat \ {0}] /\ AreTables(db, next)
        /\ Unique(db, {}) /\ Anchored(db, {})
    BY <2>3 DEF IInv, Types
  <2>5. /\ next' \in [Tables -> Nat \ {0}] /\ AreTables(db', next')
        /\ Unique(db', {}) /\ Anchored(db', {})
    BY <1>1 DEF IInv, Types
  <2>6. /\ db = [u \in Tables |-> db[u]]
        /\ Placed(db["log"])
        /\ \A i \in DOMAIN db["log"] :
             LET row == db["log"][i] IN
             /\ row \in Rows["log"]
             /\ row.asset \in DOMAIN db["asset"] /\ row.month \in Months /\ row.value \in Values
        /\ \A a \in DOMAIN db["asset"] :
             db["asset"][a] \in Rows["asset"] /\ db["asset"][a].closed \in BOOLEAN
    BY <2>4, Unraced
  <2>7. Placed(db'["log"])
    BY <2>5, Unraced
  <2>8. /\ db["log"] = [j \in DOMAIN db["log"] |-> db["log"][j]]
        /\ db["asset"] = [a \in DOMAIN db["asset"] |-> db["asset"][a]]
        /\ "log" \in Tables /\ "asset" \in Tables
    <3>1. "log" \in Tables /\ "asset" \in Tables
      BY DEF Tables
    <3>2. \A u \in Tables : db[u] = [j \in DOMAIN db[u] |-> db[u][j]]
      BY <2>4, RowsTyped
    <3> QED BY <3>1, <3>2
  <2>9. Promise!Assets = DOMAIN db["asset"]
    BY <2>6, AssetsAre DEF Promise!Assets
  <2>10. /\ ScopeNames(s) /\ DraftBelongs(s, raced) /\ ParentThere(s, db, raced)
         /\ KeyFree(s, db, raced) /\ Cleared(s, db, raced)
    BY <2>2 DEF HandlerOK
  <2> HIDE DEF s
  <2>11. CASE Insert(c)
    <3>1. db' = [db EXCEPT ![t] = Over(Only(next[t], s.draft), db[t])]
      BY <2>11 DEF Insert, Write, Draft, Req, s
    <3>2. CASE t # "asset"
      <4>1. t # "log"
        BY <2>2, <2>11, RequestParts
      <4> QED BY <4>1, <3>1, <3>2, <2>2, <2>6, <2>8, PromiseSame
    <3>3. CASE t = "asset"
      <4>1. s.draft.closed = FALSE
        <5>1. q.row \in Rows["asset"] /\ ~q.row.closed
          BY <3>3, <2>2, <2>11, RequestParts DEF IsRequest
        <5> QED BY <5>1, <2>2, <2>10, <2>11 DEF ScopeNames, Rows
      <4>2. next["asset"] \notin DOMAIN db["asset"]
        <5>1. \A i \in DOMAIN db["asset"] : i \in 1 .. next["asset"] - 1
          BY <2>4, <2>8, RowsTyped
        <5> QED BY <5>1, <2>4, <2>8
      <4>3. /\ db'["asset"] = Over(Only(next["asset"], s.draft), db["asset"]) /\ db'["log"] = db["log"]
        BY <3>1, <3>3, <2>6, <2>8
      <4> QED BY <4>1, <4>2, <4>3, <2>6, PromiseAsset
    <3> QED BY <3>2, <3>3
  <2>12. CASE Update(c)
    <3>1. db' = [db EXCEPT ![t] = Put(db[t], q.id, s.draft)] /\ At(c, "update")
      BY <2>12 DEF Update, Write, Draft, Req, s
    <3>2. \A l \in Left(s) : l = "update" \/ Rank["update"] < Rank[l]
      BY <3>1, AtLabel DEF s
    <3>3. "read" \notin Left(s) /\ "parent" \notin Left(s) /\ "unique" \notin Left(s)
      BY <3>2 DEF Rank
    <3>4. Writes(s)
      BY <2>2, <2>12 DEF Writes
    <3>5. s.draft \in Rows[t]
      BY <3>3, <3>4, <2>10 DEF DraftBelongs
    <3>6. CASE t \notin {"asset", "log"}
      BY <3>1, <3>6, <2>2, <2>6, <2>8, PromiseSame
    <3>7. CASE t = "asset"
      <4>1. s.draft.closed \in BOOLEAN
        BY <3>5, <3>7 DEF Rows
      <4>2. db'["asset"] = Put(db["asset"], q.id, s.draft) /\ db'["log"] = db["log"]
        BY <3>1, <3>7, <2>6, <2>8
      <4> QED BY <4>1, <4>2, <2>6, PromiseAssetPut
    <3>8. CASE t = "log"
      <4>1. s.draft.month \in Months /\ s.draft.value \in Values
        BY <3>5, <3>8 DEF Rows
      <4>2. s.draft["asset"] \in DOMAIN db["asset"]
        BY <3>3, <3>4, <3>8, <2>3, <2>10 DEF ParentThere, Ref
      <4>3. \A j \in DOMAIN db["log"] : Place(db["log"][j]) = Place(s.draft) => j = q.id
        <5>1. \A j \in DOMAIN db["log"] : SameKey("log", db["log"][j], s.draft) => j = q.id
          BY <3>3, <3>4, <3>8, <2>3, <2>10 DEF KeyFree
        <5> QED BY <5>1 DEF SameKey, Key, Place
      <4>4. db'["log"] = Put(db["log"], q.id, s.draft) /\ db'["asset"] = db["asset"]
        BY <3>1, <3>8, <2>6, <2>8
      <4> QED BY <4>1, <4>2, <4>3, <4>4, <2>6, <2>8, <2>9, PromiseEntryPut
    <3> QED BY <3>6, <3>7, <3>8
  <2>13. CASE SetClosed(c)
    <3> DEFINE row == Over(q.set, db["asset"][q.id])
    <3>1. db' = [db EXCEPT !["asset"] = Put(db["asset"], q.id, row)]
      BY <2>13 DEF SetClosed, Write, Req, s
    <3>2. q.set \in [closed : BOOLEAN]
      BY <2>2, <2>13, RequestParts
    <3>3. row.closed \in BOOLEAN
      BY <3>2 DEF Over
    <3> HIDE DEF row
    <3>4. db'["asset"] = Put(db["asset"], q.id, row) /\ db'["log"] = db["log"]
      BY <3>1, <2>6, <2>8
    <3> QED BY <3>3, <3>4, <2>6, PromiseAssetPut
  <2>14. CASE Delete(c)
    <3>1. db' = [db EXCEPT ![t] = Without(db[t], {q.id})] /\ At(c, "delete")
      BY <2>14 DEF Delete, Write, Req, s
    <3>2. /\ "delete" \in Left(s)
          /\ \A l \in Left(s) : l = "delete" \/ Rank["delete"] < Rank[l]
      BY <3>1, AtLabel DEF s
    <3>3. "deleteLogs" \notin Left(s)
      BY <3>2 DEF Rank
    <3>4. CASE t \notin {"asset", "log"}
      BY <3>1, <3>4, <2>2, <2>6, <2>8, PromiseSame
    <3>5. CASE t = "log"
      <4>1. db'["log"] = Without(db["log"], {q.id}) /\ db'["asset"] = db["asset"]
        BY <3>1, <3>5, <2>6, <2>8
      <4> QED BY <4>1, <2>6, <2>8, PromiseEntryGone
    <3>6. CASE t = "asset"
      <4>1. Dependents(db, "log", "asset", q.id) = {}
        BY <3>2, <3>3, <3>6, <2>2, <2>3, <2>10, <2>14 DEF Cleared
      <4>2. \A j \in DOMAIN db["log"] : db["log"][j].asset # q.id
        BY <4>1 DEF Dependents
      <4>3. db'["asset"] = Without(db["asset"], {q.id}) /\ db'["log"] = db["log"]
        BY <3>1, <3>6, <2>6, <2>8
      <4> QED BY <4>2, <4>3, <2>6, <2>8, PromiseAssetGone
    <3> QED BY <3>4, <3>5, <3>6
  <2>15. CASE DeleteLogs(c)
    <3> DEFINE I == Dependents(db, "log", "asset", q.id)
    <3>1. db' = [db EXCEPT !["log"] = Without(db["log"], I)]
      BY <2>15 DEF DeleteLogs, DeleteHistory, Write, Req, s
    <3>2. db'["log"] = Without(db["log"], I) /\ db'["asset"] = db["asset"]
      BY <3>1, <2>6, <2>8
    <3>3. CASE I = {}
      <4>1. db'["log"] = db["log"]
        BY <3>2, <3>3, <2>8 DEF Without
      <4> QED BY <4>1, <3>2, PromiseSame
    <3>4. CASE I # {}
      <4>1. PICK j \in DOMAIN db["log"] : db["log"][j].asset = q.id
        BY <3>4 DEF Dependents
      <4>2. q.id \in Promise!Assets
        BY <4>1, <2>6, <2>9
      <4> QED BY <4>2, <3>2, <2>6, PromiseHistoryGone
    <3> QED BY <3>3, <3>4
  <2>16. CASE DeletePayments(c)
    <3>1. db' = [db EXCEPT !["payment"] = Without(db["payment"], Dependents(db, "payment", "asset", q.id))]
      BY <2>16 DEF DeletePayments, DeleteHistory, Write, Req, s
    <3> QED BY <3>1, <2>6, <2>8, PromiseSame
  <2>17. CASE Commit(c)
    <3> DEFINE wrote == s.wrote["log"]
    <3>0. At(c, "commit")
      BY <2>17 DEF Commit
    <3>1. /\ IsRequest(q) /\ q.op = "batch" /\ Begun(s)
          /\ AreTables(s.seen, next) /\ AreTables(s.wrote, next)
          /\ \A i \in DOMAIN wrote :
               /\ wrote[i].month = q.month
               /\ Thing("log", wrote[i]) \in raced \/ AgreeOn(Thing("log", wrote[i]), db, s.seen)
               /\ wrote[i].asset \in DOMAIN s.seen["asset"]
               /\ wrote[i].asset \in Nat
      BY <3>0, AtCommit DEF s
    <3>2. q.month \in Months
      BY <3>1, BatchParts
    <3>3. WroteEntries(s) /\ WroteFresh(s, db)
      BY <2>2 DEF HandlerOK
    <3>4. /\ \A i, j \in DOMAIN wrote : wrote[i].asset = wrote[j].asset => i = j
          /\ \A i \in DOMAIN wrote :
               /\ ~s.seen["asset"][wrote[i].asset].closed
               /\ i \in DOMAIN s.seen["log"] =>
                    s.seen["log"][i].asset = wrote[i].asset /\ s.seen["log"][i].month = q.month
               /\ i \in DOMAIN s.seen["log"] \/ i \notin DOMAIN db["log"]
      BY <3>1, <3>3 DEF WroteEntries, WroteFresh
    <3>5. /\ db'["asset"] = db["asset"]
          /\ DOMAIN db'["log"] = DOMAIN wrote \cup DOMAIN db["log"]
          /\ \A i \in DOMAIN wrote : db'["log"][i] = wrote[i]
          /\ \A i \in DOMAIN db["log"] \ DOMAIN wrote : db'["log"][i] = db["log"][i]
      BY <2>8, <2>17, Commits DEF s
    <3>6. \A i \in DOMAIN wrote : wrote[i] \in Rows["log"] /\ i \in Nat
      BY <3>1, <2>4, <2>8, RowsTyped
    <3> HIDE DEF wrote
    <3>7. ASSUME NEW i \in DOMAIN wrote
          PROVE  /\ wrote[i].asset \in AssetsThat(db["asset"], FALSE)
                 /\ i \in DOMAIN db["log"] => Place(db["log"][i]) = Place(wrote[i])
      <4> DEFINE a == wrote[i].asset
      <4>1. Thing("log", wrote[i]) = <<"asset", a>>
        BY DEF Thing, Ref
      <4>2. AgreeOn(<<"asset", a>>, db, s.seen) /\ a \in DOMAIN s.seen["asset"] /\ a \in Nat
        BY <4>1, <3>1, <2>3
      <4>3. a \in DOMAIN db["asset"] /\ db["asset"][a] = s.seen["asset"][a]
        BY <4>2 DEF AgreeOn
      <4>4. a \in AssetsThat(db["asset"], FALSE)
        <5>1. ~db["asset"][a].closed
          BY <4>3, <3>4
        <5>2. AssetsThat(db["asset"], FALSE) = {b \in DOMAIN db["asset"] : ~db["asset"][b].closed}
          BY <2>6, AssetsAre
        <5> HIDE DEF a
        <5> QED BY <4>3, <5>1, <5>2
      <4>5. ASSUME i \in DOMAIN db["log"] PROVE Place(db["log"][i]) = Place(wrote[i])
        <5>1. i \in DOMAIN s.seen["log"] /\ s.seen["log"][i].asset = a /\ s.seen["log"][i].month = q.month
          BY <4>5, <3>4
        <5>2. Thing("log", s.seen["log"][i]) = <<"asset", a>>
          BY <5>1 DEF Thing, Ref
        <5>3. db["log"][i] = s.seen["log"][i]
          BY <5>1, <5>2, <4>2, <3>6, <2>8 DEF AgreeOn
        <5> QED BY <5>1, <5>3, <3>1 DEF Place
      <4> QED BY <4>4, <4>5
    <3>8. \A i \in DOMAIN wrote : wrote[i].value \in Values
      BY <3>6 DEF Rows
    <3> DEFINE m == q.month
    <3>9. /\ m \in Months
          /\ \A i \in DOMAIN wrote :
               /\ wrote[i].month = m /\ wrote[i].value \in Values
               /\ wrote[i].asset \in AssetsThat(db["asset"], FALSE)
          /\ \A i \in DOMAIN wrote \cap DOMAIN db["log"] : Place(db["log"][i]) = Place(wrote[i])
      BY <3>1, <3>2, <3>7, <3>8
    <3> HIDE DEF m
    <3>10. \A i, j \in DOMAIN wrote : wrote[i].asset = wrote[j].asset => i = j
      BY <3>4
    <3>11. \A i \in DOMAIN wrote :
             /\ wrote[i].month = m /\ wrote[i].value \in Values
             /\ wrote[i].asset \in AssetsThat(db["asset"], FALSE)
      BY <3>9
    <3>12. \A i \in DOMAIN wrote \cap DOMAIN db["log"] : Place(db["log"][i]) = Place(wrote[i])
      BY <3>9
    <3>13. m \in Months /\ Placed(db["log"])
      BY <3>9, <2>6
    <3> QED BY <3>5, <3>10, <3>11, <3>12, <3>13, <2>7, PromisePosted
  <2> QED BY <2>1, <2>11, <2>12, <2>13, <2>14, <2>15, <2>16, <2>17 DEF Alters
<1> QED BY <1>2, <1>3

LEMMA InitPromised ==
  ASSUME Init
  PROVE  Promise!Init
<1>1. IInv
  BY InitEstablishesIInv
<1>2. raced = {}
  BY DEF Init
<1>3. /\ next \in [Tables -> Nat \ {0}] /\ AreTables(db, next)
      /\ Unique(db, {}) /\ Anchored(db, {})
  BY <1>1, <1>2 DEF IInv, Types
<1>4. /\ Placed(db["log"])
      /\ \A i \in DOMAIN db["log"] :
           LET row == db["log"][i] IN
           row.asset \in DOMAIN db["asset"] /\ row.month \in Months /\ row.value \in Values
      /\ \A a \in DOMAIN db["asset"] : db["asset"][a].closed \in BOOLEAN
  BY <1>3, Unraced
<1>5. /\ AssetsThat(db["asset"], FALSE) \cap AssetsThat(db["asset"], TRUE) = {}
      /\ Promise!Assets = DOMAIN db["asset"]
  BY <1>4, AssetsAre DEF Promise!Assets
<1> DEFINE f == Entries(db["log"])
<1>6. ASSUME NEW k \in DOMAIN f
      PROVE  k[1] \in Promise!Assets /\ k[2] \in Months /\ f[k] \in Values
  <2>1. /\ DOMAIN f = {Place(db["log"][i]) : i \in DOMAIN db["log"]}
        /\ \A i \in DOMAIN db["log"] : f[Place(db["log"][i])] = db["log"][i].value
    BY <1>4, EntriesAre
  <2> HIDE DEF f
  <2>2. PICK i \in DOMAIN db["log"] : k = Place(db["log"][i])
    BY <2>1
  <2>3. k[1] = db["log"][i].asset /\ k[2] = db["log"][i].month
    BY <2>2 DEF Place
  <2> QED BY <2>1, <2>2, <2>3, <1>4, <1>5
<1> QED BY <1>5, <1>6 DEF Promise!Init

\* The handlers implement LedgerPromise as long as no requests have overlapped:
\* whatever else is in flight and wherever a request is cut short, each step
\* records one month for open assets, moves an entry to a free place, removes an
\* entry, clears, closes, reopens, adds or discards one asset, or changes nothing.
THEOREM Refines == Spec => KeepsPromise
<1>1. Init => Promise!Init
  BY InitPromised
<1>2. IInv /\ [Next]_vars => [raced' = {} => UNCHANGED Promise!vars \/ Promise!Next]_vars
  BY StepPromised DEF Promised
<1> QED BY <1>1, <1>2, Invariant, PTL DEF Spec, KeepsPromise
=============================================================================
