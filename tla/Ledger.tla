------------------------------- MODULE Ledger -------------------------------
(***************************************************************************)
(* The ledger: classes, assets, monthly log entries and payments, as the   *)
(* API handlers of internal/httpapi change them through the repositories   *)
(* of internal/storage/mysql.                                              *)
(*                                                                         *)
(* Every request is a goroutine, and each of its SQL statements is atomic  *)
(* on its own: nothing but POST /api/v1/logs runs in a transaction, and    *)
(* the tables have neither foreign nor unique keys (migrations/*.sql), so  *)
(* a check and the write it protects are separate steps.  One action is    *)
(* one statement of one request.  A transaction reads the snapshot of its  *)
(* first statement and its own writes (REPEATABLE READ); its writes lock   *)
(* their rows and appear to the others when it commits.                    *)
(*                                                                         *)
(* The data is abstracted: a name, a month and a value are model values,   *)
(* an entry's deposit and value change together, and the requests are      *)
(* those the decoding and the validation of the handlers let through.  The *)
(* read that ends a handler to answer with the stored row changes nothing  *)
(* and is left out.                                                        *)
(***************************************************************************)
EXTENDS Integers, Sequences

CONSTANTS
  Clients,      \* the requests in flight at a time
  Requests,     \* what a client may ask, see Request below
  StartDb,      \* the database at the outset: a sequence of rows per table
  Names,        \* descriptions
  Months,
  Values,
  NoRequest,
  MaxRequests   \* bound on the requests sent

(***************************************************************************)
(* Tables.  A row belongs to the thing its table's Ref names: an asset to   *)
(* its class, entries and payments to their asset, a class to its name.     *)
(***************************************************************************)
Tables == {"class", "asset", "log", "payment"}
Linked == Tables \ {"class"}

Rows == [class   |-> [name : Names],
         asset   |-> [class : Nat, name : Names, closed : BOOLEAN],
         log     |-> [asset : Nat, month : Months, value : Values],
         payment |-> [asset : Nat, value : Values]]

Fields == [class |-> {"name"}, asset |-> {"class", "name", "closed"},
           log |-> {"asset", "month", "value"}, payment |-> {"asset", "value"}]
Type == [name |-> Names, class |-> Nat, closed |-> BOOLEAN,
         asset |-> Nat, month |-> Months, value |-> Values]

Ref == [class |-> "name", asset |-> "class", log |-> "asset", payment |-> "asset"]

\* What the repositories keep unique, by looking before they write.
Key == [class |-> {"name"}, asset |-> {"class", "name"}, log |-> {"asset", "month"}]
SameKey(t, row, other) == \A f \in Key[t] : row[f] = other[f]

\* f, and g where f has nothing.
Over(f, g) == [x \in DOMAIN f \cup DOMAIN g |-> IF x \in DOMAIN f THEN f[x] ELSE g[x]]

NoRows == [i \in {} |-> {}]
NoTables == [t \in Tables |-> NoRows]
Only(i, row) == [j \in {i} |-> row]
Without(table, I) == [i \in DOMAIN table \ I |-> table[i]]

\* The things a row, or the fields given of one, belong to.
Refs(t, row) == IF Ref[t] \in DOMAIN row THEN {<<Ref[t], row[Ref[t]]>>} ELSE {}

\* The rows of these tables are unique and refer to rows that are there, but for
\* what belongs to the things in R.
Unique(tables, R) ==
  \A t \in DOMAIN Key : \A i, j \in DOMAIN tables[t] :
    SameKey(t, tables[t][i], tables[t][j]) => i = j \/ Refs(t, tables[t][i]) \subseteq R
Anchored(tables, R) ==
  \A t \in Linked : \A i \in DOMAIN tables[t] :
    tables[t][i][Ref[t]] \in DOMAIN tables[Ref[t]] \/ Refs(t, tables[t][i]) \subseteq R

(***************************************************************************)
(* Requests, named for their handlers:                                     *)
(*   [op : "create", table, row]         POST; a new asset is open         *)
(*   [op : "patch", table, id, set]      PATCH, set holds the fields given *)
(*   [op : "setClosed", table, id, set]  POST /assets/{id}/close, /reopen  *)
(*   [op : "delete", table, id, force]   DELETE                            *)
(*   [op : "batch", table, month, replace, rows]   POST /logs, where rows  *)
(*       is a sequence of [asset, value, payment], payment telling whether *)
(*       the row carries one; the assets are different ones                *)
(***************************************************************************)
CreateRequest(t) == [op : {"create"}, table : {t}, row : Rows[t]]
CloseRequest == [op : {"setClosed"}, table : {"asset"}, id : Nat, set : [closed : BOOLEAN]]
DeleteRequest == [op : {"delete"}, table : Tables, id : Nat, force : BOOLEAN]
BatchRequest == [op : {"batch"}, table : {"log"}, month : Months, replace : BOOLEAN,
                 rows : Seq([asset : Nat, value : Values, payment : BOOLEAN])]

IsPatch(q) ==
  /\ q = [op |-> "patch", table |-> q.table, id |-> q.id, set |-> q.set]
  /\ q.table \in Tables /\ q.id \in Nat
  /\ DOMAIN q.set \subseteq Fields[q.table]
  /\ \A f \in DOMAIN q.set : q.set[f] \in Type[f]

IsRequest(q) ==
  CASE q.op = "create" -> /\ \E t \in Tables \ {"log"} : q \in CreateRequest(t)
                          /\ q.table = "asset" => ~q.row.closed
    [] q.op = "patch" -> IsPatch(q)
    [] q.op = "setClosed" -> q \in CloseRequest
    [] q.op = "delete" -> q \in DeleteRequest
    [] q.op = "batch" -> /\ q \in BatchRequest /\ q.rows # <<>>
                         /\ \A m, n \in 1 .. Len(q.rows) : q.rows[m].asset = q.rows[n].asset => m = n
    [] OTHER -> FALSE

ASSUME ConstantsAssumption ==
  /\ \A q \in Requests : IsRequest(q)
  /\ NoRequest \notin Requests
  /\ MaxRequests \in Nat

ASSUME StartAssumption ==
  /\ StartDb = [t \in Tables |-> StartDb[t]]
  /\ \A t \in Tables : StartDb[t] \in Seq(Rows[t])
  /\ Unique(StartDb, {}) /\ Anchored(StartDb, {})

VARIABLES
  db,      \* the committed rows of each table, by id
  next,    \* the AUTO_INCREMENT of each table
  client,  \* the request each client has in flight, see Idle
  raced,   \* history: what overlapping requests have concerned
  sent     \* how many requests have been sent

vars == <<db, next, client, raced, sent>>

\* The state of a handler: its request, the statements it has still to issue,
\* the row it is about to write, what the request concerns; of a batch the row
\* being handled, the snapshot its transaction reads and the rows it has written.
Idle == [req |-> NoRequest, todo |-> <<>>, draft |-> NoRows, scope |-> {},
         row |-> 1, seen |-> NoTables, wrote |-> NoTables]

Init ==
  /\ db = StartDb
  /\ next = [t \in Tables |-> Len(StartDb[t]) + 1]
  /\ client = [c \in Clients |-> Idle]
  /\ raced = {}
  /\ sent = 0

Req(c) == client[c].req
Busy(c) == Req(c) # NoRequest

-----------------------------------------------------------------------------
(* The statements of each handler.                                         *)

\* The repositories: getClass or getAsset, then a COUNT, assetExists or
\* FindByAssetMonth, then the write.
ClassCreate == <<"unique", "insert">>
ClassUpdate == <<"exists", "unique", "update">>
ClassDelete == <<"exists", "count">>
AssetCreate == <<"parent", "unique", "insert">>
AssetUpdate == <<"exists", "parent", "unique", "update">>
AssetSetClosed == <<"exists", "flag">>
AssetDelete == <<"exists", "count">>
LogUpdate == <<"exists", "parent", "unique", "update">>
LogDelete == <<"exists", "delete">>
PaymentCreate == <<"parent", "insert">>
PaymentUpdate == <<"exists", "parent", "update">>
PaymentDelete == <<"exists", "delete">>

\* The handlers: a PATCH reads the row for itself first.
handleClassesCreate == ClassCreate
handleClassesUpdate == <<"read", "exists", "unique", "update">>
handleClassesDelete == ClassDelete
handleAssetsCreate == AssetCreate
handleAssetsUpdate == <<"read", "exists", "parent", "unique", "update">>
handleAssetsDelete == AssetDelete
setAssetClosed == AssetSetClosed
handleLogsCreate == <<"begin", "rows", "commit">>
handleLogsUpdate == <<"read", "exists", "parent", "unique", "update">>
handleLogsDelete == LogDelete
handlePaymentsCreate == PaymentCreate
handlePaymentsUpdate == <<"read", "exists", "parent", "update">>
handlePaymentsDelete == PaymentDelete

Program(q) ==
  CASE q.op = "create" -> [class |-> handleClassesCreate, asset |-> handleAssetsCreate,
                           payment |-> handlePaymentsCreate][q.table]
    [] q.op = "patch" -> [class |-> handleClassesUpdate, asset |-> handleAssetsUpdate,
                          log |-> handleLogsUpdate, payment |-> handlePaymentsUpdate][q.table]
    [] q.op = "setClosed" -> setAssetClosed
    [] q.op = "delete" -> [class |-> handleClassesDelete, asset |-> handleAssetsDelete,
                           log |-> handleLogsDelete, payment |-> handlePaymentsDelete][q.table]
    [] q.op = "batch" -> handleLogsCreate

\* The rows a request names, and what they belong to before and after it.
Stored(q) == IF q.id \in DOMAIN db[q.table] THEN db[q.table][q.id] ELSE NoRows
Scope(q) ==
  CASE q.op = "batch" -> {<<"asset", q.rows[n].asset>> : n \in 1 .. Len(q.rows)}
    [] q.op = "create" -> Refs(q.table, q.row)
    [] q.op = "patch" -> {<<q.table, q.id>>} \cup Refs(q.table, Stored(q)) \cup Refs(q.table, q.set)
    [] OTHER -> {<<q.table, q.id>>} \cup Refs(q.table, Stored(q))

\* c's request turns out to concern S: if another request in flight concerns
\* some of it, that is a race for all that either concerns.
Overlapping(c, S) == {d \in Clients \ {c} : client[d].scope \cap S # {}}
Racing(c, S) ==
  IF Overlapping(c, S) = {} THEN raced
  ELSE raced \cup S \cup UNION {client[d].scope : d \in Overlapping(c, S)}

Send(c, q) ==
  /\ ~Busy(c) /\ sent < MaxRequests
  /\ sent' = sent + 1
  /\ client' = [client EXCEPT ![c] =
                  [Idle EXCEPT !.req = q, !.todo = Program(q), !.scope = Scope(q),
                               !.draft = IF q.op = "create" THEN q.row ELSE NoRows]]
  /\ raced' = Racing(c, Scope(q))
  /\ UNCHANGED <<db, next>>

At(c, label) == Busy(c) /\ Head(client[c].todo) = label

\* The handler goes on in state s, or answers when nothing is left to do.
Become(c, s) == client' = [client EXCEPT ![c] = IF s.todo = <<>> THEN Idle ELSE s]
Proceed(c) == Become(c, [client[c] EXCEPT !.todo = Tail(@)])
End(c) == client' = [client EXCEPT ![c] = Idle]

Table(c) == db[Req(c).table]

-----------------------------------------------------------------------------
(* Reads outside a transaction.                                            *)

\* Mutant: the fields not given are reset, as PUT would.
MergeAll(t, set, row) == Over(set, IF t = "asset" THEN [row EXCEPT !.closed = FALSE] ELSE row)
\* PATCH keeps the fields that are not given.
Merge(t, set, row) == Over(set, row)

\* The PATCH handler reads the row and merges the fields given into it.
Read(c) ==
  /\ At(c, "read")
  /\ IF Req(c).id \in DOMAIN Table(c)
     THEN Become(c, [client[c] EXCEPT
                       !.todo = Tail(@),
                       !.draft = Merge(Req(c).table, Req(c).set, Table(c)[Req(c).id])])
     ELSE End(c)
  /\ UNCHANGED <<db, next, raced, sent>>

Draft(c) == client[c].draft

\* A check that fails answers 404 or 409.
Check(c, label, ok) ==
  /\ At(c, label)
  /\ IF ok THEN Proceed(c) ELSE End(c)
  /\ UNCHANGED <<db, next, raced, sent>>

Exists(c) == Check(c, "exists", Req(c).id \in DOMAIN Table(c))

ParentExists(c) ==
  LET p == Ref[Req(c).table] IN Check(c, "parent", Draft(c)[p] \in DOMAIN db[p])

\* Mutant: an update does not look for another row.
OthersOnCreate(c) == IF Req(c).op = "create" THEN DOMAIN Table(c) ELSE {}
\* The rows a new or an updated row must not collide with.
Others(c) == IF Req(c).op = "create" THEN DOMAIN Table(c) ELSE DOMAIN Table(c) \ {Req(c).id}

\* The rows with the key of the row to be written.
Same(c) == {i \in DOMAIN Table(c) : SameKey(Req(c).table, Table(c)[i], Draft(c))}

NoOther(c) == Check(c, "unique", Same(c) \cap Others(c) = {})

\* FindByAssetMonth takes the latest entry: of several, that may be the entry
\* itself.
ItselfFound(c) ==
  /\ At(c, "unique") /\ Req(c).table = "log"
  /\ Same(c) \ Others(c) # {} /\ Same(c) \cap Others(c) # {}
  /\ Check(c, "unique", TRUE)

\* The rows that refer to row i of table t.
Dependents(tables, u, t, i) == {j \in DOMAIN tables[u] : tables[u][j][t] = i}

Counted(c, u) == Dependents(db, u, "asset", Req(c).id) # {}

\* Mutant: the asset goes first.
CascadeParentFirst(c) ==
  IF Counted(c, "log") THEN <<"delete", "deleteLogs">> ELSE <<"delete">>
\* What a forced asset delete does, by what it has counted.
Cascade(c) ==
  IF Counted(c, "log") /\ Counted(c, "payment") THEN <<"deleteLogs", "deletePayments", "delete">>
  ELSE IF Counted(c, "log") THEN <<"deleteLogs", "delete">>
  ELSE IF Counted(c, "payment") THEN <<"deletePayments", "delete">>
  ELSE <<"delete">>

\* Mutant: force is not looked at.
AlwaysAllowed(c) == TRUE
\* A class must have no assets; an asset no history, unless forced.
DeleteAllowed(c) ==
  IF Req(c).table = "class"
  THEN Dependents(db, "asset", "class", Req(c).id) = {}
  ELSE Req(c).force \/ \A u \in {"log", "payment"} : Dependents(db, u, "asset", Req(c).id) = {}

Count(c) ==
  /\ At(c, "count")
  /\ IF DeleteAllowed(c)
     THEN Become(c, [client[c] EXCEPT !.todo = IF Req(c).table = "class"
                                               THEN <<"delete">> ELSE Cascade(c)])
     ELSE End(c)
  /\ UNCHANGED <<db, next, raced, sent>>

-----------------------------------------------------------------------------
(* Writes outside a transaction.  A statement waits for the rows another    *)
(* client's transaction has written.                                       *)

Locked(c, t, I) == \E d \in Clients \ {c} : DOMAIN client[d].wrote[t] \cap I # {}

\* The rows of the asset, those not yet committed included.
Claimed(t, a) ==
  Dependents(db, t, "asset", a) \cup UNION {Dependents(client[d].wrote, t, "asset", a) : d \in Clients}

Write(c, t, table) ==
  /\ db' = [db EXCEPT ![t] = table]
  /\ Proceed(c)
  /\ UNCHANGED sent

Insert(c) ==
  LET t == Req(c).table IN
  /\ At(c, "insert")
  /\ Write(c, t, Over(Only(next[t], Draft(c)), db[t]))
  /\ next' = [next EXCEPT ![t] = @ + 1]
  /\ raced' = Racing(c, client[c].scope \cup {<<t, next[t]>>})

\* UPDATE ... WHERE id = i; a row deleted meanwhile stays deleted.
Put(table, i, row) == IF i \in DOMAIN table THEN [table EXCEPT ![i] = row] ELSE table

Update(c) ==
  LET t == Req(c).table IN
  /\ At(c, "update") /\ ~Locked(c, t, {Req(c).id})
  /\ Write(c, t, Put(db[t], Req(c).id, Draft(c)))
  /\ UNCHANGED <<next, raced>>

SetClosed(c) ==
  /\ At(c, "flag")
  /\ Write(c, "asset", Put(db.asset, Req(c).id, Over(Req(c).set, db.asset[Req(c).id])))
  /\ UNCHANGED <<next, raced>>

DeleteHistory(c, label, t) ==
  /\ At(c, label) /\ ~Locked(c, t, Claimed(t, Req(c).id))
  /\ Write(c, t, Without(db[t], Dependents(db, t, "asset", Req(c).id)))
  /\ UNCHANGED <<next, raced>>

DeleteLogs(c) == DeleteHistory(c, "deleteLogs", "log")
DeletePayments(c) == DeleteHistory(c, "deletePayments", "payment")

Delete(c) ==
  LET t == Req(c).table IN
  /\ At(c, "delete") /\ ~Locked(c, t, {Req(c).id})
  /\ Write(c, t, Without(db[t], {Req(c).id}))
  /\ UNCHANGED <<next, raced>>

-----------------------------------------------------------------------------
(* POST /api/v1/logs: one transaction for all rows.                        *)

\* From its snapshot on, a batch concerns the entries that are there already.
Posted(c) == {i \in DOMAIN db.log : /\ <<"asset", db.log[i].asset>> \in client[c].scope
                                    /\ db.log[i].month = Req(c).month}
Begin(c) ==
  LET scope == client[c].scope \cup {<<"log", i>> : i \in Posted(c)} IN
  /\ At(c, "begin")
  /\ Become(c, [client[c] EXCEPT !.todo = Tail(@), !.seen = db, !.scope = scope])
  /\ raced' = Racing(c, scope)
  /\ UNCHANGED <<db, next, sent>>

\* The row being handled.
Entry(c) == Req(c).rows[client[c].row]

Seen(c, t) == Over(client[c].wrote[t], client[c].seen[t])
AssetSeen(c) == Entry(c).asset \in DOMAIN Seen(c, "asset")
ClosedSeen(c) == Seen(c, "asset")[Entry(c).asset].closed

\* FindByAssetMonth, which takes the latest of several.
Found(c) == {i \in DOMAIN Seen(c, "log") : /\ Seen(c, "log")[i].asset = Entry(c).asset
                                           /\ Seen(c, "log")[i].month = Req(c).month}

Inserted(c) == IF Entry(c).payment
               THEN Only(next.payment, [asset |-> Entry(c).asset, value |-> Entry(c).value])
               ELSE NoRows

\* The AUTO_INCREMENTs once those rows are in.
Incremented(c, logs) ==
  [next EXCEPT !.log = IF next.log \in DOMAIN logs THEN @ + 1 ELSE @,
               !.payment = IF Entry(c).payment THEN @ + 1 ELSE @]

\* The transaction has written wrote and goes on to the next row, or to its end.
NextRow(c, wrote) ==
  Become(c, [client[c] EXCEPT !.row = @ + 1,
                              !.todo = IF client[c].row = Len(Req(c).rows) THEN Tail(@) ELSE @,
                              !.wrote = wrote])

\* Mutant: the closure uses the repositories outside the transaction.
RowAutocommitted(c, logs) ==
  /\ NextRow(c, client[c].wrote)
  /\ db' = [db EXCEPT !.log = Over(logs, @), !.payment = Over(Inserted(c), @)]
  /\ next' = Incremented(c, logs)
  /\ UNCHANGED <<raced, sent>>

\* The row's log statement has put logs; its payment, if any, is inserted too.
RowDone(c, logs) ==
  /\ NextRow(c, [client[c].wrote EXCEPT !.log = Over(logs, @), !.payment = Over(Inserted(c), @)])
  /\ next' = Incremented(c, logs)
  /\ UNCHANGED <<db, raced, sent>>

\* An unknown asset fails the request and rolls back the rows before it.
RowUnknown(c) ==
  /\ At(c, "rows") /\ ~AssetSeen(c)
  /\ End(c)
  /\ UNCHANGED <<db, next, raced, sent>>

RowClosed(c) ==
  /\ At(c, "rows") /\ AssetSeen(c) /\ ClosedSeen(c)
  /\ NextRow(c, client[c].wrote)
  /\ UNCHANGED <<db, next, raced, sent>>

RowSkipped(c) ==
  /\ At(c, "rows") /\ AssetSeen(c) /\ ~ClosedSeen(c)
  /\ Found(c) # {} /\ ~Req(c).replace
  /\ RowDone(c, NoRows)

\* Mutant: two of the statement's arguments are swapped.
NewEntrySwapped(c) == [asset |-> Entry(c).asset, month |-> Entry(c).value, value |-> Req(c).month]
NewEntry(c) == [asset |-> Entry(c).asset, month |-> Req(c).month, value |-> Entry(c).value]

\* The UPDATE writes the row as the snapshot has it, if it is still there.
RowReplaced(c) ==
  /\ At(c, "rows") /\ AssetSeen(c) /\ ~ClosedSeen(c)
  /\ Req(c).replace
  /\ \E i \in Found(c) :
       /\ ~Locked(c, "log", {i})
       /\ RowDone(c, IF i \in DOMAIN db.log THEN Only(i, NewEntry(c)) ELSE NoRows)

RowInserted(c) ==
  /\ At(c, "rows") /\ AssetSeen(c) /\ ~ClosedSeen(c)
  /\ Found(c) = {}
  /\ RowDone(c, Only(next.log, NewEntry(c)))

\* Mutant: the snapshot is written back with the rows.
CommittedWithSnapshot(c, t) == Over(client[c].wrote[t], Over(client[c].seen[t], db[t]))
Committed(c, t) == Over(client[c].wrote[t], db[t])

Commit(c) ==
  /\ At(c, "commit")
  /\ db' = [t \in Tables |-> Committed(c, t)]
  /\ End(c)
  /\ raced' = Racing(c, client[c].scope
                          \cup UNION {{t} \X DOMAIN client[c].wrote[t] : t \in Tables})
  /\ UNCHANGED <<next, sent>>

-----------------------------------------------------------------------------
(* Failures.                                                               *)

\* The process dies or the browser goes away, which cancels the context of the
\* statements to come: a transaction is rolled back, and the statements that
\* ran outside of one stay.
Interrupted(c) ==
  /\ Busy(c)
  /\ End(c)
  /\ UNCHANGED <<db, next, raced, sent>>

\* The rows the next statement must lock.
Needs(c) ==
  CASE Head(client[c].todo) \in {"update", "delete"} -> {<<Req(c).table, Req(c).id>>}
    [] At(c, "deleteLogs") -> {"log"} \X Claimed("log", Req(c).id)
    [] At(c, "deletePayments") -> {"payment"} \X Claimed("payment", Req(c).id)
    [] At(c, "rows") /\ Req(c).replace -> {"log"} \X Found(c)
    [] OTHER -> {}

\* Mutant: a waiting statement waits for ever.
NeverWaits(c) == FALSE
Waits(c) == Busy(c) /\ \E n \in Needs(c) : Locked(c, n[1], {n[2]})

\* The server makes a waiting statement fail, as the victim of a deadlock or
\* when the lock wait times out.
LockWaitFails(c) ==
  /\ Waits(c)
  /\ End(c)
  /\ UNCHANGED <<db, next, raced, sent>>

Step(c) ==
  \/ Read(c) \/ Exists(c) \/ ParentExists(c) \/ NoOther(c) \/ ItselfFound(c) \/ Count(c)
  \/ Insert(c) \/ Update(c) \/ SetClosed(c)
  \/ DeleteLogs(c) \/ DeletePayments(c) \/ Delete(c)
  \/ Begin(c) \/ RowUnknown(c) \/ RowClosed(c) \/ RowSkipped(c)
  \/ RowReplaced(c) \/ RowInserted(c) \/ Commit(c)
  \/ LockWaitFails(c)

\* The bound on requests is reached and all are answered.
Quiet ==
  /\ sent = MaxRequests /\ \A c \in Clients : ~Busy(c)
  /\ UNCHANGED vars

Next ==
  \/ \E c \in Clients : Step(c) \/ Interrupted(c) \/ \E q \in Requests : Send(c, q)
  \/ Quiet

Spec == Init /\ [][Next]_vars

\* The server answers every statement.
FairSpec == Spec /\ \A c \in Clients : WF_vars(Step(c))

-----------------------------------------------------------------------------
(* Properties.  "Not raced" means: no two overlapping requests have        *)
(* concerned it so far; each property says what the checks before each     *)
(* write are worth then, whatever other requests do elsewhere and wherever *)
(* requests are cut short.                                                 *)

\* Every variable has its type: ids come from AUTO_INCREMENT, a transaction
\* writes log entries and payments only, and a handler that is about to write
\* a row has one.
TypeOK ==
  /\ \A t \in Tables : /\ next[t] \in Nat \ {0}
                       /\ DOMAIN db[t] \subseteq 1 .. next[t] - 1
                       /\ \A i \in DOMAIN db[t] : db[t][i] \in Rows[t]
  /\ \A c \in Clients :
       /\ Req(c) \in Requests \cup {NoRequest}
       /\ Busy(c) <=> client[c].todo # <<>>
       /\ \A t \in Tables : /\ DOMAIN client[c].wrote[t] \subseteq 1 .. next[t] - 1
                            /\ \A i \in DOMAIN client[c].wrote[t] : client[c].wrote[t][i] \in Rows[t]
       /\ \A t \in {"class", "asset"} : client[c].wrote[t] = NoRows
       /\ At(c, "update") => Draft(c) \in Rows[Req(c).table]
  /\ sent \in 0 .. MaxRequests

\* What is not raced is unique, although the checks of POST and PATCH are queries
\* of their own and another client may commit between the check and the write:
\* the name of a class, the name of an asset in its class, and the entry of an
\* asset in a month (docs/api.md:184).
KeysAreUnique == Unique(db, raced)

\* No row refers to a missing one: not after a forced delete that is cut short
\* between its three DELETEs (assets.go:189-199), nor after a PATCH that moves
\* an entry or an asset.
NoOrphans == Anchored(db, raced)

\* c takes this step.
By(c) == client'[c] # client[c]

\* A PATCH changes none of the fields it was not given (docs/api.md:131),
\* although it writes every column of a row it read four statements earlier.
PatchKeepsTheRest ==
  [][\A c \in Clients :
       By(c) /\ Busy(c) /\ Req(c).op = "patch" /\ db' # db =>
         LET t == Req(c).table  old == db[t][Req(c).id]  new == db'[t][Req(c).id] IN
         \A f \in DOMAIN old \ DOMAIN Req(c).set :
           new[f] = old[f] \/ \E s \in client[c].scope : s \in raced]_vars

EntriesOf(tables, a, m) ==
  {i \in DOMAIN tables.log : tables.log[i].asset = a /\ tables.log[i].month = m}

\* POST /api/v1/logs writes all its rows or none: when it changes the database,
\* every row for an open asset that is not raced has an entry, which bears the
\* row's value if there was none before or it was to be replaced.
BatchIsAtomic ==
  [][\A c \in Clients :
       By(c) /\ Busy(c) /\ Req(c).op = "batch" /\ db' # db =>
         \A n \in 1 .. Len(Req(c).rows) :
           LET a == Req(c).rows[n].asset
               before == EntriesOf(db, a, Req(c).month)
               after == EntriesOf(db', a, Req(c).month)
           IN
           <<"asset", a>> \in raced \/ db.asset[a].closed
           \/ /\ after # {}
              /\ before = {} \/ Req(c).replace =>
                   \A i \in after : db'.log[i].value = Req(c).rows[n].value]_vars

\* Raced or not, a deleted row stays deleted: no late PATCH, batch or close that
\* read it before brings it back.  And entries and payments disappear by their
\* own DELETE and by a forced delete of their asset (docs/api.md:139), never by
\* anything else.
HistoryKept ==
  [][/\ \A t \in Tables : \A i \in DOMAIN db'[t] \ DOMAIN db[t] :
          i >= next[t] \/ \E c \in Clients : i \in DOMAIN client[c].wrote[t]
     /\ \A t \in {"log", "payment"} : \A i \in DOMAIN db[t] \ DOMAIN db'[t] :
          \E c \in Clients : /\ By(c) /\ Busy(c) /\ Req(c).op = "delete"
                             /\ \/ Req(c).table = t /\ Req(c).id = i
                                \/ Req(c).table = "asset" /\ Req(c).force]_db

\* Every request is answered: transactions that wait for each other's rows do
\* not wait for ever.
EveryRequestAnswered == \A c \in Clients : Busy(c) ~> ~Busy(c)

-----------------------------------------------------------------------------
(* What docs/api.md says, raced or not.                                    *)

\* "One entry per asset per month (enforced)" (docs/api.md:184).
OneEntryPerAssetPerMonth ==
  \A i, j \in DOMAIN db.log :
    db.log[i].asset = db.log[j].asset /\ db.log[i].month = db.log[j].month => i = j

-----------------------------------------------------------------------------
(* The ledger as the statistics and the pages see it: LedgerPromise.       *)

Place(row) == <<row.asset, row.month>>
EntryAt(logs, k) == CHOOSE i \in DOMAIN logs : Place(logs[i]) = k
Entries(logs) ==
  [k \in {Place(logs[i]) : i \in DOMAIN logs} |-> logs[EntryAt(logs, k)].value]

AssetsThat(assets, closed) == {a \in DOMAIN assets : assets[a].closed = closed}

Promise == INSTANCE LedgerPromise WITH
             open <- AssetsThat(db.asset, FALSE), closed <- AssetsThat(db.asset, TRUE),
             entry <- Entries(db.log)

\* As long as no requests have overlapped on the same rows, the ledger keeps its
\* promise, whatever else is in flight and wherever a request is cut short: each
\* step of each handler is one atomic operation of LedgerPromise or none.
KeepsPromise ==
  Promise!Init /\ [][raced' = {} => UNCHANGED Promise!vars \/ Promise!Next]_vars
=============================================================================
