------------------------------ MODULE Settings ------------------------------
(***************************************************************************)
(* The settings: a table of keys, and in every server process a            *)
(* write-through cache of it (internal/settings/settings.go) which the     *)
(* basic-auth gate, the statistics and the projections card read.          *)
(*                                                                         *)
(* A server loads the whole table on first use and never again; every      *)
(* write goes to the table first and then to the cache of the server that  *)
(* serves it.  Neither the load nor a write holds the mutex across its SQL *)
(* statement, and servers do not tell each other.  One action is one SQL   *)
(* statement or one critical section.                                      *)
(*                                                                         *)
(* A value is the set of amounts it lists, the empty string no amounts     *)
(* (views/projections.go parseStoredTargets, marshalTargets).  A           *)
(* description is written the way the display flag is, and left out.  Every*)
(* request passes the gate, which reads the cache when the environment     *)
(* does not set the credentials; no observer is registered.                *)
(***************************************************************************)
EXTENDS Integers, Sequences

CONSTANTS
  Servers,      \* the processes that share the database
  Clients,      \* the requests in flight at a time
  Keys,
  Amounts,
  Default,      \* the built-in default of each key
  Requests,     \* what a client may ask, see below
  StartStore,   \* the table at the outset
  NoRequest,
  MaxRequests   \* bound on the requests sent

Contents == SUBSET Amounts
Rows == [value : Contents, display : BOOLEAN]
NoRows == [k \in {} |-> {}]
Without(f, k) == [x \in DOMAIN f \ {k} |-> f[x]]
Put(f, k, v) == [x \in DOMAIN f \cup {k} |-> IF x = k THEN v ELSE f[x]]
\* Some keys, each with an element of S.
IsTable(f, S) == DOMAIN f \subseteq Keys /\ f \in [DOMAIN f -> S]

(***************************************************************************)
(* Requests, named for their handlers:                                     *)
(*   [op : "read"]                 any page or call that writes no setting *)
(*   [op : "add", key, amounts]    the projections card: saveTargets       *)
(*   [op : "remove", key, amount]  deleteTarget                            *)
(*   [op : "post", key, row]       POST /api/v1/settings/{key}             *)
(*   [op : "patch", key, set]      PATCH; set holds value, display or both *)
(*   [op : "delete", key]          DELETE                                  *)
(***************************************************************************)
Changes == [value : Contents] \cup [display : BOOLEAN] \cup Rows

RequestRecords ==
  [op : {"read"}]
  \cup [op : {"add"}, key : Keys, amounts : Contents]
  \cup [op : {"remove"}, key : Keys, amount : Amounts]
  \cup [op : {"post"}, key : Keys, row : Rows]
  \cup [op : {"patch"}, key : Keys, set : Changes]
  \cup [op : {"delete"}, key : Keys]

ASSUME ConstantsAssumption ==
  /\ Default \in [Keys -> Contents]
  /\ IsTable(StartStore, Rows)
  /\ Requests \subseteq RequestRecords
  /\ NoRequest \notin Requests
  /\ MaxRequests \in Nat

VARIABLES
  store,   \* the settings table
  cache,   \* the cache of each server
  loaded,  \* whether it has been loaded
  client,  \* the request each client has in flight, see Idle
  suspect, \* history: <<server, key>> whose cache an overlap may have spoilt
  sent     \* how many requests have been sent

vars == <<store, cache, loaded, client, suspect, sent>>

\* A handler: its request and its server, what it has still to do, the rows a
\* load has fetched, the value to write, and whether its load failed.
Idle == [req |-> NoRequest, server |-> {}, todo |-> <<>>, seen |-> NoRows,
         draft |-> {}, blind |-> FALSE]

Init ==
  /\ store = StartStore
  /\ cache = [s \in Servers |-> NoRows]
  /\ loaded = [s \in Servers |-> FALSE]
  /\ client = [c \in Clients |-> Idle]
  /\ suspect = {}
  /\ sent = 0

Req(c) == client[c].req
Server(c) == client[c].server
Key(c) == Req(c).key
Busy(c) == Req(c) # NoRequest
Writes(q) == q.op # "read"
BusyWriting(c) == Busy(c) /\ Writes(Req(c))

-----------------------------------------------------------------------------
(* The steps of each handler: the gate's load first, whose last two steps a *)
(* loaded server skips.                                                    *)

Program(q) ==
  CASE q.op = "read" -> <<"load", "fetch", "install">>
    [] q.op \in {"add", "remove"} -> <<"load", "fetch", "install", "compose", "store", "cache">>
    [] q.op = "post" -> <<"load", "fetch", "install", "create", "cache">>
    [] q.op = "patch" /\ DOMAIN q.set = {"value"} ->
         <<"load", "fetch", "install", "exists", "store", "cache">>
    [] q.op = "patch" /\ DOMAIN q.set = {"display"} ->
         <<"load", "fetch", "install", "exists", "display">>
    [] q.op = "patch" /\ DOMAIN q.set = {"value", "display"} ->
         <<"load", "fetch", "install", "exists", "store", "cache", "display">>
    [] q.op = "delete" -> <<"load", "fetch", "install", "drop", "uncache">>

GivenValue(q) == CASE q.op = "post" -> q.row.value
                   [] q.op = "patch" /\ "value" \in DOMAIN q.set -> q.set.value
                   [] OTHER -> {}

\* A load is under way, or will be.
Loading(c) == \/ Head(client[c].todo) \in {"fetch", "install"}
              \/ Head(client[c].todo) = "load" /\ ~loaded[Server(c)]

\* The caches a request sent to s now may spoil, or find spoilt: a write is in
\* flight together with another write of the key, with a load, or with a cache
\* of another server.
Suspects(s, q) ==
  (IF Writes(q)
   THEN {<<t, q.key>> : t \in {u \in Servers \ {s} : loaded[u] \/ \E c \in Clients : Busy(c) /\ Server(c) = u}}
        \cup UNION {{<<s, q.key>>, <<Server(c), q.key>>} :
                      c \in {d \in Clients : Busy(d) /\ (Loading(d) \/ (BusyWriting(d) /\ Key(d) = q.key))}}
   ELSE {})
  \cup {<<s, Key(c)>> : c \in {d \in Clients : BusyWriting(d) /\ (~loaded[s] \/ Server(d) # s)}}

Send(c, s, q) ==
  /\ ~Busy(c) /\ sent < MaxRequests
  /\ sent' = sent + 1
  /\ client' = [client EXCEPT ![c] = [Idle EXCEPT !.req = q, !.server = s, !.todo = Program(q),
                                                  !.draft = GivenValue(q)]]
  /\ suspect' = suspect \cup Suspects(s, q)
  /\ UNCHANGED <<store, cache, loaded>>

At(c, label) == Busy(c) /\ Head(client[c].todo) = label

\* The handler goes on in state h, or answers when nothing is left to do.
Become(c, h) == client' = [client EXCEPT ![c] = IF h.todo = <<>> THEN Idle ELSE h]
Proceed(c) == Become(c, [client[c] EXCEPT !.todo = Tail(@)])
End(c) == client' = [client EXCEPT ![c] = Idle]

-----------------------------------------------------------------------------
(* ensureLoaded.                                                           *)

Load(c) ==
  /\ At(c, "load")
  /\ IF loaded[Server(c)]
     THEN Become(c, [client[c] EXCEPT !.todo = Tail(Tail(Tail(@)))])
     ELSE Proceed(c)
  /\ UNCHANGED <<store, cache, loaded, suspect, sent>>

\* SELECT setting, value FROM settings
All == [k \in DOMAIN store |-> store[k].value]

Fetch(c) ==
  /\ At(c, "fetch")
  /\ Become(c, [client[c] EXCEPT !.todo = Tail(@), !.seen = All])
  /\ UNCHANGED <<store, cache, loaded, suspect, sent>>

\* The query fails: this request does without the cache.
FetchFails(c) ==
  /\ At(c, "fetch")
  /\ Become(c, [client[c] EXCEPT !.todo = Tail(Tail(@)), !.blind = TRUE])
  /\ UNCHANGED <<store, cache, loaded, suspect, sent>>

Install(c) ==
  /\ At(c, "install")
  /\ cache' = [cache EXCEPT ![Server(c)] = client[c].seen]
  /\ loaded' = [loaded EXCEPT ![Server(c)] = TRUE]
  /\ Become(c, [client[c] EXCEPT !.todo = Tail(@), !.seen = NoRows])
  /\ UNCHANGED <<store, suspect, sent>>

\* What Get answers from table f.
Lookup(f, k) == IF k \in DOMAIN f THEN f[k] ELSE Default[k]
Get(c) == IF client[c].blind THEN Default[Key(c)] ELSE Lookup(cache[Server(c)], Key(c))

-----------------------------------------------------------------------------
(* The writes.                                                             *)

\* saveTargets and deleteTarget start from what Get answers.
ComposeAdd(c) ==
  /\ At(c, "compose") /\ Req(c).op = "add"
  /\ Become(c, [client[c] EXCEPT !.todo = Tail(@), !.draft = Get(c) \cup Req(c).amounts])
  /\ UNCHANGED <<store, cache, loaded, suspect, sent>>

\* A target that is not listed is an error.
ComposeRemove(c) ==
  /\ At(c, "compose") /\ Req(c).op = "remove"
  /\ IF Req(c).amount \in Get(c)
     THEN Become(c, [client[c] EXCEPT !.todo = Tail(@), !.draft = Get(c) \ {Req(c).amount}])
     ELSE End(c)
  /\ UNCHANGED <<store, cache, loaded, suspect, sent>>

\* PATCH answers 404 for a key without a row, and an error if the query fails.
Exists(c) ==
  /\ At(c, "exists")
  /\ \/ Key(c) \in DOMAIN store /\ Proceed(c)
     \/ End(c)
  /\ UNCHANGED <<store, cache, loaded, suspect, sent>>

\* INSERT ... ON DUPLICATE KEY UPDATE value.
Upserted(k, value) ==
  IF k \in DOMAIN store THEN [store EXCEPT ![k].value = value]
                        ELSE Put(store, k, [value |-> value, display |-> FALSE])

StoreValue(c) ==
  /\ At(c, "store")
  /\ store' = Upserted(Key(c), client[c].draft)
  /\ Proceed(c)
  /\ UNCHANGED <<cache, loaded, suspect, sent>>

\* Mutant: a write refreshes the cache only where the key is there.
CachedIfThere(s, k, value) ==
  IF k \in DOMAIN cache[s] THEN [cache EXCEPT ![s] = Put(@, k, value)] ELSE cache
Cached(s, k, value) == [cache EXCEPT ![s] = Put(@, k, value)]

CacheValue(c) ==
  /\ At(c, "cache")
  /\ cache' = Cached(Server(c), Key(c), client[c].draft)
  /\ Proceed(c)
  /\ UNCHANGED <<store, loaded, suspect, sent>>

\* Mutant: POST inserts over a row that is there.
NeverTaken(k) == FALSE
Taken(k) == k \in DOMAIN store

\* INSERT; the primary key makes it fail for a key that has a row.
Create(c) ==
  /\ At(c, "create")
  /\ IF Taken(Key(c))
     THEN End(c) /\ UNCHANGED store
     ELSE Proceed(c) /\ store' = Put(store, Key(c), Req(c).row)
  /\ UNCHANGED <<cache, loaded, suspect, sent>>

\* Mutant: the inserted row is given no value.
DisplayedOnly(k, display) ==
  IF k \in DOMAIN store THEN [store EXCEPT ![k].display = display]
  ELSE IF display THEN Put(store, k, [display |-> TRUE])
  ELSE store

\* Opting in inserts a row that is not there, with an empty value; opting out
\* does not.
Displayed(k, display) ==
  IF k \in DOMAIN store THEN [store EXCEPT ![k].display = display]
  ELSE IF display THEN Put(store, k, [value |-> {}, display |-> TRUE])
  ELSE store

SetDisplay(c) ==
  /\ At(c, "display")
  /\ store' = Displayed(Key(c), Req(c).set.display)
  /\ Proceed(c)
  /\ UNCHANGED <<cache, loaded, suspect, sent>>

\* DELETE
Drop(c) ==
  /\ At(c, "drop")
  /\ store' = Without(store, Key(c))
  /\ Proceed(c)
  /\ UNCHANGED <<cache, loaded, suspect, sent>>

\* What the statement a write has come to makes of the table.
Effect(c) ==
  CASE At(c, "store")   -> Upserted(Key(c), client[c].draft)
    [] At(c, "create")  -> IF Taken(Key(c)) THEN store ELSE Put(store, Key(c), Req(c).row)
    [] At(c, "display") -> Displayed(Key(c), Req(c).set.display)
    [] At(c, "drop")    -> Without(store, Key(c))

\* The statement fails, or its answer is lost or cancelled when it has taken
\* effect: the service returns without touching the cache, which holds no
\* display flags.
WriteFails(c) ==
  /\ \E label \in {"store", "create", "display", "drop"} : At(c, label)
  /\ store' \in {store, Effect(c)}
  /\ suspect' = IF store' = store \/ At(c, "display") THEN suspect
                                                     ELSE suspect \cup {<<Server(c), Key(c)>>}
  /\ End(c)
  /\ UNCHANGED <<cache, loaded, sent>>

\* Mutant: the value stays in the cache.
Kept(s, k) == cache
Dropped(s, k) == [cache EXCEPT ![s] = Without(@, k)]

Uncache(c) ==
  /\ At(c, "uncache")
  /\ cache' = Dropped(Server(c), Key(c))
  /\ Proceed(c)
  /\ UNCHANGED <<store, loaded, suspect, sent>>

\* A server dies and is started again: its requests and its cache are gone.
Restart(s) ==
  /\ \E c \in Clients : Busy(c) /\ Server(c) = s
  /\ client' = [c \in Clients |-> IF Busy(c) /\ Server(c) = s THEN Idle ELSE client[c]]
  /\ cache' = [cache EXCEPT ![s] = NoRows]
  /\ loaded' = [loaded EXCEPT ![s] = FALSE]
  /\ suspect' = {p \in suspect : p[1] # s}
  /\ UNCHANGED <<store, sent>>

Step(c) ==
  \/ Load(c) \/ Fetch(c) \/ FetchFails(c) \/ Install(c)
  \/ ComposeAdd(c) \/ ComposeRemove(c) \/ Exists(c)
  \/ StoreValue(c) \/ CacheValue(c)
  \/ Create(c) \/ SetDisplay(c) \/ Drop(c) \/ Uncache(c) \/ WriteFails(c)

\* The bound on requests is reached and all are answered.
Quiet ==
  /\ sent = MaxRequests /\ \A c \in Clients : ~Busy(c)
  /\ UNCHANGED vars

Next ==
  \/ \E c \in Clients : Step(c) \/ \E s \in Servers, q \in Requests : Send(c, s, q)
  \/ \E s \in Servers : Restart(s)
  \/ Quiet

Spec == Init /\ [][Next]_vars

-----------------------------------------------------------------------------
(* Properties.                                                             *)

\* Every variable has its type; a handler that is about to write is past its
\* load, and only a loaded server caches.
TypeOK ==
  /\ IsTable(store, Rows)
  /\ \A s \in Servers : IsTable(cache[s], Contents)
  /\ loaded \in [Servers -> BOOLEAN]
  /\ suspect \subseteq Servers \X Keys
  /\ \A c \in Clients : /\ Busy(c) <=> client[c].todo # <<>>
                        /\ Busy(c) => Req(c) \in Requests /\ Server(c) \in Servers
                        /\ client[c].draft \in Contents
                        /\ IsTable(client[c].seen, Contents)
  /\ sent \in 0 .. MaxRequests

\* Once loaded, and with no write of the key under way, a server answers with
\* what the table says, unless a write of the key has overlapped another one or
\* a load, or went through another server, or lost its answer.
CacheAgrees ==
  \A s \in Servers, k \in Keys :
    /\ loaded[s]
    /\ \A c \in Clients : ~(BusyWriting(c) /\ Server(c) = s /\ Key(c) = k)
    /\ <<s, k>> \notin suspect
    => Lookup(cache[s], k) = Lookup(All, k)

\* "The form adds to what is stored" (views/projections.go:185), unless the key
\* is suspect or the load failed: the list the card writes is the stored one
\* with what was added or without what was removed, although it starts from the
\* cache and nothing is locked in between.
CardEditsWhatIsStored ==
  [][\A c \in Clients :
       At(c, "store") /\ store' # store /\ client'[c] # client[c]
       /\ Req(c).op \in {"add", "remove"} /\ ~client[c].blind
       /\ <<Server(c), Key(c)>> \notin suspect =>
         LET before == Lookup(All, Key(c)) IN
         store'[Key(c)].value = IF Req(c).op = "add" THEN before \cup Req(c).amounts
                                                     ELSE before \ {Req(c).amount}]_store

\* "Creating a key that already exists is a conflict" (docs/api.md:318), and a
\* PATCH of an unknown key a 404 (docs/api.md:324): POST never writes over a
\* row, whatever overlaps, and PATCH never makes one, unless the key is suspect.
\* Opting out of the manage page makes none at all (mysql/settings.go:91-94).
RowsAppearAsAsked ==
  [][\A c \in Clients : client'[c] # client[c] /\ Busy(c) /\ store' # store =>
       /\ Req(c).op = "post" => Key(c) \notin DOMAIN store
       /\ Req(c).op = "patch" /\ <<Server(c), Key(c)>> \notin suspect => DOMAIN store' = DOMAIN store
       /\ At(c, "display") /\ ~Req(c).set.display => DOMAIN store' = DOMAIN store]_store
=============================================================================
