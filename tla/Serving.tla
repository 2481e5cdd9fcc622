------------------------------- MODULE Serving -------------------------------
(***************************************************************************)
(* One server process from its start to its end, and the requests it       *)
(* serves (internal/app, the middleware of internal/httpapi, the frontend's*)
(* API client with its per-request memo, the frontend's settings cache).   *)
(*                                                                         *)
(* A process is bundled (frontend and API), API only, or a frontend of a   *)
(* remote API.  It opens its storage, checks or migrates the schema, and   *)
(* serves until a signal, a listener error or a crash.  A request is the   *)
(* list of steps its handler takes; pages share nothing but the settings   *)
(* cache, whose mutex is held while the API is asked for the rows.         *)
(*                                                                         *)
(* An answer stands for the version of the table it was read from.  Every  *)
(* client is one the credential and same-origin gates let through.         *)
(***************************************************************************)
EXTENDS Integers, Sequences, FiniteSets

CONSTANTS
  Browsers,     \* the clients, each with one request at a time
  Asks,         \* what each may ask: a set of [path, post, steps], see Pages
  Configs,      \* the configurations, see IsConfig
  Build,        \* the schema version this build expects
  MaxSchema,    \* the newest version some other build may migrate to
  TTL,          \* how long the settings rows are kept
  Nobody, NoRequest, Failed, NoRows,
  MaxTime,      \* bounds: the clock,
  MaxRequests,  \*   the requests opened,
  MaxOther,     \*   for each table, the version up to which other processes write it,
  MaxFaults,    \*   outages, failed migrations, listener errors, crashes, cut-off drains,
  MaxStarts     \*   starts of the process

Tables == {"data", "settings"}
Ops == {"must", "may", "unless", "settings", "write", "own"}
IsConfig(c) == /\ c.mode \in {"bundled", "api", "frontend"}
               /\ c.readOnly \in BOOLEAN /\ c.autoMigrate \in BOOLEAN
IsRequest(q) == /\ q.post \in BOOLEAN
                /\ q.steps \in Seq([op : Ops, url : STRING])
                /\ Len(q.steps) > 0
                /\ \A i \in DOMAIN q.steps :
                     q.steps[i].op \in {"write", "own"} => q.post /\ q.steps[i].url \in Tables

Requests == UNION {Asks[b] : b \in Browsers}

ASSUME ConstantsAssumption ==
  /\ \A c \in Configs : IsConfig(c)
  /\ \A q \in Requests : IsRequest(q)
  /\ Build \in Nat /\ MaxSchema \in Nat /\ TTL \in Nat
  /\ NoRequest \notin Requests /\ Nobody \notin Browsers
  /\ Failed \notin Nat /\ NoRows \notin Nat
  /\ {MaxTime, MaxRequests, MaxFaults, MaxStarts} \subseteq Nat
  /\ MaxOther \in [Tables -> Nat]

VARIABLES
  config,  \* how this process was configured
  phase,   \* where its life is
  open,    \* whether its own storage is open
  schema,  \* the schema version of the database
  up,      \* whether the database (or the remote API) answers
  stored,  \* the version of each table
  rows,    \* the settings cache: the version of its rows,
  fetched, \*   and when they came
  holder,  \* who holds the cache's mutex
  tab,     \* the request each browser waits for, see Idle
  now      \* the clock

\* History, which the properties read and no guard does.
VARIABLES
  floor,   \* the newest data version each browser has been answered with
  shown,   \* the settings version shown to a page last
  call,    \* the last successful call for the settings rows: when it began, ended
  written, \* when each version of the settings was written
  own,     \* how many writes this process has made for requests
  count    \* the bounded events so far

server == <<config, phase, open>>
cache == <<rows, fetched, holder>>
world == <<schema, up, stored, now>>
history == <<floor, shown, call, written, own>>
vars == <<config, phase, open, schema, up, stored, rows, fetched, holder, tab, now,
          floor, shown, call, written, own, count>>

\* A request: how many steps it has taken, the answers the API client keeps for
\* it, the versions it has been answered with (history), and the call for the
\* settings rows it has in flight, if any.
Idle == [req |-> NoRequest, at |-> 0, memo |-> [u \in {} |-> 0], answers |-> {},
         stage |-> "run", since |-> 0, reply |-> Failed]

HasStore == config.mode # "frontend"

Init ==
  /\ config \in Configs
  /\ phase = "down" /\ open = FALSE
  /\ schema \in IF HasStore THEN 0..MaxSchema ELSE {0}
  /\ up = TRUE
  /\ stored = [t \in Tables |-> 0]
  /\ rows = NoRows /\ fetched = 0 /\ holder = Nobody
  /\ tab = [b \in Browsers |-> Idle]
  /\ now = 0
  /\ floor = [b \in Browsers |-> 0]
  /\ shown = 0 /\ call = [began |-> 0, ended |-> 0]
  /\ written = <<>> /\ own = 0
  /\ count = [requests |-> 0, faults |-> 0, starts |-> 0]

Counted(what, bound) ==
  /\ count[what] < bound
  /\ count' = [count EXCEPT ![what] = @ + 1]

Busy == {b \in Browsers : tab[b].req # NoRequest}

-----------------------------------------------------------------------------
\* The life of the process.

\* New: a process with storage must reach it to start; a frontend needs none.
Boot ==
  /\ phase = "down"
  /\ HasStore => up
  /\ phase' = "opened" /\ open' = HasStore
  /\ Counted("starts", MaxStarts)
  /\ UNCHANGED <<config, cache, world, tab, history>>

\* AutoMigrate brings an older schema to this build's and leaves a newer one;
\* without it the process only serves a schema that is not older.
Current == schema >= Build
Migrated == IF HasStore /\ config.autoMigrate /\ ~Current THEN Build ELSE schema
Allowed == HasStore => up /\ (config.autoMigrate \/ Current)

Gate ==
  /\ phase = "opened"
  /\ Allowed
  /\ phase' = "serving" /\ schema' = Migrated
  /\ UNCHANGED <<config, open, up, stored, now, cache, tab, history, count>>

\* Serve has returned, or was never called: the deferred Close.
Close ==
  /\ phase' = "closing" /\ open' = FALSE
  /\ UNCHANGED <<config, cache, world, tab, history>>

Refuse ==
  /\ phase = "opened"
  /\ ~Allowed
  /\ Close /\ UNCHANGED count

\* The migration or the check of the version fails with the database up, or the
\* lock is not had in time: some versions may have been committed.
GateFails ==
  /\ phase = "opened"
  /\ HasStore /\ up
  /\ schema' \in schema..Migrated
  /\ phase' = "closing" /\ open' = FALSE
  /\ Counted("faults", MaxFaults)
  /\ UNCHANGED <<config, up, stored, now, cache, tab, history>>

ListenerFails ==
  /\ phase = "serving"
  /\ Close /\ Counted("faults", MaxFaults)

\* Mutant: the storage is closed before the requests have drained.
SignalCloses ==
  /\ phase = "serving"
  /\ phase' = "draining" /\ open' = FALSE
  /\ UNCHANGED <<config, cache, world, tab, history, count>>

Signal ==
  /\ phase = "serving"
  /\ phase' = "draining"
  /\ UNCHANGED <<config, open, cache, world, tab, history, count>>

\* Shutdown waits for the requests it has accepted,
Drained ==
  /\ phase = "draining"
  /\ Busy = {}
  /\ Close /\ UNCHANGED count

\* ten seconds at most.
Deadline ==
  /\ phase = "draining"
  /\ Busy # {}
  /\ Close /\ Counted("faults", MaxFaults)

\* The process is gone, with its memory and its connections.
Die ==
  /\ phase' = "down" /\ open' = FALSE
  /\ rows' = NoRows /\ fetched' = 0 /\ holder' = Nobody
  /\ tab' = [b \in Browsers |-> Idle]
  /\ UNCHANGED <<config, world, history>>

Exit == phase = "closing" /\ Die /\ UNCHANGED count

Crash ==
  /\ phase # "down"
  /\ Die /\ Counted("faults", MaxFaults)

-----------------------------------------------------------------------------
\* The world around it.

Outage ==
  /\ up
  /\ up' = FALSE
  /\ Counted("faults", MaxFaults)
  /\ UNCHANGED <<server, schema, stored, now, cache, tab, history>>

Recovery ==
  /\ ~up
  /\ up' = TRUE
  /\ UNCHANGED <<server, schema, stored, now, cache, tab, history, count>>

Stores(t) ==
  /\ stored' = [stored EXCEPT ![t] = @ + 1]
  /\ written' = IF t = "settings" THEN Append(written, now) ELSE written

OtherWrites(t) ==
  /\ stored[t] < MaxOther[t]
  /\ Stores(t)
  /\ UNCHANGED <<server, schema, up, now, cache, tab, floor, shown, call, own, count>>

\* A newer build migrates the database under this one.
Upgrade ==
  /\ HasStore
  /\ up /\ schema < MaxSchema
  /\ schema' = schema + 1
  /\ UNCHANGED <<server, up, stored, now, cache, tab, history, count>>

Tick ==
  /\ now < MaxTime
  /\ now' = now + 1
  /\ UNCHANGED <<server, schema, up, stored, cache, tab, history, count>>

-----------------------------------------------------------------------------
\* Requests.

\* The gates in their order: read-only, no frontend, no local API.
Admitted(q) ==
  /\ config.readOnly => ~q.post
  /\ config.mode = "api" => q.path \in {"api", "probe"}
  /\ config.mode = "frontend" => q.path \in {"web", "ui"}

Open(b, q) ==
  /\ phase = "serving"
  /\ tab[b].req = NoRequest
  /\ Admitted(q)
  /\ tab' = [tab EXCEPT ![b].req = q]
  /\ Counted("requests", MaxRequests)
  /\ UNCHANGED <<server, cache, world, history>>

Step(b) == tab[b].req.steps[tab[b].at + 1]
At(b, ops) == tab[b].req # NoRequest /\ tab[b].stage = "run" /\ Step(b).op \in ops
\* Mutant: a handler goes one step too far.
LastStepLate(b) == tab[b].at = Len(tab[b].req.steps)
LastStep(b) == tab[b].at + 1 = Len(tab[b].req.steps)

\* The request is answered: what its browser now knows of.
Known(b, answers) == {floor[b]} \cup {a[2] : a \in answers}
\* Mutant: the memo outlives the request.
AnsweredKeepsMemo(b, answers) ==
  \E v \in Known(b, answers) :
    /\ \A w \in Known(b, answers) : w <= v
    /\ floor' = [floor EXCEPT ![b] = v]
    /\ tab' = [tab EXCEPT ![b] = [Idle EXCEPT !.memo = tab[b].memo]]

Answered(b, answers) ==
  \E v \in Known(b, answers) :
    /\ \A w \in Known(b, answers) : w <= v
    /\ floor' = [floor EXCEPT ![b] = v]
    /\ tab' = [tab EXCEPT ![b] = Idle]

\* The handler goes on to its next step, or returns.
Goes(b, memo, answers) ==
  IF LastStep(b)
  THEN Answered(b, answers)
  ELSE /\ tab' = [tab EXCEPT ![b].at = @ + 1, ![b].memo = memo, ![b].answers = answers,
                             ![b].stage = "run", ![b].since = 0, ![b].reply = Failed]
       /\ UNCHANGED floor

\* What the API answers: a closed store, an outage and a route the process does
\* not have are errors, and readyz is one on any schema but this build's.
Fails(u) ==
  \/ ~up
  \/ HasStore /\ ~open
  \/ u = "readyz" /\ schema # Build

\* The API client answers a page's GET from the page's memo, and keeps only 200s.
Memoized(b) == tab[b].req.path = "web"
Remembers(b, u) == Memoized(b) /\ u \in DOMAIN tab[b].memo
Reply(b, u) == IF Remembers(b, u) THEN tab[b].memo[u]
               ELSE IF Fails(u) THEN Failed ELSE stored["data"]
Kept(b, u, v) == IF v # Failed /\ Memoized(b)
                 THEN [x \in DOMAIN tab[b].memo \cup {u} |->
                         IF x = u THEN v ELSE tab[b].memo[x]]
                 ELSE tab[b].memo

\* A required answer that fails, and a redirect's that does not, end the page.
Ends(op, v) == (op = "must" /\ v = Failed) \/ (op = "unless" /\ v # Failed)

Read(b) ==
  /\ At(b, {"must", "may", "unless"})
  /\ LET u == Step(b).url
         v == Reply(b, u)
         answers == tab[b].answers \cup (IF v = Failed THEN {} ELSE {<<u, v>>})
     IN  IF Ends(Step(b).op, v)
         THEN Answered(b, answers)
         ELSE Goes(b, Kept(b, u, v), answers)
  /\ UNCHANGED <<server, cache, world, shown, call, written, own, count>>

\* A write that fails ends the handler, with the error as its answer; the
\* projections card writes to the process's own storage, which a frontend lacks.
WriteFails(op) == Fails("") \/ (op = "own" /\ ~HasStore)

Write(b) ==
  /\ At(b, {"write", "own"})
  /\ IF WriteFails(Step(b).op)
     THEN /\ Answered(b, tab[b].answers)
          /\ UNCHANGED <<stored, written, own>>
     ELSE LET t == Step(b).url
              wrote == IF t = "data" THEN {<<"write", stored[t] + 1>>} ELSE {}
          IN  /\ Stores(t)
              /\ own' = own + 1
              /\ Goes(b, tab[b].memo, tab[b].answers \cup wrote)
  /\ UNCHANGED <<server, cache, schema, up, now, shown, call, count>>

-----------------------------------------------------------------------------
\* The settings cache (Rows, All, refresh): its mutex is held from the look at
\* the rows to the return, over the call of the API, which is made outside the
\* page's own context.

Fresh == rows # NoRows /\ now - fetched <= TTL

\* The page goes on with the rows there are, whatever their age.
Shows(b, v) ==
  /\ shown' = IF v = NoRows THEN shown ELSE v
  /\ Goes(b, tab[b].memo, tab[b].answers)

TakeRows(b) ==
  /\ At(b, {"settings"})
  /\ holder = Nobody
  /\ Fresh
  /\ Shows(b, rows)
  /\ UNCHANGED <<server, cache, world, call, written, own, count>>

\* Mutant: the mutex is not held over the call.
AskRowsUnlocked(b) ==
  /\ At(b, {"settings"})
  /\ holder = Nobody
  /\ ~Fresh
  /\ tab' = [tab EXCEPT ![b].stage = "asked", ![b].since = now]
  /\ UNCHANGED <<server, cache, world, history, count>>

AskRows(b) ==
  /\ At(b, {"settings"})
  /\ holder = Nobody
  /\ ~Fresh
  /\ holder' = b
  /\ tab' = [tab EXCEPT ![b].stage = "asked", ![b].since = now]
  /\ UNCHANGED <<server, rows, fetched, world, history, count>>

\* The API reads the table, in its own goroutine's time.
ApiAnswers(b) ==
  /\ tab[b].stage = "asked"
  /\ tab' = [tab EXCEPT ![b].stage = "answered",
                        ![b].reply = IF Fails("settings") THEN Failed ELSE stored["settings"]]
  /\ UNCHANGED <<server, cache, world, history, count>>

\* A failed call leaves the rows and their time, so the next page asks again.
Refreshed(v) == IF v = Failed THEN rows ELSE v
RefreshedAt(v) == IF v = Failed THEN fetched ELSE now

\* Mutant: an early return on a failed call leaves the mutex locked.
UnlocksOnSuccess(b) == holder' = IF tab[b].reply = Failed THEN holder ELSE Nobody

\* The deferred Unlock, on every way out.
Unlocks(b) == holder' = Nobody

EndAsk(b) ==
  /\ tab[b].stage = "answered"
  /\ LET v == tab[b].reply
     IN  /\ rows' = Refreshed(v)
         /\ fetched' = RefreshedAt(v)
         /\ call' = IF v = Failed THEN call ELSE [began |-> tab[b].since, ended |-> now]
         /\ Shows(b, Refreshed(v))
  /\ Unlocks(b)
  /\ UNCHANGED <<server, world, written, own, count>>

-----------------------------------------------------------------------------
Page(b) == Read(b) \/ Write(b) \/ TakeRows(b) \/ AskRows(b) \/ ApiAnswers(b) \/ EndAsk(b)

Process ==
  Boot \/ Gate \/ GateFails \/ Refuse \/ ListenerFails \/ Signal \/ Drained \/ Deadline \/ Exit \/ Crash

World == Outage \/ Recovery \/ (\E t \in Tables : OtherWrites(t)) \/ Upgrade \/ Tick

Next ==
  \/ Process
  \/ World
  \/ \E b \in Browsers : Page(b) \/ \E q \in Asks[b] : Open(b, q)

Spec == Init /\ [][Next]_vars

\* Handlers run, the API answers, and a waiting goroutine gets the mutex at last
\* (sync.Mutex hands it over after a millisecond's wait); a process that closes
\* its store exits.
Fairness ==
  /\ WF_vars(Exit)
  /\ \A b \in Browsers :
       /\ WF_vars(Read(b) \/ Write(b) \/ ApiAnswers(b) \/ EndAsk(b))
       /\ SF_vars(TakeRows(b) \/ AskRows(b))

FairSpec == Spec /\ Fairness

-----------------------------------------------------------------------------
\* Properties.

TabOK(t) ==
  /\ t.req \in Requests \cup {NoRequest}
  /\ t.at \in Nat
  /\ t.req # NoRequest => t.at < Len(t.req.steps)
  /\ \A u \in DOMAIN t.memo : t.memo[u] \in 0..stored["data"]
  /\ \A a \in t.answers : a[2] \in 0..stored["data"]
  /\ t.stage \in {"run", "asked", "answered"}
  /\ t.since \in 0..now
  /\ t.reply \in Nat \cup {Failed}

\* Types: phases, versions no newer than the tables they came from, times in
\* the past, and requests that are not yet past their last step.
TypeOK ==
  /\ config \in Configs
  /\ phase \in {"down", "opened", "serving", "draining", "closing"}
  /\ open \in BOOLEAN /\ up \in BOOLEAN
  /\ schema \in Nat
  /\ stored \in [Tables -> Nat]
  /\ rows \in Nat \cup {NoRows} /\ fetched \in Nat
  /\ holder \in Browsers \cup {Nobody}
  /\ \A b \in Browsers : TabOK(tab[b]) /\ floor[b] \in Nat
  /\ now \in Nat /\ shown \in Nat /\ own \in Nat

\* The process serves only what it may: requests are in flight only in a
\* process that has its storage open or is on its way out, on a schema not older
\* than its build's (app/wire.go:254, app.go:267), and a read-only process has
\* written nothing for any of them, its forms and its API alike
\* (middleware.go:119).
ServesWhatItMay ==
  /\ phase \in {"serving", "draining"} /\ HasStore => open /\ Current
  /\ Busy # {} => phase \in {"serving", "draining", "closing"}
  /\ config.readOnly => own = 0

\* Within a page the same URL has the same answer however often it is asked
\* (requestcache.go:12), and a request sent after another of its browser was
\* answered sees nothing older than that one saw or wrote: no answer outlives
\* the request it was fetched for, and no failure is taken for an answer.  The
\* settings, which that comment names too, are read from a cache of their own
\* and left out: a page may show two versions of them (SettingsMoveForward).
PagesAgree ==
  \A b \in Browsers :
    /\ \A x, y \in tab[b].answers :
         Memoized(b) /\ x[1] = y[1] /\ x[1] # "write" => x = y
    /\ \A x \in tab[b].answers : x[2] >= floor[b]

\* A page goes past a settings step without a failed call of its own.
ShowsGoodRows(b) == TakeRows(b) \/ (EndAsk(b) /\ tab[b].reply # Failed)

\* The settings that pages show only move forward, and not late.  Whatever the
\* pages' calls overlap with, no page is shown older rows than a page before it
\* was, in any browser and across restarts (web/settings.go:30); and rows shown
\* without a failed call came at most the TTL ago, and whatever they miss was
\* written after the call that fetched them began, so that an outage never makes
\* old rows young (web/settings.go:59).
SettingsMoveForward ==
  [][/\ shown' >= shown
     /\ \A b \in Browsers : ShowsGoodRows(b) =>
          /\ now - call'.ended <= TTL
          /\ \A v \in DOMAIN written : v > shown' => written[v] >= call'.began]_vars

\* Every request ends, whatever happens to the API, the process and the other
\* requests that want the cache's mutex.
EveryRequestEnds == \A b \in Browsers : tab[b].req # NoRequest ~> tab[b].req = NoRequest
=============================================================================
