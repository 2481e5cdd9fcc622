---------------------------- MODULE ServingProofs ----------------------------
(***************************************************************************)
(* Proofs about Serving, for every set of browsers, requests, pages and    *)
(* configurations.                                                         *)
(***************************************************************************)
EXTENDS Serving, SequenceTheorems, TLAPS

-----------------------------------------------------------------------------
(* The invariant.                                                          *)

\* The provers do not know that a string is one.
Names == STRING \cup {"write"}
Memos == UNION {[S -> Nat] : S \in SUBSET STRING}
Tabs == [req : Requests \cup {NoRequest}, at : Nat, memo : Memos,
         answers : SUBSET (Names \X Nat), stage : {"run", "asked", "answered"},
         since : Nat, reply : Nat \cup {Failed}]

Types ==
  /\ config \in Configs
  /\ phase \in {"down", "opened", "serving", "draining", "closing"}
  /\ open \in BOOLEAN /\ up \in BOOLEAN
  /\ schema \in Nat
  /\ stored \in [Tables -> Nat]
  /\ rows \in Nat \cup {NoRows} /\ fetched \in Nat
  /\ holder \in Browsers \cup {Nobody}
  /\ tab \in [Browsers -> Tabs]
  /\ now \in Nat
  /\ floor \in [Browsers -> Nat]
  /\ shown \in Nat
  /\ call \in [began : Nat, ended : Nat]
  /\ written \in Seq(Nat)
  /\ own \in Nat

\* A request is not past its last step.
Underway(t) ==
  /\ t.req = NoRequest => t = Idle
  /\ t.req # NoRequest => t.at < Len(t.req.steps)

\* What a request has been answered with lies between what its browser knew
\* and what is stored, and a page keeps all of it.
Versions(t, low, high) ==
  /\ low <= high
  /\ \A u \in DOMAIN t.memo : low <= t.memo[u] /\ t.memo[u] <= high
  /\ \A a \in t.answers : low <= a[2] /\ a[2] <= high
  /\ t.req # NoRequest /\ t.req.path = "web" =>
       \A a \in t.answers : a[1] # "write" => a[1] \in DOMAIN t.memo /\ t.memo[a[1]] = a[2]

\* Whoever asks for the rows holds the mutex, and its answer is not older than
\* the rows that were shown last: nobody else can show any meanwhile.
Later(v, time) == \A w \in DOMAIN written : w > v => written[w] >= time

Asking(b) ==
  /\ tab[b].since <= now
  /\ tab[b].stage # "run" => holder = b
  /\ tab[b].stage = "answered" /\ tab[b].reply # Failed =>
       /\ shown <= tab[b].reply /\ tab[b].reply <= stored["settings"]
       /\ Later(tab[b].reply, tab[b].since)

RequestsOK ==
  \A b \in Browsers :
    /\ Underway(tab[b])
    /\ Versions(tab[b], floor[b], stored["data"])
    /\ Asking(b)

CacheOK ==
  /\ Len(written) = stored["settings"]
  /\ \A v \in DOMAIN written : written[v] <= now
  /\ shown <= stored["settings"]
  /\ call.began <= now /\ call.ended <= now
  /\ rows # NoRows =>
       /\ shown <= rows /\ rows <= stored["settings"]
       /\ fetched = call.ended
       /\ Later(rows, call.began)

ProcessOK ==
  /\ phase \in {"opened", "serving", "draining"} => open = HasStore
  /\ phase \in {"serving", "draining"} /\ HasStore => schema >= Build
  /\ phase \in {"down", "opened"} => \A b \in Browsers : tab[b].req = NoRequest
  /\ config.readOnly =>
       own = 0 /\ \A b \in Browsers : tab[b].req # NoRequest => ~tab[b].req.post

IInv == Types /\ RequestsOK /\ CacheOK /\ ProcessOK

-----------------------------------------------------------------------------
(* The empty request, and the first state.                                 *)

LEMMA IdleOK ==
  ASSUME NEW low \in Nat, NEW high \in Nat, low <= high
  PROVE  /\ Idle \in Tabs
         /\ Idle.req = NoRequest /\ Idle.stage = "run" /\ Idle.since = 0
         /\ Underway(Idle)
         /\ Versions(Idle, low, high)
<1>1. [u \in {} |-> 0] \in Memos /\ DOMAIN [u \in {} |-> 0] = {}
  <2>1. [u \in {} |-> 0] \in [{} -> Nat]
    OBVIOUS
  <2> QED
    BY <2>1 DEF Memos
<1>2. Idle \in Tabs
  BY <1>1 DEF Idle, Tabs
<1> QED
  BY <1>1, <1>2 DEF Idle, Underway, Versions

LEMMA InitOK == Init => IInv
<1> SUFFICES ASSUME Init PROVE IInv
  OBVIOUS
<1> USE DEF Init
<1>1. \A b \in Browsers : tab[b] = Idle
  OBVIOUS
<1>2. Idle \in Tabs /\ Idle.req = NoRequest /\ Idle.stage = "run" /\ Idle.since = 0
      /\ Underway(Idle) /\ Versions(Idle, 0, 0)
  BY IdleOK
<1>3. Types
  <2>1. schema \in Nat
    BY ConstantsAssumption, SMT
  <2>2. written \in Seq(Nat)
    OBVIOUS
  <2>3. call \in [began : Nat, ended : Nat]
    BY SMT
  <2>4. stored \in [Tables -> Nat] /\ tab \in [Browsers -> Tabs] /\ floor \in [Browsers -> Nat]
    BY <1>2, SMT
  <2>5. /\ phase \in {"down", "opened", "serving", "draining", "closing"}
        /\ rows \in Nat \cup {NoRows} /\ fetched \in Nat
        /\ holder \in Browsers \cup {Nobody}
        /\ now \in Nat /\ shown \in Nat /\ own \in Nat /\ config \in Configs
    BY SMT
  <2>6. open \in BOOLEAN /\ up \in BOOLEAN
    BY Zenon
  <2> QED
    BY <2>1, <2>2, <2>3, <2>4, <2>5, <2>6, Zenon DEF Types
<1>4. RequestsOK
  BY <1>1, <1>2, SMT DEF RequestsOK, Asking, Tables
<1>5. CacheOK
  BY ConstantsAssumption, SMT DEF CacheOK, Tables
<1>6. ProcessOK
  BY <1>1, <1>2, SMT DEF ProcessOK
<1> QED
  BY <1>3, <1>4, <1>5, <1>6 DEF IInv

-----------------------------------------------------------------------------
(* The world moves forward: the clock and the versions only grow, and what *)
(* is appended to the history of the settings is stamped with the clock.   *)

WorldMoves ==
  /\ now' \in Nat /\ now <= now'
  /\ stored' \in [Tables -> Nat]
  /\ stored["data"] <= stored'["data"] /\ stored["settings"] <= stored'["settings"]
  /\ written' \in Seq(Nat) /\ Len(written') = stored'["settings"]
  /\ \A v \in DOMAIN written' :
       written'[v] = IF v \in DOMAIN written THEN written[v] ELSE now

LEMMA StandsStill ==
  ASSUME Types, CacheOK, UNCHANGED <<now, stored, written>>
  PROVE  WorldMoves
BY SMT DEF Types, CacheOK, WorldMoves, Tables

LEMMA Ticks ==
  ASSUME Types, CacheOK, now' = now + 1, UNCHANGED <<stored, written>>
  PROVE  WorldMoves
BY SMT DEF Types, CacheOK, WorldMoves, Tables

LEMMA StoresMoves ==
  ASSUME Types, CacheOK, NEW t \in Tables, Stores(t), now' = now
  PROVE  WorldMoves
<1>1. stored' \in [Tables -> Nat] /\ stored[t] \in Nat /\ stored'[t] = stored[t] + 1
      /\ \A u \in Tables : u # t => stored'[u] = stored[u]
  BY SMT DEF Types, Stores
<1>2. CASE t = "settings"
  <2>1. /\ written' = Append(written, now)
        /\ Len(written) = stored["settings"]
    BY <1>2 DEF Stores, CacheOK
  <2>2. /\ written' \in Seq(Nat)
        /\ Len(written') = Len(written) + 1
        /\ \A v \in 1 .. Len(written) : written'[v] = written[v]
        /\ written'[Len(written) + 1] = now
    BY <2>1, SMT DEF Types
  <2>3. DOMAIN written' = 1 .. (Len(written) + 1) /\ DOMAIN written = 1 .. Len(written)
    BY <2>2, SMT DEF Types
  <2> QED
    BY <1>1, <1>2, <2>1, <2>2, <2>3, SMT DEF Types, WorldMoves, Tables
<1>3. CASE t # "settings"
  BY <1>1, <1>3, SMT DEF Types, CacheOK, Stores, WorldMoves, Tables
<1> QED
  BY <1>2, <1>3

\* What was written after a time stays so, and what is written now is not older.
LEMMA LaterMoves ==
  ASSUME Types, WorldMoves, NEW v \in Nat, NEW time \in Nat, time <= now, Later(v, time)
  PROVE  \A w \in DOMAIN written' : w > v => written'[w] >= time
<1> TAKE w \in DOMAIN written'
<1>1. CASE w \in DOMAIN written
  BY <1>1 DEF WorldMoves, Later
<1>2. CASE w \notin DOMAIN written
  <2>1. written'[w] = now
    BY <1>2 DEF WorldMoves
  <2> QED
    BY <2>1, SMT DEF Types
<1> QED
  BY <1>1, <1>2

LEMMA CacheMoves ==
  ASSUME Types, CacheOK, WorldMoves, UNCHANGED <<rows, fetched, shown, call>>
  PROVE  CacheOK'
<1>1. \A v \in DOMAIN written' : written'[v] <= now'
  <2> TAKE v \in DOMAIN written'
  <2>1. now \in Nat /\ now' \in Nat /\ now <= now'
    BY DEF Types, WorldMoves
  <2>2. CASE v \in DOMAIN written
    <3>1. written'[v] = written[v] /\ written[v] <= now
      BY <2>2 DEF WorldMoves, CacheOK
    <3>2. written[v] \in Nat
      BY <2>2, ElementOfSeq, LenProperties DEF Types
    <3> QED
      BY <2>1, <3>1, <3>2, SMT
  <2>3. CASE v \notin DOMAIN written
    <3>1. written'[v] = now
      BY <2>3 DEF WorldMoves
    <3> QED
      BY <2>1, <3>1
  <2> QED
    BY <2>2, <2>3
<1>2. /\ shown <= stored'["settings"]
      /\ call.began <= now' /\ call.ended <= now'
      /\ rows # NoRows => rows <= stored'["settings"]
  BY SMT DEF Types, CacheOK, WorldMoves, Tables
<1>3. rows # NoRows => \A w \in DOMAIN written' : w > rows => written'[w] >= call.began
  <2> SUFFICES ASSUME rows # NoRows PROVE \A w \in DOMAIN written' : w > rows => written'[w] >= call.began
    OBVIOUS
  <2>1. rows \in Nat /\ call.began \in Nat /\ call.began <= now /\ Later(rows, call.began)
    BY DEF Types, CacheOK
  <2> QED
    BY <2>1, LaterMoves
<1> QED
  BY <1>1, <1>2, <1>3, Zenon DEF CacheOK, WorldMoves, Later

\* A browser that a step leaves alone keeps its part of the invariant, as long
\* as the mutex it may hold and the rows it waits to replace are left alone too.
LEMMA OtherMoves ==
  ASSUME Types, WorldMoves, NEW b \in Browsers,
         Underway(tab[b]), Versions(tab[b], floor[b], stored["data"]), Asking(b),
         tab'[b] = tab[b], floor'[b] = floor[b],
         tab[b].stage # "run" => holder' = holder /\ shown' = shown
  PROVE  Underway(tab'[b]) /\ Versions(tab'[b], floor'[b], stored'["data"]) /\ Asking(b)'
<1>1. tab[b] \in Tabs /\ floor[b] \in Nat
  BY DEF Types
<1>2. Versions(tab[b], floor[b], stored'["data"])
  <2>1. \A u \in DOMAIN tab[b].memo : tab[b].memo[u] \in Nat
    <3>1. tab[b].memo \in Memos
      BY <1>1 DEF Tabs
    <3> QED
      BY <3>1 DEF Memos
  <2>2. \A a \in tab[b].answers : a[2] \in Nat
    BY <1>1 DEF Tabs
  <2>3. stored["data"] \in Nat /\ stored'["data"] \in Nat /\ stored["data"] <= stored'["data"]
    BY DEF Types, WorldMoves, Tables
  <2> QED
    BY <1>1, <2>1, <2>2, <2>3, SMT DEF Versions
<1>3. tab[b].since <= now'
  BY <1>1, SMT DEF Asking, WorldMoves, Tabs, Types
<1>4. ASSUME tab[b].stage = "answered", tab[b].reply # Failed
      PROVE  /\ shown' <= tab[b].reply /\ tab[b].reply <= stored'["settings"]
             /\ \A w \in DOMAIN written' : w > tab[b].reply => written'[w] >= tab[b].since
  <2>1. tab[b].reply \in Nat /\ tab[b].since \in Nat /\ tab[b].since <= now
        /\ Later(tab[b].reply, tab[b].since)
    BY <1>1, <1>4 DEF Tabs, Asking
  <2>2. shown' = shown /\ shown <= tab[b].reply /\ tab[b].reply <= stored["settings"]
    BY <1>4 DEF Asking
  <2>3. tab[b].reply <= stored'["settings"]
    BY <2>1, <2>2, SMT DEF WorldMoves, Types, Tables
  <2> QED
    BY <2>1, <2>2, <2>3, LaterMoves
<1>5. tab[b].stage # "run" => holder' = b
  BY DEF Asking
<1> QED
  BY <1>2, <1>3, <1>4, <1>5, Zenon DEF Asking, Later

-----------------------------------------------------------------------------
(* A handler's step.                                                       *)

\* A record of Tabs with other values in its fields is one still.
LEMMA ChangedTab ==
  ASSUME NEW t \in Tabs, NEW at \in Nat, NEW memo \in Memos,
         NEW answers \in SUBSET (Names \X Nat), NEW stage \in {"run", "asked", "answered"},
         NEW since \in Nat, NEW reply \in Nat \cup {Failed}
  PROVE  [t EXCEPT !.at = at, !.memo = memo, !.answers = answers,
                   !.stage = stage, !.since = since, !.reply = reply] \in Tabs
<1> DEFINE M == Memos
           A == SUBSET (Names \X Nat)
<1> HIDE DEF M, A
<1>1. memo \in M /\ answers \in A
  BY DEF M, A
<1>2. Tabs = [req : Requests \cup {NoRequest}, at : Nat, memo : M, answers : A,
              stage : {"run", "asked", "answered"}, since : Nat, reply : Nat \cup {Failed}]
  BY DEF Tabs, M, A
<1> QED
  BY <1>1, <1>2

\* What b's step leaves behind when all it was answered with is at most high.
Forward(b, high) ==
  /\ tab' \in [Browsers -> Tabs] /\ floor' \in [Browsers -> Nat]
  /\ \A c \in Browsers : c # b => tab'[c] = tab[c] /\ floor'[c] = floor[c]
  /\ tab'[b].stage = "run" /\ tab'[b].since = 0
  /\ tab'[b].req \in {NoRequest, tab[b].req}
  /\ Underway(tab'[b]) /\ Versions(tab'[b], floor'[b], high)

LEMMA AnsweredOK ==
  ASSUME Types, NEW b \in Browsers, NEW answers \in SUBSET (Names \X Nat),
         NEW high \in Nat, floor[b] <= high, \A a \in answers : a[2] <= high,
         Answered(b, answers)
  PROVE  Forward(b, high)
<1>1. PICK v \in Known(b, answers) :
        floor' = [floor EXCEPT ![b] = v] /\ tab' = [tab EXCEPT ![b] = Idle]
  BY DEF Answered
<1>2. floor \in [Browsers -> Nat] /\ tab \in [Browsers -> Tabs]
  BY DEF Types
<1>3. v \in Nat /\ v <= high
  BY <1>1, <1>2, SMT DEF Known
<1>4. /\ Idle \in Tabs /\ Idle.req = NoRequest /\ Idle.stage = "run" /\ Idle.since = 0
      /\ Underway(Idle) /\ Versions(Idle, v, high)
  BY <1>3, IdleOK
<1>5. tab' \in [Browsers -> Tabs] /\ floor' \in [Browsers -> Nat]
  BY <1>1, <1>2, <1>3, <1>4
<1>6. tab'[b] = Idle /\ floor'[b] = v
      /\ \A c \in Browsers : c # b => tab'[c] = tab[c] /\ floor'[c] = floor[c]
  BY <1>1, <1>2
<1> QED
  BY <1>4, <1>5, <1>6, Zenon DEF Forward

LEMMA GoesOK ==
  ASSUME Types, NEW b \in Browsers, tab[b].req # NoRequest, Underway(tab[b]),
         NEW memo \in Memos, NEW answers \in SUBSET (Names \X Nat),
         NEW high \in Nat, floor[b] <= high,
         \A u \in DOMAIN memo : floor[b] <= memo[u] /\ memo[u] <= high,
         \A a \in answers : floor[b] <= a[2] /\ a[2] <= high,
         tab[b].req.path = "web" =>
           \A a \in answers : a[1] # "write" => a[1] \in DOMAIN memo /\ memo[a[1]] = a[2],
         Goes(b, memo, answers)
  PROVE  Forward(b, high)
<1>1. CASE LastStep(b)
  BY <1>1, AnsweredOK DEF Goes
<1>2. CASE ~LastStep(b)
  <2> DEFINE t == [tab[b] EXCEPT !.at = @ + 1, !.memo = memo, !.answers = answers,
                                 !.stage = "run", !.since = 0, !.reply = Failed]
  <2>1. tab \in [Browsers -> Tabs] /\ tab[b] \in Tabs /\ floor \in [Browsers -> Nat]
    BY DEF Types
  <2>2. tab' = [tab EXCEPT ![b] = t] /\ floor' = floor
    BY <1>2, <2>1 DEF Goes, Tabs
  <2>3. /\ t \in Tabs /\ t.stage = "run" /\ t.since = 0 /\ t.req = tab[b].req
        /\ t.at = tab[b].at + 1 /\ t.memo = memo /\ t.answers = answers
    <3>1. tab[b].at \in Nat /\ tab[b].at + 1 \in Nat
      BY <2>1, SMT DEF Tabs
    <3>2. t \in Tabs
      BY <2>1, <3>1, ChangedTab
    <3>3. /\ t.stage = "run" /\ t.since = 0 /\ t.req = tab[b].req
          /\ t.at = tab[b].at + 1 /\ t.memo = memo /\ t.answers = answers
      BY <2>1, SMT DEF Tabs
    <3> QED
      BY <3>2, <3>3
  <2>4. t.at < Len(t.req.steps)
    <3>1. tab[b].req \in Requests /\ tab[b].at \in Nat
      BY <2>1 DEF Tabs
    <3>2. Len(tab[b].req.steps) \in Nat
      BY <3>1, ConstantsAssumption, LenProperties DEF IsRequest
    <3> QED
      BY <1>2, <2>3, <3>1, <3>2, SMT DEF LastStep, Underway
  <2>5. Underway(t) /\ Versions(t, floor[b], high)
    BY <2>3, <2>4, Zenon DEF Underway, Versions
  <2>6. tab' \in [Browsers -> Tabs] /\ tab'[b] = t
        /\ \A c \in Browsers : c # b => tab'[c] = tab[c] /\ floor'[c] = floor[c]
    BY <2>1, <2>2, <2>3
  <2> QED
    BY <2>1, <2>2, <2>3, <2>5, <2>6, Zenon DEF Forward
<1> QED
  BY <1>1, <1>2

\* A step that only moves its own request forward, and perhaps the world.
LEMMA ForwardKeeps ==
  ASSUME Types, RequestsOK, WorldMoves, NEW b \in Browsers, Forward(b, stored'["data"]),
         \A c \in Browsers : c # b /\ tab[c].stage # "run" =>
                               holder' = holder /\ shown' = shown
  PROVE  RequestsOK'
<1> SUFFICES ASSUME NEW c \in Browsers
             PROVE  /\ Underway(tab'[c]) /\ Asking(c)'
                    /\ Versions(tab'[c], floor'[c], stored'["data"])
  BY Zenon DEF RequestsOK
<1>1. CASE c = b
  <2>1. Underway(tab'[b]) /\ Versions(tab'[b], floor'[b], stored'["data"])
        /\ tab'[b].stage = "run" /\ tab'[b].since = 0
    BY DEF Forward
  <2>2. 0 <= now'
    BY SMT DEF WorldMoves
  <2> QED
    BY <1>1, <2>1, <2>2, Zenon DEF Asking
<1>2. CASE c # b
  <2>1. tab'[c] = tab[c] /\ floor'[c] = floor[c]
    BY <1>2 DEF Forward
  <2>2. Underway(tab[c]) /\ Versions(tab[c], floor[c], stored["data"]) /\ Asking(c)
    BY DEF RequestsOK
  <2> QED
    BY <1>2, <2>1, <2>2, OtherMoves
<1> QED
  BY <1>1, <1>2

\* The step a handler is at.
LEMMA StepOK ==
  ASSUME Types, NEW b \in Browsers, Underway(tab[b]), tab[b].req # NoRequest
  PROVE  /\ tab[b] \in Tabs /\ tab[b].req \in Requests
         /\ Step(b).op \in Ops /\ Step(b).url \in STRING
         /\ Step(b).op \in {"write", "own"} => tab[b].req.post /\ Step(b).url \in Tables
<1>1. tab[b] \in Tabs /\ tab[b].req \in Requests /\ tab[b].at \in Nat
  BY DEF Types, Tabs
<1>2. /\ tab[b].req.steps \in Seq([op : Ops, url : STRING])
      /\ \A i \in DOMAIN tab[b].req.steps :
           tab[b].req.steps[i].op \in {"write", "own"} =>
             tab[b].req.post /\ tab[b].req.steps[i].url \in Tables
  BY <1>1, ConstantsAssumption DEF IsRequest
<1> DEFINE steps == tab[b].req.steps
<1>3. tab[b].at + 1 \in DOMAIN steps /\ steps[tab[b].at + 1] \in [op : Ops, url : STRING]
  <2>1. Len(steps) \in Nat /\ DOMAIN steps = 1 .. Len(steps) /\ tab[b].at < Len(steps)
    BY <1>2, LenProperties DEF Underway
  <2>2. tab[b].at + 1 \in DOMAIN steps
    BY <1>1, <2>1, SMT
  <2> QED
    BY <1>2, <2>1, <2>2, ElementOfSeq
<1> QED
  BY <1>1, <1>2, <1>3 DEF Step

\* The process and the types after a step of a request.
LEMMA ForwardProcess ==
  ASSUME Types, ProcessOK, NEW b \in Browsers, NEW high, Forward(b, high),
         UNCHANGED <<server, schema>>, own' = own \/ ~config.readOnly
  PROVE  ProcessOK'
<1>1. \A c \in Browsers : tab'[c].req \in {NoRequest, tab[c].req}
  BY DEF Forward
<1>2. config' = config /\ phase' = phase /\ open' = open /\ schema' = schema
  BY DEF server
<1>3. HasStore' = HasStore
  BY <1>2 DEF HasStore
<1>4. phase \in {"down", "opened"} => \A c \in Browsers : tab'[c].req = NoRequest
  BY <1>1 DEF ProcessOK
<1>5. config.readOnly =>
        own' = 0 /\ \A c \in Browsers : tab'[c].req # NoRequest => ~tab'[c].req.post
  BY <1>1 DEF ProcessOK
<1> QED
  BY <1>2, <1>3, <1>4, <1>5, Zenon DEF ProcessOK

LEMMA ForwardTypes ==
  ASSUME Types, WorldMoves, NEW b \in Browsers, NEW high, Forward(b, high),
         UNCHANGED <<server, schema, up>>,
         rows' \in Nat \cup {NoRows}, fetched' \in Nat, holder' \in Browsers \cup {Nobody},
         shown' \in Nat, call' \in [began : Nat, ended : Nat], own' \in Nat
  PROVE  Types'
BY Zenon DEF Types, WorldMoves, Forward, server

\* What a read is answered with.
LEMMA ReplyOK ==
  ASSUME Types, NEW b \in Browsers, NEW u \in STRING, tab[b].req # NoRequest,
         Versions(tab[b], floor[b], stored["data"])
  PROVE  LET v == Reply(b, u) IN
         v # Failed => v \in Nat /\ floor[b] <= v /\ v <= stored["data"]
<1>1. tab[b].memo \in Memos /\ floor[b] \in Nat /\ stored["data"] \in Nat
  BY DEF Types, Tabs, Tables
<1>2. \A x \in DOMAIN tab[b].memo : tab[b].memo[x] \in Nat
  BY <1>1 DEF Memos
<1>3. CASE Remembers(b, u)
  BY <1>2, <1>3 DEF Reply, Remembers, Versions
<1>4. CASE ~Remembers(b, u)
  <2>1. Reply(b, u) = IF Fails(u) THEN Failed ELSE stored["data"]
    BY <1>4 DEF Reply
  <2> QED
    BY <1>1, <2>1, SMT DEF Versions
<1> QED
  BY <1>3, <1>4

\* The memo after a read keeps the page's answers, the new one among them.
LEMMA KeptOK ==
  ASSUME Types, NEW b \in Browsers, NEW u \in STRING, tab[b].req # NoRequest,
         Versions(tab[b], floor[b], stored["data"]),
         NEW v, v = Reply(b, u), NEW answers \in SUBSET (Names \X Nat),
         answers = tab[b].answers \cup (IF v = Failed THEN {} ELSE {<<u, v>>})
  PROVE  LET memo == Kept(b, u, v) IN
         /\ memo \in Memos
         /\ \A x \in DOMAIN memo : floor[b] <= memo[x] /\ memo[x] <= stored["data"]
         /\ tab[b].req.path = "web" =>
              \A a \in answers : a[1] # "write" => a[1] \in DOMAIN memo /\ memo[a[1]] = a[2]
<1> DEFINE memo == Kept(b, u, v)
           old == tab[b].memo
<1>1. old \in Memos
  BY DEF Types, Tabs
<1>2. DOMAIN old \in SUBSET STRING /\ \A x \in DOMAIN old : old[x] \in Nat
  BY <1>1 DEF Memos
<1>3. CASE v # Failed /\ Memoized(b)
  <2>1. v \in Nat /\ floor[b] <= v /\ v <= stored["data"]
    BY <1>3, ReplyOK
  <2>2. memo = [x \in DOMAIN old \cup {u} |-> IF x = u THEN v ELSE old[x]]
    BY <1>3 DEF Kept
  <2>3. memo \in [DOMAIN old \cup {u} -> Nat] /\ DOMAIN old \cup {u} \in SUBSET STRING
    BY <1>2, <2>1, <2>2
  <2>4. memo \in Memos
    BY <2>3 DEF Memos
  <2>5. \A x \in DOMAIN memo : floor[b] <= memo[x] /\ memo[x] <= stored["data"]
    BY <2>1, <2>2 DEF Versions
  <2>6. ASSUME NEW a \in answers, a[1] # "write"
        PROVE  a[1] \in DOMAIN memo /\ memo[a[1]] = a[2]
    <3>1. CASE a \in tab[b].answers
      <4>1. a[1] \in DOMAIN old /\ old[a[1]] = a[2]
        BY <1>3, <2>6, <3>1 DEF Versions, Memoized
      <4>2. a[1] = u => v = old[u]
        BY <1>3, <4>1 DEF Reply, Remembers
      <4> QED
        BY <2>2, <4>1, <4>2
    <3>2. CASE a = <<u, v>>
      BY <2>2, <3>2
    <3> QED
      BY <1>3, <3>1, <3>2
  <2> QED
    BY <2>4, <2>5, <2>6
<1>4. CASE ~(v # Failed /\ Memoized(b))
  <2>1. memo = old
    BY <1>4 DEF Kept
  <2>2. tab[b].req.path = "web" => answers = tab[b].answers
    BY <1>4 DEF Memoized
  <2> QED
    BY <1>1, <2>1, <2>2 DEF Versions
<1> QED
  BY <1>3, <1>4

LEMMA ReadOK ==
  ASSUME IInv, NEW b \in Browsers, Read(b)
  PROVE  IInv'
<1> USE DEF IInv
<1> DEFINE u == Step(b).url
           v == Reply(b, u)
           answers == tab[b].answers \cup (IF v = Failed THEN {} ELSE {<<u, v>>})
<1>1. tab[b].req # NoRequest /\ Underway(tab[b]) /\ Versions(tab[b], floor[b], stored["data"])
  BY DEF Read, At, RequestsOK
<1>2. tab[b] \in Tabs /\ u \in STRING
  BY <1>1, StepOK
<1>3. floor[b] \in Nat /\ stored["data"] \in Nat
  BY DEF Types, Tables
<1>4. v # Failed => v \in Nat /\ floor[b] <= v /\ v <= stored["data"]
  BY <1>1, <1>2, ReplyOK
<1>5. /\ answers \in SUBSET (Names \X Nat)
      /\ \A a \in answers : floor[b] <= a[2] /\ a[2] <= stored["data"]
  <2>1. u \in Names /\ tab[b].answers \in SUBSET (Names \X Nat)
    BY <1>2 DEF Names, Tabs
  <2> HIDE DEF u, v
  <2> QED
    BY <1>1, <1>4, <2>1 DEF Versions
<1>6. UNCHANGED <<server, cache, world, shown, call, written, own>>
  BY DEF Read
<1>7. Forward(b, stored["data"])
  <2>1. CASE Ends(Step(b).op, v)
    <3>1. Answered(b, answers)
      BY <2>1 DEF Read
    <3>2. floor[b] <= stored["data"]
      BY <1>1 DEF Versions
    <3> QED
      BY <1>3, <1>5, <3>1, <3>2, AnsweredOK
  <2>2. CASE ~Ends(Step(b).op, v)
    <3>1. Goes(b, Kept(b, u, v), answers)
      BY <2>2 DEF Read
    <3>2. floor[b] <= stored["data"]
      BY <1>1 DEF Versions
    <3> DEFINE memo == Kept(b, u, v)
    <3>3. /\ memo \in Memos
          /\ \A x \in DOMAIN memo : floor[b] <= memo[x] /\ memo[x] <= stored["data"]
          /\ tab[b].req.path = "web" =>
               \A a \in answers : a[1] # "write" => a[1] \in DOMAIN memo /\ memo[a[1]] = a[2]
      <4>1. v = Reply(b, u)
            /\ answers = tab[b].answers \cup (IF v = Failed THEN {} ELSE {<<u, v>>})
        OBVIOUS
      <4> HIDE DEF u, v, answers
      <4> QED
        BY <1>1, <1>2, <1>5, <4>1, KeptOK
    <3> HIDE DEF memo, answers
    <3> QED
      BY <1>1, <1>3, <1>5, <3>1, <3>2, <3>3, GoesOK DEF memo
  <2> QED
    BY <2>1, <2>2
<1>8. WorldMoves
  BY <1>6, StandsStill DEF world
<1>9. RequestsOK'
  BY <1>6, <1>7, <1>8, ForwardKeeps DEF world, cache
<1>10. CacheOK'
  BY <1>6, <1>8, CacheMoves DEF cache
<1>11. ProcessOK'
  BY <1>6, <1>7, ForwardProcess DEF world
<1>12. Types'
  <2>1. UNCHANGED <<rows, fetched, holder, shown, call, own, schema, up>>
    BY <1>6 DEF cache, world
  <2>2. rows \in Nat \cup {NoRows} /\ fetched \in Nat /\ holder \in Browsers \cup {Nobody}
        /\ shown \in Nat /\ call \in [began : Nat, ended : Nat] /\ own \in Nat
    BY DEF Types
  <2> QED
    BY <1>6, <1>7, <1>8, <2>1, <2>2, ForwardTypes
<1> QED
  BY <1>9, <1>10, <1>11, <1>12

LEMMA WriteOK ==
  ASSUME IInv, NEW b \in Browsers, Write(b)
  PROVE  IInv'
<1> USE DEF IInv
<1> DEFINE t == Step(b).url
           wrote == IF t = "data" THEN {<<"write", stored[t] + 1>>} ELSE {}
           answers == tab[b].answers \cup wrote
<1>1. tab[b].req # NoRequest /\ Step(b).op \in {"write", "own"}
      /\ Underway(tab[b]) /\ Versions(tab[b], floor[b], stored["data"])
  BY DEF Write, At, RequestsOK
<1>2. tab[b] \in Tabs /\ tab[b].req.post /\ t \in Tables
  BY <1>1, StepOK
<1>3. floor[b] \in Nat /\ stored["data"] \in Nat /\ stored[t] \in Nat
  BY <1>2 DEF Types, Tables
<1>4. UNCHANGED <<server, cache, schema, up, now, shown, call>>
  BY DEF Write
<1>5. tab[b].answers \in SUBSET (Names \X Nat) /\ tab[b].memo \in Memos
  BY <1>2 DEF Tabs
<1>6. WorldMoves /\ Forward(b, stored'["data"]) /\ (own' = own \/ ~config.readOnly)
  <2>1. CASE WriteFails(Step(b).op)
    <3>1. Answered(b, tab[b].answers) /\ UNCHANGED <<stored, written, own>>
      BY <2>1 DEF Write
    <3>2. WorldMoves
      BY <1>4, <3>1, StandsStill
    <3>3. floor[b] <= stored["data"] /\ \A a \in tab[b].answers : a[2] <= stored["data"]
      BY <1>1 DEF Versions
    <3> QED
      BY <1>3, <1>5, <3>1, <3>2, <3>3, AnsweredOK
  <2>2. CASE ~WriteFails(Step(b).op)
    <3>1. Stores(t) /\ Goes(b, tab[b].memo, answers)
      BY <2>2 DEF Write
    <3>2. WorldMoves
      BY <1>2, <1>4, <3>1, StoresMoves
    <3>3. /\ stored'["data"] \in Nat /\ stored["data"] <= stored'["data"]
          /\ t = "data" => stored'["data"] = stored["data"] + 1
      BY <1>2, <3>1, <3>2 DEF WorldMoves, Stores, Types, Tables
    <3>4. answers \in SUBSET (Names \X Nat)
      <4> DEFINE next == stored[t] + 1
      <4>1. next \in Nat
        BY <1>3
      <4> HIDE DEF next
      <4>2. <<"write", next>> \in Names \X Nat
        BY <4>1 DEF Names
      <4>3. wrote = {<<"write", next>>} \/ wrote = {}
        <5>1. CASE t = "data"
          BY <5>1 DEF next
        <5>2. CASE t # "data"
          BY <5>2
        <5> QED
          BY <5>1, <5>2
      <4> HIDE DEF wrote
      <4> QED
        BY <1>5, <4>2, <4>3, Zenon
    <3>5. \A a \in tab[b].answers : a[2] \in Nat /\ floor[b] <= a[2] /\ a[2] <= stored["data"]
      BY <1>1, <1>5 DEF Versions
    <3>6. \A a \in answers : floor[b] <= a[2] /\ a[2] <= stored'["data"]
      <4>1. floor[b] <= stored["data"]
        BY <1>1 DEF Versions
      <4>2. ASSUME NEW a \in tab[b].answers PROVE floor[b] <= a[2] /\ a[2] <= stored'["data"]
        BY <1>3, <3>3, <3>5, SMT
      <4>3. ASSUME t = "data", NEW a, a = <<"write", stored[t] + 1>>
            PROVE  floor[b] <= a[2] /\ a[2] <= stored'["data"]
        BY <1>3, <3>3, <4>1, <4>3, SMT
      <4> QED
        BY <4>2, <4>3
    <3>7. \A x \in DOMAIN tab[b].memo : floor[b] <= tab[b].memo[x] /\ tab[b].memo[x] <= stored'["data"]
      <4>1. \A x \in DOMAIN tab[b].memo : tab[b].memo[x] \in Nat
        BY <1>5 DEF Memos
      <4>2. \A x \in DOMAIN tab[b].memo : floor[b] <= tab[b].memo[x] /\ tab[b].memo[x] <= stored["data"]
        BY <1>1 DEF Versions
      <4> QED
        BY <1>3, <3>3, <4>1, <4>2, SMT
    <3>8. tab[b].req.path = "web" =>
            \A a \in answers : a[1] # "write" =>
              a[1] \in DOMAIN tab[b].memo /\ tab[b].memo[a[1]] = a[2]
      BY <1>1 DEF Versions
    <3>9. floor[b] <= stored'["data"]
      BY <1>1, <1>3, <3>3, SMT DEF Versions
    <3>10. ~config.readOnly
      BY <1>1, <1>2 DEF ProcessOK
    <3> HIDE DEF answers
    <3>11. Forward(b, stored'["data"])
      BY <1>1, <1>5, <3>1, <3>3, <3>4, <3>6, <3>7, <3>8, <3>9, GoesOK
    <3> QED
      BY <3>2, <3>10, <3>11
  <2> QED
    BY <2>1, <2>2
<1>7. RequestsOK'
  BY <1>4, <1>6, ForwardKeeps DEF cache
<1>8. CacheOK'
  BY <1>4, <1>6, CacheMoves DEF cache
<1>9. ProcessOK'
  BY <1>4, <1>6, ForwardProcess
<1>10. Types'
  <2>1. own' \in Nat
    <3>1. own' \in {own, own + 1}
      BY DEF Write
    <3> QED
      BY <3>1, SMT DEF Types
  <2>2. UNCHANGED <<rows, fetched, holder, shown, call, schema, up>>
    BY <1>4 DEF cache
  <2>3. rows \in Nat \cup {NoRows} /\ fetched \in Nat /\ holder \in Browsers \cup {Nobody}
        /\ shown \in Nat /\ call \in [began : Nat, ended : Nat]
    BY DEF Types
  <2> QED
    BY <1>4, <1>6, <2>1, <2>2, <2>3, ForwardTypes
<1> QED
  BY <1>7, <1>8, <1>9, <1>10

-----------------------------------------------------------------------------
(* The settings cache.                                                     *)

\* Nobody but the holder of the mutex is in a call for the rows.
LEMMA MutexAlone ==
  ASSUME RequestsOK, NEW c \in Browsers, c # holder
  PROVE  tab[c].stage = "run"
BY DEF RequestsOK, Asking

\* A page that goes on with the rows leaves its answers as they are.
LEMMA ShowsOK ==
  ASSUME Types, RequestsOK, NEW b \in Browsers, NEW v, tab[b].req # NoRequest, Shows(b, v)
  PROVE  Forward(b, stored["data"])
<1>1. /\ Underway(tab[b]) /\ Versions(tab[b], floor[b], stored["data"])
      /\ Goes(b, tab[b].memo, tab[b].answers)
  BY DEF RequestsOK, Shows
<1>2. /\ tab[b].memo \in Memos /\ tab[b].answers \in SUBSET (Names \X Nat)
      /\ stored["data"] \in Nat
  BY DEF Types, Tabs, Tables
<1>3. /\ floor[b] <= stored["data"]
      /\ \A u \in DOMAIN tab[b].memo : floor[b] <= tab[b].memo[u] /\ tab[b].memo[u] <= stored["data"]
      /\ \A a \in tab[b].answers : floor[b] <= a[2] /\ a[2] <= stored["data"]
      /\ tab[b].req.path = "web" =>
           \A a \in tab[b].answers : a[1] # "write" =>
             a[1] \in DOMAIN tab[b].memo /\ tab[b].memo[a[1]] = a[2]
  BY <1>1 DEF Versions
<1> QED
  BY <1>1, <1>2, <1>3, GoesOK

LEMMA TakeRowsOK ==
  ASSUME IInv, NEW b \in Browsers, TakeRows(b)
  PROVE  IInv' /\ shown' >= shown
<1> USE DEF IInv
<1>1. /\ tab[b].req # NoRequest /\ holder = Nobody /\ rows # NoRows
      /\ Shows(b, rows) /\ shown' = rows
      /\ UNCHANGED <<server, rows, fetched, holder, schema, up, stored, now, call, written, own>>
  BY DEF TakeRows, At, Fresh, Shows, cache, world
<1>2. Forward(b, stored'["data"])
  BY <1>1, ShowsOK
<1>3. WorldMoves
  BY <1>1, StandsStill
<1>4. rows \in Nat /\ shown \in Nat /\ shown <= rows
  BY <1>1 DEF Types, CacheOK
<1>5. RequestsOK'
  <2>1. \A c \in Browsers : tab[c].stage = "run"
    BY <1>1, MutexAlone, ConstantsAssumption
  <2> QED
    BY <1>2, <1>3, <2>1, ForwardKeeps
<1>6. CacheOK'
  BY <1>1, <1>4, SMT DEF CacheOK, Later, Types
<1>7. ProcessOK'
  BY <1>1, <1>2, ForwardProcess
<1>8. Types'
  <2>1. fetched \in Nat /\ holder \in Browsers \cup {Nobody}
        /\ call \in [began : Nat, ended : Nat] /\ own \in Nat
    BY DEF Types
  <2> QED
    BY <1>1, <1>2, <1>3, <1>4, <2>1, ForwardTypes
<1> QED
  BY <1>1, <1>4, <1>5, <1>6, <1>7, <1>8, SMT

\* A step that changes only what b's call has come to.
LEMMA CallKeeps ==
  ASSUME IInv, NEW b \in Browsers, NEW t \in Tabs, tab' = [tab EXCEPT ![b] = t],
         holder' \in Browsers \cup {Nobody},
         t.req = tab[b].req, Underway(t), t.memo = tab[b].memo, t.answers = tab[b].answers,
         UNCHANGED <<server, rows, fetched, world, history>>,
         Asking(b)', \A c \in Browsers : c # b => tab[c].stage = "run"
  PROVE  IInv'
<1> USE DEF IInv
<1>1. tab \in [Browsers -> Tabs]
  BY DEF Types
<1>2. /\ tab' \in [Browsers -> Tabs] /\ tab'[b] = t
      /\ \A c \in Browsers : c # b => tab'[c] = tab[c]
  BY <1>1
<1>3. /\ UNCHANGED <<config, phase, open, rows, fetched>>
      /\ UNCHANGED <<schema, up, stored, now, floor, shown, call, written, own>>
  BY DEF server, world, history
<1>4. WorldMoves
  BY <1>3, StandsStill
<1>5. RequestsOK'
  <2> SUFFICES ASSUME NEW c \in Browsers
               PROVE  /\ Underway(tab'[c]) /\ Asking(c)'
                      /\ Versions(tab'[c], floor'[c], stored'["data"])
    BY Zenon DEF RequestsOK
  <2>1. Underway(tab[c]) /\ Versions(tab[c], floor[c], stored["data"]) /\ Asking(c)
    BY DEF RequestsOK
  <2>2. CASE c = b
    BY <1>2, <1>3, <2>1, <2>2 DEF Versions
  <2>3. CASE c # b
    BY <1>2, <1>3, <1>4, <2>1, <2>3, OtherMoves
  <2> QED
    BY <2>2, <2>3
<1>6. CacheOK'
  BY <1>3, <1>4, CacheMoves
<1>7. ProcessOK'
  <2>1. \A c \in Browsers : tab'[c].req = tab[c].req
    BY <1>2
  <2>2. HasStore' = HasStore
    BY <1>3 DEF HasStore
  <2> QED
    BY <1>3, <2>1, <2>2, Zenon DEF ProcessOK
<1>8. Types'
  BY <1>2, <1>3, Zenon DEF Types
<1> QED
  BY <1>5, <1>6, <1>7, <1>8

LEMMA CalledTab ==
  ASSUME NEW t \in Tabs, NEW stage \in {"run", "asked", "answered"},
         NEW since \in Nat, NEW reply \in Nat \cup {Failed}
  PROVE  /\ [t EXCEPT !.stage = stage, !.since = since] \in Tabs
         /\ [t EXCEPT !.stage = stage, !.reply = reply] \in Tabs
<1> DEFINE M == Memos
           A == SUBSET (Names \X Nat)
<1>1. Tabs = [req : Requests \cup {NoRequest}, at : Nat, memo : M, answers : A,
              stage : {"run", "asked", "answered"}, since : Nat, reply : Nat \cup {Failed}]
  BY DEF Tabs, M, A
<1> HIDE DEF M, A
<1> QED
  BY <1>1

LEMMA AskRowsOK ==
  ASSUME IInv, NEW b \in Browsers, AskRows(b)
  PROVE  IInv'
<1> USE DEF IInv
<1> DEFINE t == [tab[b] EXCEPT !.stage = "asked", !.since = now]
<1>1. /\ tab[b].req # NoRequest /\ holder = Nobody
      /\ holder' = b /\ tab' = [tab EXCEPT ![b] = t]
      /\ UNCHANGED <<server, rows, fetched, world, history>>
  BY DEF AskRows, At
<1>2. tab[b] \in Tabs /\ Underway(tab[b]) /\ now \in Nat /\ tab \in [Browsers -> Tabs]
  BY DEF Types, RequestsOK
<1>3. t \in Tabs
  BY <1>2, CalledTab
<1>4. /\ t.req = tab[b].req /\ t.at = tab[b].at /\ t.memo = tab[b].memo
      /\ t.answers = tab[b].answers /\ t.stage = "asked" /\ t.since = now
  BY <1>2, SMT DEF Tabs
<1>5. Underway(t)
  BY <1>1, <1>2, <1>4 DEF Underway
<1>6. tab'[b] = t
  BY <1>1, <1>2
<1>7. now' = now /\ now <= now
  BY <1>1, <1>2, SMT DEF world
<1>8. Asking(b)'
  BY <1>1, <1>4, <1>6, <1>7, Zenon DEF Asking
<1>9. \A c \in Browsers : tab[c].stage = "run"
  BY <1>1, MutexAlone, ConstantsAssumption
<1> HIDE DEF t
<1> QED
  BY <1>1, <1>3, <1>4, <1>5, <1>8, <1>9, CallKeeps

LEMMA ApiAnswersOK ==
  ASSUME IInv, NEW b \in Browsers, ApiAnswers(b)
  PROVE  IInv'
<1> USE DEF IInv
<1> DEFINE v == IF Fails("settings") THEN Failed ELSE stored["settings"]
           t == [tab[b] EXCEPT !.stage = "answered", !.reply = v]
<1>1. /\ tab[b].stage = "asked" /\ tab' = [tab EXCEPT ![b] = t]
      /\ UNCHANGED <<server, rows, fetched, holder, world, history>>
  BY DEF ApiAnswers, cache
<1>2. tab[b] \in Tabs /\ Underway(tab[b]) /\ tab \in [Browsers -> Tabs]
      /\ stored["settings"] \in Nat /\ shown \in Nat
  BY DEF Types, RequestsOK, Tables
<1>3. v \in Nat \cup {Failed} /\ (v # Failed => v = stored["settings"])
  BY <1>2
<1>4. t \in Tabs
  <2> HIDE DEF v
  <2> QED
    BY <1>2, <1>3, CalledTab
<1>5. /\ t.req = tab[b].req /\ t.at = tab[b].at /\ t.memo = tab[b].memo
      /\ t.answers = tab[b].answers /\ t.stage = "answered" /\ t.since = tab[b].since
      /\ t.reply = v
  <2> HIDE DEF v
  <2> QED
    BY <1>2, SMT DEF Tabs
<1>6. holder = b /\ tab[b].since <= now
  BY <1>1 DEF RequestsOK, Asking
<1>7. tab[b].req # NoRequest
  <2>1. Idle.stage = "run"
    BY DEF Idle
  <2> QED
    BY <1>1, <1>2, <2>1 DEF Underway
<1>8. Underway(t)
  BY <1>2, <1>5, <1>7 DEF Underway
<1>9. tab'[b] = t
  BY <1>1, <1>2
<1>10. /\ UNCHANGED <<now, stored, shown, written, holder>>
  BY <1>1 DEF world, history
<1>11. v # Failed =>
         /\ shown <= v /\ v <= stored["settings"]
         /\ \A w \in DOMAIN written : w > v => written[w] >= tab[b].since
  <2> SUFFICES ASSUME v # Failed
               PROVE  /\ shown <= v /\ v <= stored["settings"]
                      /\ \A w \in DOMAIN written : w > v => written[w] >= tab[b].since
    OBVIOUS
  <2>1. v = stored["settings"] /\ Len(written) = stored["settings"] /\ shown <= stored["settings"]
    BY <1>3 DEF CacheOK
  <2>2. DOMAIN written = 1 .. Len(written)
    BY LenProperties DEF Types
  <2> HIDE DEF v
  <2> QED
    BY <1>2, <2>1, <2>2, SMT
<1>12. Asking(b)'
  <2> HIDE DEF t, v
  <2> QED
    BY <1>5, <1>6, <1>9, <1>10, <1>11, Zenon DEF Asking, Later
<1>13. \A c \in Browsers : c # b => tab[c].stage = "run"
  BY <1>6, MutexAlone
<1>14. holder' \in Browsers \cup {Nobody}
  BY <1>6, <1>10
<1> HIDE DEF t, v
<1> QED
  BY <1>1, <1>4, <1>5, <1>8, <1>12, <1>13, <1>14, CallKeeps

LEMMA EndAskOK ==
  ASSUME IInv, NEW b \in Browsers, EndAsk(b)
  PROVE  IInv' /\ shown' >= shown
<1> USE DEF IInv
<1> DEFINE v == tab[b].reply
<1>1. /\ tab[b].stage = "answered"
      /\ rows' = Refreshed(v) /\ fetched' = RefreshedAt(v) /\ holder' = Nobody
      /\ call' = IF v = Failed THEN call ELSE [began |-> tab[b].since, ended |-> now]
      /\ Shows(b, Refreshed(v))
      /\ shown' = IF Refreshed(v) = NoRows THEN shown ELSE Refreshed(v)
      /\ UNCHANGED <<server, schema, up, stored, now, written, own>>
  BY DEF EndAsk, Unlocks, Shows, world
<1>2. /\ tab[b] \in Tabs /\ Underway(tab[b]) /\ now \in Nat /\ stored["settings"] \in Nat
      /\ shown \in Nat /\ shown <= stored["settings"] /\ fetched \in Nat
      /\ rows \in Nat \cup {NoRows} /\ call \in [began : Nat, ended : Nat]
  BY DEF Types, RequestsOK, CacheOK, Tables
<1>3. tab[b].since \in Nat /\ v \in Nat \cup {Failed}
  BY <1>2 DEF Tabs
<1>4. holder = b /\ tab[b].since <= now
  BY <1>1 DEF RequestsOK, Asking
<1>5. v # Failed =>
        /\ shown <= v /\ v <= stored["settings"]
        /\ \A w \in DOMAIN written : w > v => written[w] >= tab[b].since
  BY <1>1 DEF RequestsOK, Asking, Later
<1>6. tab[b].req # NoRequest
  <2>1. Idle.stage = "run"
    BY DEF Idle
  <2> QED
    BY <1>1, <1>2, <2>1 DEF Underway
<1>7. Forward(b, stored'["data"]) /\ WorldMoves
  BY <1>1, <1>6, ShowsOK, StandsStill
<1>8. /\ rows' \in Nat \cup {NoRows} /\ fetched' \in Nat /\ shown' \in Nat
      /\ call' \in [began : Nat, ended : Nat]
      /\ CacheOK' /\ shown' >= shown
  <2>1. CASE v = Failed
    <3>1. rows' = rows /\ fetched' = fetched /\ call' = call
      BY <1>1, <2>1 DEF Refreshed, RefreshedAt
    <3>2. shown' = IF rows = NoRows THEN shown ELSE rows
      BY <1>1, <2>1 DEF Refreshed
    <3>3. rows # NoRows => shown <= rows /\ rows <= stored["settings"] /\ rows \in Nat
      BY <1>2 DEF CacheOK
    <3>4. shown' \in Nat /\ shown' >= shown /\ shown' <= stored["settings"]
          /\ (rows # NoRows => shown' <= rows)
      BY <1>2, <3>2, <3>3, SMT
    <3> QED
      BY <1>1, <1>2, <3>1, <3>4, Zenon DEF CacheOK, Later
  <2>2. CASE v # Failed
    <3>1. rows' = v /\ fetched' = now /\ v \in Nat /\ v # NoRows
      BY <1>1, <1>3, <2>2, ConstantsAssumption DEF Refreshed, RefreshedAt
    <3>2. /\ shown' = v
          /\ call' = [began |-> tab[b].since, ended |-> now]
      BY <1>1, <2>2, <3>1 DEF Refreshed
    <3>3. /\ call' \in [began : Nat, ended : Nat]
          /\ call'.began = tab[b].since /\ call'.ended = now
      BY <1>2, <1>3, <3>2
    <3>4. v <= v /\ now <= now /\ v >= shown
      BY <1>2, <1>5, <2>2, <3>1, SMT
    <3> QED
      BY <1>1, <1>2, <1>4, <1>5, <2>2, <3>1, <3>2, <3>3, <3>4, Zenon DEF CacheOK, Later
  <2> QED
    BY <2>1, <2>2
<1>9. RequestsOK'
  <2>1. \A c \in Browsers : c # b => tab[c].stage = "run"
    BY <1>4, MutexAlone
  <2> QED
    BY <1>7, <2>1, ForwardKeeps
<1>10. ProcessOK'
  BY <1>1, <1>7, ForwardProcess
<1>11. Types'
  <2>1. holder' \in Browsers \cup {Nobody} /\ own' \in Nat
    BY <1>1 DEF Types
  <2> QED
    BY <1>1, <1>7, <1>8, <2>1, ForwardTypes
<1> QED
  BY <1>8, <1>9, <1>10, <1>11

-----------------------------------------------------------------------------
(* The process, and the world around it.                                   *)

\* A step of the process or of its database that leaves the requests alone.
LEMMA LifeKeeps ==
  ASSUME IInv, UNCHANGED <<config, cache, stored, now, tab, history>>,
         phase' \in {"down", "opened", "serving", "draining", "closing"},
         open' \in BOOLEAN, up' \in BOOLEAN, schema' \in Nat,
         phase' \in {"opened", "serving", "draining"} => open' = HasStore,
         phase' \in {"serving", "draining"} /\ HasStore => schema' >= Build,
         phase' \in {"down", "opened"} => phase \in {"down", "opened"}
  PROVE  IInv'
<1> USE DEF IInv
<1>1. UNCHANGED <<rows, fetched, holder, floor, shown, call, written, own>>
  BY DEF cache, history
<1>2. HasStore' = HasStore
  BY DEF HasStore
<1>3. Types'
  BY <1>1, Zenon DEF Types
<1>4. RequestsOK'
  BY <1>1, Zenon DEF RequestsOK, Asking, Later
<1>5. CacheOK'
  BY <1>1, Zenon DEF CacheOK, Later
<1>6. ProcessOK'
  BY <1>1, <1>2, Zenon DEF ProcessOK
<1> QED
  BY <1>3, <1>4, <1>5, <1>6

\* A step of the clock or of another process's.
LEMMA WorldKeeps ==
  ASSUME IInv, WorldMoves, UNCHANGED <<server, cache, schema, up, tab, floor, shown, call, own>>
  PROVE  IInv'
<1> USE DEF IInv
<1>1. UNCHANGED <<config, phase, open, rows, fetched, holder>>
  BY DEF server, cache
<1>2. HasStore' = HasStore
  BY <1>1 DEF HasStore
<1>3. Types'
  BY <1>1, Zenon DEF Types, WorldMoves
<1>4. RequestsOK'
  <2> SUFFICES ASSUME NEW b \in Browsers
               PROVE  /\ Underway(tab'[b]) /\ Asking(b)'
                      /\ Versions(tab'[b], floor'[b], stored'["data"])
    BY Zenon DEF RequestsOK
  <2>1. Underway(tab[b]) /\ Versions(tab[b], floor[b], stored["data"]) /\ Asking(b)
    BY DEF RequestsOK
  <2> QED
    BY <1>1, <2>1, OtherMoves
<1>5. CacheOK'
  BY <1>1, CacheMoves
<1>6. ProcessOK'
  BY <1>1, <1>2, Zenon DEF ProcessOK
<1> QED
  BY <1>3, <1>4, <1>5, <1>6

\* The end of a process takes its requests, its rows and their mutex with it.
LEMMA DieOK ==
  ASSUME IInv, Die
  PROVE  IInv'
<1> USE DEF IInv
<1>1. /\ phase' = "down" /\ open' = FALSE /\ rows' = NoRows /\ fetched' = 0 /\ holder' = Nobody
      /\ tab' = [b \in Browsers |-> Idle]
      /\ UNCHANGED <<config, schema, up, stored, now, floor, shown, call, written, own>>
  BY DEF Die, world, history
<1>2. \A b \in Browsers :
        /\ Idle \in Tabs /\ Idle.req = NoRequest /\ Idle.stage = "run" /\ Idle.since = 0
        /\ Underway(Idle) /\ Versions(Idle, floor[b], stored["data"])
  <2> TAKE b \in Browsers
  <2>1. floor[b] \in Nat /\ stored["data"] \in Nat
    BY DEF Types, Tables
  <2>2. floor[b] <= stored["data"]
    BY DEF RequestsOK, Versions
  <2> QED
    BY <2>1, <2>2, IdleOK
<1>3. \A b \in Browsers : tab'[b] = Idle
  BY <1>1
<1>4. tab' \in [Browsers -> Tabs]
  BY <1>1, <1>2
<1>5. Types'
  <2>1. phase' \in {"down", "opened", "serving", "draining", "closing"}
        /\ rows' \in Nat \cup {NoRows} /\ fetched' \in Nat /\ holder' \in Browsers \cup {Nobody}
    BY <1>1
  <2>2. open' \in BOOLEAN
    BY <1>1, Zenon
  <2> QED
    BY <1>1, <1>4, <2>1, <2>2, Zenon DEF Types
<1>6. RequestsOK'
  <2> SUFFICES ASSUME NEW b \in Browsers
               PROVE  /\ Underway(tab'[b]) /\ Asking(b)'
                      /\ Versions(tab'[b], floor'[b], stored'["data"])
    BY Zenon DEF RequestsOK
  <2>1. 0 <= now'
    BY <1>1 DEF Types
  <2> QED
    BY <1>1, <1>2, <1>3, <2>1, Zenon DEF Asking
<1>7. CacheOK'
  BY <1>1, Zenon DEF CacheOK, Later
<1>8. ProcessOK'
  <2>1. phase' \notin {"opened", "serving", "draining"}
    BY <1>1
  <2>2. \A b \in Browsers : tab'[b].req = NoRequest
    BY <1>2, <1>3, Zenon
  <2> QED
    BY <1>1, <2>1, <2>2, Zenon DEF ProcessOK
<1> QED
  BY <1>5, <1>6, <1>7, <1>8

\* A process with storage serves on its own build's schema or a newer one.
LEMMA GateOK ==
  ASSUME IInv, Gate
  PROVE  IInv'
<1> USE DEF IInv
<1>1. /\ phase = "opened" /\ phase' = "serving" /\ schema' = Migrated /\ Allowed
      /\ UNCHANGED <<config, open, up, stored, now, cache, tab, history>>
  BY DEF Gate
<1>2. open = HasStore /\ open \in BOOLEAN /\ up \in BOOLEAN /\ schema \in Nat
  BY <1>1, Zenon DEF Types, ProcessOK
<1>3. Build \in Nat
  BY ConstantsAssumption
<1>4. schema' \in Nat
  BY <1>1, <1>2, <1>3 DEF Migrated
<1>5. HasStore => schema' >= Build
  <2> SUFFICES ASSUME HasStore PROVE schema' >= Build
    OBVIOUS
  <2>1. CASE Current
    <3>1. schema' = schema
      BY <1>1, <2>1 DEF Migrated
    <3> QED
      BY <2>1, <3>1 DEF Current
  <2>2. CASE ~Current
    <3>1. config.autoMigrate
      BY <1>1, <2>2 DEF Allowed
    <3>2. schema' = Build
      BY <1>1, <2>2, <3>1 DEF Migrated
    <3> QED
      BY <1>3, <3>2
  <2> QED
    BY <2>1, <2>2
<1>6. phase' \in {"down", "opened", "serving", "draining", "closing"}
      /\ phase' \notin {"down", "opened"}
  BY <1>1
<1>7. open' \in BOOLEAN /\ open' = HasStore /\ up' \in BOOLEAN
  BY <1>1, <1>2, Zenon
<1> QED
  BY <1>1, <1>4, <1>5, <1>6, <1>7, LifeKeeps

LEMMA ProcessStepsOK ==
  ASSUME IInv, Process
  PROVE  IInv' /\ UNCHANGED shown
<1> USE DEF IInv
<1>1. open \in BOOLEAN /\ up \in BOOLEAN /\ schema \in Nat
  BY Zenon DEF Types
<1>2. CASE Boot
  <2>1. /\ phase = "down" /\ phase' = "opened" /\ open' = HasStore
        /\ UNCHANGED <<config, cache, schema, up, stored, now, tab, history>>
    BY <1>2 DEF Boot, world
  <2>2. open' \in BOOLEAN
    BY <2>1, Zenon DEF HasStore
  <2> QED
    BY <1>1, <2>1, <2>2, LifeKeeps DEF history
<1>3. CASE Gate
  BY <1>3, GateOK DEF Gate, history
<1>4. ASSUME Close PROVE IInv' /\ UNCHANGED shown
  <2>1. /\ phase' = "closing" /\ open' = FALSE
        /\ UNCHANGED <<config, cache, schema, up, stored, now, tab, history>>
    BY <1>4 DEF Close, world
  <2>2. open' \in BOOLEAN
    BY <2>1, Zenon
  <2> QED
    BY <1>1, <2>1, <2>2, LifeKeeps DEF history
<1>5. CASE Signal
  <2>1. /\ phase = "serving" /\ phase' = "draining"
        /\ UNCHANGED <<config, open, cache, schema, up, stored, now, tab, history>>
    BY <1>5 DEF Signal, world
  <2>2. open = HasStore /\ (HasStore => schema >= Build)
    BY <2>1, Zenon DEF ProcessOK
  <2>3. open' \in BOOLEAN /\ open' = HasStore /\ up' \in BOOLEAN
    BY <1>1, <2>1, <2>2, Zenon
  <2> QED
    BY <1>1, <2>1, <2>2, <2>3, LifeKeeps DEF history
<1>6. ASSUME Die PROVE IInv' /\ UNCHANGED shown
  BY <1>6, DieOK DEF Die, history
<1>7. CASE GateFails
  <2>1. /\ phase = "opened" /\ phase' = "closing" /\ open' = FALSE /\ schema' \in schema..Migrated
        /\ UNCHANGED <<config, cache, up, stored, now, tab, history>>
    BY <1>7 DEF GateFails
  <2>2. schema' \in Nat
    BY <1>1, <2>1, ConstantsAssumption DEF Migrated
  <2>3. open' \in BOOLEAN /\ up' \in BOOLEAN
    BY <1>1, <2>1, Zenon
  <2> QED
    BY <2>1, <2>2, <2>3, LifeKeeps DEF history
<1> QED
  BY <1>2, <1>3, <1>4, <1>5, <1>6, <1>7
     DEF Process, Refuse, ListenerFails, Drained, Deadline, Exit, Crash

LEMMA WorldStepsOK ==
  ASSUME IInv, World
  PROVE  IInv' /\ UNCHANGED shown
<1> USE DEF IInv
<1>1. /\ open \in BOOLEAN /\ up \in BOOLEAN /\ schema \in Nat /\ now \in Nat
      /\ phase \in {"down", "opened", "serving", "draining", "closing"}
  BY Zenon DEF Types
<1>2. /\ phase \in {"opened", "serving", "draining"} => open = HasStore
      /\ phase \in {"serving", "draining"} /\ HasStore => schema >= Build
  BY DEF ProcessOK
<1>3. CASE Outage \/ Recovery
  <2>1. /\ UNCHANGED <<server, schema, stored, now, cache, tab, history>>
        /\ up' = FALSE \/ up' = TRUE
    BY <1>3, Zenon DEF Outage, Recovery
  <2>2. up' \in BOOLEAN /\ open' \in BOOLEAN
    BY <1>1, <2>1, Zenon DEF server
  <2> QED
    BY <1>1, <1>2, <2>1, <2>2, LifeKeeps DEF server, history
<1>4. CASE Upgrade
  <2>1. /\ UNCHANGED <<server, up, stored, now, cache, tab, history>>
        /\ schema' = schema + 1
    BY <1>4 DEF Upgrade
  <2>2. schema' \in Nat /\ Build \in Nat /\ (schema >= Build => schema' >= Build)
    BY <1>1, <2>1, ConstantsAssumption, SMT
  <2>3. up' \in BOOLEAN /\ open' \in BOOLEAN
    BY <1>1, <2>1, Zenon DEF server
  <2> QED
    BY <1>1, <1>2, <2>1, <2>2, <2>3, LifeKeeps DEF server, history
<1>5. CASE \E t \in Tables : OtherWrites(t)
  <2>1. PICK t \in Tables : OtherWrites(t)
    BY <1>5
  <2>2. /\ Stores(t) /\ now' = now
        /\ UNCHANGED <<server, schema, up, cache, tab, floor, shown, call, own>>
    BY <2>1 DEF OtherWrites
  <2>3. WorldMoves
    BY <2>2, StoresMoves
  <2> QED
    BY <2>2, <2>3, WorldKeeps
<1>6. CASE Tick
  <2>1. /\ now' = now + 1 /\ UNCHANGED <<stored, written>>
        /\ UNCHANGED <<server, schema, up, cache, tab, floor, shown, call, own>>
    BY <1>6 DEF Tick, history
  <2>2. WorldMoves
    BY <2>1, Ticks
  <2> QED
    BY <2>1, <2>2, WorldKeeps
<1> QED
  BY <1>3, <1>4, <1>5, <1>6 DEF World

LEMMA OpenOK ==
  ASSUME IInv, NEW b \in Browsers, NEW q \in Asks[b], Open(b, q)
  PROVE  IInv' /\ UNCHANGED shown
<1> USE DEF IInv
<1> DEFINE t == [tab[b] EXCEPT !.req = q]
<1>1. /\ phase = "serving" /\ tab[b].req = NoRequest /\ Admitted(q)
      /\ tab' = [tab EXCEPT ![b] = t]
      /\ UNCHANGED <<config, phase, open, rows, fetched, holder>>
      /\ UNCHANGED <<schema, up, stored, now, floor, shown, call, written, own>>
  BY DEF Open, server, cache, world, history
<1>2. q \in Requests /\ q # NoRequest /\ q.steps \in Seq([op : Ops, url : STRING])
      /\ Len(q.steps) > 0
  <2>1. q \in Requests
    BY DEF Requests
  <2> QED
    BY <2>1, ConstantsAssumption DEF IsRequest
<1>3. tab[b] = Idle /\ tab[b] \in Tabs /\ tab \in [Browsers -> Tabs]
  BY <1>1 DEF Types, RequestsOK, Underway
<1>4. Idle.at = 0 /\ Idle.stage = "run" /\ Idle.since = 0 /\ Idle.answers = {}
  BY DEF Idle
<1>5. t \in Tabs
  <2> DEFINE M == Memos
             A == SUBSET (Names \X Nat)
  <2>1. Tabs = [req : Requests \cup {NoRequest}, at : Nat, memo : M, answers : A,
                stage : {"run", "asked", "answered"}, since : Nat, reply : Nat \cup {Failed}]
    BY DEF Tabs, M, A
  <2> HIDE DEF M, A
  <2> QED
    BY <1>2, <1>3, <2>1
<1>6. /\ t.req = q /\ t.at = 0 /\ t.stage = "run" /\ t.since = 0
      /\ t.memo = tab[b].memo /\ t.answers = {}
  BY <1>3, <1>4, SMT DEF Tabs
<1>7. tab'[b] = t /\ tab' \in [Browsers -> Tabs]
      /\ \A c \in Browsers : c # b => tab'[c] = tab[c]
  BY <1>1, <1>3, <1>5
<1>8. Underway(t)
  BY <1>2, <1>6, LenProperties, SMT DEF Underway
<1>9. Versions(t, floor[b], stored["data"])
  <2>1. Versions(tab[b], floor[b], stored["data"])
    BY DEF RequestsOK
  <2> HIDE DEF t
  <2> QED
    BY <1>6, <2>1, Zenon DEF Versions
<1> HIDE DEF t
<1>10. WorldMoves
  BY <1>1, StandsStill
<1>11. RequestsOK'
  <2> SUFFICES ASSUME NEW c \in Browsers
               PROVE  /\ Underway(tab'[c]) /\ Asking(c)'
                      /\ Versions(tab'[c], floor'[c], stored'["data"])
    BY Zenon DEF RequestsOK
  <2>1. CASE c = b
    <3>1. t.since <= now'
      BY <1>1, <1>6, SMT DEF Types
    <3> QED
      BY <1>1, <1>6, <1>7, <1>8, <1>9, <2>1, <3>1, Zenon DEF Asking
  <2>2. CASE c # b
    <3>1. Underway(tab[c]) /\ Versions(tab[c], floor[c], stored["data"]) /\ Asking(c)
      BY DEF RequestsOK
    <3> QED
      BY <1>1, <1>7, <1>10, <2>2, <3>1, OtherMoves
  <2> QED
    BY <2>1, <2>2
<1>12. CacheOK'
  BY <1>1, <1>10, CacheMoves
<1>13. ProcessOK'
  <2>1. phase' \notin {"down", "opened"}
    BY <1>1
  <2>2. config.readOnly => \A c \in Browsers : tab'[c].req # NoRequest => ~tab'[c].req.post
    BY <1>1, <1>6, <1>7 DEF ProcessOK, Admitted
  <2>3. HasStore' = HasStore
    BY <1>1 DEF HasStore
  <2> QED
    BY <1>1, <2>1, <2>2, <2>3, Zenon DEF ProcessOK
<1>14. Types'
  BY <1>1, <1>7, Zenon DEF Types
<1> QED
  BY <1>1, <1>11, <1>12, <1>13, <1>14

-----------------------------------------------------------------------------
(* The theorems.                                                           *)

LEMMA PagesOK ==
  ASSUME IInv, NEW b \in Browsers, Page(b)
  PROVE  IInv' /\ shown' >= shown
<1>1. shown \in Nat
  BY DEF IInv, Types
<1>2. CASE Read(b) \/ Write(b)
  <2>1. shown' = shown
    BY <1>2, Zenon DEF Read, Write
  <2> QED
    BY <1>1, <1>2, <2>1, ReadOK, WriteOK
<1>3. CASE TakeRows(b) \/ EndAsk(b)
  BY <1>3, TakeRowsOK, EndAskOK
<1>4. CASE AskRows(b) \/ ApiAnswers(b)
  BY <1>1, <1>4, AskRowsOK, ApiAnswersOK DEF AskRows, ApiAnswers, history
<1> QED
  BY <1>2, <1>3, <1>4 DEF Page

LEMMA NextKeeps ==
  ASSUME IInv, [Next]_vars
  PROVE  IInv' /\ shown' >= shown
<1>1. shown \in Nat
  BY DEF IInv, Types
<1>2. CASE Next
  BY <1>1, <1>2, ProcessStepsOK, WorldStepsOK, OpenOK, PagesOK DEF Next
<1>3. CASE UNCHANGED vars
  <2>1. /\ UNCHANGED <<now, stored, written, shown>>
        /\ UNCHANGED <<server, cache, schema, up, tab, floor, shown, call, own>>
    BY <1>3 DEF vars, server, cache
  <2>2. WorldMoves
    BY <2>1, StandsStill DEF IInv
  <2> QED
    BY <1>1, <2>1, <2>2, WorldKeeps
<1> QED
  BY <1>2, <1>3

\* The invariant holds in every reachable state.
THEOREM Invariant == Spec => []IInv
<1>1. Init => IInv
  BY InitOK
<1>2. IInv /\ [Next]_vars => IInv'
  BY NextKeeps
<1> QED
  BY <1>1, <1>2, PTL DEF Spec

\* Types, with every answer a page keeps between nothing and what is stored.
THEOREM TypeCorrect == Spec => []TypeOK
<1>1. IInv => TypeOK
  <2> SUFFICES ASSUME IInv PROVE TypeOK
    OBVIOUS
  <2>1. ASSUME NEW b \in Browsers PROVE TabOK(tab[b]) /\ floor[b] \in Nat
    <3>1. /\ tab[b] \in Tabs /\ floor[b] \in Nat /\ stored["data"] \in Nat /\ now \in Nat
          /\ Underway(tab[b]) /\ Versions(tab[b], floor[b], stored["data"])
          /\ tab[b].since <= now
      BY DEF IInv, Types, RequestsOK, Asking, Tables
    <3>2. \A u \in DOMAIN tab[b].memo : tab[b].memo[u] \in Nat
      <4>1. tab[b].memo \in Memos
        BY <3>1 DEF Tabs
      <4> QED
        BY <4>1 DEF Memos
    <3>3. \A a \in tab[b].answers : a[2] \in Nat
      BY <3>1 DEF Tabs
    <3>4. \A u \in DOMAIN tab[b].memo : tab[b].memo[u] \in 0..stored["data"]
      BY <3>1, <3>2, SMT DEF Versions
    <3>5. \A a \in tab[b].answers : a[2] \in 0..stored["data"]
      BY <3>1, <3>3, SMT DEF Versions
    <3>6. /\ tab[b].req \in Requests \cup {NoRequest} /\ tab[b].at \in Nat
          /\ tab[b].stage \in {"run", "asked", "answered"}
          /\ tab[b].since \in 0..now /\ tab[b].reply \in Nat \cup {Failed}
      BY <3>1, SMT DEF Tabs
    <3> QED
      BY <3>1, <3>4, <3>5, <3>6, Zenon DEF TabOK, Underway
  <2> QED
    BY <2>1, Zenon DEF IInv, Types, TypeOK
<1> QED
  BY <1>1, Invariant, PTL

\* Requests are in flight only in a process that may serve them, and a
\* read-only one writes nothing for any (app/wire.go:254, middleware.go:119).
THEOREM ServesSafely == Spec => []ServesWhatItMay
<1>1. IInv => ServesWhatItMay
  <2> SUFFICES ASSUME IInv PROVE ServesWhatItMay
    OBVIOUS
  <2>1. phase \in {"serving", "draining"} /\ HasStore => open /\ Current
    BY DEF IInv, ProcessOK, Current
  <2>2. Busy # {} => phase \in {"serving", "draining", "closing"}
    BY DEF IInv, ProcessOK, Types, Busy
  <2>3. config.readOnly => own = 0
    BY DEF IInv, ProcessOK
  <2> QED
    BY <2>1, <2>2, <2>3 DEF ServesWhatItMay
<1> QED
  BY <1>1, Invariant, PTL

\* A page asks for the same URL twice and is answered the same, and nothing
\* outlives the request it was fetched for (requestcache.go:12).
THEOREM PagesAlwaysAgree == Spec => []PagesAgree
<1>1. IInv => PagesAgree
  <2> SUFFICES ASSUME IInv, NEW b \in Browsers
               PROVE  /\ \A x, y \in tab[b].answers :
                           Memoized(b) /\ x[1] = y[1] /\ x[1] # "write" => x = y
                      /\ \A x \in tab[b].answers : x[2] >= floor[b]
    BY DEF PagesAgree
  <2>1. /\ tab[b].answers \in SUBSET (Names \X Nat) /\ floor[b] \in Nat
        /\ Underway(tab[b]) /\ Versions(tab[b], floor[b], stored["data"])
    BY DEF IInv, Types, Tabs, RequestsOK
  <2>2. \A x \in tab[b].answers : x = <<x[1], x[2]>> /\ x[2] \in Nat
    BY <2>1
  <2>3. \A x \in tab[b].answers : x[2] >= floor[b]
    BY <2>1, <2>2, SMT DEF Versions
  <2>4. tab[b].req = NoRequest => tab[b].answers = {}
    BY <2>1 DEF Underway, Idle
  <2>5. ASSUME NEW x \in tab[b].answers, NEW y \in tab[b].answers,
               Memoized(b), x[1] = y[1], x[1] # "write"
        PROVE  x = y
    <3>1. tab[b].memo[x[1]] = x[2] /\ tab[b].memo[y[1]] = y[2]
      BY <2>1, <2>4, <2>5 DEF Versions, Memoized
    <3> QED
      BY <2>2, <2>5, <3>1
  <2> QED
    BY <2>3, <2>5
<1> QED
  BY <1>1, Invariant, PTL

\* The settings that pages show never go back, in any browser and across the
\* process's ends, and rows shown without a failed call are as fresh as their
\* call (web/settings.go:30, :59).
THEOREM SettingsOnlyMoveForward == Spec => SettingsMoveForward
<1> DEFINE Step1 == /\ shown' >= shown
                    /\ \A b \in Browsers : ShowsGoodRows(b) =>
                         /\ now - call'.ended <= TTL
                         /\ \A v \in DOMAIN written : v > shown' => written[v] >= call'.began
<1>1. IInv /\ [Next]_vars => [Step1]_vars
  <2> SUFFICES ASSUME IInv, [Next]_vars PROVE Step1
    OBVIOUS
  <2>1. shown' >= shown
    BY NextKeeps
  <2>2. ASSUME NEW b \in Browsers, TakeRows(b)
        PROVE  /\ now - call'.ended <= TTL
               /\ \A v \in DOMAIN written : v > shown' => written[v] >= call'.began
    <3>1. rows # NoRows /\ now - fetched <= TTL /\ shown' = rows /\ call' = call
      BY <2>2 DEF TakeRows, Fresh, Shows
    <3>2. fetched = call.ended /\ Later(rows, call.began)
      BY <3>1 DEF IInv, CacheOK
    <3> QED
      BY <3>1, <3>2 DEF Later
  <2>3. ASSUME NEW b \in Browsers, EndAsk(b), tab[b].reply # Failed
        PROVE  /\ now - call'.ended <= TTL
               /\ \A v \in DOMAIN written : v > shown' => written[v] >= call'.began
    <3>1. tab[b].reply \in Nat \cup {Failed} /\ now \in Nat
      BY DEF IInv, Types, Tabs
    <3>2. call' = [began |-> tab[b].since, ended |-> now]
          /\ shown' = (IF tab[b].reply = NoRows THEN shown ELSE tab[b].reply)
      BY <2>3 DEF EndAsk, Shows, Refreshed
    <3>3. shown' = tab[b].reply
      BY <2>3, <3>1, <3>2, ConstantsAssumption
    <3>4. Later(tab[b].reply, tab[b].since)
      BY <2>3 DEF IInv, RequestsOK, Asking, EndAsk
    <3>5. call'.ended = now /\ call'.began = tab[b].since /\ now - now <= TTL
      BY <3>1, <3>2, ConstantsAssumption, SMT
    <3> QED
      BY <3>3, <3>4, <3>5 DEF Later
  <2> QED
    BY <2>1, <2>2, <2>3 DEF ShowsGoodRows
<1> QED
  BY <1>1, Invariant, PTL DEF Spec, SettingsMoveForward
=============================================================================
