------------------------------ MODULE Importer ------------------------------
(***************************************************************************)
(* Recording a month from the frontend: the CSV importer,                  *)
(* internal/importer/importer.go, and the quick grid, quick.go with its    *)
(* handlers in internal/web/pages.go.                                      *)
(*                                                                         *)
(* Both read over the API, show the user what they read, and later post    *)
(* one batch.  An API request is atomic here; its statements are the       *)
(* business of Ledger.  Between the requests of one call, and between a    *)
(* preview and its commit, anything may happen to the assets and entries.  *)
(*                                                                         *)
(* The entries are those of one month, to which everything is posted.  Of  *)
(* the other months a grid shows figures, which may be any when it is      *)
(* opened: nothing else here reads them.  A post is dated after what is    *)
(* there, so that what is written last is listed first: an entry is known  *)
(* by its place in the order of writing, in a batch by its row's.  A value *)
(* stands for a row's deposit and value.                                   *)
(***************************************************************************)
EXTENDS Integers, Sequences, FiniteSets

CONSTANTS
  Clients,      \* users of the frontend
  Values,
  NoValue,      \* what a grid shows for an asset without entries: zero
  NoId, Bad,    \* a row without an id; an amount that cannot be parsed
  Files,        \* the files that may be uploaded: sequences of [id, value]
  StartAssets,  \* the states of assets 1, 2, ... at the outset
  StartEntries, \* sequences of [id, value] there may be, oldest first
  OtherMonths,  \* the newest figures of assets in earlier and in later months
  PageSize,     \* 500 in the code, as is MaxEntries, the size of a batch
  MaxEntries,
  MaxRows,      \* 5000 in the code
  MaxCalls,     \* bound on the calls of users
  MaxEdits,     \* bound on the changes that others make
  MaxFaults     \* bound on lost calls, lost answers and restarts

States == {"open", "closed"}
Line == [id : Nat \cup {NoId}, value : Values \cup {Bad}]
AssetIds == 1 .. Len(StartAssets) + MaxEdits
Figures == UNION {[S -> Values \cup {NoValue}] : S \in SUBSET AssetIds}

ASSUME ConstantsAssumption ==
  /\ NoValue \notin Values \cup {Bad} /\ Bad \notin Values /\ NoId \notin Nat
  /\ Files \subseteq Seq(Line)
  /\ StartAssets \in Seq(States)
  /\ StartEntries \subseteq Seq([id : DOMAIN StartAssets, value : Values])
  /\ OtherMonths \subseteq [earlier : Figures, later : Figures]
  /\ {PageSize, MaxEntries, MaxRows} \subseteq Nat \ {0}
  /\ {MaxCalls, MaxEdits, MaxFaults} \subseteq Nat

VARIABLES
  assets,   \* the state of each asset, by its id
  entries,  \* the month's entries, by their place in the order of writing
  shown,    \* the reports on users' screens; the index is the token
  tokens,   \* the tokens the server remembers: "live" or "expired"
  client,   \* the call each user is making, see Calling
  used,     \* how many calls, edits and faults there have been
  spent,    \* history: the tokens whose commit was answered with success
  fresh,    \* history: the tokens since whose preview nothing has changed
  last      \* history: the token posted last, if nothing has changed since

vars == <<assets, entries, shown, tokens, client, used, spent, fresh, last>>
world == <<assets, entries>>
history == <<spent, fresh, last>>

NoToken == 0

\* A call in some phase: the file or grid it is about; how many rows lie before
\* the page it asks for, and the assets and the ids with an entry it has read;
\* the rows to post; clean (history) when nothing has changed since it began;
\* others (history), the figures of the other months when a grid was opened.
Calling(phase, file) ==
  [phase |-> phase, file |-> file, from |-> 0, listed |-> <<>>, found |-> {}, token |-> NoToken,
   rows |-> <<>>, mode |-> "replace", written |-> 0, replaced |-> 0, clean |-> TRUE,
   others |-> [earlier |-> <<>>, later |-> <<>>]]

Idle == Calling("idle", <<>>)

(***************************************************************************)
(* The API.                                                                *)
(***************************************************************************)
\* The page after the first n rows: assets by their ids, entries newest first.
OnPage(n, before) == n < before /\ before <= n + PageSize
AssetsAfter(n) == {a \in DOMAIN assets : OnPage(n, Cardinality({b \in DOMAIN assets : b <= a}))}
EntriesAfter(n) == {e \in DOMAIN entries : OnPage(n, Cardinality({k \in DOMAIN entries : k >= e}))}

StateOf(list, a) == IF a \in DOMAIN list THEN list[a] ELSE "unknown"
PlacesOf(es, a) == {e \in DOMAIN es : es[e].id = a}
IdsOf(es, places) == {es[e].id : e \in places}
Latest(places) == CHOOSE e \in places : \A k \in places : k <= e

Duplicated(rows) == \E i, j \in DOMAIN rows : i # j /\ rows[i].id = rows[j].id

\* The batch answers with an error and writes nothing.
Rejects(rows) ==
  \/ Cardinality(DOMAIN rows) > MaxEntries
  \/ Duplicated(rows)
  \/ \E i \in DOMAIN rows : StateOf(assets, rows[i].id) = "unknown"

OfOpen(rows) == {i \in DOMAIN rows : StateOf(assets, rows[i].id) = "open"}

\* Mutant: an entry of the month is not looked for.
RecordedBlind(rows) == {}

\* The rows that are about an entry there is already.
Recorded(rows) == {i \in OfOpen(rows) : PlacesOf(entries, rows[i].id) # {}}

Created(rows) == OfOpen(rows) \ Recorded(rows)
Replaced(rows, mode) == IF mode = "replace" THEN Recorded(rows) ELSE {}

\* A batch writes its rows one after another; its rows are about different assets.
Batch(rows, mode) ==
  LET top  == Latest({0} \cup DOMAIN entries)
      gone == {Latest(PlacesOf(entries, rows[i].id)) : i \in Replaced(rows, mode)}
      put  == {top + i : i \in Created(rows) \cup Replaced(rows, mode)}
  IN  [e \in (DOMAIN entries \ gone) \cup put |-> IF e \in put THEN rows[e - top] ELSE entries[e]]

(***************************************************************************)
(* The report on a file: what is to become of each row, given the assets   *)
(* that were listed and the ids that were found to have an entry.          *)
(***************************************************************************)
\* Mutant: the entries that were found are not looked at.
ActionBlind(row, listed, found) ==
  LET state == StateOf(listed, row.id) IN
  IF row.id = NoId THEN "no id" ELSE IF state = "unknown" THEN "unknown"
  ELSE IF row.value = Bad THEN "bad amount" ELSE IF state = "closed" THEN "closed" ELSE "create"

Action(row, listed, found) ==
  LET state == StateOf(listed, row.id) IN
  CASE row.id = NoId -> "no id"
    [] row.id # NoId /\ state = "unknown" -> "unknown"
    [] row.id # NoId /\ state # "unknown" /\ row.value = Bad -> "bad amount"
    [] row.id # NoId /\ state = "closed" /\ row.value # Bad -> "closed"
    [] OTHER -> IF row.id \in found THEN "update" ELSE "create"

Report(file, listed, found) ==
  [i \in DOMAIN file |->
     [id |-> file[i].id, value |-> file[i].value, action |-> Action(file[i], listed, found)]]

Applied(report) == {i \in DOMAIN report : report[i].action \in {"update", "create"}}
Count(report, actions) == Cardinality({i \in DOMAIN report : report[i].action \in actions})
Skipped(report) == Count(report, {"no id", "unknown", "closed"})

\* The cap is looked at after a row that will be applied.
Refused(report) == report = <<>> \/ \E i \in Applied(report) : i >= MaxRows

(***************************************************************************)
(* Init, and the steps' common parts.                                      *)
(***************************************************************************)
Init ==
  /\ assets = StartAssets
  /\ entries \in StartEntries
  /\ shown = <<>>
  /\ tokens = [t \in {} |-> "live"]
  /\ client = [c \in Clients |-> Idle]
  /\ used = [calls |-> 0, edits |-> 0, faults |-> 0]
  /\ spent = {} /\ fresh = {} /\ last = NoToken

Set(c, call) == client' = [client EXCEPT ![c] = call]

Begin(c, call) ==
  /\ client[c].phase = "idle"
  /\ used.calls < MaxCalls
  /\ used' = [used EXCEPT !.calls = @ + 1]
  /\ Set(c, call)
  /\ UNCHANGED <<world, shown, history>>

Forgetting(t) == [k \in DOMAIN tokens \ {t} |-> tokens[k]]

\* Assets or entries change, with the rows of token t; nobody's call is clean
\* any more.
Changed(t) == fresh' = {} /\ last' = t
SetAll(call) == client' = [c \in Clients |-> IF call[c].phase = "idle" THEN Idle
                                             ELSE [call[c] EXCEPT !.clean = FALSE]]

(***************************************************************************)
(* Preview: page after page of the assets, then of the month's entries;    *)
(* then the report is shown and its token kept.                            *)
(***************************************************************************)
Preview(c, file) ==
  /\ Begin(c, Calling("assets", file))
  /\ UNCHANGED tokens

listAllAssets(c) ==
  LET call  == client[c]
      chunk == AssetsAfter(call.from)
      all   == [a \in DOMAIN call.listed \cup chunk |-> IF a \in chunk THEN assets[a]
                                                        ELSE call.listed[a]]
  IN  /\ call.phase = "assets"
      /\ IF Cardinality(DOMAIN all) >= Cardinality(DOMAIN assets) \/ chunk = {}
         THEN Set(c, [call EXCEPT !.phase = "entries", !.from = 0, !.listed = all])
         ELSE Set(c, [call EXCEPT !.from = @ + PageSize, !.listed = all])
      /\ UNCHANGED <<world, shown, tokens, used, history>>

\* Mutant: an empty page does not end the loop.
EnoughFound(chunk, found) == Cardinality(found) >= Cardinality(DOMAIN entries)

LastPage(chunk, found) == chunk = {} \/ Cardinality(found) >= Cardinality(DOMAIN entries)

Issue(c, found) ==
  LET call   == client[c]
      report == Report(call.file, call.listed, found)
      token  == Len(shown) + 1
  IN  /\ Set(c, Idle)
      /\ IF Refused(report)
         THEN UNCHANGED <<shown, tokens, fresh>>
         ELSE /\ shown' = Append(shown, report)
              /\ tokens' = [t \in DOMAIN tokens \cup {token} |->
                              IF t = token THEN "live" ELSE tokens[t]]
              /\ fresh' = IF call.clean THEN fresh \cup {token} ELSE fresh

monthEntries(c) ==
  LET call  == client[c]
      chunk == EntriesAfter(call.from)
      found == call.found \cup IdsOf(entries, chunk)
  IN  /\ call.phase = "entries"
      /\ IF LastPage(chunk, found)
         THEN Issue(c, found)
         ELSE /\ Set(c, [call EXCEPT !.from = @ + PageSize, !.found = found])
              /\ UNCHANGED <<shown, tokens, fresh>>
      /\ UNCHANGED <<world, used, spent, last>>

\* Fifteen minutes have passed.
Expire(t) ==
  /\ tokens[t] = "live"
  /\ tokens' = [tokens EXCEPT ![t] = "expired"]
  /\ UNCHANGED <<world, shown, client, used, history>>

(***************************************************************************)
(* Commit: the button of a report without bad amounts, which stays on the  *)
(* screen.  The token is checked, the rows are posted, the token is        *)
(* forgotten.                                                              *)
(***************************************************************************)
\* The rows to post, by their lines.
RowsOf(t) ==
  [i \in Applied(shown[t]) |-> [id |-> shown[t][i].id, value |-> shown[t][i].value]]

Commit(c, t) ==
  /\ Count(shown[t], {"bad amount"}) = 0
  /\ IF t \in DOMAIN tokens /\ tokens[t] = "live"
     THEN /\ Begin(c, [Calling(IF Applied(shown[t]) = {} THEN "forget" ELSE "post", <<>>)
                         EXCEPT !.token = t, !.rows = RowsOf(t)])
          /\ UNCHANGED tokens
     ELSE /\ Begin(c, Idle)
          /\ tokens' = Forgetting(t)

\* Mutant: a token outlives its commit.
ForgetNothing(c) ==
  /\ client[c].phase = "forget"
  /\ spent' = spent \cup {client[c].token}
  /\ Set(c, Idle)
  /\ UNCHANGED <<world, shown, tokens, used, fresh, last>>

Forget(c) ==
  /\ client[c].phase = "forget"
  /\ tokens' = Forgetting(client[c].token)
  /\ spent' = spent \cup {client[c].token}
  /\ Set(c, Idle)
  /\ UNCHANGED <<world, shown, used, fresh, last>>

(***************************************************************************)
(* The quick grid: a row for each open asset of the first page, filled     *)
(* with its latest figures, whatever month they are of.  The user types    *)
(* one of them and sends all rows, with existing entries left alone or     *)
(* replaced, or replaces and skips the other rows.                         *)
(***************************************************************************)
\* What an asset has in the month: its newest entry's figures, or else those of
\* the months before.
Standing(es, a, others) ==
  CASE PlacesOf(es, a) # {} -> es[Latest(PlacesOf(es, a))].value
    [] PlacesOf(es, a) = {} /\ a \in DOMAIN others.earlier -> others.earlier[a]
    [] OTHER -> NoValue

\* Mutant: the month's oldest entry is taken.
OldestValue(a, others) ==
  LET places == PlacesOf(entries, a) IN
  IF a \in DOMAIN others.later THEN others.later[a]
  ELSE IF places = {} THEN Standing(entries, a, others)
  ELSE entries[CHOOSE e \in places : \A k \in places : e <= k].value

LatestValue(a, others) ==
  IF a \in DOMAIN others.later THEN others.later[a] ELSE Standing(entries, a, others)

QuickRows(others) ==
  [a \in {b \in AssetsAfter(0) : assets[b] = "open"} |->
     [id |-> a, value |-> LatestValue(a, others)]]

OpenGrid(c) ==
  /\ \E others \in OtherMonths :
       Begin(c, [Calling("grid", QuickRows(others)) EXCEPT !.mode = "skip", !.others = others])
  /\ UNCHANGED tokens

SendGrid(c, mode, all) ==
  LET grid == client[c].file IN
  /\ client[c].phase = "grid"
  /\ \E a \in DOMAIN grid : \E v \in Values \ {grid[a].value} :
       Set(c, [client[c] EXCEPT
                 !.phase = "post", !.mode = mode,
                 !.rows = [b \in (IF all THEN DOMAIN grid ELSE {a}) |->
                             IF b = a THEN [id |-> a, value |-> v] ELSE grid[b]]])
  /\ UNCHANGED <<world, shown, tokens, used, history>>

LeaveGrid(c) ==
  /\ client[c].phase = "grid"
  /\ Set(c, Idle)
  /\ UNCHANGED <<world, shown, tokens, used, history>>

(***************************************************************************)
(* The batch.  A commit goes on to forget its token, a grid is done.       *)
(***************************************************************************)
Post(c) ==
  LET call == client[c] IN
  /\ call.phase = "post"
  /\ IF Rejects(call.rows)
     THEN Set(c, Idle) /\ UNCHANGED <<entries, fresh, last>>
     ELSE /\ entries' = Batch(call.rows, call.mode)
          /\ Changed(call.token)
          /\ SetAll([client EXCEPT ![c] =
               IF call.token = NoToken THEN Idle
               ELSE [call EXCEPT !.phase = "forget",
                                 !.written = Cardinality(Created(call.rows)),
                                 !.replaced = Cardinality(Replaced(call.rows, call.mode))]])
  /\ UNCHANGED <<assets, shown, tokens, used, spent>>

(***************************************************************************)
(* What others do over the API, and what goes wrong.                       *)
(***************************************************************************)
Edit(as, es) ==
  /\ used.edits < MaxEdits
  /\ used' = [used EXCEPT !.edits = @ + 1]
  /\ assets' = as /\ entries' = es
  /\ Changed(NoToken) /\ SetAll(client)
  /\ UNCHANGED <<shown, tokens, spent>>

Keeping(f, S) == [x \in S |-> f[x]]

CloseOrReopen(a) ==
  Edit([assets EXCEPT ![a] = IF @ = "open" THEN "closed" ELSE "open"], entries)

\* Mutant: an asset's entries stay.
DeleteAssetAlone(a) == Edit(Keeping(assets, DOMAIN assets \ {a}), entries)

DeleteAsset(a) == Edit(Keeping(assets, DOMAIN assets \ {a}),
                       Keeping(entries, DOMAIN entries \ PlacesOf(entries, a)))

CreateAsset ==
  LET new == Len(StartAssets) + used.edits + 1 IN
  Edit([a \in DOMAIN assets \cup {new} |-> IF a = new THEN "open" ELSE assets[a]], entries)

RecordOne(a, v) ==
  /\ assets[a] = "open"
  /\ Edit(assets, Batch(<<[id |-> a, value |-> v]>>, "replace"))

DeleteEntry(e) == Edit(assets, Keeping(entries, DOMAIN entries \ {e}))

Fault == used.faults < MaxFaults /\ used' = [used EXCEPT !.faults = @ + 1]

CallFails(c) ==
  /\ client[c].phase \in {"assets", "entries", "post"}
  /\ Fault
  /\ Set(c, Idle)
  /\ UNCHANGED <<world, shown, tokens, history>>

\* The batch is carried out and its answer does not arrive.
AnswerLost(c) ==
  /\ client[c].phase = "post" /\ ~Rejects(client[c].rows)
  /\ Fault
  /\ entries' = Batch(client[c].rows, client[c].mode)
  /\ Changed(client[c].token) /\ SetAll([client EXCEPT ![c] = Idle])
  /\ UNCHANGED <<assets, shown, tokens, spent>>

\* The frontend's process ends: its tokens and the calls in it are gone.
Restart ==
  /\ Fault
  /\ tokens' = [t \in {} |-> "live"]
  /\ client' = [c \in Clients |-> IF client[c].phase = "grid" THEN client[c] ELSE Idle]
  /\ UNCHANGED <<world, shown, history>>

\* All calls have been made and answered.
Quiet ==
  /\ used.calls = MaxCalls /\ \A c \in Clients : client[c].phase = "idle"
  /\ UNCHANGED vars

Calls(c) ==
  \/ \E f \in Files : Preview(c, f)
  \/ \E t \in DOMAIN shown : Commit(c, t)
  \/ OpenGrid(c) \/ LeaveGrid(c)
  \/ SendGrid(c, "skip", TRUE) \/ \E all \in BOOLEAN : SendGrid(c, "replace", all)
  \/ listAllAssets(c) \/ monthEntries(c) \/ Post(c) \/ Forget(c)
  \/ CallFails(c) \/ AnswerLost(c)

Others ==
  \/ \E a \in DOMAIN assets :
       CloseOrReopen(a) \/ DeleteAsset(a) \/ \E v \in Values : RecordOne(a, v)
  \/ \E e \in DOMAIN entries : DeleteEntry(e)
  \/ CreateAsset

Next ==
  \/ \E c \in Clients : Calls(c)
  \/ \E t \in DOMAIN tokens : Expire(t)
  \/ Others
  \/ Restart
  \/ Quiet

Spec == Init /\ [][Next]_vars

-----------------------------------------------------------------------------
Maps(f, D, R) == DOMAIN f \subseteq D /\ f \in [DOMAIN f -> R]
GridRow == [id : AssetIds, value : Values \cup {NoValue}]
ReportLine == [id : Nat \cup {NoId}, value : Values \cup {Bad},
               action : {"no id", "unknown", "bad amount", "closed", "update", "create"}]

CallOK(call) ==
  /\ call = [phase |-> call.phase, file |-> call.file, from |-> call.from,
             listed |-> call.listed, found |-> call.found, token |-> call.token,
             rows |-> call.rows, mode |-> call.mode, written |-> call.written,
             replaced |-> call.replaced, clean |-> call.clean, others |-> call.others]
  /\ call.phase \in {"idle", "assets", "entries", "post", "forget", "grid"}
  /\ call.file \in Files \cup {<<>>} \/ Maps(call.file, AssetIds, GridRow)
  /\ call.from \in Nat
  /\ Maps(call.listed, AssetIds, States)
  /\ call.found \subseteq AssetIds
  /\ call.token \in DOMAIN shown \cup {NoToken}
  /\ Maps(call.rows, AssetIds \cup 1 .. MaxRows, GridRow)
  /\ call.mode \in {"replace", "skip"}
  /\ call.written \in Nat /\ call.replaced \in Nat
  /\ call.clean \in BOOLEAN
  /\ call.others \in OtherMonths \cup {Idle.others}
  /\ call.token # NoToken => call.rows = RowsOf(call.token) /\ call.mode = "replace"

(* The variables have their types, every entry has its asset, and a commit *)
(* posts its report's rows.                                                *)
TypeOK ==
  /\ Maps(assets, AssetIds, States)
  /\ Maps(entries, Nat \ {0}, [id : DOMAIN assets, value : Values \cup {NoValue}])
  /\ IsFiniteSet(DOMAIN entries)
  /\ shown \in Seq(Seq(ReportLine))
  /\ Maps(tokens, DOMAIN shown, {"live", "expired"})
  /\ client = [c \in Clients |-> client[c]]
  /\ \A c \in Clients : CallOK(client[c])
  /\ used \in [calls : 0 .. MaxCalls, edits : 0 .. MaxEdits, faults : 0 .. MaxFaults]
  /\ spent \cup fresh \subseteq DOMAIN shown /\ last \in DOMAIN shown \cup {NoToken}

\* What a report says when everything is read at once.
Exact(file) ==
  [i \in DOMAIN file |->
     [id |-> file[i].id, value |-> file[i].value,
      action |-> IF file[i].id = NoId THEN "no id"
                 ELSE IF file[i].id \notin DOMAIN assets THEN "unknown"
                 ELSE IF file[i].value = Bad THEN "bad amount"
                 ELSE IF assets[file[i].id] = "closed" THEN "closed"
                 ELSE IF \E e \in DOMAIN entries : entries[e].id = file[i].id THEN "update"
                 ELSE "create"]]

(* A preview that nothing disturbs reports on every row what the database  *)
(* says, however assets and entries fall on pages and with two entries of  *)
(* an asset in the month, and it asks at most for the first page that is   *)
(* empty, also when the month has more entries than assets with one.       *)
(* importer.go listAllAssets, monthEntries.                                *)
PreviewIsExact ==
  [][\A c \in Clients :
       /\ /\ client[c].phase = "entries" /\ client[c].clean
          /\ client'[c].phase = "idle" /\ shown' # shown
          => shown'[Len(shown')] = Exact(client[c].file)
       /\ client'[c].clean /\ client'[c].from > 0 =>
            client'[c].from - PageSize
              < Cardinality(IF client'[c].phase = "assets" THEN DOMAIN assets
                                                           ELSE DOMAIN entries)]_vars

Ended(c) == client[c].phase = "post" /\ client'[c].phase # "post"
Accepted(c) == client[c].phase = "post" /\ client'[c].phase = "forget"
ValuesOf(es, a) == {es[e].value : e \in PlacesOf(es, a)}
Keeps(a) ==
  /\ Cardinality(PlacesOf(entries', a)) = Cardinality(PlacesOf(entries, a))
  /\ ValuesOf(entries', a) = ValuesOf(entries, a)

(* A commit that begins after its token expired, after another commit of   *)
(* it succeeded, or after a restart posts nothing, whichever user presses  *)
(* the button that is still on the screen.  A commit writes its rows, all  *)
(* or none of them: when a batch of a report changes anything, the newest  *)
(* entry of each open asset it names has the row's value, every row's      *)
(* asset exists, and no other asset changes.                               *)
(* importer.go Commit, httpapi/logs.go handleLogsCreate.                   *)
CommitWritesItsRows ==
  [][\A c \in Clients :
       /\ client[c].phase = "idle" /\ client'[c].phase \in {"post", "forget"} =>
            client'[c].token \in DOMAIN tokens \ spent /\ tokens[client'[c].token] = "live"
       /\ Ended(c) /\ client[c].token # NoToken /\ entries' # entries =>
            LET rows == client[c].rows IN
            /\ \A i \in DOMAIN rows :
                 /\ rows[i].id \in DOMAIN assets
                 /\ assets[rows[i].id] = "open" =>
                      \E e \in PlacesOf(entries', rows[i].id) :
                        /\ entries'[e].value = rows[i].value
                        /\ \A k \in PlacesOf(entries', rows[i].id) : k <= e
            /\ \A a \in DOMAIN assets :
                 assets[a] = "closed" \/ (\A i \in DOMAIN rows : rows[i].id # a) => Keeps(a)]_vars

(* A commit does what its report showed: if nothing has changed since the  *)
(* preview began, an accepted batch creates and replaces as many entries   *)
(* as the report announced, every row is accounted for in the answer, and  *)
(* a batch is refused only for its size or for an id that it repeats.      *)
(* importer.go Preview, Commit.                                            *)
CommitDoesWhatWasShown ==
  [][\A c \in Clients : client[c].phase = "post" /\ client[c].token \in fresh =>
       LET report == shown[client[c].token]
           call   == client'[c]
       IN  /\ Accepted(c) =>
                /\ call.written = Count(report, {"create"})
                /\ call.replaced = Count(report, {"update"})
                /\ call.written + call.replaced + Skipped(report) = Len(report)
           /\ Rejects(client[c].rows) =>
                Cardinality(DOMAIN client[c].rows) > MaxEntries \/ Duplicated(client[c].rows)]_vars

Repeats(c) == Ended(c) /\ client[c].token # NoToken /\ last = client[c].token

(* Pressing the button again, after a lost answer or in two windows, does  *)
(* no harm: a batch that is posted again with no other change in between   *)
(* creates nothing and leaves every asset with the values it had.          *)
(* importer.go Commit ("replace").                                         *)
RepeatIsHarmless ==
  [][\A c \in Clients : Repeats(c) =>
       (\A a \in DOMAIN assets : Keeps(a)) /\ (Accepted(c) => client'[c].written = 0)]_vars

Typed(c, a) ==
  \E i \in DOMAIN client[c].rows :
    client[c].rows[i].id = a /\ client[c].rows[i].value # client[c].file[a].value

(* A grid sent while nothing else changes keeps what the user did not      *)
(* type: an asset that has an entry keeps its figures, unless existing     *)
(* entries are to be replaced and another figure was typed; and what an    *)
(* asset has in the month stays the same, also when an entry with it is    *)
(* recorded.  The exception are assets with figures of a later month,      *)
(* which the grid shows instead: untouched, they replace the entry of the  *)
(* month or are recorded there.                                            *)
(* quick.go QuickRows, ParseQuickSubmission, pages.go handleImportQuick.   *)
GridKeepsTheRest ==
  [][\A c \in Clients : Ended(c) /\ client[c].clean /\ client[c].token = NoToken =>
       LET others == client[c].others
           left   == {a \in DOMAIN assets : ~Typed(c, a) /\ a \notin DOMAIN others.later}
       IN  \A a \in DOMAIN assets :
             /\ PlacesOf(entries, a) # {} /\ (client[c].mode = "skip" \/ a \in left) => Keeps(a)
             /\ a \in left => Standing(entries', a, others) = Standing(entries, a, others)]_vars
=============================================================================
