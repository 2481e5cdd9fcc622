----------------------------- MODULE Statistics -----------------------------
(***************************************************************************)
(* The statistics, internal/stats, over the rows that                      *)
(* internal/storage/mysql/logs.go SeriesRows reads.                        *)
(*                                                                         *)
(* A request is answered from three queries, for the entries, the payments *)
(* and the assets, which run outside a transaction: writes may come        *)
(* between them.  The answer is then computed from what was read, and the  *)
(* properties are about those computations: the monthly series and its     *)
(* carrying forward, the chain of monthly returns, the yearly table, the   *)
(* split of a total over assets and classes.                               *)
(*                                                                         *)
(* A month is the number 12 * year + month - 1.  Money is a small integer, *)
(* of either sign, and a return an exact fraction, where the code has      *)
(* cents and floats.                                                       *)
(* Entries that share a month differ by their day; the class list, page    *)
(* layouts, volatilities, CAGR, the payments of twelve months and the      *)
(* projections are left out.                                               *)
(***************************************************************************)
EXTENDS Integers, FiniteSets, FiniteSetsExt, Folds

CONSTANTS
  Assets,
  Classes,
  ClassOf,    \* the class of each asset
  NameOf,     \* its name, which is unique in its class only
  Months,
  Now,        \* the current month
  Places,     \* <<asset, month, day>> at which an entry may be recorded
  Entries,    \* the [deposit, value] pairs that may be recorded
  Receipts,   \* the payments there may be, <<asset, month, amount>>
  StartLogs,  \* the entries there may be at the outset
  Requests,   \* what may be asked: [asset, class, from, to, mode]
  NoScope,    \* no asset or no class is given
  NoMonth,    \* no bound is given
  StaleAfter, \* an open asset is stale after so many months (13)
  MaxWrites   \* bound on the writes

\* Money has a sign, as an entry of a debt or a payment that is a cost have.
Entry == [deposit : Int, value : Int]
Days == Nat \ {0}
Modes == {"active", "merged", "all"}

\* Entries at some of the places.
IsLog(l) ==
  /\ l = [p \in DOMAIN l |-> l[p]]
  /\ DOMAIN l \subseteq Assets \X Months \X Days /\ IsFiniteSet(DOMAIN l)
  /\ \A p \in DOMAIN l : l[p] \in Entry

ASSUME ConstantsAssumption ==
  /\ IsFiniteSet(Assets) /\ IsFiniteSet(Classes) /\ NoScope \notin Assets \cup Classes
  /\ ClassOf \in [Assets -> Classes]
  /\ DOMAIN NameOf = Assets
  /\ \A a, b \in Assets : ClassOf[a] = ClassOf[b] /\ NameOf[a] = NameOf[b] => a = b
  /\ Months \subseteq Nat /\ Now \in Months /\ NoMonth \notin Months
  /\ \E first, last \in Months : Months = first .. last
  /\ Places \subseteq Assets \X Months \X Days
  /\ Entries \subseteq Entry
  /\ Receipts \subseteq Assets \X Months \X Int
  /\ \A l \in StartLogs : IsLog(l)
  /\ Requests \subseteq [asset : Assets \cup {NoScope}, class : Classes \cup {NoScope},
                         from : Months \cup {NoMonth}, to : Months \cup {NoMonth}, mode : Modes]
  /\ StaleAfter \in Nat /\ MaxWrites \in Nat

VARIABLES
  log,     \* the entries: a function from some of the places
  paid,    \* the payments of each asset in each month, in total
  closed,  \* the assets that are closed
  reader,  \* the request being answered and its series, see Reading
  writes,  \* how many writes there have been
  shown    \* history: the series of everything, were it read at once

vars == <<log, paid, closed, reader, writes, shown>>

NoPayments == [r \in Assets \X Months |-> 0]
NoEntries == [p \in {} |-> {}]
NoSeries == [point |-> [m \in {} |-> {}], visible |-> {}]

\* What a request has read so far: the entries, the payments with the assets
\* its query found closed, the assets that were closed when it listed them.
Reading(phase, req, l, p, barred, shut) ==
  [phase |-> phase, req |-> req, log |-> l, paid |-> p, barred |-> barred, closed |-> shut,
   series |-> NoSeries]

Whole == [asset |-> NoScope, class |-> NoScope, from |-> NoMonth, to |-> NoMonth, mode |-> "merged"]
Idle == Reading("idle", Whole, NoEntries, NoPayments, {}, {})

SumOf(f) == MapThenSumSet(LAMBDA x : f[x], DOMAIN f)

(***************************************************************************)
(* SeriesRows: one row per asset and month, the last entry of the month    *)
(* with the month's payments.  A month with payments only carries the last *)
(* entry before it, or nothing when the asset was found closed.            *)
(***************************************************************************)
MatchesScope(a, req) == req.asset \in {a, NoScope} /\ req.class \in {ClassOf[a], NoScope}

InQuery(m, req) == req.to = NoMonth \/ m <= req.to

EntryMonths(read, a) ==
  {m \in Months : InQuery(m, read.req) /\ \E p \in DOMAIN read.log : p[1] = a /\ p[2] = m}

EntriesIn(read, a, m) == Cardinality({p \in DOMAIN read.log : p[1] = a /\ p[2] = m})

\* Mutant: the first entry of a month counts.
FirstEntryIn(read, a, m) ==
  read.log[<<a, m, Min({p[3] : p \in {q \in DOMAIN read.log : q[1] = a /\ q[2] = m}})>>]

LastEntryIn(read, a, m) ==
  read.log[<<a, m, Max({p[3] : p \in {q \in DOMAIN read.log : q[1] = a /\ q[2] = m}})>>]

\* Mutant: the search for the entry to carry does not stop at the payment's month.
CarriedFromLatest(months, m) == Max(months)

\* The month whose entry a payment of month m carries.
CarriedFrom(months, m) == Max({k \in months : k <= m})

\* Mutant: the payments are not bounded by "to".
PaidOnlyAnyMonth(read, a) ==
  {m \in Months \ EntryMonths(read, a) :
     /\ read.paid[<<a, m>>] # 0
     /\ \E k \in EntryMonths(read, a) : k <= m}

PaidOnlyMonths(read, a) ==
  {m \in Months \ EntryMonths(read, a) :
     /\ InQuery(m, read.req)
     /\ read.paid[<<a, m>>] # 0
     /\ \E k \in EntryMonths(read, a) : k <= m}

\* A row tells how many entries of the month it stands for.
Row(a, m, entry, amount, entries) ==
  [asset |-> a, month |-> m, deposit |-> entry.deposit, value |-> entry.value, paid |-> amount,
   entries |-> entries]

CarriedEntry(read, a, m) ==
  IF a \in read.barred THEN [deposit |-> 0, value |-> 0]
                       ELSE LastEntryIn(read, a, CarriedFrom(EntryMonths(read, a), m))

SeriesRows(read) ==
  LET asked == {a \in Assets : MatchesScope(a, read.req)} IN
  UNION {{Row(a, m, LastEntryIn(read, a, m), read.paid[<<a, m>>], EntriesIn(read, a, m)) :
            m \in EntryMonths(read, a)} \cup
         {Row(a, m, CarriedEntry(read, a, m), read.paid[<<a, m>>], 0) :
            m \in PaidOnlyMonths(read, a)} :
         a \in asked}

\* What a computation starts from; only a request without "to" carries on to now.
Input(read) ==
  [rows |-> SeriesRows(read), closed |-> read.closed, from |-> read.req.from,
   to |-> IF read.req.to = NoMonth THEN Now ELSE NoMonth]

(***************************************************************************)
(* BuildSeries: month by month, the sum over the assets in scope of each   *)
(* one's latest row.  An open asset is carried on to in.to, a closed one   *)
(* ends with its last row.  S is the set of assets in scope.               *)
(***************************************************************************)
InScope(in, req, mode) ==
  {a \in Assets : MatchesScope(a, req) /\ (mode = "active" => a \notin in.closed)}

RowsOf(in, a) == {r \in in.rows : r.asset = a /\ (in.to = NoMonth \/ r.month <= in.to)}

RowMonths(in, a) == {r.month : r \in RowsOf(in, a)}

Covered(in, a) ==
  LET months == RowMonths(in, a)
      last   == Max(months)
  IN  IF months = {} THEN {}
      ELSE IF a \notin in.closed /\ in.to # NoMonth THEN Min(months) .. Max({last, in.to})
      ELSE Min(months) .. last

\* The row that counts in month m.
Snap(in, a, m) ==
  LET at == Max({k \in RowMonths(in, a) : k <= m})
  IN  CHOOSE r \in RowsOf(in, a) : r.month = at

Live(in, S, m) == {a \in S : m \in Covered(in, a)}
Deposits(in, S, m) == SumOf([a \in Live(in, S, m) |-> Snap(in, a, m).deposit])
Value(in, S, m) == SumOf([a \in Live(in, S, m) |-> Snap(in, a, m).value])
Payments(in, S, m) ==
  SumOf([a \in {b \in Live(in, S, m) : m \in RowMonths(in, b)} |-> Snap(in, a, m).paid])

\* Mutant: the first month of a range has no month before it.
FlowInRange(in, S, axis, m) ==
  LET before == {k \in axis : k < m /\ (in.from = NoMonth \/ k >= in.from)}
  IN  Deposits(in, S, m) - IF before = {} THEN 0 ELSE Deposits(in, S, Max(before))

\* The flow of a month: what its deposits add to those of the point before it.
Flow(in, S, axis, m) ==
  LET before == {k \in axis : k < m}
  IN  Deposits(in, S, m) - IF before = {} THEN 0 ELSE Deposits(in, S, Max(before))

Visible(axis, from) == {m \in axis : from = NoMonth \/ m >= from}

BuildSeries(in, S) ==
  LET axis == UNION {Covered(in, a) : a \in S} IN
  [point |-> [m \in axis |-> [V |-> Value(in, S, m), D |-> Deposits(in, S, m),
                              P |-> Payments(in, S, m), F |-> Flow(in, S, axis, m)]],
   visible |-> Visible(axis, in.from)]

Axis(s) == DOMAIN s.point
HasBaseline(s) == s.visible # Axis(s)
Baseline(s) == Max(Axis(s) \ s.visible)
PointBefore(s, m) == s.point[Max({k \in Axis(s) : k < m})]
Latest(s) == s.point[Max(s.visible)]
PaidIn(s, months) == SumOf([m \in months |-> s.point[m].P])

\* The series a request asks for.
Asked(in, req) == BuildSeries(in, InScope(in, req, req.mode))

(***************************************************************************)
(* Chain: the growth factor of each month, plain and with the payments     *)
(* received so far credited.  A month that begins with nothing is pinned   *)
(* to 1; without a baseline the first month's factor is its value over its *)
(* deposits, if there are any.                                             *)
(***************************************************************************)
One == <<1, 1>>
Less(x, y) == x[1] * y[2] < y[1] * x[2]
SameAs(x, y) == x[1] * y[2] = y[1] * x[2]

ChainMonths(s) == s.visible \cup IF HasBaseline(s) THEN {Baseline(s)} ELSE {}

Seeded(s) == ~HasBaseline(s) /\ s.visible # {} /\ s.point[Min(s.visible)].D > 0

LegMonths(s) ==
  LET months == ChainMonths(s) IN
  IF months = {} \/ Seeded(s) THEN months ELSE months \ {Min(months)}

Credit(s, m) == PaidIn(s, {k \in ChainMonths(s) : k <= m})

SeedLeg(s, m) ==
  LET p == s.point[m] IN [g |-> <<p.V, p.D>>, adj |-> <<p.V + Credit(s, m), p.D>>]

Leg(s, m) ==
  LET p      == s.point[m]
      q      == PointBefore(s, m)
      base   == q.V + p.F
      valAdj == p.V + Credit(s, m)
      baseAdj == q.V + Credit(s, m) - p.P + p.F
  IN  [g   |-> IF base <= 0 THEN One ELSE <<p.V, base>>,
       adj |-> IF baseAdj <= 0 \/ valAdj < 0 THEN One ELSE <<valAdj, baseAdj>>]

Chain(s) ==
  [m \in LegMonths(s) |->
     IF Seeded(s) /\ m = Min(s.visible) THEN SeedLeg(s, m) ELSE Leg(s, m)]

\* The months whose returns the records are about: all legs but a seed.
ReturnMonths(s) == IF Seeded(s) THEN LegMonths(s) \ {Min(s.visible)} ELSE LegMonths(s)

(***************************************************************************)
(* The records: the longest runs of gains and losses, the best and worst   *)
(* month, the deepest fall of the value, each found in one pass.           *)
(***************************************************************************)
\* The i-th of some months.
Nth(months, i) == CHOOSE m \in months : Cardinality({k \in months : k < m}) = i - 1

\* What a pass over some months in their order makes of acc.
Pass(step(_, _), acc, months) ==
  MapThenFoldSet(LAMBDA m, before : step(before, m), acc, LAMBDA m : m, Max, months)

Streaks(s) ==
  LET legs == Chain(s)
      step(acc, m) ==
        LET up   == IF Less(One, legs[m].g) THEN acc.up + 1 ELSE 0
            down == IF Less(legs[m].g, One) THEN acc.down + 1 ELSE 0
        IN  [up |-> up, down |-> down,
             upMax |-> Max({up, acc.upMax}), downMax |-> Max({down, acc.downMax})]
  IN  Pass(step, [up |-> 0, down |-> 0, upMax |-> 0, downMax |-> 0], ReturnMonths(s))

Extremes(s) ==
  LET legs == Chain(s)
      step(acc, m) == [best  |-> IF Less(legs[acc.best].g, legs[m].g) THEN m ELSE acc.best,
                       worst |-> IF Less(legs[m].g, legs[acc.worst].g) THEN m ELSE acc.worst]
      first == Min(ReturnMonths(s))
  IN  Pass(step, [best |-> first, worst |-> first], ReturnMonths(s))

\* Mutant: the fall is measured from the first month.
DrawdownFromStart(s) ==
  LET value(m) == s.point[m].V
      first == Min(ChainMonths(s))
      step(acc, m) ==
        LET depth == <<value(first) - value(m), value(first)>>
        IN  IF value(first) > 0 /\ Less(acc.depth, depth)
            THEN [depth |-> depth, peak |-> first, trough |-> m] ELSE acc
  IN  Pass(step, [depth |-> <<0, 1>>, peak |-> first, trough |-> first], ChainMonths(s))

Drawdown(s) ==
  LET value(m) == s.point[m].V
      step(acc, m) ==
        LET peak  == IF value(m) > value(acc.at) THEN m ELSE acc.at
            depth == <<value(peak) - value(m), value(peak)>>
        IN  IF value(peak) > 0 /\ Less(acc.depth, depth)
            THEN [at |-> peak, depth |-> depth, peak |-> peak, trough |-> m]
            ELSE [acc EXCEPT !.at = peak]
      first == Min(ChainMonths(s))
  IN  Pass(step, [at |-> first, depth |-> <<0, 1>>, peak |-> first, trough |-> first],
           ChainMonths(s))

(***************************************************************************)
(* The tables: years, buckets, the split into new money and growth, the    *)
(* parts of the whole by class and by asset, the income.                   *)
(***************************************************************************)
Year(m) == m \div 12

Bucket(granularity, m) ==
  CASE granularity = "year" -> <<Year(m)>>
    [] granularity = "quarter" -> <<Year(m), (m % 12) \div 3>>
    [] OTHER -> <<m>>

GroupLast(s, granularity) ==
  [b \in {Bucket(granularity, m) : m \in s.visible} |->
     s.point[Max({m \in s.visible : Bucket(granularity, m) = b})].V]

MonthsOfYear(s, y) == {m \in s.visible : Year(m) = y}

\* The value a range opens with.
OpeningValue(s) ==
  IF HasBaseline(s) THEN s.point[Baseline(s)].V
                    ELSE LET p == s.point[Min(s.visible)] IN p.V - p.F

\* The months whose factors a year's return multiplies: the table counts legs
\* from the range's second month when there is a baseline.
FactorMonths(s, y) ==
  LET legs     == LegMonths(s)
      index(m) == Cardinality({k \in s.visible : k < m}) + IF HasBaseline(s) THEN 0 ELSE 1
  IN  {Nth(legs, index(m)) : m \in {k \in MonthsOfYear(s, y) : index(k) \in 1 .. Cardinality(legs)}}

YearRow(s, y) ==
  LET months   == MonthsOfYear(s, y)
      start    == IF Min(months) = Min(s.visible) THEN OpeningValue(s)
                                                  ELSE PointBefore(s, Min(months)).V
      end      == s.point[Max(months)].V
      deposits == SumOf([m \in months |-> s.point[m].F])
      income   == PaidIn(s, months)
  IN  [start |-> start, end |-> end, deposits |-> deposits, income |-> income,
       growth |-> end - start - deposits + income]

YearTable(s) == [y \in {Year(m) : m \in s.visible} |-> YearRow(s, y)]

Decompose(s) ==
  [m \in s.visible \ IF HasBaseline(s) \/ s.visible = {} THEN {} ELSE {Min(s.visible)} |->
     [newMoney |-> s.point[m].F, growth |-> s.point[m].V - PointBefore(s, m).V - s.point[m].F]]

ClassScope(req, c) == [req EXCEPT !.class = c, !.asset = NoScope]
AssetScope(req, a) == [req EXCEPT !.asset = a, !.class = NoScope]
ClassesOf(req) == {c \in Classes : req.class \in {c, NoScope}}

ValueAt(s, m) == IF m \in s.visible THEN s.point[m].V ELSE 0

\* The value of each class, and of each asset, in a month.
AllocationOverTime(in, req, m) ==
  [c \in ClassesOf(req) |->
     ValueAt(BuildSeries(in, InScope(in, [ClassScope(req, c) EXCEPT !.asset = req.asset], "merged")), m)]

AssetSeries(in, req, a) == BuildSeries(in, InScope(in, AssetScope(req, a), "all"))

Charted(in, req) ==
  {a \in Assets : MatchesScope(a, req) /\ LET s == AssetSeries(in, req, a)
                                         IN  \E m \in s.visible : s.point[m].V # 0}

\* The chart is keyed by name: of assets with one name only the last listed is
\* shown, here any of them.
AllocationOverTimeAssets(in, req, m) ==
  LET charted == Charted(in, req) IN
  [n \in {NameOf[a] : a \in charted} |->
     ValueAt(AssetSeries(in, req, CHOOSE a \in charted : NameOf[a] = n), m)]

\* The tables of the open assets and their classes: what each is worth.
Worth(s) == IF s.visible = {} THEN 0 ELSE Latest(s).V

ClassValues(in, req) ==
  [c \in ClassesOf(req) |-> Worth(BuildSeries(in, InScope(in, ClassScope(req, c), "active")))]

AssetValues(in, req) ==
  [a \in {b \in Assets \ in.closed : MatchesScope(b, req)} |->
     Worth(BuildSeries(in, InScope(in, AssetScope(req, a), "active")))]

IncomeByClass(in, req) ==
  [c \in Classes |-> LET s == BuildSeries(in, InScope(in, ClassScope(req, c), req.mode))
                     IN PaidIn(s, s.visible)]

\* Mutant: closed assets are listed whatever the request says.
IncomeByAssetAll(in, req) ==
  [a \in Assets |-> LET s == BuildSeries(in, InScope(in, AssetScope(req, a), "all"))
                    IN PaidIn(s, s.visible)]

IncomeByAsset(in, req) ==
  [a \in Assets |-> LET s == BuildSeries(in, InScope(in, AssetScope(req, a), req.mode))
                    IN PaidIn(s, s.visible)]

IncomeByYear(s) ==
  [y \in {Year(m) : m \in s.visible} |-> PaidIn(s, MonthsOfYear(s, y))]

(***************************************************************************)
(* The overview: what changed over the last k points of a range, or over   *)
(* all of it when it is shorter.  A ratio is a fraction, or <<>> when the  *)
(* answer has null in its place; one over nothing is a float that is no    *)
(* number, and stays one in a difference.                                  *)
(***************************************************************************)
NoRatio == <<>>
Minus(x, y) == <<x[1] * y[2] - y[1] * x[2], x[2] * y[2]>>
ReturnRatio(p) == <<p.V - p.D, p.D>>

Delta(s, k) ==
  LET n    == Cardinality(s.visible)
      prev == s.point[Nth(s.visible, n - Min({k, n - 1}))]
      cur  == Latest(s)
  IN  [value |-> cur.V - prev.V, deposits |-> cur.D - prev.D,
       return |-> (cur.V - cur.D) - (prev.V - prev.D),
       returnPct |-> IF prev.D > 0 THEN Minus(ReturnRatio(cur), ReturnRatio(prev)) ELSE NoRatio]

Overview(s) ==
  [returnPct |-> IF s.visible # {} /\ Latest(s).D > 0 THEN ReturnRatio(Latest(s)) ELSE NoRatio,
   delta1m   |-> IF s.visible = {} THEN {} ELSE {Delta(s, 1)},
   delta1y   |-> IF s.visible = {} THEN {} ELSE {Delta(s, 12)}]

\* The encoder refuses a float that is no number, and the answer has no body.
Encodes(answer) ==
  \A r \in {answer.returnPct} \cup {d.returnPct : d \in answer.delta1m \cup answer.delta1y} :
    r = NoRatio \/ r[2] # 0

(***************************************************************************)
(* The quality report, over all the rows: asset-months with several rows,  *)
(* the months between an asset's first and last row that have none, open   *)
(* assets without a recent row, rows after the current month.              *)
(***************************************************************************)
Gaps(months) == Max(months) - Min(months) + 1 - Cardinality(months)

Quality(rows, shut) ==
  LET byAsset   == {r.asset : r \in rows}
      in(a, m)  == {r \in rows : r.asset = a /\ r.month = m}
      months(a) == {r.month : r \in {q \in rows : q.asset = a}}
  IN  [duplicates |-> {p \in byAsset \X Months : Cardinality(in(p[1], p[2])) > 1},
       gaps       |-> [a \in byAsset |-> Gaps(months(a))],
       stale      |-> {a \in byAsset \ shut : Now - Max(months(a)) > StaleAfter},
       future     |-> {r \in rows : r.month > Now}]

(***************************************************************************)
(* The system.                                                             *)
(***************************************************************************)
SeriesOf(l, p, c) == Asked(Input(Reading("answered", Whole, l, p, c, c)), Whole)

Init ==
  /\ log \in StartLogs
  /\ paid = NoPayments
  /\ closed = {}
  /\ reader = Idle
  /\ writes = 0
  /\ shown = SeriesOf(log, paid, closed)

(***************************************************************************)
(* The writes, in whatever way they get into the tables.                   *)
(***************************************************************************)
Write(l, p, c) ==
  /\ writes < MaxWrites
  /\ log' = l /\ paid' = p /\ closed' = c
  /\ shown' = SeriesOf(l, p, c)
  /\ writes' = writes + 1
  /\ UNCHANGED reader

Record(place, entry) ==
  Write([p \in DOMAIN log \cup {place} |-> IF p = place THEN entry ELSE log[p]], paid, closed)

Pay(asset, month, amount) == Write(log, [paid EXCEPT ![<<asset, month>>] = @ + amount], closed)

SetClosed(a) == Write(log, paid, IF a \in closed THEN closed \ {a} ELSE closed \cup {a})

(***************************************************************************)
(* The queries of a request.                                               *)
(***************************************************************************)
ReadEntries(req) ==
  /\ reader.phase \in {"idle", "answered"}
  /\ reader' = Reading("payments", req, log, NoPayments, {}, {})
  /\ UNCHANGED <<log, paid, closed, writes, shown>>

ReadPayments ==
  /\ reader.phase = "payments"
  /\ reader' = Reading("assets", reader.req, reader.log, paid, closed, {})
  /\ UNCHANGED <<log, paid, closed, writes, shown>>

ListAssets ==
  /\ reader.phase = "assets"
  /\ LET read == Reading("answered", reader.req, reader.log, reader.paid, reader.barred, closed)
     IN  reader' = [read EXCEPT !.series = Asked(Input(read), read.req)]
  /\ UNCHANGED <<log, paid, closed, writes, shown>>

Next ==
  \/ \E p \in Places, e \in Entries : Record(p, e)
  \/ \E r \in Receipts : Pay(r[1], r[2], r[3])
  \/ \E a \in Assets : SetClosed(a)
  \/ \E req \in Requests : ReadEntries(req)
  \/ ReadPayments
  \/ ListAssets

Spec == Init /\ [][Next]_vars

-----------------------------------------------------------------------------
Answered == reader.phase = "answered"
TheInput == Input(reader)
TheSeries == reader.series

(* The variables have their types, and whatever was read the computations  *)
(* get at most one row per asset and month, within the request's bounds.   *)
TypeOK ==
  /\ IsLog(log)
  /\ paid \in [Assets \X Months -> Int]
  /\ closed \subseteq Assets
  /\ writes \in 0 .. MaxWrites
  /\ reader.phase \in {"idle", "payments", "assets", "answered"}
  /\ reader.req \in Requests \cup {Whole}
  /\ reader.barred \subseteq Assets /\ reader.closed \subseteq Assets
  /\ Answered =>
       /\ \A r \in TheInput.rows : MatchesScope(r.asset, reader.req) /\ InQuery(r.month, reader.req)
       /\ \A r, t \in TheInput.rows : r.asset = t.asset /\ r.month = t.month => r = t

(* What the entries say of an asset in a month, without rows or series: it *)
(* counts from its first entry until it is closed, with its latest entry.  *)
(* It is emptied where it is closed and the latest month with an entry or  *)
(* a payment has a payment only.                                           *)
EntriesUpTo(a, m) ==
  {p \in DOMAIN reader.log : p[1] = a /\ p[2] <= m /\ InQuery(p[2], reader.req)}
HasEntry(a, m) == \E p \in DOMAIN reader.log : p[1] = a /\ p[2] = m
Happens(a, m) ==
  InQuery(m, reader.req) /\ (HasEntry(a, m) \/ (reader.paid[<<a, m>>] # 0 /\ EntriesUpTo(a, m) # {}))

Counts(a, m) ==
  /\ EntriesUpTo(a, m) # {}
  /\ \/ \E k \in Months : k >= m /\ Happens(a, k) /\ (reader.req.to # NoMonth \/ k <= Now)
     \/ a \notin reader.closed /\ reader.req.to = NoMonth /\ m <= Now

Emptied(a, m) ==
  /\ a \in reader.barred
  /\ \E k \in Months : /\ k <= m /\ Happens(a, k) /\ ~HasEntry(a, k)
                       /\ \A j \in k .. m : ~HasEntry(a, j)

LatestEntry(a, m) ==
  LET last == CHOOSE p \in EntriesUpTo(a, m) :
                \A q \in EntriesUpTo(a, m) : q[2] < p[2] \/ (q[2] = p[2] /\ q[3] <= p[3])
  IN  reader.log[last]

(* The series is what the entries say: in every month each asset that      *)
(* counts contributes its latest entry up to then, however the entries and *)
(* payments are spread over the months, every payment since the first      *)
(* entry is counted once, and the flows add up to the deposits.  Nothing   *)
(* is said of the total of a month in which an asset is emptied: the code  *)
(* takes its value there for zero, also in the past, where                 *)
(* docs/quickstart.md says that its history stays.                         *)
(* logs.go SeriesRows, series.go BuildSeries.                              *)
CarriesForward ==
  Answered =>
    LET s == TheSeries
        S == InScope(TheInput, reader.req, reader.req.mode)
    IN  \A m \in Axis(s) :
          LET live == {a \in S : Counts(a, m)} IN
          /\ live # {}
          /\ (\A a \in live : ~Emptied(a, m)) =>
               /\ s.point[m].V = SumOf([a \in live |-> LatestEntry(a, m).value])
               /\ s.point[m].D = SumOf([a \in live |-> LatestEntry(a, m).deposit])
          /\ s.point[m].P = SumOf([a \in live |-> reader.paid[<<a, m>>]])
          /\ s.point[m].D = SumOf([k \in {j \in Axis(s) : j <= m} |-> s.point[k].F])

\* What closed assets still add to the last month of a series.
ClosedRest(in, req, s) ==
  LET m == Max(s.visible) IN
  Value(in, InScope(in, req, req.mode) \cap in.closed, m)

(* The parts add up to the whole, also when writes came between the        *)
(* queries: month by month the classes and, where no two charted assets    *)
(* share a name, the assets to the total, the income by class, by asset    *)
(* and by year to all of it, and, for a request without "to", the tables   *)
(* of open assets and of their classes to what is not in closed assets.    *)
(* breakdown.go, income.go.                                                *)
PartsAddUp ==
  Answered =>
    LET in  == TheInput
        req == reader.req
        s   == TheSeries
        all == BuildSeries(in, InScope(in, req, "merged"))
        income == PaidIn(s, s.visible)
        named  == \A a, b \in Charted(in, req) : NameOf[a] = NameOf[b] => a = b
    IN  /\ \A m \in all.visible :
             /\ SumOf(AllocationOverTime(in, req, m)) = all.point[m].V
             /\ named => SumOf(AllocationOverTimeAssets(in, req, m)) = all.point[m].V
        /\ SumOf(IncomeByClass(in, req)) = income
        /\ SumOf(IncomeByAsset(in, req)) = income
        /\ SumOf(IncomeByYear(s)) = income
        /\ req.to = NoMonth =>
             /\ s.visible # {} =>
                  Latest(s).V - ClosedRest(in, req, s) = SumOf(AssetValues(in, req))
             /\ req.asset = NoScope => SumOf(ClassValues(in, req)) = SumOf(AssetValues(in, req))

Unbounded(read) == [read EXCEPT !.req.from = NoMonth, !.req.to = NoMonth]

(* A range shows what the whole history shows: from "from" on the same     *)
(* points, plain growth factors, year rows and split, and up to a "to"     *)
(* that is not in the future the same values as long as no asset's rows in *)
(* the range have ended.                                                   *)
(* series.go VisibleFrom and ChainPoints, twrr.go, service.go.             *)
RangeAgrees ==
  Answered =>
    LET s     == TheSeries
        from  == BuildSeries([TheInput EXCEPT !.from = NoMonth],
                             InScope(TheInput, reader.req, reader.req.mode))
        whole == Asked(Input(Unbounded(reader)), reader.req)
        in    == TheInput
        ended(m) == \E a \in InScope(in, reader.req, reader.req.mode) :
                      RowMonths(in, a) # {} /\ Max(RowMonths(in, a)) < m
    IN  /\ \A m \in s.visible : s.point[m] = from.point[m]
        /\ \A m \in LegMonths(s) : m \in LegMonths(from) /\ SameAs(Chain(s)[m].g, Chain(from)[m].g)
        /\ \A y \in DOMAIN YearTable(s) :
             reader.req.from # NoMonth /\ y > Year(reader.req.from) =>
               YearTable(s)[y] = YearTable(from)[y]
        /\ \A m \in DOMAIN Decompose(s) : Decompose(s)[m] = Decompose(from)[m]
        /\ reader.req.to # NoMonth /\ reader.req.to <= Now =>
             \A m \in s.visible : ~ended(m) => s.point[m].V = whole.point[m].V

\* Two months of a range that are shown next to one another.
FollowedBy(s, k, m) == k < m /\ \A j \in s.visible : j <= k \/ m <= j

\* The last twelve months shown, or all but the first.
LastYear(s) ==
  {m \in s.visible : Cardinality({k \in s.visible : m <= k}) <= 12} \ {Min(s.visible)}

(* The yearly table, the yearly chart and the monthly split tell the same  *)
(* story: a year opens with what the year before closed with, which is     *)
(* what the chart of values shows for it, and the year's deposits and      *)
(* growth are those of its months.  The factors a year multiplies are      *)
(* those of its own months only where the range shows the whole history    *)
(* and that begins with a deposit; where it shows the whole history and    *)
(* that begins without one they are those of the months shown next, and    *)
(* where it begins later those of the months shown before.  The overview's *)
(* change of one month is what the split says of the last one, and its     *)
(* change of a year the sum of the split over the last twelve months, or   *)
(* all but the first where there are not more, unless the range shows      *)
(* only one month.  service.go yearlyTable, groupLast, Overview.           *)
YearsAgree ==
  Answered =>
    LET s     == TheSeries
        table == YearTable(s)
        parts == Decompose(s)
        in(y) == MonthsOfYear(s, y) \cap DOMAIN parts
        first(y) == Min(MonthsOfYear(s, y)) = Min(s.visible) /\ ~HasBaseline(s)
    IN  \A y \in DOMAIN table :
          /\ table[y].end = GroupLast(s, "year")[<<y>>]
          /\ \A z \in DOMAIN table :
               z < y /\ (\A x \in DOMAIN table : ~(z < x /\ x < y)) =>
                 table[y].start = GroupLast(s, "year")[<<z>>]
          /\ table[y].growth - table[y].income =
               SumOf([m \in in(y) |-> parts[m].growth])
          /\ table[y].deposits = SumOf([m \in in(y) |-> parts[m].newMoney])
                                 + IF first(y) THEN s.point[Min(s.visible)].F ELSE 0
          /\ FactorMonths(s, y) =
               IF Seeded(s) THEN MonthsOfYear(s, y)
               ELSE IF HasBaseline(s) THEN {k \in s.visible : \E m \in MonthsOfYear(s, y) : FollowedBy(s, k, m)}
               ELSE {k \in s.visible : \E m \in MonthsOfYear(s, y) : FollowedBy(s, m, k)}
          /\ Cardinality(s.visible) >= 2 =>
               /\ Delta(s, 1).deposits = parts[Max(s.visible)].newMoney
               /\ Delta(s, 1).return = parts[Max(s.visible)].growth
               /\ Delta(s, 12).value =
                    SumOf([m \in LastYear(s) |-> parts[m].newMoney + parts[m].growth])

(* The quality report explains the series.  The gaps of an asset are the   *)
(* months before its last row that its series fills by carrying an entry   *)
(* forward; it is stale exactly when its series has been carried on for    *)
(* more than StaleAfter months since, which never happens to a closed one; *)
(* and the rows flagged as future are the ones that every series leaves    *)
(* out.  quality.go and series.go, which compute this each for itself.     *)
QualityExplainsSeries ==
  Answered /\ reader.req = Whole =>
    LET in     == TheInput
        report == Quality(in.rows, in.closed)
        carried(a) == Axis(AssetSeries(in, Whole, a)) \ RowMonths(in, a)
    IN  /\ report.future = in.rows \ UNION {RowsOf(in, a) : a \in Assets}
        /\ \A a \in {r.asset : r \in in.rows \ report.future} :
             LET last == Max(RowMonths(in, a)) IN
             /\ (\A r \in report.future : r.asset # a) =>
                  report.gaps[a] = Cardinality({m \in carried(a) : m < last})
             /\ a \in report.stale <=>
                  /\ \A r \in report.future : r.asset # a
                  /\ Cardinality({m \in carried(a) : m > last}) > StaleAfter

(* The series of a request is what the entries say, and the quality report *)
(* explains it.                                                            *)
SeriesExplained == CarriesForward /\ QualityExplainsSeries

(* The numbers agree with one another across the ranges a reader may ask   *)
(* for and across the tables and charts that show them.                    *)
NumbersAgree == RangeAgrees /\ YearsAgree

\* Up to month j the value was never higher than in month i.
HighestUpTo(s, i, j) == \A k \in ChainMonths(s) : k <= j => s.point[k].V <= s.point[i].V

\* Runs of consecutive returns that all satisfy Is.
LongestRun(s, Is(_)) ==
  LET R == ReturnMonths(s) IN
  Max({0} \cup {Cardinality({k \in R : p[1] <= k /\ k <= p[2]}) :
                  p \in {q \in R \X R : \A k \in R : q[1] <= k /\ k <= q[2] => Is(k)}})

(* The records found in one pass are the ones a definition over all months *)
(* gives: no run is longer, no month better or worse and none as good      *)
(* earlier, and no fall deeper.  A fall is one from the highest value up   *)
(* to its month, where that is positive: a later value may be negative and *)
(* a fall from less than the highest then a larger part of it; where no    *)
(* value is, no fall from any earlier value is deeper.  metrics.go         *)
(* RiskFrom.                                                               *)
RiskByDefinition ==
  Answered /\ ReturnMonths(TheSeries) # {} =>
    LET s    == TheSeries
        legs == Chain(s)
        R    == ReturnMonths(s)
        down == Drawdown(s)
        V(m) == s.point[m].V
        best == Extremes(s).best
        worst == Extremes(s).worst
    IN  /\ Streaks(s).upMax = LongestRun(s, LAMBDA m : Less(One, legs[m].g))
        /\ Streaks(s).downMax = LongestRun(s, LAMBDA m : Less(legs[m].g, One))
        /\ \A m \in R : /\ ~Less(legs[best].g, legs[m].g) /\ ~Less(legs[m].g, legs[worst].g)
                        /\ SameAs(legs[m].g, legs[best].g) => best <= m
                        /\ SameAs(legs[m].g, legs[worst].g) => worst <= m
        /\ \A i, j \in ChainMonths(s) :
             /\ i <= j /\ V(i) > 0
             /\ HighestUpTo(s, i, j) \/ \A m \in ChainMonths(s) : V(m) >= 0
             => ~Less(down.depth, <<V(i) - V(j), V(i)>>)
        /\ down.peak <= down.trough
        /\ down.depth[1] > 0 =>
             /\ SameAs(down.depth, <<V(down.peak) - V(down.trough), V(down.peak)>>)
             /\ V(down.peak) > 0 /\ HighestUpTo(s, down.peak, down.trough)

Holds(f, x, v) == x \in DOMAIN f /\ f[x] = v
ChangedPlaces == {p \in DOMAIN log' : ~Holds(log, p, log'[p])}
ChangedReceipts == {r \in Assets \X Months : paid'[r] # paid[r]}
Touched == {<<p[1], p[2]>> : p \in ChangedPlaces} \cup ChangedReceipts

LastEntryMonth(a) == Max({0} \cup {p[2] : p \in {q \in DOMAIN log : q[1] = a /\ q[2] <= Now}})

\* The step changes no month up to m.
KeptUpTo(m) ==
  \A k \in Axis(shown) : k <= m => Holds(shown'.point, k, shown.point[k])

(* The past stays as it was: recording an entry or a payment of an open    *)
(* asset changes no month before it, and closing an asset that was never   *)
(* paid in a month without an entry changes no month up to its last entry  *)
(* that is not in the future.                                              *)
(* logs.go SeriesRows, series.go BuildSeries.                              *)
PastIsStable ==
  [][/\ \A t \in Touched : t[1] \notin closed => KeptUpTo(t[2] - 1)
     /\ \A a \in closed' \ closed :
          PaidOnlyMonths(Reading("answered", Whole, log, paid, {}, {}), a) = {} =>
            KeptUpTo(LastEntryMonth(a))]_vars

(* docs/api.md on answers: "Successes wrap the payload".  The overview of  *)
(* any scope, in any state of the ledger, can be encoded.                  *)
OverviewHasABody == Answered => Encodes(Overview(TheSeries))
=============================================================================
