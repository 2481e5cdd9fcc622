----------------------------- MODULE DatesProofs -----------------------------
(***************************************************************************)
(* Proofs about Dates, for every set of zones within -12 .. 14 hours, every *)
(* clock and every calendar.                                               *)
(***************************************************************************)
EXTENDS Dates, TLAPS

-----------------------------------------------------------------------------
(* Arithmetic of days and hours.                                           *)

\* An instant has the day that begins before it and ends after it.
LEMMA DayOfHour ==
  ASSUME NEW t \in Int, NEW d \in Int
  PROVE  /\ t \div Hours \in Int
         /\ t \div Hours = d <=> d * Hours <= t /\ t < (d + 1) * Hours
BY SMT DEF Hours

\* A stamped instant has the picked date in UTC.
LEMMA StampedDay ==
  ASSUME NEW d \in Int, clock \in Nat
  PROVE  /\ Stamp(d) \in Int
         /\ UtcDay(Stamp(d)) = d
<1>1. clock % Hours \in 0 .. 23
  BY SMT DEF Hours
<1>2. Stamp(d) = d * Hours + (clock % Hours)
  BY DEF Stamp
<1> QED
  BY <1>1, <1>2, SMT DEF Hours, UtcDay

\* A date that is not in the future is stamped with an instant that is at most
\* a day ahead of the clock, and not ahead of it unless the zone is east of UTC.
LEMMA StampedInstant ==
  ASSUME NEW d \in Int, clock \in Nat, zone \in -12 .. 14, NotFuture(d)
  PROVE  /\ Stamp(d) <= clock + Hours
         /\ zone <= 0 => Stamp(d) <= clock
<1>1. PICK q \in Int, h \in 0 .. 23 : clock = q * 24 + h /\ clock % 24 = h
  BY SMT
<1>2. d <= (clock + zone) \div 24
  BY DEF NotFuture, Today, LocalDay, Hours
<1>3. Stamp(d) = d * 24 + h
  BY <1>1 DEF Stamp, Hours
<1>4. d <= q + 1 /\ (zone <= 0 => d <= q)
  BY <1>1, <1>2, SMT
<1> QED
  BY <1>1, <1>3, <1>4, SMT DEF Hours

\* An instant is shown under its UTC date or the one next to it.
LEMMA ShownDay ==
  ASSUME NEW t \in Int, zone \in -12 .. 14
  PROVE  /\ LocalDay(t) \in Int /\ UtcDay(t) \in Int
         /\ LocalDay(t) - UtcDay(t) \in Drift
BY SMT DEF LocalDay, UtcDay, Drift, Hours

-----------------------------------------------------------------------------
(* The calendar.                                                           *)

Covered(d) == \E m \in Months : FirstDay[m] <= d /\ d < FirstDay[m + 1]

\* The months' first days are numbers, in the order of the months.
LEMMA FirstDays ==
  ASSUME NEW m \in Months, NEW n \in Months
  PROVE  /\ m \in Nat /\ n \in Nat
         /\ FirstDay[m] \in Int /\ FirstDay[n] \in Int
         /\ FirstDay[m + 1] \in Int /\ FirstDay[n + 1] \in Int
         /\ m < n => FirstDay[m] < FirstDay[n] /\ FirstDay[m + 1] <= FirstDay[n]
<1>1. /\ m \in DOMAIN FirstDay /\ n \in DOMAIN FirstDay
      /\ m + 1 \in DOMAIN FirstDay /\ n + 1 \in DOMAIN FirstDay
      /\ m \in Nat /\ n \in Nat
  BY MonthsAssumption DEF Months
<1>2. m < n => m + 1 = n \/ m + 1 < n
  BY <1>1
<1> QED
  BY <1>1, <1>2, MonthsAssumption

\* A day is in one month only.
LEMMA MonthIs ==
  ASSUME NEW d \in Int, NEW m \in Months, FirstDay[m] <= d, d < FirstDay[m + 1]
  PROVE  MonthOfDay(d) = m
<1>1. ASSUME NEW n \in Months, FirstDay[n] <= d, d < FirstDay[n + 1]
      PROVE  n = m
  <2>1. ~(n < m)
    BY <1>1, FirstDays
  <2>2. ~(m < n)
    BY <1>1, FirstDays
  <2> QED
    BY <2>1, <2>2, FirstDays
<1> QED
  BY <1>1 DEF MonthOfDay

LEMMA MonthCovers ==
  ASSUME NEW d \in Int, Covered(d)
  PROVE  /\ MonthOfDay(d) \in Months
         /\ FirstDay[MonthOfDay(d)] <= d /\ d < FirstDay[MonthOfDay(d) + 1]
BY MonthIs DEF Covered

\* A later day is not in an earlier month.
LEMMA MonthOrder ==
  ASSUME NEW d \in Int, NEW e \in Int, Covered(d), Covered(e), d <= e
  PROVE  MonthOfDay(d) <= MonthOfDay(e)
<1>1. ASSUME MonthOfDay(e) < MonthOfDay(d)
      PROVE  FALSE
  BY <1>1, MonthCovers, FirstDays
<1> QED
  BY <1>1, MonthCovers, FirstDays

\* The range between the first instants of two months holds exactly the instants
\* that are shown in the months between.
LEMMA RangeIsMonths ==
  ASSUME NEW t \in Int, zone \in -12 .. 14, Covered(LocalDay(t)),
         NEW m \in Months, NEW n \in Months
  PROVE  Start(m) <= t /\ t < Start(n + 1) <=> MonthOf(t) \in m .. n
<1> DEFINE d == LocalDay(t)
           k == MonthOfDay(d)
<1>1. d \in Int /\ k \in Months /\ FirstDay[k] <= d /\ d < FirstDay[k + 1]
  BY ShownDay, MonthCovers
<1>2. Start(m) <= t <=> FirstDay[m] <= d
  <2>1. FirstDay[m] \in Int
    BY FirstDays
  <2> QED
    BY <2>1, SMT DEF Start, LocalDay, Hours
<1>3. t < Start(n + 1) <=> d < FirstDay[n + 1]
  <2>1. FirstDay[n + 1] \in Int
    BY FirstDays
  <2> QED
    BY <2>1, SMT DEF Start, LocalDay, Hours
<1>4. FirstDay[m] <= d <=> m <= k
  <2>1. ~(k < m /\ FirstDay[m] <= d)
    BY <1>1, FirstDays
  <2>2. m <= k => FirstDay[m] <= FirstDay[k]
    BY <1>1, FirstDays
  <2> QED
    BY <1>1, <2>1, <2>2, FirstDays
<1>5. d < FirstDay[n + 1] <=> k <= n
  <2>1. ~(n < k /\ d < FirstDay[n + 1])
    BY <1>1, FirstDays
  <2>2. k <= n => FirstDay[k + 1] <= FirstDay[n + 1]
    <3>1. k < n => FirstDay[k + 1] <= FirstDay[n] /\ FirstDay[n] < FirstDay[n + 1]
      <4>1. n \in DOMAIN FirstDay /\ n + 1 \in DOMAIN FirstDay /\ n \in Nat
        BY MonthsAssumption DEF Months
      <4>2. FirstDay[n] < FirstDay[n + 1]
        BY <4>1, MonthsAssumption
      <4> QED
        BY <1>1, <4>2, FirstDays
    <3> QED
      BY <1>1, <3>1, FirstDays
  <2> QED
    BY <1>1, <2>1, <2>2, FirstDays
<1> HIDE DEF d, k
<1>6. MonthOf(t) = k
  BY DEF MonthOf, d, k
<1> QED
  BY <1>1, <1>2, <1>3, <1>4, <1>5, <1>6, FirstDays

-----------------------------------------------------------------------------
(* The invariant.  A row says more of its instant than its type: the date   *)
(* picked for it, one of the calendar, is its date in UTC, and the clock    *)
(* was within a day of it.  A new or changed entry has been looked for in   *)
(* its month first, so no two entries share one.  And what a preview said is *)
(* still so until a row changes.                                            *)

RowOK(row) ==
  /\ row.kind \in {"log", "payment"}
  /\ row.at \in Int /\ row.picked \in Dates
  /\ UtcDay(row.at) = row.picked
  /\ row.at <= clock + Hours
  /\ zone <= 0 => row.at <= clock

OneEach(rs) ==
  \A i, j \in DOMAIN rs :
    /\ rs[i].kind = "log" /\ rs[j].kind = "log"
    /\ MonthOf(rs[i].at) = MonthOf(rs[j].at)
    => i = j

RowsOK(rs) ==
  /\ DOMAIN rs \subseteq Ids
  /\ \A i \in DOMAIN rs : RowOK(rs[i])
  /\ OneEach(rs)

ClockOK == zone \in Offsets /\ clock \in Clocks

IInv ==
  /\ ClockOK
  /\ RowsOK(rows)
  /\ preview \in Previews \cup {NoPreview}
  /\ preview # NoPreview /\ preview.fresh =>
       (preview.creates <=> Listed("log", MonthPreviewed(preview.date), MonthPreviewed(preview.date)) = {})

LEMMA ClockInRange ==
  ASSUME ClockOK
  PROVE  clock \in Nat /\ zone \in -12 .. 14
BY OffsetsAssumption, ClocksAssumption DEF ClockOK

\* Every row is shown on a day of the calendar.
LEMMA RowCovered ==
  ASSUME ClockOK, NEW row, RowOK(row)
  PROVE  /\ row.at \in Int /\ LocalDay(row.at) \in Int
         /\ Covered(LocalDay(row.at))
         /\ LocalDay(row.at) - row.picked \in Drift
<1>1. row.at \in Int /\ row.picked \in Dates /\ UtcDay(row.at) = row.picked
  BY DEF RowOK
<1>2. LocalDay(row.at) \in Int /\ LocalDay(row.at) - row.picked \in Drift
  BY <1>1, ClockInRange, ShownDay
<1>3. PICK k \in {-1, 0, 1} : LocalDay(row.at) = row.picked + k
  <2>1. LocalDay(row.at) - row.picked \in {-1, 0, 1}
    BY <1>2 DEF Drift
  <2>2. row.picked \in Nat
    BY <1>1, ClocksAssumption
  <2> QED
    BY <1>2, <2>1, <2>2
<1>4. Covered(row.picked + k)
  BY <1>1, CalendarAssumption DEF Covered
<1> QED
  BY <1>1, <1>2, <1>3, <1>4

\* A row that has just been stamped.
LEMMA NewRow ==
  ASSUME ClockOK, NEW d \in Dates, NotFuture(d), NEW kind \in {"log", "payment"}
  PROVE  /\ Row(kind, Stamp(d), d).kind = kind
         /\ Row(kind, Stamp(d), d).at = Stamp(d)
         /\ RowOK(Row(kind, Stamp(d), d))
<1>1. d \in Int
  BY ClocksAssumption
<1>2. Stamp(d) \in Int /\ UtcDay(Stamp(d)) = d
  BY <1>1, ClockInRange, StampedDay
<1>3. Stamp(d) <= clock + Hours /\ (zone <= 0 => Stamp(d) <= clock)
  BY <1>1, ClockInRange, StampedInstant
<1> QED
  BY <1>2, <1>3 DEF Row, RowOK

\* What the lists and FindByAssetMonth find are the rows shown in the months.
LEMMA ListedByMonth ==
  ASSUME ClockOK, RowsOK(rows), NEW kind \in {"log", "payment"},
         NEW m \in Months, NEW n \in Months
  PROVE  Listed(kind, m, n) =
           {i \in DOMAIN rows : rows[i].kind = kind /\ MonthOf(rows[i].at) \in m .. n}
<1>1. ASSUME NEW i \in DOMAIN rows
      PROVE  Start(m) <= rows[i].at /\ rows[i].at < Start(n + 1)
               <=> MonthOf(rows[i].at) \in m .. n
  <2>1. RowOK(rows[i])
    BY <1>1 DEF RowsOK
  <2> QED
    BY <2>1, RowCovered, ClockInRange, RangeIsMonths
<1> QED
  BY <1>1 DEF Listed

\* FindByAssetMonth finds the entries shown in the month.
LEMMA FoundInMonth ==
  ASSUME ClockOK, RowsOK(rows), NEW t, MonthOf(t) \in Months
  PROVE  Listed("log", MonthOf(t), MonthOf(t)) =
           {i \in DOMAIN rows : rows[i].kind = "log" /\ MonthOf(rows[i].at) = MonthOf(t)}
<1>1. PICK m \in Months : m = MonthOf(t)
  OBVIOUS
<1>2. m .. m = {m}
  BY MonthsAssumption DEF Months
<1>3. Listed("log", m, m) = {i \in DOMAIN rows : rows[i].kind = "log" /\ MonthOf(rows[i].at) \in m .. m}
  BY ListedByMonth
<1> QED
  BY <1>1, <1>2, <1>3

\* Rows stay good when one is put among them that shares its month with no other
\* entry.
LEMMA PutKeeps ==
  ASSUME NEW rs, RowsOK(rs), NEW i \in Ids, NEW row, RowOK(row),
         row.kind = "log" =>
           \A j \in DOMAIN rs : rs[j].kind = "log" /\ MonthOf(rs[j].at) = MonthOf(row.at) => j = i
  PROVE  RowsOK(Put(rs, i, row))
<1> DEFINE new == Put(rs, i, row)
<1>1. /\ DOMAIN new = DOMAIN rs \cup {i}
      /\ \A j \in DOMAIN new : new[j] = IF j = i THEN row ELSE rs[j]
  BY DEF Put
<1> HIDE DEF new
<1>2. DOMAIN new \subseteq Ids /\ \A j \in DOMAIN new : RowOK(new[j])
  BY <1>1 DEF RowsOK
<1>3. OneEach(new)
  <2> SUFFICES ASSUME NEW j \in DOMAIN new, NEW k \in DOMAIN new,
                      new[j].kind = "log", new[k].kind = "log",
                      MonthOf(new[j].at) = MonthOf(new[k].at)
               PROVE  j = k
    BY DEF OneEach
  <2>1. CASE j # i /\ k # i
    <3>1. j \in DOMAIN rs /\ k \in DOMAIN rs /\ new[j] = rs[j] /\ new[k] = rs[k]
      BY <1>1, <2>1
    <3> QED
      BY <3>1 DEF RowsOK, OneEach
  <2>2. CASE j = i /\ k # i
    <3>1. k \in DOMAIN rs /\ new[k] = rs[k] /\ new[j] = row
      BY <1>1, <2>2
    <3> QED
      BY <3>1, <2>2
  <2>3. CASE j # i /\ k = i
    <3>1. j \in DOMAIN rs /\ new[j] = rs[j] /\ new[k] = row
      BY <1>1, <2>3
    <3> QED
      BY <3>1, <2>3
  <2> QED
    BY <2>1, <2>2, <2>3
<1> QED
  BY <1>2, <1>3 DEF RowsOK, new

-----------------------------------------------------------------------------
(* The operations keep the rows good.                                      *)

LEMMA PaymentKeeps ==
  ASSUME ClockOK, NEW rs, RowsOK(rs), NEW d \in Dates, NotFuture(d), NEW pays,
         NEW new \in WithPayment(rs, d, pays)
  PROVE  RowsOK(new)
<1>1. CASE pays
  <2>1. PICK i \in Ids \ DOMAIN rs : new = Put(rs, i, Row("payment", Stamp(d), d))
    BY <1>1 DEF WithPayment
  <2>2. /\ RowOK(Row("payment", Stamp(d), d))
        /\ Row("payment", Stamp(d), d).kind # "log"
    BY NewRow
  <2> HIDE DEF Row
  <2> QED
    BY <2>1, <2>2, PutKeeps
<1>2. CASE ~pays
  BY <1>2 DEF WithPayment
<1> QED
  BY <1>1, <1>2

Found(t) == {i \in DOMAIN rows : rows[i].kind = "log" /\ MonthOf(rows[i].at) = MonthOf(t)}

\* An entry is put where its month has none, or in the place of the one it has.
LEMMA EntryPut ==
  ASSUME ClockOK, RowsOK(rows), NEW d \in Dates, NotFuture(d), NEW replace,
         NEW new \in WithEntry(d, replace)
  PROVE  /\ RowOK(Row("log", Stamp(d), d)) /\ MonthOf(Stamp(d)) \in Months
         /\ \/ new = rows /\ ~replace
            \/ \E i \in Ids : /\ new = Put(rows, i, Row("log", Stamp(d), d))
                             /\ \/ Found(Stamp(d)) = {} /\ i \notin DOMAIN rows
                                \/ i \in Found(Stamp(d))
<1> DEFINE at    == Stamp(d)
           row   == Row("log", at, d)
           found == Listed("log", MonthOf(at), MonthOf(at))
           last  == {i \in found : \A j \in found : rows[j].at <= rows[i].at}
<1>1. row.at = at /\ RowOK(row)
  BY NewRow
<1>2. MonthOf(at) \in Months
  BY <1>1, RowCovered, MonthCovers DEF MonthOf
<1>3. found = Found(at)
  BY <1>2, FoundInMonth DEF Found
<1> HIDE DEF at, row, found, last
<1>4. \/ new = rows /\ ~replace
      \/ \E i \in Ids : /\ new = Put(rows, i, row)
                       /\ \/ found = {} /\ i \notin DOMAIN rows
                          \/ i \in found
  <2>1. CASE found = {}
    BY <2>1 DEF WithEntry, at, row, found
  <2>2. CASE found # {} /\ replace
    <3>1. PICK i \in last : new = Put(rows, i, row)
      BY <2>2 DEF WithEntry, at, row, found, last
    <3>2. i \in found /\ i \in Ids
      BY <1>3 DEF RowsOK, last, Found
    <3> QED
      BY <3>1, <3>2
  <2>3. CASE found # {} /\ ~replace
    BY <2>3 DEF WithEntry, at, found
  <2> QED
    BY <2>1, <2>2, <2>3
<1> QED
  BY <1>1, <1>2, <1>3, <1>4 DEF row, at

LEMMA EntryKeeps ==
  ASSUME ClockOK, RowsOK(rows), NEW d \in Dates, NotFuture(d), NEW replace,
         NEW new \in WithEntry(d, replace)
  PROVE  RowsOK(new)
<1> DEFINE row == Row("log", Stamp(d), d)
<1>1. row.kind = "log" /\ row.at = Stamp(d) /\ RowOK(row)
  BY NewRow
<1>2. CASE new = rows
  BY <1>2
<1>3. CASE \E i \in Ids : new = Put(rows, i, row) /\ (Found(Stamp(d)) = {} \/ i \in Found(Stamp(d)))
  <2>1. PICK i \in Ids : new = Put(rows, i, row) /\ (Found(Stamp(d)) = {} \/ i \in Found(Stamp(d)))
    BY <1>3
  <2>2. ASSUME NEW j \in DOMAIN rows, rows[j].kind = "log", MonthOf(rows[j].at) = MonthOf(row.at)
        PROVE  j = i
    <3>1. j \in Found(Stamp(d))
      BY <1>1, <2>2 DEF Found
    <3>2. i \in Found(Stamp(d))
      BY <2>1, <3>1
    <3> QED
      BY <3>1, <3>2 DEF RowsOK, OneEach, Found
  <2> HIDE DEF row
  <2> QED
    BY <1>1, <2>1, <2>2, PutKeeps
<1>4. \/ new = rows
      \/ \E i \in Ids : new = Put(rows, i, row) /\ (Found(Stamp(d)) = {} \/ i \in Found(Stamp(d)))
  BY EntryPut
<1> QED
  BY <1>2, <1>3, <1>4

LEMMA PostKeeps ==
  ASSUME ClockOK, RowsOK(rows), NEW d \in Dates, NEW replace, NEW pays, PostLogs(d, replace, pays)
  PROVE  RowsOK(rows')
BY EntryKeeps, PaymentKeeps DEF PostLogs

LEMMA PatchKeeps ==
  ASSUME ClockOK, RowsOK(rows), NEW d \in Dates, NEW i, Patch(i, d)
  PROVE  RowsOK(rows')
<1> DEFINE at  == Stamp(d)
           row == Row(rows[i].kind, at, d)
<1>1. i \in DOMAIN rows /\ i \in Ids /\ rows[i].kind \in {"log", "payment"} /\ NotFuture(d)
  BY DEF Patch, RowsOK, RowOK
<1>2. row.kind = rows[i].kind /\ row.at = at /\ RowOK(row)
  BY <1>1, NewRow
<1>3. MonthOf(at) \in Months
  BY <1>2, RowCovered, MonthCovers DEF MonthOf
<1>4. ASSUME row.kind = "log", NEW j \in DOMAIN rows, rows[j].kind = "log",
             MonthOf(rows[j].at) = MonthOf(row.at)
      PROVE  j = i
  <2>1. Listed("log", MonthOf(at), MonthOf(at)) \subseteq {i}
    BY <1>2, <1>4 DEF Patch
  <2>2. j \in Listed("log", MonthOf(at), MonthOf(at))
    BY <1>2, <1>3, <1>4, FoundInMonth
  <2> QED
    BY <2>1, <2>2
<1>5. rows' = Put(rows, i, row)
  BY DEF Patch
<1> HIDE DEF row
<1> QED
  BY <1>1, <1>2, <1>4, <1>5, PutKeeps

\* Good rows stay good when time passes.
LEMMA TimePasses ==
  ASSUME ClockOK, RowsOK(rows'), clock' \in Clocks, clock <= clock', zone' = zone
  PROVE  RowsOK(rows)'
<1>1. clock \in Nat /\ clock' \in Nat
  BY ClocksAssumption DEF ClockOK
<1>2. ASSUME NEW i \in DOMAIN rows'
      PROVE  RowOK(rows[i])'
  BY <1>1, <1>2 DEF RowsOK, RowOK, UtcDay, Hours
<1>3. OneEach(rows)'
  BY DEF RowsOK, OneEach, MonthOf, LocalDay
<1> QED
  BY <1>2, <1>3 DEF RowsOK

-----------------------------------------------------------------------------
(* The invariant holds.                                                    *)

LEMMA InitHolds == Init => IInv
<1> SUFFICES ASSUME Init PROVE IInv
  OBVIOUS
<1>1. DOMAIN rows = {}
  BY DEF Init
<1> QED
  BY <1>1 DEF Init, IInv, ClockOK, RowsOK, OneEach

LEMMA PreviewTyped ==
  ASSUME clock \in Nat, NEW d \in Dates, Preview(d)
  PROVE  /\ preview' \in Previews
         /\ preview'.date = d
         /\ preview'.creates <=> Listed("log", MonthPreviewed(d), MonthPreviewed(d)) = {}
<1> DEFINE none == Listed("log", MonthPreviewed(d), MonthPreviewed(d)) = {}
<1>1. clock + 1 \in Nat /\ none \in BOOLEAN
  OBVIOUS
<1>2. preview' = [date |-> d, until |-> clock + 1, fresh |-> TRUE, creates |-> none]
  BY DEF Preview
<1> HIDE DEF none
<1>3. preview' \in Previews /\ preview'.date = d /\ preview'.creates = none
  BY <1>1, <1>2, Zenon DEF Previews
<1> QED
  BY <1>3 DEF none

LEMMA OutdatedTyped ==
  ASSUME preview \in Previews, preview # NoPreview
  PROVE  Outdated \in Previews /\ Outdated.fresh = FALSE
<1>1. Outdated = [preview EXCEPT !.fresh = FALSE]
  BY DEF Outdated
<1> QED
  BY <1>1, Zenon DEF Previews

\* A change of the rows makes what a preview said worthless.
LEMMA RowsChange ==
  ASSUME IInv, RowsOK(rows'), preview' = Outdated, UNCHANGED <<zone, clock>>
  PROVE  IInv'
<1>1. ClockOK'
  BY DEF IInv, ClockOK
<1>2. RowsOK(rows)'
  BY DEF RowsOK, RowOK, OneEach, MonthOf, LocalDay
<1>3. \/ preview' = NoPreview
      \/ preview' \in Previews /\ preview'.fresh = FALSE
  <2>1. CASE preview # NoPreview
    BY <2>1, OutdatedTyped DEF IInv
  <2>2. CASE preview = NoPreview
    BY <2>2 DEF Outdated
  <2> QED
    BY <2>1, <2>2
<1> QED
  BY <1>1, <1>2, <1>3 DEF IInv

LEMMA StepHolds == IInv /\ [Next]_vars => IInv'
<1> SUFFICES ASSUME IInv, [Next]_vars PROVE IInv'
  OBVIOUS
<1>0. ClockOK /\ RowsOK(rows) /\ clock \in Nat
  BY ClockInRange DEF IInv
<1>1. CASE CallsPostLogs
  BY <1>0, <1>1, PostKeeps, RowsChange DEF CallsPostLogs
<1>2. CASE CallsPostInstant
  BY <1>0, <1>2, PostKeeps, RowsChange DEF CallsPostInstant
<1>3. CASE CallsPatch
  BY <1>0, <1>3, PatchKeeps, RowsChange DEF CallsPatch
<1>4. CASE CallsDelete
  <2>1. PICK i \in DOMAIN rows : rows' = [j \in DOMAIN rows \ {i} |-> rows[j]]
    BY <1>4 DEF CallsDelete
  <2>2. RowsOK(rows')
    BY <1>0, <2>1 DEF RowsOK, OneEach
  <2> QED
    BY <1>4, <2>2, RowsChange DEF CallsDelete
<1>5. CASE QuickPayment
  BY <1>0, <1>5, PaymentKeeps, RowsChange DEF QuickPayment, PostPayment
<1>6. CASE OpenForm \/ LeaveForm \/ UNCHANGED vars
  BY <1>6 DEF OpenForm, LeaveForm, vars, IInv, ClockOK, RowsOK, RowOK, OneEach, MonthOf,
              LocalDay, Listed, Start
<1>7. CASE SaveForm
  BY <1>0, <1>7, PatchKeeps, RowsChange DEF SaveForm
<1>8. CASE \E d \in Dates : Preview(d)
  <2>1. PICK d \in Dates : Preview(d)
    BY <1>8
  <2>2. /\ ClockOK' /\ RowsOK(rows)'
        /\ \A m : Listed("log", m, m)' = Listed("log", m, m)
    BY <1>0, <2>1 DEF Preview, ClockOK, RowsOK, RowOK, OneEach, MonthOf, LocalDay, Listed, Start
  <2>3. /\ preview' \in Previews
        /\ preview'.date = d
        /\ preview'.creates <=> Listed("log", MonthPreviewed(d), MonthPreviewed(d)) = {}
    BY <1>0, <2>1, PreviewTyped
  <2> QED
    BY <2>2, <2>3 DEF IInv, MonthPreviewed
<1>9. CASE Commit
  <2>1. preview.date \in Dates
    BY <1>9 DEF Commit, IInv, Previews
  <2>2. RowsOK(rows')
    BY <1>0, <1>9, <2>1, PostKeeps DEF Commit
  <2>3. RowsOK(rows)'
    BY <1>9, <2>2 DEF Commit, RowsOK, RowOK, OneEach, MonthOf, LocalDay
  <2> QED
    BY <1>9, <2>3 DEF Commit, IInv, ClockOK
<1>10. CASE Tick
  <2>1. ClockOK' /\ clock <= clock' /\ clock' \in Clocks /\ zone' = zone /\ rows' = rows
    BY <1>0, <1>10, ClocksAssumption DEF Tick, ClockOK
  <2>2. RowsOK(rows)'
    BY <1>0, <2>1, TimePasses
  <2>3. \A m : Listed("log", m, m)' = Listed("log", m, m)
    BY <2>1 DEF Listed, Start
  <2>4. preview' \in {preview, NoPreview}
    BY <1>10 DEF Tick
  <2> QED
    BY <2>1, <2>2, <2>3, <2>4 DEF IInv, MonthPreviewed
<1> QED
  BY <1>1, <1>2, <1>3, <1>4, <1>5, <1>6, <1>7, <1>8, <1>9, <1>10 DEF Next

\* The invariant holds in every behaviour.
THEOREM Invariant == Spec => []IInv
BY InitHolds, StepHolds, PTL DEF Spec

-----------------------------------------------------------------------------
(* What follows from it.                                                   *)

\* The variables have their types, and no stored instant is more than a day
\* ahead of the clock (api.go parseDate, rejectFuture, stampNow).
THEOREM TypeCorrect == Spec => []TypeOK
<1>1. IInv => TypeOK
  <2> SUFFICES ASSUME IInv PROVE TypeOK
    OBVIOUS
  <2>1. clock \in Nat
    BY ClockInRange DEF IInv
  <2>2. \A i \in DOMAIN rows : RowOK(rows[i])
    BY DEF IInv, RowsOK
  <2>3. ASSUME NEW i \in DOMAIN rows
        PROVE  /\ rows[i].kind \in {"log", "payment"} /\ rows[i].picked \in Int
               /\ rows[i].at \in Int /\ rows[i].at < clock + Hours + 1
    <3>1. RowOK(rows[i]) /\ (rows[i].picked \in Dates => rows[i].picked \in Nat)
      BY <2>2, ClocksAssumption
    <3> QED
      BY <2>1, <3>1 DEF RowOK, Hours
  <2> QED
    BY <2>3 DEF TypeOK, IInv, ClockOK, RowsOK
<1> QED
  BY <1>1, Invariant, PTL

\* A row is shown under the picked date or a neighbouring one, on the side the
\* zone lies, and only east of UTC is a row ahead of the clock or of the current
\* month of the statistics (api.go stampNow, stats/service.go:95).
THEOREM DatesClose == Spec => []DatesStayClose
<1>1. IInv => DatesStayClose
  <2> SUFFICES ASSUME IInv PROVE DatesStayClose
    OBVIOUS
  <2>1. ClockOK /\ clock \in Nat /\ zone \in -12 .. 14
    BY ClockInRange DEF IInv
  <2>2. ASSUME NEW i \in DOMAIN rows
        PROVE  /\ UtcDay(rows[i].at) = rows[i].picked
               /\ LocalDay(rows[i].at) - rows[i].picked \in Drift
               /\ zone <= 0 => rows[i].at <= clock
               /\ rows[i].at \in Int /\ LocalDay(rows[i].at) \in Int
               /\ Covered(LocalDay(rows[i].at))
    BY <2>1, RowCovered DEF IInv, RowsOK, RowOK
  <2>3. ASSUME zone <= 0, NEW i \in DOMAIN rows
        PROVE  ~(MonthOf(rows[i].at) > NowMonth)
    <3>1. LocalDay(rows[i].at) <= UtcDay(clock) /\ UtcDay(clock) \in Int
      BY <2>1, <2>2, <2>3, SMT DEF LocalDay, UtcDay, Hours
    <3>2. Covered(UtcDay(clock))
      BY <2>1, CalendarAssumption DEF Covered, UtcDay, ClockOK
    <3>3. MonthOf(rows[i].at) <= NowMonth
      BY <2>2, <3>1, <3>2, MonthOrder DEF MonthOf, NowMonth
    <3>4. MonthOf(rows[i].at) \in Nat /\ NowMonth \in Nat
      BY <2>2, <3>1, <3>2, MonthCovers, FirstDays DEF MonthOf, NowMonth
    <3> QED
      BY <3>3, <3>4
  <2> QED
    BY <2>2, <2>3 DEF DatesStayClose, FutureRows
<1> QED
  BY <1>1, Invariant, PTL

\* Every reader puts a row in the same month, in every zone, and no two entries
\* of the asset share one (the readers of domain/month.go).
THEOREM MonthsAlwaysAgree == Spec => []MonthsAgree
<1>1. IInv => MonthsAgree
  BY ListedByMonth DEF IInv, MonthsAgree, RowsOK, OneEach
<1> QED
  BY <1>1, Invariant, PTL

\* What an import writes is what its preview said, when no row has changed since
\* and the zone is UTC; in any zone an entry it replaces is one of the month of
\* the picked date or of the neighbouring day on the zone's side
\* (importer.go Preview and Commit, logs.go create).
THEOREM ImportAsPreviewed == Spec => ImportKeepsItsWord
<1> DEFINE Word ==
      preview # NoPreview /\ preview' = NoPreview /\ clock' = clock =>
        /\ preview.fresh /\ zone = 0 => (preview.creates <=> DOMAIN rows' # DOMAIN rows)
        /\ \A i \in DOMAIN rows :
             rows'[i] # rows[i] =>
               \E k \in Drift : MonthOf(rows[i].at) = MonthOfDay(preview.date + k)
<1>1. IInv /\ [Next]_vars => [Word]_vars
  <2> SUFFICES ASSUME IInv, Next, preview # NoPreview, preview' = NoPreview, clock' = clock
               PROVE  Word
    BY DEF vars
  <2>1. preview \in Previews /\ NoPreview \notin Previews
    BY NoneAssumption DEF IInv
  <2>2. ~(CallsPostLogs \/ CallsPostInstant \/ CallsPatch \/ CallsDelete \/ QuickPayment \/ SaveForm)
    <3>1. Outdated \in Previews
      BY <2>1, OutdatedTyped
    <3> QED
      BY <2>1, <3>1 DEF CallsPostLogs, CallsPostInstant, CallsPatch, CallsDelete, QuickPayment, SaveForm
  <2>3. ~(OpenForm \/ LeaveForm \/ Tick)
    BY ClockInRange DEF OpenForm, LeaveForm, Tick, IInv
  <2>4. ~(\E d \in Dates : Preview(d))
    <3> SUFFICES ASSUME NEW d \in Dates, Preview(d) PROVE FALSE
      OBVIOUS
    <3>1. preview' \in Previews
      BY PreviewTyped, ClockInRange DEF IInv
    <3> QED
      BY <2>1, <3>1
  <2>5. Commit
    BY <2>2, <2>3, <2>4 DEF Next
  <2> DEFINE d   == preview.date
             row == Row("log", Stamp(d), d)
  <2>6. d \in Dates /\ d \in Int /\ NotFuture(d) /\ rows' \in WithEntry(d, TRUE)
    <3>1. d \in Dates /\ PostLogs(d, TRUE, FALSE)
      BY <2>1, <2>5 DEF Commit, Previews
    <3>2. PICK rs \in WithEntry(d, TRUE) : rows' \in WithPayment(rs, d, FALSE)
      BY <3>1 DEF PostLogs
    <3>3. rows' = rs
      BY <3>2 DEF WithPayment
    <3>4. rows' \in WithEntry(d, TRUE)
      BY <3>3
    <3>5. d \in Int
      <4>1. d \in Dates
        BY <3>1
      <4> HIDE DEF d
      <4> QED
        BY <4>1, ClocksAssumption
    <3>6. NotFuture(d)
      BY <3>1 DEF PostLogs
    <3> QED
      BY <3>1, <3>4, <3>5, <3>6
  <2>7. ClockOK /\ RowsOK(rows) /\ clock \in Nat /\ zone \in -12 .. 14
    BY ClockInRange DEF IInv
  <2>8. MonthOf(Stamp(d)) \in Months
    BY <2>6, <2>7, EntryPut
  <2>9. PICK i \in Ids : /\ rows' = Put(rows, i, row)
                        /\ \/ Found(Stamp(d)) = {} /\ i \notin DOMAIN rows
                           \/ i \in Found(Stamp(d))
    BY <2>6, <2>7, EntryPut
  <2>10. LocalDay(Stamp(d)) \in Int /\ LocalDay(Stamp(d)) - d \in Drift
    BY <2>6, <2>7, StampedDay, ShownDay
  <2>11. /\ DOMAIN rows' = DOMAIN rows \cup {i}
         /\ \A j \in DOMAIN rows : j # i => rows'[j] = rows[j]
    BY <2>9 DEF Put
  <2>12. ASSUME preview.fresh, zone = 0
         PROVE  preview.creates <=> DOMAIN rows' # DOMAIN rows
    <3>1. LocalDay(Stamp(d)) = d
      BY <2>6, <2>10, <2>12 DEF Drift
    <3>2. MonthPreviewed(d) = MonthOf(Stamp(d))
      BY <3>1 DEF MonthPreviewed, MonthOf
    <3>3. preview.creates <=> Found(Stamp(d)) = {}
      BY <2>7, <2>8, <2>12, <3>2, FoundInMonth DEF IInv, Found
    <3>4. Found(Stamp(d)) \subseteq DOMAIN rows
      BY DEF Found
    <3> QED
      BY <2>9, <2>11, <3>3, <3>4
  <2>13. ASSUME NEW j \in DOMAIN rows, rows'[j] # rows[j]
         PROVE  \E k \in Drift : MonthOf(rows[j].at) = MonthOfDay(d + k)
    <3>1. j = i /\ i \in Found(Stamp(d))
      BY <2>9, <2>11, <2>13
    <3>2. MonthOf(rows[j].at) = MonthOfDay(LocalDay(Stamp(d)))
      BY <3>1 DEF Found, MonthOf
    <3>3. LocalDay(Stamp(d)) = d + (LocalDay(Stamp(d)) - d)
      BY <2>6, <2>10
    <3> QED
      BY <2>10, <3>2, <3>3
  <2> QED
    BY <2>12, <2>13
<1> QED
  BY <1>1, Invariant, PTL DEF ImportKeepsItsWord, Spec
=============================================================================
