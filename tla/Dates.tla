-------------------------------- MODULE Dates --------------------------------
(***************************************************************************)
(* Dates, instants and months: what becomes of a date between the form in  *)
(* which it is picked and the month under which it is shown, listed,       *)
(* checked for duplicates and counted.                                     *)
(*                                                                         *)
(* A picked date is a calendar date.  The API stores it as an instant, the *)
(* date in UTC with the current time of day in UTC; everything that reads  *)
(* it converts the instant to the app's time zone (TZ).  The current month *)
(* of the statistics is the one in UTC.                                    *)
(*                                                                         *)
(* Instants are hours, dates are days, both numbered from 0 in UTC.  The   *)
(* zone is a fixed number of hours ahead of UTC, one for each behaviour.   *)
(* The rows are those of one asset; a request is one step, its races are   *)
(* those of Ledger.                                                        *)
(***************************************************************************)
EXTENDS Integers

CONSTANTS
  Offsets,    \* the zones, in hours ahead of UTC
  Clocks,     \* the hours at which something happens
  Dates,      \* the dates that may be picked
  FirstDay,   \* the first day of each month, and of the month after the last
  Ids,        \* the ids of rows
  NoForm,
  NoPreview

Hours == 24
Months == {m \in DOMAIN FirstDay : m + 1 \in DOMAIN FirstDay}

ASSUME OffsetsAssumption == Offsets \subseteq -12 .. 14

ASSUME ClocksAssumption == Clocks \subseteq Nat /\ Dates \subseteq Nat

ASSUME MonthsAssumption ==
  /\ DOMAIN FirstDay \subseteq Nat
  /\ \A m \in DOMAIN FirstDay : FirstDay[m] \in Int
  /\ \A m, n \in DOMAIN FirstDay : m < n => FirstDay[m] < FirstDay[n]

\* The calendar covers every day a date can be shown as.
ASSUME CalendarAssumption ==
  /\ \A d \in Dates : \A k \in {-1, 0, 1} :
       \E m \in Months : FirstDay[m] <= d + k /\ d + k < FirstDay[m + 1]
  /\ \A c \in Clocks :
       \E m \in Months : FirstDay[m] <= c \div Hours /\ c \div Hours < FirstDay[m + 1]

Previews == [date : Dates, until : Nat, fresh : BOOLEAN, creates : BOOLEAN]

ASSUME NoneAssumption == NoPreview \notin Previews

VARIABLES
  zone,     \* hours ahead of UTC
  clock,    \* the current hour
  rows,     \* the entries and payments of an asset, by id, see Row
  form,     \* an edit form open in a browser: [id, date]
  preview   \* an import waiting for its commit, see Preview

vars == <<zone, clock, rows, form, preview>>

\* A row and, for the record, the date picked for it last.
Row(kind, at, date) == [kind |-> kind, at |-> at, picked |-> date]

Put(rs, i, row) == [j \in DOMAIN rs \cup {i} |-> IF j = i THEN row ELSE rs[j]]

Init ==
  /\ zone \in Offsets
  /\ clock \in Clocks
  /\ rows = [i \in {} |-> {}]
  /\ form = NoForm
  /\ preview = NoPreview

-----------------------------------------------------------------------------
(* Conversions.                                                            *)

\* The date of an instant in the app's zone, and in UTC.
LocalDay(t) == (t + zone) \div Hours
UtcDay(t) == t \div Hours
Today == LocalDay(clock)

MonthOfDay(d) == CHOOSE m \in Months : FirstDay[m] <= d /\ d < FirstDay[m + 1]
MonthOf(t) == MonthOfDay(LocalDay(t))

\* Mutant: the month begins at midnight UTC.
StartInUtc(m) == FirstDay[m] * Hours
\* The instant at which a month begins in the app's zone.
Start(m) == FirstDay[m] * Hours - zone

\* Mutant: tomorrow may be picked.
TomorrowToo(date) == date <= Today + 1
NotFuture(date) == date <= Today

\* Mutant: the date is taken for the instant at which it begins in the zone.
StampInZone(date) == date * Hours - zone + (clock % Hours)
\* The picked date with the time of day of the clock, both in UTC.
Stamp(date) == date * Hours + (clock % Hours)

\* The rows of a kind in a range of months: the filter of the lists, and with
\* one month FindByAssetMonth.
Listed(kind, from, to) ==
  {i \in DOMAIN rows : /\ rows[i].kind = kind
                       /\ Start(from) <= rows[i].at /\ rows[i].at < Start(to + 1)}

\* The current month of the statistics, and the rows that lie after it, which
\* the series leave out and the quality report flags.
NowMonth == MonthOfDay(UtcDay(clock))
FutureRows == {i \in DOMAIN rows : MonthOf(rows[i].at) > NowMonth}

-----------------------------------------------------------------------------
(* The API.                                                                *)

\* A preview made before the rows changed.
Outdated == IF preview = NoPreview THEN NoPreview ELSE [preview EXCEPT !.fresh = FALSE]

\* rs with a payment of this date, if the request has one.
WithPayment(rs, date, pays) ==
  IF pays THEN {Put(rs, i, Row("payment", Stamp(date), date)) : i \in Ids \ DOMAIN rs} ELSE {rs}

\* The rows once POST /api/v1/logs has dealt with its entry: a new one, the one
\* of its month replaced, or what there was.
WithEntry(date, replace) ==
  LET at    == Stamp(date)
      found == Listed("log", MonthOf(at), MonthOf(at))
      last  == {i \in found : \A j \in found : rows[j].at <= rows[i].at}
  IN  IF found = {} THEN {Put(rows, i, Row("log", at, date)) : i \in Ids \ DOMAIN rows}
      ELSE IF replace THEN {Put(rows, i, Row("log", at, date)) : i \in last}
      ELSE {rows}

PostLogs(date, replace, pays) ==
  /\ NotFuture(date)
  /\ \E rs \in WithEntry(date, replace) : rows' \in WithPayment(rs, date, pays)

PostPayment(date) == NotFuture(date) /\ rows' \in WithPayment(rows, date, TRUE)

\* PATCH with a date; another entry in the month of the new instant is a
\* conflict.
Patch(i, date) ==
  /\ i \in DOMAIN rows /\ NotFuture(date)
  /\ rows[i].kind = "log" => Listed("log", MonthOf(Stamp(date)), MonthOf(Stamp(date))) \subseteq {i}
  /\ rows' = Put(rows, i, Row(rows[i].kind, Stamp(date), date))

CallsPostLogs ==
  /\ \E d \in Dates : \E replace, pays \in BOOLEAN : PostLogs(d, replace, pays)
  /\ preview' = Outdated
  /\ UNCHANGED <<zone, clock, form>>

\* A date given as an instant is taken for the date it has in the zone.
CallsPostInstant ==
  /\ \E t \in Clocks : LocalDay(t) \in Dates /\ PostLogs(LocalDay(t), FALSE, FALSE)
  /\ preview' = Outdated
  /\ UNCHANGED <<zone, clock, form>>

CallsPatch ==
  /\ \E i \in Ids, d \in Dates : Patch(i, d)
  /\ preview' = Outdated
  /\ UNCHANGED <<zone, clock, form>>

CallsDelete ==
  /\ \E i \in DOMAIN rows : rows' = [j \in DOMAIN rows \ {i} |-> rows[j]]
  /\ preview' = Outdated
  /\ UNCHANGED <<zone, clock, form>>

-----------------------------------------------------------------------------
(* The pages, which check a date themselves before they call the API.      *)

\* Recording a payment from the ledger page.
QuickPayment ==
  /\ \E d \in Dates : NotFuture(d) /\ PostPayment(d)
  /\ preview' = Outdated
  /\ UNCHANGED <<zone, clock, form>>

\* The ledger page shows each row with its date in the zone, in a form.
OpenForm ==
  /\ form = NoForm
  /\ \E i \in DOMAIN rows : form' = [id |-> i, date |-> LocalDay(rows[i].at)]
  /\ UNCHANGED <<zone, clock, rows, preview>>

\* The form is saved as it was shown, maybe days later.  The calendar bounds how
\* far a row wanders that is saved again and again.
SaveForm ==
  /\ form # NoForm /\ form.date \in Dates
  /\ NotFuture(form.date)
  /\ Patch(form.id, form.date)
  /\ form' = NoForm
  /\ preview' = Outdated
  /\ UNCHANGED <<zone, clock>>

LeaveForm == form # NoForm /\ form' = NoForm /\ UNCHANGED <<zone, clock, rows, preview>>

\* Mutant: the entries of the current month are looked up.
MonthPreviewedNow(date) == MonthOfDay(Today)
\* The importer looks up the entries of the month of the picked date.
MonthPreviewed(date) == MonthOfDay(date)

\* A preview says of a line whether it is a new entry; its token lasts fifteen
\* minutes, here until the next hour has passed.
Preview(date) ==
  /\ NotFuture(date)
  /\ preview' = [date |-> date, until |-> clock + 1, fresh |-> TRUE,
                 creates |-> Listed("log", MonthPreviewed(date), MonthPreviewed(date)) = {}]
  /\ UNCHANGED <<zone, clock, rows, form>>

Commit ==
  /\ preview # NoPreview
  /\ clock <= preview.until
  /\ PostLogs(preview.date, TRUE, FALSE)
  /\ preview' = NoPreview
  /\ UNCHANGED <<zone, clock, form>>

Tick ==
  /\ \E t \in Clocks : t > clock /\ clock' = t
  /\ preview' = IF preview # NoPreview /\ clock' > preview.until THEN NoPreview ELSE preview
  /\ UNCHANGED <<zone, rows, form>>

Next ==
  \/ CallsPostLogs \/ CallsPostInstant \/ CallsPatch \/ CallsDelete
  \/ QuickPayment \/ OpenForm \/ SaveForm \/ LeaveForm
  \/ \E d \in Dates : Preview(d)
  \/ Commit
  \/ Tick

Spec == Init /\ [][Next]_vars

-----------------------------------------------------------------------------
(* Properties.                                                             *)

\* The variables have their types, and no stored instant, which dates sent by
\* another clock or saved from an old form may have given, is more than a day
\* ahead of the clock.
TypeOK ==
  /\ zone \in Offsets
  /\ clock \in Clocks
  /\ DOMAIN rows \subseteq Ids
  /\ \A i \in DOMAIN rows : /\ rows[i].kind \in {"log", "payment"}
                            /\ rows[i].at \in Int /\ rows[i].at < clock + Hours + 1
                            /\ rows[i].picked \in Int

\* How far from the picked date a row may be shown, in days.
Drift == IF zone > 0 THEN {0, 1} ELSE IF zone < 0 THEN {-1, 0} ELSE {0}

\* A row keeps the picked date in UTC and is shown under it when the zone is
\* UTC, under it or the next date east of it, under it or the date before west
\* of it; and only east of UTC are there rows ahead of the clock, or in a month
\* that the statistics take for a future one (api.go stampNow, service.go:95).
DatesStayClose ==
  /\ \A i \in DOMAIN rows : /\ UtcDay(rows[i].at) = rows[i].picked
                            /\ LocalDay(rows[i].at) - rows[i].picked \in Drift
                            /\ zone <= 0 => rows[i].at <= clock
  /\ zone <= 0 => FutureRows = {}

\* The lists, the check for duplicates, the statistics and the pages agree on
\* the month of every row, whatever the zone: the rows between the first
\* instants of two months are those shown under the months between, so that no
\* two entries of the asset are shown in one month.
MonthsAgree ==
  /\ \A kind \in {"log", "payment"} : \A from, to \in Months :
       Listed(kind, from, to) =
         {i \in DOMAIN rows : rows[i].kind = kind /\ MonthOf(rows[i].at) \in from .. to}
  /\ \A i, j \in DOMAIN rows :
       /\ rows[i].kind = "log" /\ rows[j].kind = "log"
       /\ MonthOf(rows[i].at) = MonthOf(rows[j].at)
       => i = j

\* An import does what its preview said when nothing has changed in between and
\* the zone is UTC; in another zone the entry it replaces may be the one of the
\* month of the next or the previous day, never of another.
ImportKeepsItsWord ==
  [][preview # NoPreview /\ preview' = NoPreview /\ clock' = clock =>
       /\ preview.fresh /\ zone = 0 => (preview.creates <=> DOMAIN rows' # DOMAIN rows)
       /\ \A i \in DOMAIN rows :
            rows'[i] # rows[i] =>
              \E k \in Drift : MonthOf(rows[i].at) = MonthOfDay(preview.date + k)]_vars

\* "the calendar date stays exactly the picked date" (api.go:91).
DateStaysPicked == \A i \in DOMAIN rows : LocalDay(rows[i].at) = rows[i].picked
=============================================================================
