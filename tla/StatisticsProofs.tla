-------------------------- MODULE StatisticsProofs --------------------------
(***************************************************************************)
(* Proofs about Statistics, for any assets, months, entries, payments,     *)
(* requests and bounds.                                                    *)
(***************************************************************************)
EXTENDS SumsProofs

-----------------------------------------------------------------------------
(* The constants.                                                          *)

LEMMA MonthsAre ==
  /\ Months \in SUBSET Nat /\ IsFiniteSet(Months) /\ Now \in Months /\ NoMonth \notin Months
  /\ \A k, m \in Months : \A n \in Int : k <= n /\ n <= m => n \in Months
<1>1. PICK first \in Months, last \in Months : Months = first .. last
  BY ConstantsAssumption
<1>2. Months \in SUBSET Nat /\ Now \in Months /\ NoMonth \notin Months
  BY ConstantsAssumption
<1>3. IsFiniteSet(first .. last)
  BY <1>2, FS_Interval
<1>4. IsFiniteSet(Months)
  BY <1>1, <1>3, Zenon
<1>5. ASSUME NEW k \in Months, NEW m \in Months, NEW n \in Int, k <= n, n <= m PROVE n \in Months
  <2>1. first <= k /\ m <= last /\ first \in Nat /\ last \in Nat /\ k \in Nat /\ m \in Nat
    BY <1>1, <1>2
  <2>2. n \in first .. last
    BY <1>5, <2>1
  <2> QED
    BY <1>1, <2>2, Zenon
<1> QED
  BY <1>2, <1>4, <1>5

Request == [asset : Assets \cup {NoScope}, class : Classes \cup {NoScope},
            from : Months \cup {NoMonth}, to : Months \cup {NoMonth}, mode : Modes]

LEMMA RequestIs == Requests \cup {Whole} \in SUBSET Request
  BY ConstantsAssumption DEF Request, Whole, Modes

-----------------------------------------------------------------------------
(* The rows.                                                               *)

\* What a request may have read.
IsRead(read) ==
  /\ IsLog(read.log)
  /\ read.paid \in [Assets \X Months -> Int]
  /\ read.req \in Request

\* The last entry of a month that has one.
LEMMA LastEntryIs ==
  ASSUME NEW read, IsRead(read), NEW a \in Assets, NEW m \in EntryMonths(read, a)
  PROVE  \E d \in Days : /\ <<a, m, d>> \in DOMAIN read.log
                         /\ LastEntryIn(read, a, m) = read.log[<<a, m, d>>]
                         /\ \A p \in DOMAIN read.log : p[1] = a /\ p[2] = m => p[3] <= d
<1> DEFINE places == {q \in DOMAIN read.log : q[1] = a /\ q[2] = m}
           day  == [q \in places |-> q[3]]
           days == {p[3] : p \in places}
<1>1. /\ DOMAIN read.log \in SUBSET (Assets \X Months \X Days)
      /\ IsFiniteSet(DOMAIN read.log)
  BY DEF IsRead, IsLog
<1>2. \A p \in DOMAIN read.log : p = <<p[1], p[2], p[3]>> /\ p[3] \in Days
  BY <1>1
<1>3. PICK p \in DOMAIN read.log : p[1] = a /\ p[2] = m
  BY DEF EntryMonths
<1>4. IsFiniteSet(places)
  BY <1>1, FS_Subset
<1>5. IsFiniteSet(days)
  <2>1. days = {day[q] : q \in places}
    OBVIOUS
  <2> HIDE DEF places, day, days
  <2> QED
    BY <1>4, <2>1, ImageIs
<1>6. days # {} /\ days \in SUBSET Int
  BY <1>2, <1>3 DEF Days
<1> DEFINE d == Max(days)
<1>7. d \in days /\ \A e \in days : e <= d
  <2> HIDE DEF days
  <2> QED
    BY <1>5, <1>6, MaxIs
<1>8. LastEntryIn(read, a, m) = read.log[<<a, m, d>>]
  BY DEF LastEntryIn
<1> HIDE DEF d
<1>9. <<a, m, d>> \in DOMAIN read.log /\ d \in Days
  BY <1>2, <1>7
<1>10. \A q \in DOMAIN read.log : q[1] = a /\ q[2] = m => q[3] <= d
  BY <1>7
<1> QED
  BY <1>8, <1>9, <1>10

\* The row of an asset in a month.
RowAt(read, a, m) ==
  IF m \in EntryMonths(read, a)
  THEN Row(a, m, LastEntryIn(read, a, m), read.paid[<<a, m>>], EntriesIn(read, a, m))
  ELSE Row(a, m, CarriedEntry(read, a, m), read.paid[<<a, m>>], 0)

\* The months in which it has one.
MonthsRead(read, a) ==
  {m \in Months : MatchesScope(a, read.req) /\ m \in EntryMonths(read, a) \cup PaidOnlyMonths(read, a)}

LEMMA RowsAre ==
  ASSUME NEW read
  PROVE  /\ \A a \in Assets : \A m \in MonthsRead(read, a) :
              /\ RowAt(read, a, m) \in SeriesRows(read)
              /\ RowAt(read, a, m).asset = a /\ RowAt(read, a, m).month = m
         /\ \A r \in SeriesRows(read) : /\ r.asset \in Assets /\ r.month \in MonthsRead(read, r.asset)
                                        /\ r = RowAt(read, r.asset, r.month)
<1>1. ASSUME NEW a \in Assets, NEW m \in MonthsRead(read, a)
      PROVE  /\ RowAt(read, a, m) \in SeriesRows(read)
             /\ RowAt(read, a, m).asset = a /\ RowAt(read, a, m).month = m
  <2>1. RowAt(read, a, m).asset = a /\ RowAt(read, a, m).month = m
    BY DEF RowAt, Row
  <2>2. MatchesScope(a, read.req) /\ (m \in EntryMonths(read, a) \/ m \in PaidOnlyMonths(read, a))
    BY DEF MonthsRead
  <2> DEFINE own(b) ==
               {Row(b, k, LastEntryIn(read, b, k), read.paid[<<b, k>>], EntriesIn(read, b, k)) :
                  k \in EntryMonths(read, b)} \cup
               {Row(b, k, CarriedEntry(read, b, k), read.paid[<<b, k>>], 0) :
                  k \in PaidOnlyMonths(read, b)}
  <2>3. RowAt(read, a, m) \in own(a)
    <3>1. CASE m \in EntryMonths(read, a)
      BY <3>1 DEF RowAt
    <3>2. CASE m \notin EntryMonths(read, a)
      BY <2>2, <3>2 DEF RowAt
    <3> QED
      BY <3>1, <3>2
  <2>4. SeriesRows(read) = UNION {own(b) : b \in {c \in Assets : MatchesScope(c, read.req)}}
    BY DEF SeriesRows
  <2> HIDE DEF own
  <2>5. RowAt(read, a, m) \in SeriesRows(read)
    BY <2>2, <2>3, <2>4
  <2> QED
    BY <2>1, <2>5
<1>2. ASSUME NEW r \in SeriesRows(read)
      PROVE  /\ r.asset \in Assets /\ r.month \in MonthsRead(read, r.asset)
             /\ r = RowAt(read, r.asset, r.month)
  <2>1. PICK a \in Assets : /\ MatchesScope(a, read.req)
                            /\ \/ \E m \in EntryMonths(read, a) :
                                    r = Row(a, m, LastEntryIn(read, a, m), read.paid[<<a, m>>], EntriesIn(read, a, m))
                               \/ \E m \in PaidOnlyMonths(read, a) :
                                    r = Row(a, m, CarriedEntry(read, a, m), read.paid[<<a, m>>], 0)
    BY DEF SeriesRows
  <2>2. CASE \E m \in EntryMonths(read, a) :
               r = Row(a, m, LastEntryIn(read, a, m), read.paid[<<a, m>>], EntriesIn(read, a, m))
    <3>1. PICK m \in EntryMonths(read, a) :
               r = Row(a, m, LastEntryIn(read, a, m), read.paid[<<a, m>>], EntriesIn(read, a, m))
      BY <2>2
    <3>2. r.asset = a /\ r.month = m
      BY <3>1 DEF Row
    <3>3. m \in Months
      BY DEF EntryMonths
    <3> QED
      BY <2>1, <3>1, <3>2, <3>3 DEF MonthsRead, RowAt
  <2>3. CASE \E m \in PaidOnlyMonths(read, a) :
               r = Row(a, m, CarriedEntry(read, a, m), read.paid[<<a, m>>], 0)
    <3>1. PICK m \in PaidOnlyMonths(read, a) :
               r = Row(a, m, CarriedEntry(read, a, m), read.paid[<<a, m>>], 0)
      BY <2>3
    <3>2. r.asset = a /\ r.month = m
      BY <3>1 DEF Row
    <3>3. m \in Months /\ m \notin EntryMonths(read, a)
      BY DEF PaidOnlyMonths
    <3> QED
      BY <2>1, <3>1, <3>2, <3>3 DEF MonthsRead, RowAt
  <2> QED
    BY <2>1, <2>2, <2>3
<1> QED
  BY <1>1, <1>2

LEMMA RowsAmong ==
  ASSUME NEW r, NEW read,
         \A a \in Assets : \A m \in MonthsRead(r, a) : /\ m \in MonthsRead(read, a)
                                                       /\ RowAt(r, a, m) = RowAt(read, a, m)
  PROVE  SeriesRows(r) \in SUBSET SeriesRows(read)
<1> SUFFICES ASSUME NEW x \in SeriesRows(r) PROVE x \in SeriesRows(read)
  OBVIOUS
<1>1. x.asset \in Assets /\ x.month \in MonthsRead(r, x.asset) /\ x = RowAt(r, x.asset, x.month)
  BY RowsAre
<1>2. x.month \in MonthsRead(read, x.asset) /\ x = RowAt(read, x.asset, x.month)
  BY <1>1
<1>3. RowAt(read, x.asset, x.month) \in SeriesRows(read)
  BY <1>1, <1>2, RowsAre
<1> QED
  BY <1>2, <1>3

RowType == [asset : Assets, month : Months, deposit : Int, value : Int, paid : Int, entries : Nat]

\* The month whose entry is carried to one with a payment only.
LEMMA CarriedFromIs ==
  ASSUME NEW read, NEW a \in Assets, NEW m \in Months, \E k \in EntryMonths(read, a) : k <= m
  PROVE  LET k == CarriedFrom(EntryMonths(read, a), m)
         IN  /\ k \in EntryMonths(read, a) /\ k <= m
             /\ \A j \in EntryMonths(read, a) : j <= m => j <= k
<1> DEFINE S == {k \in EntryMonths(read, a) : k <= m}
<1>1. S \in SUBSET Months
  BY DEF EntryMonths
<1>2. S # {} /\ S \in SUBSET Int /\ IsFiniteSet(S)
  <2>1. S # {}
    OBVIOUS
  <2> HIDE DEF S
  <2>2. IsFiniteSet(S)
    BY <1>1, MonthsAre, FS_Subset
  <2> QED
    BY <1>1, <2>1, <2>2, MonthsAre
<1>3. Max(S) \in S /\ \A j \in S : j <= Max(S)
  <2> HIDE DEF S
  <2> QED
    BY <1>2, MaxIs
<1> QED
  BY <1>3 DEF CarriedFrom

LEMMA RowsTyped ==
  ASSUME NEW read, IsRead(read)
  PROVE  SeriesRows(read) \in SUBSET RowType
<1> SUFFICES ASSUME NEW r \in SeriesRows(read) PROVE r \in RowType
  OBVIOUS
<1>1. /\ r.asset \in Assets /\ r.month \in MonthsRead(read, r.asset)
      /\ r = RowAt(read, r.asset, r.month)
  BY RowsAre
<1> DEFINE a == r.asset
           m == r.month
<1>2. a \in Assets /\ m \in Months
  BY <1>1 DEF MonthsRead
<1>3. read.paid[<<a, m>>] \in Int
  BY <1>2 DEF IsRead
<1>4. ASSUME NEW k \in EntryMonths(read, a) PROVE LastEntryIn(read, a, k) \in Entry
  <2>1. \E d \in Days : <<a, k, d>> \in DOMAIN read.log /\ LastEntryIn(read, a, k) = read.log[<<a, k, d>>]
    BY <1>2, LastEntryIs
  <2> QED
    BY <2>1 DEF IsRead, IsLog
<1>5. EntriesIn(read, a, m) \in Nat
  <2> DEFINE places == {p \in DOMAIN read.log : p[1] = a /\ p[2] = m}
  <2>1. IsFiniteSet(places)
    BY FS_Subset DEF IsRead, IsLog
  <2> HIDE DEF places
  <2>2. Cardinality(places) \in Nat
    BY <2>1, FS_CardinalityType
  <2> QED
    BY <2>2 DEF places, EntriesIn
<1>6. m \notin EntryMonths(read, a) => CarriedEntry(read, a, m) \in Entry
  <2> SUFFICES ASSUME m \notin EntryMonths(read, a) PROVE CarriedEntry(read, a, m) \in Entry
    OBVIOUS
  <2>1. \E k \in EntryMonths(read, a) : k <= m
    BY <1>1 DEF MonthsRead, PaidOnlyMonths
  <2>2. CarriedFrom(EntryMonths(read, a), m) \in EntryMonths(read, a)
    BY <1>2, <2>1, CarriedFromIs
  <2>3. LastEntryIn(read, a, CarriedFrom(EntryMonths(read, a), m)) \in Entry
    BY <1>4, <2>2
  <2>4. [deposit |-> 0, value |-> 0] \in Entry
    BY DEF Entry
  <2> QED
    BY <2>3, <2>4 DEF CarriedEntry
<1>7. ASSUME NEW e \in Entry, NEW n \in Nat PROVE Row(a, m, e, read.paid[<<a, m>>], n) \in RowType
  <2>1. e.deposit \in Int /\ e.value \in Int
    BY DEF Entry
  <2> HIDE DEF a, m
  <2> QED
    BY <1>2, <1>3, <2>1 DEF Row, RowType
<1>8. RowAt(read, a, m) \in RowType
  <2> HIDE DEF a, m
  <2>1. CASE m \in EntryMonths(read, a)
    BY <1>4, <1>5, <1>7, <2>1 DEF RowAt
  <2>2. CASE m \notin EntryMonths(read, a)
    BY <1>6, <1>7, <2>2 DEF RowAt
  <2> QED
    BY <2>1, <2>2
<1> QED
  BY <1>1, <1>8

-----------------------------------------------------------------------------
\* A request with what it has read, as Reading makes it.
IsReader(r) ==
  r = [phase |-> r.phase, req |-> r.req, log |-> r.log, paid |-> r.paid, barred |-> r.barred,
       closed |-> r.closed, series |-> r.series]

(* The inductive invariant: the variables have their types, and what was   *)
(* computed is the series of what was read.                                *)

IInv ==
  /\ IsLog(log)
  /\ paid \in [Assets \X Months -> Int]
  /\ closed \in SUBSET Assets
  /\ writes \in 0 .. MaxWrites
  /\ reader.phase \in {"idle", "payments", "assets", "answered"}
  /\ IsReader(reader) /\ IsRead(reader) /\ reader.req \in Requests \cup {Whole}
  /\ reader.barred \in SUBSET Assets /\ reader.closed \in SUBSET Assets
  /\ Answered => reader.series = Asked(Input(reader), reader.req)
  /\ shown = SeriesOf(log, paid, closed)

LEMMA ReadingIs ==
  ASSUME NEW phase, NEW req, NEW l, NEW p, NEW barred, NEW shut
  PROVE  LET r == Reading(phase, req, l, p, barred, shut)
         IN  /\ r.phase = phase /\ r.req = req /\ r.log = l /\ r.paid = p
             /\ r.barred = barred /\ r.closed = shut /\ IsReader(r)
  BY DEF Reading, IsReader

LEMMA InitHolds == Init => IInv
<1> SUFFICES ASSUME Init PROVE IInv
  OBVIOUS
<1>1. IsLog(log)
  BY ConstantsAssumption DEF Init
<1>2. NoPayments \in [Assets \X Months -> Int]
  BY DEF NoPayments
<1>3. IsLog(NoEntries)
  BY FS_EmptySet DEF IsLog, NoEntries
<1>4. /\ reader.phase = "idle" /\ reader.req = Whole /\ reader.log = NoEntries
      /\ reader.paid = NoPayments /\ reader.barred = {} /\ reader.closed = {} /\ IsReader(reader)
  BY ReadingIs DEF Init, Idle
<1>5. Whole \in Request
  BY RequestIs
<1>6. IsRead(reader)
  BY <1>2, <1>3, <1>4, <1>5 DEF IsRead
<1>7. ~Answered
  BY <1>4 DEF Answered
<1>8. MaxWrites \in Nat
  BY ConstantsAssumption
<1> QED
  BY <1>1, <1>2, <1>4, <1>6, <1>7, <1>8 DEF Init, IInv

LEMMA WriteKeeps ==
  ASSUME IInv, NEW l, IsLog(l), NEW p \in [Assets \X Months -> Int], NEW c \in SUBSET Assets,
         Write(l, p, c)
  PROVE  IInv'
<1>1. MaxWrites \in Nat
  BY ConstantsAssumption
<1>2. /\ writes < MaxWrites /\ writes' = writes + 1
      /\ log' = l /\ paid' = p /\ closed' = c /\ shown' = SeriesOf(l, p, c) /\ reader' = reader
  BY DEF Write
<1>3. writes' \in 0 .. MaxWrites
  BY <1>1, <1>2 DEF IInv
<1>4. shown' = SeriesOf(log', paid', closed')
  BY <1>2
<1>5. Answered' => reader'.series = Asked(Input(reader'), reader'.req)
  BY <1>2 DEF IInv, Answered
<1>6. /\ reader'.phase \in {"idle", "payments", "assets", "answered"}
      /\ IsReader(reader') /\ IsRead(reader') /\ reader'.req \in Requests \cup {Whole}
      /\ reader'.barred \in SUBSET Assets /\ reader'.closed \in SUBSET Assets
  BY <1>2 DEF IInv
<1> QED
  BY <1>2, <1>3, <1>4, <1>5, <1>6 DEF IInv

LEMMA RecordedIs ==
  ASSUME NEW l, IsLog(l), NEW place \in Places, NEW entry \in Entries
  PROVE  IsLog([p \in DOMAIN l \cup {place} |-> IF p = place THEN entry ELSE l[p]])
<1>1. place \in Assets \X Months \X Days /\ entry \in Entry
  BY ConstantsAssumption
<1>2. IsFiniteSet(DOMAIN l \cup {place})
  BY FS_AddElement DEF IsLog
<1> QED
  BY <1>1, <1>2 DEF IsLog

LEMMA PaidIs ==
  ASSUME NEW p \in [Assets \X Months -> Int], NEW receipt \in Receipts
  PROVE  [p EXCEPT ![<<receipt[1], receipt[2]>>] = @ + receipt[3]] \in [Assets \X Months -> Int]
<1>1. receipt[1] \in Assets /\ receipt[2] \in Months /\ receipt[3] \in Int
  BY ConstantsAssumption
<1> QED
  BY <1>1

\* What a series starts from does not depend on the one computed before.
LEMMA InputOf ==
  ASSUME NEW read, NEW r, r.log = read.log, r.paid = read.paid, r.req = read.req,
         r.barred = read.barred, r.closed = read.closed
  PROVE  Input(r) = Input(read)
<1>1. \A a \in Assets : EntryMonths(r, a) = EntryMonths(read, a)
  BY DEF EntryMonths
<1>2. \A a, m : LastEntryIn(r, a, m) = LastEntryIn(read, a, m) /\ EntriesIn(r, a, m) = EntriesIn(read, a, m)
  BY DEF LastEntryIn, EntriesIn
<1>3. \A a \in Assets : PaidOnlyMonths(r, a) = PaidOnlyMonths(read, a)
  BY <1>1, Zenon DEF PaidOnlyMonths
<1>4. \A a \in Assets : \A m : CarriedEntry(r, a, m) = CarriedEntry(read, a, m)
  BY <1>1, <1>2, Zenon DEF CarriedEntry
<1>5. \A a \in Assets : MonthsRead(r, a) = MonthsRead(read, a)
  BY <1>1, <1>3, Zenon DEF MonthsRead
<1>6. \A a \in Assets : \A m : RowAt(r, a, m) = RowAt(read, a, m)
  BY <1>1, <1>2, <1>4, Zenon DEF RowAt
<1>7. SeriesRows(r) \in SUBSET SeriesRows(read)
  BY <1>5, <1>6, RowsAmong
<1>8. SeriesRows(read) \in SUBSET SeriesRows(r)
  BY <1>5, <1>6, RowsAmong
<1>9. SeriesRows(r) = SeriesRows(read)
  BY <1>7, <1>8
<1> QED
  BY <1>9, Zenon DEF Input

LEMMA StepHolds == IInv /\ [Next]_vars => IInv'
<1> SUFFICES ASSUME IInv, [Next]_vars PROVE IInv'
  OBVIOUS
<1>1. ASSUME NEW place \in Places, NEW entry \in Entries, Record(place, entry) PROVE IInv'
  <2> DEFINE l == [p \in DOMAIN log \cup {place} |-> IF p = place THEN entry ELSE log[p]]
  <2>1. IsLog(l)
    BY RecordedIs DEF IInv
  <2>2. Write(l, paid, closed)
    BY <1>1 DEF Record
  <2> HIDE DEF l
  <2> QED
    BY <2>1, <2>2, WriteKeeps DEF IInv
<1>2. ASSUME NEW receipt \in Receipts, Pay(receipt[1], receipt[2], receipt[3]) PROVE IInv'
  <2> DEFINE p == [paid EXCEPT ![<<receipt[1], receipt[2]>>] = @ + receipt[3]]
  <2>1. p \in [Assets \X Months -> Int]
    BY PaidIs DEF IInv
  <2>2. Write(log, p, closed)
    BY <1>2 DEF Pay
  <2> HIDE DEF p
  <2> QED
    BY <2>1, <2>2, WriteKeeps DEF IInv
<1>3. ASSUME NEW a \in Assets, SetClosed(a) PROVE IInv'
  <2> DEFINE c == IF a \in closed THEN closed \ {a} ELSE closed \cup {a}
  <2>1. c \in SUBSET Assets
    BY DEF IInv
  <2>2. Write(log, paid, c)
    BY <1>3 DEF SetClosed
  <2> HIDE DEF c
  <2> QED
    BY <2>1, <2>2, WriteKeeps DEF IInv
<1>4. ASSUME NEW req \in Requests, ReadEntries(req) PROVE IInv'
  <2>1. /\ reader' = Reading("payments", req, log, NoPayments, {}, {})
        /\ UNCHANGED <<log, paid, closed, writes, shown>>
    BY <1>4 DEF ReadEntries
  <2>2. /\ reader'.phase = "payments" /\ reader'.req = req /\ reader'.log = log
        /\ reader'.paid = NoPayments /\ reader'.barred = {} /\ reader'.closed = {}
        /\ IsReader(reader')
    BY <2>1, ReadingIs
  <2>3. IsRead(reader')
    BY <2>2, RequestIs DEF IInv, IsRead, NoPayments
  <2>4. ~Answered'
    BY <2>2 DEF Answered
  <2>5. shown' = SeriesOf(log', paid', closed')
    BY <2>1 DEF IInv
  <2> QED
    BY <2>1, <2>2, <2>3, <2>4, <2>5 DEF IInv
<1>5. ASSUME ReadPayments PROVE IInv'
  <2>1. /\ reader' = Reading("assets", reader.req, reader.log, paid, closed, {})
        /\ UNCHANGED <<log, paid, closed, writes, shown>>
    BY <1>5 DEF ReadPayments
  <2>2. /\ reader'.phase = "assets" /\ reader'.req = reader.req /\ reader'.log = reader.log
        /\ reader'.paid = paid /\ reader'.barred = closed /\ reader'.closed = {}
        /\ IsReader(reader')
    BY <2>1, ReadingIs
  <2>3. IsRead(reader')
    BY <2>2 DEF IInv, IsRead
  <2>4. ~Answered'
    BY <2>2 DEF Answered
  <2>5. shown' = SeriesOf(log', paid', closed')
    BY <2>1 DEF IInv
  <2> QED
    BY <2>1, <2>2, <2>3, <2>4, <2>5 DEF IInv
<1>6. ASSUME ListAssets PROVE IInv'
  <2> DEFINE read == Reading("answered", reader.req, reader.log, reader.paid, reader.barred, closed)
  <2>1. /\ reader' = [read EXCEPT !.series = Asked(Input(read), read.req)]
        /\ UNCHANGED <<log, paid, closed, writes, shown>>
    BY <1>6 DEF ListAssets
  <2>2. /\ read.phase = "answered" /\ read.req = reader.req /\ read.log = reader.log
        /\ read.paid = reader.paid /\ read.barred = reader.barred /\ read.closed = closed
    BY ReadingIs
  <2>3. /\ reader'.phase = read.phase /\ reader'.req = read.req /\ reader'.log = read.log
        /\ reader'.paid = read.paid /\ reader'.barred = read.barred /\ reader'.closed = read.closed
        /\ reader'.series = Asked(Input(read), read.req) /\ IsReader(reader')
    BY <2>1 DEF Reading, IsReader
  <2> HIDE DEF read
  <2>4. IsRead(reader')
    BY <2>2, <2>3 DEF IInv, IsRead
  <2>5. Input(reader') = Input(read)
    BY <2>3, InputOf
  <2>6. reader'.series = Asked(Input(reader'), reader'.req)
    BY <2>3, <2>5
  <2>7. shown' = SeriesOf(log', paid', closed')
    BY <2>1 DEF IInv
  <2> QED
    BY <2>1, <2>2, <2>3, <2>4, <2>6, <2>7 DEF IInv
<1>7. ASSUME UNCHANGED vars PROVE IInv'
  BY <1>7 DEF IInv, vars, Answered
<1> QED
  BY <1>1, <1>2, <1>3, <1>4, <1>5, <1>6, <1>7 DEF Next

\* The variables have their types, and an answer is the series of what its
\* queries read.  service.go bundle.
THEOREM Invariant == Spec => []IInv
<1> QED
  BY InitHolds, StepHolds, PTL DEF Spec

\* Every request gets at most one row per asset and month, within its bounds,
\* whatever is written between its queries.  logs.go SeriesRows.
THEOREM TypeCorrect == Spec => []TypeOK
<1>1. IInv => TypeOK
  <2> SUFFICES ASSUME IInv PROVE TypeOK
    OBVIOUS
  <2>1. ASSUME NEW r \in TheInput.rows
        PROVE  /\ MatchesScope(r.asset, reader.req) /\ InQuery(r.month, reader.req)
               /\ r = RowAt(reader, r.asset, r.month)
    <3>1. r \in SeriesRows(reader)
      BY DEF TheInput, Input
    <3>2. r.asset \in Assets /\ r.month \in MonthsRead(reader, r.asset) /\ r = RowAt(reader, r.asset, r.month)
      BY <3>1, RowsAre
    <3> QED
      BY <3>2 DEF MonthsRead, EntryMonths, PaidOnlyMonths
  <2>2. \A r, t \in TheInput.rows : r.asset = t.asset /\ r.month = t.month => r = t
    <3> SUFFICES ASSUME NEW r \in TheInput.rows, NEW t \in TheInput.rows,
                        r.asset = t.asset, r.month = t.month
                 PROVE  r = t
      OBVIOUS
    <3>1. r = RowAt(reader, r.asset, r.month) /\ t = RowAt(reader, t.asset, t.month)
      BY <2>1
    <3> QED
      BY <3>1
  <2> QED
    BY <2>1, <2>2 DEF IInv, TypeOK
<1> QED
  BY <1>1, Invariant, PTL

-----------------------------------------------------------------------------
(* What a series is made of.                                               *)

IsInput(in) ==
  /\ in.rows \in SUBSET RowType
  /\ \A r, t \in in.rows : r.asset = t.asset /\ r.month = t.month => r = t
  /\ in.from \in Months \cup {NoMonth} /\ in.to \in {Now, NoMonth}

LEMMA InputIs ==
  ASSUME NEW read, IsRead(read)
  PROVE  IsInput(Input(read))
<1> DEFINE in == Input(read)
<1>1. /\ in.rows = SeriesRows(read) /\ in.from = read.req.from
      /\ in.to = IF read.req.to = NoMonth THEN Now ELSE NoMonth
  BY DEF Input
<1> HIDE DEF in
<1>2. in.rows \in SUBSET RowType
  BY <1>1, RowsTyped
<1>3. \A r, t \in in.rows : r.asset = t.asset /\ r.month = t.month => r = t
  <2> SUFFICES ASSUME NEW r \in in.rows, NEW t \in in.rows, r.asset = t.asset, r.month = t.month
               PROVE  r = t
    OBVIOUS
  <2>1. r = RowAt(read, r.asset, r.month) /\ t = RowAt(read, t.asset, t.month)
    BY <1>1, RowsAre
  <2> QED
    BY <2>1
<1>4. in.from \in Months \cup {NoMonth}
  BY <1>1 DEF IsRead, Request
<1> QED
  BY <1>1, <1>2, <1>3, <1>4 DEF IsInput, in

LEMMA RowMonthsAre ==
  ASSUME NEW in, IsInput(in), NEW a
  PROVE  /\ RowMonths(in, a) \in SUBSET Months /\ IsFiniteSet(RowMonths(in, a))
         /\ RowMonths(in, a) \in SUBSET Nat
         /\ \A r \in RowsOf(in, a) : r \in in.rows /\ r.asset = a /\ r.month \in RowMonths(in, a)
         /\ \A k \in RowMonths(in, a) : \E r \in RowsOf(in, a) : r.month = k
         /\ in.to # NoMonth => in.to = Now /\ \A k \in RowMonths(in, a) : k <= Now
<1>1. \A r \in RowsOf(in, a) : r \in in.rows /\ r.asset = a /\ r.month \in RowMonths(in, a) /\ r.month \in Months
  BY DEF RowsOf, RowMonths, IsInput, RowType
<1>2. \A k \in RowMonths(in, a) : \E r \in RowsOf(in, a) : r.month = k
  BY DEF RowMonths
<1>3. RowMonths(in, a) \in SUBSET Months
  BY <1>1, <1>2
<1>4. IsFiniteSet(RowMonths(in, a)) /\ RowMonths(in, a) \in SUBSET Nat
  BY <1>3, MonthsAre, FS_Subset
<1>5. in.to # NoMonth => in.to = Now /\ \A k \in RowMonths(in, a) : k <= Now
  BY <1>2 DEF RowsOf, IsInput
<1> QED
  BY <1>1, <1>2, <1>3, <1>4, <1>5

\* When an asset is in a series.
LEMMA CoveredIs ==
  ASSUME NEW in, IsInput(in), NEW a
  PROVE  /\ Covered(in, a) \in SUBSET Months
         /\ \A m \in Months :
              m \in Covered(in, a) <=>
                /\ \E k \in RowMonths(in, a) : k <= m
                /\ \/ \E k \in RowMonths(in, a) : m <= k
                   \/ a \notin in.closed /\ in.to # NoMonth /\ m <= Now
<1> DEFINE months == RowMonths(in, a)
           last == Max(months)
<1>1. /\ months \in SUBSET Months /\ IsFiniteSet(months) /\ months \in SUBSET Nat /\ months \in SUBSET Int
      /\ in.to # NoMonth => in.to = Now /\ \A k \in months : k <= Now
  BY RowMonthsAre
<1>2. Now \in Months /\ Months \in SUBSET Nat
  BY MonthsAre
<1>3. Covered(in, a) = IF months = {} THEN {}
                       ELSE IF a \notin in.closed /\ in.to # NoMonth THEN Min(months) .. Max({last, in.to})
                       ELSE Min(months) .. last
  BY DEF Covered
<1> HIDE DEF months
<1>4. CASE months = {}
  <2>1. Covered(in, a) = {} /\ RowMonths(in, a) = {}
    BY <1>3, <1>4 DEF months
  <2> QED
    BY <2>1
<1>5. CASE months # {}
  <2>1. Min(months) \in months /\ \A k \in months : Min(months) <= k
    BY <1>1, <1>5, MinIs
  <2>2. last \in months /\ \A k \in months : k <= last
    BY <1>1, <1>5, MaxIs
  <2> DEFINE first == Min(months)
  <2> HIDE DEF last, first
  <2>3. first \in Months /\ first \in Nat /\ last \in Months /\ last \in Nat
    BY <1>1, <2>1, <2>2 DEF first
  <2>4. \A m \in Nat : (\E k \in months : k <= m) <=> first <= m
    BY <1>1, <2>1, <2>3 DEF first
  <2>5. \A m \in Nat : (\E k \in months : m <= k) <=> m <= last
    BY <1>1, <2>2, <2>3
  <2>6. CASE a \notin in.closed /\ in.to # NoMonth
    <3>1. in.to = Now /\ last <= Now
      BY <1>1, <2>2, <2>6
    <3>2. Now \in {last, in.to} /\ {last, in.to} \in SUBSET Int /\ \A k \in {last, in.to} : k <= Now
      BY <1>2, <2>3, <3>1
    <3>3. Max({last, in.to}) = Now
      <4> DEFINE both == {last, in.to}
      <4> HIDE DEF both
      <4>1. Max(both) = Now
        BY <3>2, MaxIsOnly DEF both
      <4> QED
        BY <4>1 DEF both
    <3>4. Covered(in, a) = first .. Now
      BY <1>3, <1>5, <2>6, <3>3 DEF first
    <3>5. Covered(in, a) \in SUBSET Months
      BY <1>2, <2>3, <3>4, MonthsAre
    <3>6. \A m \in Months : m \in Covered(in, a) <=> first <= m /\ m <= Now
      BY <1>2, <2>3, <3>4
    <3>7. \A m \in Months : m \in Nat
      BY <1>2
    <3> QED
      BY <2>4, <2>5, <2>6, <3>1, <3>5, <3>6, <3>7, <1>2, <2>3 DEF months
  <2>7. CASE ~(a \notin in.closed /\ in.to # NoMonth)
    <3>1. Covered(in, a) = first .. last
      BY <1>3, <1>5, <2>7 DEF first
    <3>2. Covered(in, a) \in SUBSET Months
      BY <1>2, <2>3, <3>1, MonthsAre
    <3>3. \A m \in Months : m \in Covered(in, a) <=> first <= m /\ m <= last
      BY <1>2, <2>3, <3>1
    <3>4. \A m \in Months : m \in Nat
      BY <1>2
    <3> QED
      BY <2>4, <2>5, <2>7, <3>2, <3>3, <3>4 DEF months
  <2> QED
    BY <2>6, <2>7
<1> QED
  BY <1>4, <1>5

\* Its row that counts in a month is the last one up to then.
LEMMA SnapIs ==
  ASSUME NEW in, IsInput(in), NEW a, NEW m \in Months, \E k \in RowMonths(in, a) : k <= m
  PROVE  /\ Snap(in, a, m) \in RowsOf(in, a) /\ Snap(in, a, m) \in in.rows
         /\ Snap(in, a, m).asset = a
         /\ Snap(in, a, m).month \in RowMonths(in, a) /\ Snap(in, a, m).month <= m
         /\ \A k \in RowMonths(in, a) : k <= m => k <= Snap(in, a, m).month
<1> DEFINE S == {k \in RowMonths(in, a) : k <= m}
           at == Max(S)
<1>1. S # {} /\ S \in SUBSET Int /\ IsFiniteSet(S)
  <2>1. S # {} /\ S \in SUBSET RowMonths(in, a)
    OBVIOUS
  <2> HIDE DEF S
  <2>2. IsFiniteSet(S)
    BY <2>1, RowMonthsAre, FS_Subset
  <2> QED
    BY <2>1, <2>2, RowMonthsAre
<1>2. at \in S /\ \A k \in S : k <= at
  <2> HIDE DEF S
  <2> QED
    BY <1>1, MaxIs
<1>3. Snap(in, a, m) = CHOOSE r \in RowsOf(in, a) : r.month = at
  BY DEF Snap
<1> HIDE DEF at
<1>4. \E r \in RowsOf(in, a) : r.month = at
  BY <1>2, RowMonthsAre
<1>5. Snap(in, a, m) \in RowsOf(in, a) /\ Snap(in, a, m).month = at
  <2> DEFINE x == CHOOSE r \in RowsOf(in, a) : r.month = at
  <2>1. x \in RowsOf(in, a) /\ x.month = at
    BY <1>4
  <2> HIDE DEF x
  <2> QED
    BY <1>3, <2>1 DEF x
<1>6. Snap(in, a, m) \in in.rows /\ Snap(in, a, m).asset = a
  BY <1>5, RowMonthsAre
<1> QED
  BY <1>2, <1>5, <1>6

LEMMA SnapIsOnly ==
  ASSUME NEW in, IsInput(in), NEW a, NEW m \in Months, NEW r \in RowsOf(in, a), r.month <= m,
         \A k \in RowMonths(in, a) : k <= m => k <= r.month
  PROVE  Snap(in, a, m) = r
<1>1. r \in in.rows /\ r.asset = a /\ r.month \in RowMonths(in, a) /\ RowMonths(in, a) \in SUBSET Nat
  BY RowMonthsAre
<1> DEFINE x == Snap(in, a, m)
<1>2. \E k \in RowMonths(in, a) : k <= m
  BY <1>1
<1>3. /\ x \in in.rows /\ x.asset = a /\ x.month \in RowMonths(in, a) /\ x.month <= m
      /\ r.month <= x.month
  BY <1>1, <1>2, SnapIs
<1> HIDE DEF x
<1>4. x.month = r.month
  BY <1>1, <1>3
<1>5. x = r
  BY <1>1, <1>3, <1>4 DEF IsInput
<1> QED
  BY <1>5 DEF x

LEMMA LiveIs ==
  ASSUME NEW in, IsInput(in), NEW S \in SUBSET Assets, NEW m
  PROVE  /\ Live(in, S, m) \in SUBSET S /\ IsFiniteSet(Live(in, S, m))
         /\ \A a \in Live(in, S, m) :
              /\ a \in S /\ m \in Covered(in, a) /\ m \in Months /\ Snap(in, a, m) \in RowType
              /\ Snap(in, a, m) \in RowsOf(in, a) /\ \E k \in RowMonths(in, a) : k <= m
<1>1. Live(in, S, m) \in SUBSET S
  BY DEF Live
<1>2. IsFiniteSet(Live(in, S, m))
  BY <1>1, FS_Subset, ConstantsAssumption
<1>3. ASSUME NEW a \in Live(in, S, m)
      PROVE  /\ a \in S /\ m \in Covered(in, a) /\ m \in Months /\ Snap(in, a, m) \in RowType
             /\ Snap(in, a, m) \in RowsOf(in, a) /\ \E k \in RowMonths(in, a) : k <= m
  <2>1. a \in S /\ m \in Covered(in, a)
    BY DEF Live
  <2>2. m \in Months /\ \E k \in RowMonths(in, a) : k <= m
    BY <2>1, CoveredIs
  <2>3. Snap(in, a, m) \in RowsOf(in, a) /\ Snap(in, a, m) \in in.rows
    BY <2>2, SnapIs
  <2> QED
    BY <2>1, <2>2, <2>3 DEF IsInput
<1> QED
  BY <1>1, <1>2, <1>3

LEMMA SumsTyped ==
  ASSUME NEW in, IsInput(in), NEW S \in SUBSET Assets, NEW m
  PROVE  Value(in, S, m) \in Int /\ Deposits(in, S, m) \in Int /\ Payments(in, S, m) \in Int
<1> DEFINE L == Live(in, S, m)
           P == {b \in L : m \in RowMonths(in, b)}
           v == [a \in L |-> Snap(in, a, m).value]
           d == [a \in L |-> Snap(in, a, m).deposit]
           p == [a \in P |-> Snap(in, a, m).paid]
<1>1. IsFiniteSet(L) /\ \A a \in L : Snap(in, a, m) \in RowType
  BY LiveIs
<1>2. IsFiniteSet(P)
  BY <1>1, FS_Subset
<1>3. v \in [L -> Int] /\ d \in [L -> Int] /\ p \in [P -> Int]
  BY <1>1 DEF RowType
<1> HIDE DEF v, d, p, L, P
<1>4. SumOf(v) \in Int /\ SumOf(d) \in Int /\ SumOf(p) \in Int
  BY <1>1, <1>2, <1>3, SumTyped
<1> QED
  BY <1>4 DEF v, d, p, L, P, Value, Deposits, Payments

LEMMA SeriesIs ==
  ASSUME NEW in, IsInput(in), NEW S \in SUBSET Assets
  PROVE  LET s == BuildSeries(in, S)
         IN  /\ Axis(s) \in SUBSET Months /\ IsFiniteSet(Axis(s)) /\ Axis(s) \in SUBSET Int
             /\ \A m : m \in Axis(s) <=> \E a \in S : m \in Covered(in, a)
             /\ s.visible = Visible(Axis(s), in.from)
             /\ s.point = [m \in Axis(s) |->
                             [V |-> Value(in, S, m), D |-> Deposits(in, S, m),
                              P |-> Payments(in, S, m), F |-> Flow(in, S, Axis(s), m)]]
<1> DEFINE s == BuildSeries(in, S)
           axis == UNION {Covered(in, a) : a \in S}
<1>1. axis \in SUBSET Months
  BY CoveredIs
<1>2. IsFiniteSet(axis) /\ axis \in SUBSET Int
  <2> HIDE DEF axis
  <2>1. IsFiniteSet(axis)
    BY <1>1, MonthsAre, FS_Subset
  <2> QED
    BY <1>1, <2>1, MonthsAre
<1>3. \A m : m \in axis <=> \E a \in S : m \in Covered(in, a)
  OBVIOUS
<1>4. s = [point |-> [m \in axis |-> [V |-> Value(in, S, m), D |-> Deposits(in, S, m),
                                      P |-> Payments(in, S, m), F |-> Flow(in, S, axis, m)]],
           visible |-> Visible(axis, in.from)]
  BY DEF BuildSeries
<1> HIDE DEF axis, s
<1>5. Axis(s) = axis
  BY <1>4 DEF Axis
<1>6. s.visible = Visible(axis, in.from)
  BY <1>4
<1>7. s.point = [m \in axis |-> [V |-> Value(in, S, m), D |-> Deposits(in, S, m),
                                 P |-> Payments(in, S, m), F |-> Flow(in, S, axis, m)]]
  BY <1>4
<1>8. /\ Axis(s) \in SUBSET Months /\ IsFiniteSet(Axis(s)) /\ Axis(s) \in SUBSET Int
      /\ \A m : m \in Axis(s) <=> \E a \in S : m \in Covered(in, a)
      /\ s.visible = Visible(Axis(s), in.from)
      /\ s.point = [m \in Axis(s) |->
                      [V |-> Value(in, S, m), D |-> Deposits(in, S, m),
                       P |-> Payments(in, S, m), F |-> Flow(in, S, Axis(s), m)]]
  BY <1>1, <1>2, <1>3, <1>5, <1>6, <1>7, Zenon
<1> QED
  BY <1>8 DEF s

LEMMA PointIs ==
  ASSUME NEW in, IsInput(in), NEW S \in SUBSET Assets, NEW m \in Axis(BuildSeries(in, S))
  PROVE  LET s == BuildSeries(in, S)
         IN  /\ s.point[m].V = Value(in, S, m) /\ s.point[m].V \in Int
             /\ s.point[m].D = Deposits(in, S, m) /\ s.point[m].D \in Int
             /\ s.point[m].P = Payments(in, S, m) /\ s.point[m].P \in Int
             /\ s.point[m].F = Flow(in, S, Axis(s), m)
<1> DEFINE s == BuildSeries(in, S)
           axis == Axis(s)
<1>1. s.point = [k \in axis |-> [V |-> Value(in, S, k), D |-> Deposits(in, S, k),
                                 P |-> Payments(in, S, k), F |-> Flow(in, S, axis, k)]]
  BY SeriesIs
<1>2. m \in axis
  OBVIOUS
<1> HIDE DEF s, axis
<1>3. s.point[m] = [V |-> Value(in, S, m), D |-> Deposits(in, S, m),
                    P |-> Payments(in, S, m), F |-> Flow(in, S, axis, m)]
  BY <1>1, <1>2
<1>4. /\ s.point[m].V = Value(in, S, m) /\ s.point[m].D = Deposits(in, S, m)
      /\ s.point[m].P = Payments(in, S, m) /\ s.point[m].F = Flow(in, S, axis, m)
  BY <1>3
<1>5. Value(in, S, m) \in Int /\ Deposits(in, S, m) \in Int /\ Payments(in, S, m) \in Int
  BY SumsTyped
<1> QED
  BY <1>4, <1>5 DEF s, axis

\* The flows of the months up to one add up to its deposits.
LEMMA FlowIs ==
  ASSUME NEW in, IsInput(in), NEW S \in SUBSET Assets, NEW m \in Axis(BuildSeries(in, S))
  PROVE  LET s == BuildSeries(in, S)
             before == {k \in Axis(s) : k < m}
         IN  /\ s.point[m].F \in Int
             /\ s.point[m].F = s.point[m].D - IF before = {} THEN 0 ELSE s.point[Max(before)].D
             /\ before # {} => /\ Max(before) \in before /\ \A k \in before : k <= Max(before)
<1> DEFINE s == BuildSeries(in, S)
           before == {k \in Axis(s) : k < m}
<1>1. IsFiniteSet(before) /\ before \in SUBSET Int /\ before \in SUBSET Axis(s)
  <2>1. before \in SUBSET Axis(s)
    OBVIOUS
  <2> HIDE DEF before
  <2> QED
    BY <2>1, SeriesIs, FS_Subset
<1>2. s.point[m].F = Flow(in, S, Axis(s), m) /\ s.point[m].D = Deposits(in, S, m) /\ s.point[m].D \in Int
  BY PointIs
<1>3. Flow(in, S, Axis(s), m) = Deposits(in, S, m) - IF before = {} THEN 0 ELSE Deposits(in, S, Max(before))
  BY DEF Flow
<1>4. CASE before = {}
  <2> HIDE DEF before, s
  <2>1. s.point[m].F = s.point[m].D - 0
    BY <1>2, <1>3, <1>4
  <2>2. s.point[m].F \in Int /\ s.point[m].F = s.point[m].D - IF before = {} THEN 0 ELSE s.point[Max(before)].D
    BY <1>2, <1>4, <2>1
  <2> QED
    BY <1>4, <2>2 DEF before, s
<1>5. CASE before # {}
  <2> DEFINE p == Max(before)
  <2>1. p \in before /\ \A k \in before : k <= p
    <3> HIDE DEF before
    <3> QED
      BY <1>1, <1>5, MaxIs
  <2>2. s.point[p].D = Deposits(in, S, p) /\ s.point[p].D \in Int
    <3>1. p \in Axis(BuildSeries(in, S))
      BY <1>1, <2>1
    <3> HIDE DEF p, before
    <3> QED
      BY <3>1, PointIs
  <2> HIDE DEF before, s
  <2>3. s.point[m].F = s.point[m].D - s.point[p].D
    BY <1>2, <1>3, <1>5, <2>2
  <2>4. s.point[m].F \in Int /\ s.point[m].F = s.point[m].D - IF before = {} THEN 0 ELSE s.point[Max(before)].D
    BY <1>2, <1>5, <2>2, <2>3
  <2> QED
    BY <2>1, <2>4 DEF before, s
<1> QED
  BY <1>4, <1>5

LEMMA FlowsAddUp ==
  ASSUME NEW in, IsInput(in), NEW S \in SUBSET Assets, NEW m \in Axis(BuildSeries(in, S))
  PROVE  LET s == BuildSeries(in, S)
         IN  s.point[m].D = SumOf([k \in {j \in Axis(s) : j <= m} |-> s.point[k].F])
<1> DEFINE s == BuildSeries(in, S)
           A == Axis(s)
           d == [k \in A |-> s.point[k].F]
           v == [k \in A |-> s.point[k].D]
           Upto == {k \in A : k <= m}
<1>1. A \in SUBSET Int /\ IsFiniteSet(A)
  BY SeriesIs
<1>2. v \in [A -> Int]
  BY PointIs
<1>3. d \in [A -> Int]
  BY FlowIs
<1>4. ASSUME NEW n \in A
      PROVE LET before == {k \in A : k < n} IN d[n] = v[n] - IF before = {} THEN 0 ELSE v[Max(before)]
  <2> DEFINE before == {k \in A : k < n}
  <2>1. /\ s.point[n].F = s.point[n].D - IF before = {} THEN 0 ELSE s.point[Max(before)].D
        /\ before # {} => Max(before) \in before
    BY FlowIs
  <2>2. before # {} => Max(before) \in A
    BY <2>1
  <2>3. v[n] = s.point[n].D /\ d[n] = s.point[n].F
    OBVIOUS
  <2>4. before # {} => v[Max(before)] = s.point[Max(before)].D
    BY <2>2
  <2> HIDE DEF v, d, s, before
  <2> QED
    BY <2>1, <2>3, <2>4 DEF before
<1>5. m \in A
  OBVIOUS
<1> HIDE DEF v, d, A
<1>6. SumOf(Restrict(d, {k \in A : k <= m})) = v[m]
  BY <1>1, <1>2, <1>3, <1>4, <1>5, SumTelescope
<1>7. v[m] = s.point[m].D
  BY <1>5 DEF v
<1>8. Restrict(d, Upto) = [k \in Upto |-> s.point[k].F]
  BY DEF Restrict, d
<1>9. s.point[m].D = SumOf([k \in Upto |-> s.point[k].F])
  <2> HIDE DEF s
  <2> QED
    BY <1>6, <1>7, <1>8
<1> QED
  BY <1>9 DEF A

-----------------------------------------------------------------------------
(* Two series that agree.                                                  *)

\* An asset's part in a month is the same.
Agree(x, y, a, k) ==
  /\ k \in Covered(x, a) <=> k \in Covered(y, a)
  /\ k \in Covered(x, a) => /\ Snap(x, a, k) = Snap(y, a, k)
                            /\ k \in RowMonths(x, a) <=> k \in RowMonths(y, a)

LEMMA SumsAgree ==
  ASSUME NEW x, NEW y, NEW S, NEW k, \A a \in S : Agree(x, y, a, k)
  PROVE  /\ Live(x, S, k) = Live(y, S, k)
         /\ Value(x, S, k) = Value(y, S, k)
         /\ Deposits(x, S, k) = Deposits(y, S, k)
         /\ Payments(x, S, k) = Payments(y, S, k)
<1> DEFINE L == Live(x, S, k)
           P == {b \in L : k \in RowMonths(x, b)}
<1>1. L = Live(y, S, k)
  BY DEF Live, Agree
<1>2. \A a \in L : Snap(x, a, k) = Snap(y, a, k) /\ (k \in RowMonths(x, a) <=> k \in RowMonths(y, a))
  BY DEF Live, Agree
<1>3. P = {b \in L : k \in RowMonths(y, b)}
  BY <1>2
<1> HIDE DEF L
<1>4. [a \in L |-> Snap(x, a, k).value] = [a \in L |-> Snap(y, a, k).value]
  BY <1>2
<1>5. [a \in L |-> Snap(x, a, k).deposit] = [a \in L |-> Snap(y, a, k).deposit]
  BY <1>2
<1>6. [a \in P |-> Snap(x, a, k).paid] = [a \in P |-> Snap(y, a, k).paid]
  BY <1>2
<1>7. Value(x, S, k) = Value(y, S, k)
  BY <1>1, <1>4, Zenon DEF L, Value
<1>8. Deposits(x, S, k) = Deposits(y, S, k)
  BY <1>1, <1>5, Zenon DEF L, Deposits
<1>9. Payments(x, S, k) = Payments(y, S, k)
  <2>1. Payments(x, S, k) = SumOf([a \in P |-> Snap(x, a, k).paid])
    BY Zenon DEF Payments, L
  <2>2. Payments(y, S, k) = SumOf([a \in P |-> Snap(y, a, k).paid])
    <3> HIDE DEF P
    <3> QED
      BY <1>1, <1>3, Zenon DEF Payments
  <2> HIDE DEF P
  <2> QED
    BY <1>6, <2>1, <2>2, Zenon
<1> QED
  BY <1>1, <1>7, <1>8, <1>9 DEF L

LEMMA PointsAgree ==
  ASSUME NEW x, IsInput(x), NEW y, IsInput(y), NEW S \in SUBSET Assets, NEW n \in Int,
         \A a \in S : \A k \in Months : k <= n => Agree(x, y, a, k),
         NEW m \in Axis(BuildSeries(x, S)), m <= n
  PROVE  /\ m \in Axis(BuildSeries(y, S))
         /\ BuildSeries(y, S).point[m] = BuildSeries(x, S).point[m]
<1> DEFINE s == BuildSeries(x, S)
           t == BuildSeries(y, S)
<1>1. Axis(s) \in SUBSET Months /\ Axis(t) \in SUBSET Months /\ Months \in SUBSET Nat
  BY SeriesIs, MonthsAre
<1>2. \A k \in Months : k <= n => (k \in Axis(s) <=> k \in Axis(t))
  <2> SUFFICES ASSUME NEW k \in Months, k <= n PROVE k \in Axis(s) <=> k \in Axis(t)
    OBVIOUS
  <2>1. \A a \in S : k \in Covered(x, a) <=> k \in Covered(y, a)
    BY DEF Agree
  <2>2. /\ k \in Axis(s) <=> \E a \in S : k \in Covered(x, a)
        /\ k \in Axis(t) <=> \E a \in S : k \in Covered(y, a)
    BY SeriesIs
  <2> QED
    BY <2>1, <2>2
<1>3. \A k \in Months : k <= n => /\ Value(x, S, k) = Value(y, S, k)
                                  /\ Deposits(x, S, k) = Deposits(y, S, k)
                                  /\ Payments(x, S, k) = Payments(y, S, k)
  BY SumsAgree
<1>4. m \in Months /\ m \in Axis(t)
  BY <1>1, <1>2
<1> DEFINE before == {k \in Axis(s) : k < m}
<1>5. before = {k \in Axis(t) : k < m}
  <2>1. \A k \in Months : k < m => k <= n
    BY <1>1, <1>4
  <2> QED
    BY <1>1, <1>2, <2>1
<1>6. before # {} => Deposits(x, S, Max(before)) = Deposits(y, S, Max(before))
  <2>1. before # {} => Max(before) \in before
    BY FlowIs
  <2>2. \A k \in before : k \in Months /\ k <= n
    BY <1>1, <1>4
  <2> HIDE DEF before
  <2> QED
    BY <1>3, <2>1, <2>2
<1>7. Flow(x, S, Axis(s), m) = Flow(y, S, Axis(t), m)
  <2>1. Flow(x, S, Axis(s), m) = Deposits(x, S, m) - IF before = {} THEN 0 ELSE Deposits(x, S, Max(before))
    BY DEF Flow
  <2> HIDE DEF before
  <2>2. Flow(y, S, Axis(t), m) = Deposits(y, S, m) - IF before = {} THEN 0 ELSE Deposits(y, S, Max(before))
    BY <1>5, Zenon DEF Flow
  <2>3. Deposits(x, S, m) = Deposits(y, S, m)
    BY <1>3, <1>4
  <2>4. CASE before = {}
    BY <2>1, <2>2, <2>3, <2>4, Zenon
  <2>5. CASE before # {}
    BY <1>6, <2>1, <2>2, <2>3, <2>5, Zenon
  <2> QED
    BY <2>4, <2>5
<1>8. s.point[m] = [V |-> Value(x, S, m), D |-> Deposits(x, S, m),
                    P |-> Payments(x, S, m), F |-> Flow(x, S, Axis(s), m)]
  <2>1. s.point = [k \in Axis(s) |-> [V |-> Value(x, S, k), D |-> Deposits(x, S, k),
                                      P |-> Payments(x, S, k), F |-> Flow(x, S, Axis(s), k)]]
    BY SeriesIs
  <2> HIDE DEF s
  <2> QED
    BY <2>1 DEF s
<1>9. t.point[m] = [V |-> Value(y, S, m), D |-> Deposits(y, S, m),
                    P |-> Payments(y, S, m), F |-> Flow(y, S, Axis(t), m)]
  <2>1. t.point = [k \in Axis(t) |-> [V |-> Value(y, S, k), D |-> Deposits(y, S, k),
                                      P |-> Payments(y, S, k), F |-> Flow(y, S, Axis(t), k)]]
    BY SeriesIs
  <2> HIDE DEF t
  <2> QED
    BY <1>4, <2>1
<1>10. t.point[m] = s.point[m]
  <2>1. Value(x, S, m) = Value(y, S, m) /\ Deposits(x, S, m) = Deposits(y, S, m) /\ Payments(x, S, m) = Payments(y, S, m)
    BY <1>3, <1>4
  <2> HIDE DEF s, t
  <2> QED
    BY <1>7, <1>8, <1>9, <2>1, Zenon
<1> QED
  BY <1>4, <1>10

\* Rows that agree up to a month, of an asset that is carried on to now.
LEMMA RowsAgreeUpTo ==
  ASSUME NEW x, IsInput(x), NEW y, IsInput(y), x.to = y.to, NEW a, NEW n \in Int,
         \A r \in RowType : r.month <= n => (r \in RowsOf(x, a) <=> r \in RowsOf(y, a)),
         \/ a \notin x.closed /\ a \notin y.closed /\ x.to # NoMonth
         \/ (a \in x.closed <=> a \in y.closed) /\ RowsOf(x, a) = RowsOf(y, a)
         \/ /\ x.to # NoMonth /\ RowsOf(x, a) = RowsOf(y, a)
            /\ \A k \in Months : k <= n /\ (\E j \in RowMonths(x, a) : j <= k) =>
                                   \E j \in RowMonths(x, a) : k <= j,
         NEW k \in Months, k <= n
  PROVE  Agree(x, y, a, k)
<1> DEFINE X == RowMonths(x, a)
           Y == RowMonths(y, a)
<1>1. /\ X \in SUBSET Months /\ Y \in SUBSET Months
      /\ \A r \in RowsOf(x, a) : r \in x.rows /\ r.asset = a /\ r.month \in X
      /\ \A r \in RowsOf(y, a) : r \in y.rows /\ r.asset = a /\ r.month \in Y
      /\ \A j \in X : \E r \in RowsOf(x, a) : r.month = j
      /\ \A j \in Y : \E r \in RowsOf(y, a) : r.month = j
      /\ x.to # NoMonth => x.to = Now /\ (\A j \in X : j <= Now) /\ (\A j \in Y : j <= Now)
  BY RowMonthsAre
<1>2. Months \in SUBSET Nat /\ Now \in Months
  BY MonthsAre
<1>3. x.rows \in SUBSET RowType /\ y.rows \in SUBSET RowType
  BY DEF IsInput
<1> HIDE DEF X, Y
<1>4. \A j \in Months : j <= n => (j \in X <=> j \in Y)
  BY <1>1, <1>3
<1>5. (\E j \in X : j <= k) <=> (\E j \in Y : j <= k)
  <2>1. \A j \in Months : j <= k => j <= n
    BY <1>2
  <2> QED
    BY <1>1, <1>4, <2>1
<1>6. RowsOf(x, a) = RowsOf(y, a) => X = Y
  BY Zenon DEF X, Y, RowMonths
<1>7. /\ k \in Covered(x, a) <=>
           /\ \E j \in X : j <= k
           /\ (\E j \in X : k <= j) \/ (a \notin x.closed /\ x.to # NoMonth /\ k <= Now)
      /\ k \in Covered(y, a) <=>
           /\ \E j \in Y : j <= k
           /\ (\E j \in Y : k <= j) \/ (a \notin y.closed /\ y.to # NoMonth /\ k <= Now)
  BY CoveredIs DEF X, Y
<1>8. k \in Covered(x, a) <=> k \in Covered(y, a)
  <2>1. CASE a \notin x.closed /\ a \notin y.closed /\ x.to # NoMonth
    <3>1. \A j \in X \cup Y : k <= j => k <= Now
      BY <1>1, <1>2, <2>1
    <3> QED
      BY <1>5, <1>7, <2>1, <3>1
  <2>2. CASE (a \in x.closed <=> a \in y.closed) /\ RowsOf(x, a) = RowsOf(y, a)
    BY <1>6, <1>7, <2>2
  <2>3. CASE /\ x.to # NoMonth /\ RowsOf(x, a) = RowsOf(y, a)
             /\ (\E j \in X : j <= k) => \E j \in X : k <= j
    BY <1>6, <1>7, <2>3
  <2> QED
    BY <2>1, <2>2, <2>3 DEF X
<1>9. ASSUME k \in Covered(x, a) PROVE Snap(x, a, k) = Snap(y, a, k)
  <2>1. \E j \in X : j <= k
    BY <1>7, <1>9
  <2> DEFINE r == Snap(x, a, k)
  <2>2. /\ r \in RowsOf(x, a) /\ r \in x.rows /\ r.month \in X /\ r.month <= k
        /\ \A j \in X : j <= k => j <= r.month
    BY <2>1, SnapIs DEF X
  <2> HIDE DEF r
  <2>3. r \in RowType /\ r.month <= n
    <3>1. r \in RowType
      BY <1>3, <2>2
    <3>2. r.month \in Nat /\ k \in Nat
      BY <1>1, <1>2, <2>2
    <3> QED
      BY <2>2, <3>1, <3>2
  <2>4. r \in RowsOf(y, a)
    BY <2>2, <2>3
  <2>5. \A j \in Y : j <= k => j <= r.month
    <3>1. \A j \in Months : j <= k => j <= n
      BY <1>2
    <3> QED
      BY <1>1, <1>4, <2>2, <3>1
  <2>6. Snap(y, a, k) = r
    BY <2>2, <2>4, <2>5, SnapIsOnly DEF Y
  <2> QED
    BY <2>6 DEF r
<1>10. k \in X <=> k \in Y
  BY <1>4
<1> QED
  BY <1>8, <1>9, <1>10 DEF Agree, X, Y

-----------------------------------------------------------------------------
(* The rows that two reads agree about.                                    *)

LEMMA RowsOfRead ==
  ASSUME NEW read, IsRead(read), NEW a \in Assets, NEW r
  PROVE  r \in RowsOf(Input(read), a) <=>
           /\ r.asset = a /\ r.month \in MonthsRead(read, a) /\ r = RowAt(read, a, r.month)
           /\ read.req.to = NoMonth => r.month <= Now
<1> DEFINE in == Input(read)
<1>1. /\ in.rows = SeriesRows(read)
      /\ in.to = IF read.req.to = NoMonth THEN Now ELSE NoMonth
  BY DEF Input
<1> HIDE DEF in
<1>2. r \in RowsOf(in, a) <=> r \in in.rows /\ r.asset = a /\ (in.to = NoMonth \/ r.month <= in.to)
  BY DEF RowsOf
<1>3. Now # NoMonth
  BY MonthsAre
<1>4. r \in in.rows /\ r.asset = a => r.month \in MonthsRead(read, a) /\ r = RowAt(read, a, r.month)
  BY <1>1, RowsAre
<1>5. r.month \in MonthsRead(read, a) /\ r = RowAt(read, a, r.month) => r \in in.rows
  BY <1>1, RowsAre
<1> QED
  BY <1>1, <1>2, <1>3, <1>4, <1>5 DEF in

LEMMA RowAtAgrees ==
  ASSUME NEW R, IsRead(R), NEW Q, IsRead(Q), NEW a \in Assets,
         MatchesScope(a, R.req) <=> MatchesScope(a, Q.req),
         a \in R.barred <=> a \in Q.barred, NEW n \in Int,
         \A k \in Months : k <= n => (InQuery(k, R.req) <=> InQuery(k, Q.req)),
         \A p \in Assets \X Months \X Days :
           p[1] = a /\ p[2] <= n => /\ p \in DOMAIN R.log <=> p \in DOMAIN Q.log
                                    /\ p \in DOMAIN R.log => R.log[p] = Q.log[p],
         \A k \in Months : k <= n => R.paid[<<a, k>>] = Q.paid[<<a, k>>],
         NEW m \in Months, m <= n
  PROVE  /\ m \in MonthsRead(R, a) <=> m \in MonthsRead(Q, a)
         /\ m \in MonthsRead(R, a) => RowAt(R, a, m) = RowAt(Q, a, m)
<1>1. DOMAIN R.log \in SUBSET (Assets \X Months \X Days) /\ DOMAIN Q.log \in SUBSET (Assets \X Months \X Days)
  BY DEF IsRead, IsLog
<1>2. ASSUME NEW k \in Months, k <= n
      PROVE  {q \in DOMAIN R.log : q[1] = a /\ q[2] = k} = {q \in DOMAIN Q.log : q[1] = a /\ q[2] = k}
  BY <1>1, <1>2
<1>3. ASSUME NEW k \in Months, k <= n
      PROVE  k \in EntryMonths(R, a) <=> k \in EntryMonths(Q, a)
  BY <1>2, <1>3 DEF EntryMonths
<1>4. ASSUME NEW k \in Months, k <= n, k \in EntryMonths(R, a)
      PROVE  LastEntryIn(R, a, k) = LastEntryIn(Q, a, k)
  <2>1. PICK d \in Days : /\ <<a, k, d>> \in DOMAIN R.log
                          /\ LastEntryIn(R, a, k) = R.log[<<a, k, d>>]
                          /\ \A p \in DOMAIN R.log : p[1] = a /\ p[2] = k => p[3] <= d
    BY <1>4, LastEntryIs
  <2>2. PICK e \in Days : /\ <<a, k, e>> \in DOMAIN Q.log
                          /\ LastEntryIn(Q, a, k) = Q.log[<<a, k, e>>]
                          /\ \A p \in DOMAIN Q.log : p[1] = a /\ p[2] = k => p[3] <= e
    BY <1>3, <1>4, LastEntryIs
  <2>3. <<a, k, d>> \in Assets \X Months \X Days /\ <<a, k, e>> \in Assets \X Months \X Days
    OBVIOUS
  <2>4. <<a, k, d>> \in DOMAIN Q.log /\ <<a, k, e>> \in DOMAIN R.log /\ R.log[<<a, k, d>>] = Q.log[<<a, k, d>>]
    BY <1>4, <2>1, <2>2, <2>3
  <2>5. d <= e /\ e <= d /\ d \in Nat /\ e \in Nat
    BY <2>1, <2>2, <2>4 DEF Days
  <2>6. d = e
    BY <2>5
  <2> QED
    BY <2>1, <2>2, <2>4, <2>6
<1>5. ASSUME NEW k \in Months, k <= n PROVE EntriesIn(R, a, k) = EntriesIn(Q, a, k)
  BY <1>2, <1>5, Zenon DEF EntriesIn
<1>6. Months \in SUBSET Nat
  BY MonthsAre
<1>7. \A k \in Months : k <= m => k <= n
  BY <1>6
<1>8. EntryMonths(R, a) \in SUBSET Months /\ EntryMonths(Q, a) \in SUBSET Months
  BY DEF EntryMonths
<1>9. \A k : k \in EntryMonths(R, a) /\ k <= m <=> k \in EntryMonths(Q, a) /\ k <= m
  BY <1>3, <1>7, <1>8
<1>10. R.paid[<<a, m>>] = Q.paid[<<a, m>>]
  OBVIOUS
<1>11. m \in EntryMonths(R, a) <=> m \in EntryMonths(Q, a)
  BY <1>3
<1>12. m \in PaidOnlyMonths(R, a) <=> m \in PaidOnlyMonths(Q, a)
  BY <1>9, <1>10, <1>11 DEF PaidOnlyMonths
<1>13. m \in MonthsRead(R, a) <=> m \in MonthsRead(Q, a)
  BY <1>11, <1>12 DEF MonthsRead
<1>14. ASSUME \E k \in EntryMonths(R, a) : k <= m
       PROVE  CarriedEntry(R, a, m) = CarriedEntry(Q, a, m)
  <2> DEFINE j == CarriedFrom(EntryMonths(R, a), m)
             k == CarriedFrom(EntryMonths(Q, a), m)
  <2>1. /\ j \in EntryMonths(R, a) /\ j <= m
        /\ \A i \in EntryMonths(R, a) : i <= m => i <= j
    BY <1>14, CarriedFromIs
  <2>2. \E i \in EntryMonths(Q, a) : i <= m
    BY <1>9, <1>14
  <2>3. /\ k \in EntryMonths(Q, a) /\ k <= m
        /\ \A i \in EntryMonths(Q, a) : i <= m => i <= k
    BY <2>2, CarriedFromIs
  <2> HIDE DEF j, k
  <2>4. j \in Nat /\ k \in Nat /\ j <= k /\ k <= j
    BY <1>6, <1>8, <1>9, <2>1, <2>3
  <2>5. j = k
    BY <2>4
  <2>6. LastEntryIn(R, a, j) = LastEntryIn(Q, a, j)
    BY <1>4, <1>7, <1>8, <2>1
  <2>7. CarriedEntry(R, a, m) = IF a \in R.barred THEN [deposit |-> 0, value |-> 0] ELSE LastEntryIn(R, a, j)
    BY DEF CarriedEntry, j
  <2>8. CarriedEntry(Q, a, m) = IF a \in Q.barred THEN [deposit |-> 0, value |-> 0] ELSE LastEntryIn(Q, a, k)
    BY DEF CarriedEntry, k
  <2>9. CASE a \in R.barred
    BY <2>7, <2>8, <2>9, Zenon
  <2>10. CASE a \notin R.barred
    BY <2>5, <2>6, <2>7, <2>8, <2>10, Zenon
  <2> QED
    BY <2>9, <2>10
<1>15. ASSUME m \in MonthsRead(R, a) PROVE RowAt(R, a, m) = RowAt(Q, a, m)
  <2>1. CASE m \in EntryMonths(R, a)
    <3>1. LastEntryIn(R, a, m) = LastEntryIn(Q, a, m) /\ EntriesIn(R, a, m) = EntriesIn(Q, a, m)
      BY <1>4, <1>5, <2>1
    <3> QED
      BY <1>10, <1>11, <2>1, <3>1, Zenon DEF RowAt
  <2>2. CASE m \notin EntryMonths(R, a)
    <3>1. m \in PaidOnlyMonths(R, a)
      BY <1>15, <2>2 DEF MonthsRead
    <3>2. \E k \in EntryMonths(R, a) : k <= m
      BY <3>1 DEF PaidOnlyMonths
    <3>3. CarriedEntry(R, a, m) = CarriedEntry(Q, a, m)
      BY <1>14, <3>2
    <3> QED
      BY <1>10, <1>11, <2>2, <3>3, Zenon DEF RowAt
  <2> QED
    BY <2>1, <2>2
<1> QED
  BY <1>13, <1>15

LEMMA RowAtSame ==
  ASSUME NEW R, IsRead(R), NEW Q, IsRead(Q), R.req = Q.req, NEW a \in Assets,
         a \in R.barred <=> a \in Q.barred, NEW n \in Int,
         \A p \in Assets \X Months \X Days :
           p[1] = a /\ p[2] <= n => /\ p \in DOMAIN R.log <=> p \in DOMAIN Q.log
                                    /\ p \in DOMAIN R.log => R.log[p] = Q.log[p],
         \A k \in Months : k <= n => R.paid[<<a, k>>] = Q.paid[<<a, k>>],
         NEW m \in Months, m <= n
  PROVE  /\ m \in MonthsRead(R, a) <=> m \in MonthsRead(Q, a)
         /\ m \in MonthsRead(R, a) => RowAt(R, a, m) = RowAt(Q, a, m)
<1>1. MatchesScope(a, R.req) <=> MatchesScope(a, Q.req)
  BY Zenon
<1>2. \A k \in Months : k <= n => (InQuery(k, R.req) <=> InQuery(k, Q.req))
  BY Zenon
<1> QED
  BY <1>1, <1>2, RowAtAgrees

-----------------------------------------------------------------------------
(* The series of everything, before and after a write.                     *)

AllOf(l, p, c) == Reading("answered", Whole, l, p, c, c)

\* Entries and payments there may be.
IsLedger(l, p) == IsLog(l) /\ p \in [Assets \X Months -> Int]

LEMMA WholeReadIs ==
  ASSUME NEW l, NEW p, NEW c, IsLedger(l, p), NEW R, R = AllOf(l, p, c)
  PROVE  /\ IsRead(R) /\ R.log = l /\ R.paid = p /\ R.barred = c /\ R.closed = c
         /\ R.req = Whole /\ R.req.to = NoMonth
<1>1. R.log = l /\ R.paid = p /\ R.barred = c /\ R.closed = c /\ R.req = Whole
  BY ReadingIs DEF AllOf
<1>2. Whole \in Request /\ Whole.to = NoMonth
  BY RequestIs DEF Whole
<1>3. IsRead(R)
  BY <1>1, <1>2 DEF IsRead, IsLedger
<1> QED
  BY <1>1, <1>2, <1>3

LEMMA WholeIs ==
  ASSUME NEW l, NEW p, NEW c, IsLedger(l, p), NEW x, x = Input(AllOf(l, p, c))
  PROVE  /\ IsInput(x) /\ x.to = Now /\ x.closed = c
         /\ SeriesOf(l, p, c) = BuildSeries(x, Assets)
<1> DEFINE R == AllOf(l, p, c)
<1>1. IsRead(R) /\ R.closed = c /\ R.req.to = NoMonth
  BY WholeReadIs
<1>2. x = Input(R)
  OBVIOUS
<1> HIDE DEF R
<1>3. IsInput(x)
  BY <1>1, <1>2, InputIs
<1>4. x.to = Now /\ x.closed = c
  BY <1>1, <1>2 DEF Input
<1>5. InScope(x, Whole, Whole.mode) = Assets
  BY DEF InScope, MatchesScope, Whole
<1>6. SeriesOf(l, p, c) = BuildSeries(x, Assets)
  BY <1>5, Zenon DEF SeriesOf, Asked, AllOf
<1> QED
  BY <1>3, <1>4, <1>6

\* The inputs of the series before and after a step.
LEMMA InputsAre ==
  ASSUME IInv, IInv', NEW x, x = Input(AllOf(log, paid, closed)),
         NEW y, y = Input(AllOf(log', paid', closed'))
  PROVE  /\ IsInput(x) /\ x.to = Now /\ x.closed = closed /\ shown = BuildSeries(x, Assets)
         /\ IsInput(y) /\ y.to = Now /\ y.closed = closed' /\ shown' = BuildSeries(y, Assets)
<1>1. IsLedger(log, paid) /\ shown = SeriesOf(log, paid, closed)
  BY DEF IInv, IsLedger
<1>2. IsLedger(log', paid') /\ shown' = SeriesOf(log', paid', closed')
  BY DEF IInv, IsLedger
<1>3. IsInput(x) /\ x.to = Now /\ x.closed = closed /\ SeriesOf(log, paid, closed) = BuildSeries(x, Assets)
  BY <1>1, WholeIs
<1>4. IsInput(y) /\ y.to = Now /\ y.closed = closed' /\ SeriesOf(log', paid', closed') = BuildSeries(y, Assets)
  BY <1>2, WholeIs
<1> QED
  BY <1>1, <1>2, <1>3, <1>4

LEMMA KeptIf ==
  ASSUME IInv, IInv', NEW n \in Int,
         \A a \in Assets : \A k \in Months :
           k <= n => Agree(Input(AllOf(log, paid, closed)), Input(AllOf(log', paid', closed')), a, k)
  PROVE  KeptUpTo(n)
<1> DEFINE x == Input(AllOf(log, paid, closed))
           y == Input(AllOf(log', paid', closed'))
<1>d. x = Input(AllOf(log, paid, closed)) /\ y = Input(AllOf(log', paid', closed'))
  OBVIOUS
<1> HIDE DEF x, y
<1>1. IsInput(x) /\ shown = BuildSeries(x, Assets)
  BY <1>d, InputsAre
<1>2. IsInput(y) /\ shown' = BuildSeries(y, Assets)
  BY <1>d, InputsAre
<1>3. \A a \in Assets : \A k \in Months : k <= n => Agree(x, y, a, k)
  BY DEF x, y
<1>4. ASSUME NEW m \in Axis(shown), m <= n PROVE Holds(shown'.point, m, shown.point[m])
  <2>1. m \in Axis(BuildSeries(x, Assets))
    BY <1>1
  <2>2. /\ m \in Axis(BuildSeries(y, Assets))
        /\ BuildSeries(y, Assets).point[m] = BuildSeries(x, Assets).point[m]
    BY <1>1, <1>2, <1>3, <1>4, <2>1, PointsAgree
  <2> QED
    BY <1>1, <1>2, <2>2 DEF Holds, Axis
<1> QED
  BY <1>4 DEF KeptUpTo

\* Nothing read of an asset differs up to a month.
Unchanged(a, n) ==
  /\ \A p \in Assets \X Months \X Days :
       p[1] = a /\ p[2] <= n => /\ p \in DOMAIN log <=> p \in DOMAIN log'
                                /\ p \in DOMAIN log => log[p] = log'[p]
  /\ \A k \in Months : k <= n => paid[<<a, k>>] = paid'[<<a, k>>]
  /\ a \in closed <=> a \in closed'

LEMMA RowsKept ==
  ASSUME IInv, IInv', NEW a \in Assets, NEW n \in Int, Unchanged(a, n)
  PROVE  \A r \in RowType :
           r.month <= n => (r \in RowsOf(Input(AllOf(log, paid, closed)), a)
                            <=> r \in RowsOf(Input(AllOf(log', paid', closed')), a))
<1> SUFFICES ASSUME NEW r \in RowType, r.month <= n
             PROVE  r \in RowsOf(Input(AllOf(log, paid, closed)), a)
                    <=> r \in RowsOf(Input(AllOf(log', paid', closed')), a)
  OBVIOUS
<1> DEFINE R == AllOf(log, paid, closed)
           Q == AllOf(log', paid', closed')
           m == r.month
<1>t. IsLedger(log, paid) /\ IsLedger(log', paid')
  BY DEF IInv, IsLedger
<1>d. R = AllOf(log, paid, closed) /\ Q = AllOf(log', paid', closed')
  OBVIOUS
<1>3. m \in Months /\ m <= n
  BY DEF RowType
<1> HIDE DEF R, Q, m
<1>1. IsRead(R) /\ R.log = log /\ R.paid = paid /\ R.barred = closed /\ R.req = Whole /\ R.req.to = NoMonth
  BY <1>t, <1>d, WholeReadIs
<1>2. IsRead(Q) /\ Q.log = log' /\ Q.paid = paid' /\ Q.barred = closed' /\ Q.req = Whole /\ Q.req.to = NoMonth
  BY <1>t, <1>d, WholeReadIs
<1>4. /\ R.req = Q.req
      /\ a \in R.barred <=> a \in Q.barred
      /\ \A p \in Assets \X Months \X Days :
           p[1] = a /\ p[2] <= n => /\ p \in DOMAIN R.log <=> p \in DOMAIN Q.log
                                    /\ p \in DOMAIN R.log => R.log[p] = Q.log[p]
      /\ \A k \in Months : k <= n => R.paid[<<a, k>>] = Q.paid[<<a, k>>]
  BY <1>1, <1>2 DEF Unchanged
<1>5. /\ m \in MonthsRead(R, a) <=> m \in MonthsRead(Q, a)
      /\ m \in MonthsRead(R, a) => RowAt(R, a, m) = RowAt(Q, a, m)
  BY <1>1, <1>2, <1>3, <1>4, RowAtSame
<1>6. r \in RowsOf(Input(R), a) <=>
           /\ r.asset = a /\ m \in MonthsRead(R, a) /\ r = RowAt(R, a, m)
           /\ R.req.to = NoMonth => m <= Now
  BY <1>1, RowsOfRead DEF m
<1>7. r \in RowsOf(Input(Q), a) <=>
           /\ r.asset = a /\ m \in MonthsRead(Q, a) /\ r = RowAt(Q, a, m)
           /\ Q.req.to = NoMonth => m <= Now
  BY <1>2, RowsOfRead DEF m
<1>8. r \in RowsOf(Input(R), a) <=> r \in RowsOf(Input(Q), a)
  BY <1>1, <1>2, <1>5, <1>6, <1>7
<1> QED
  BY <1>8 DEF R, Q

LEMMA RowsInType ==
  ASSUME NEW in, IsInput(in), NEW a
  PROVE  RowsOf(in, a) \in SUBSET RowType
  BY DEF RowsOf, IsInput

\* An asset that nothing was changed of.
LEMMA AgreeAlways ==
  ASSUME IInv, IInv', NEW a \in Assets, \A n \in Months : Unchanged(a, n), NEW k \in Months
  PROVE  Agree(Input(AllOf(log, paid, closed)), Input(AllOf(log', paid', closed')), a, k)
<1> DEFINE x == Input(AllOf(log, paid, closed))
           y == Input(AllOf(log', paid', closed'))
<1>d. x = Input(AllOf(log, paid, closed)) /\ y = Input(AllOf(log', paid', closed'))
  OBVIOUS
<1> HIDE DEF x, y
<1>1. IsInput(x) /\ x.to = Now /\ x.closed = closed
  BY <1>d, InputsAre
<1>2. IsInput(y) /\ y.to = Now /\ y.closed = closed'
  BY <1>d, InputsAre
<1>3. Months \in SUBSET Nat
  BY MonthsAre
<1>4. \A r \in RowType : r \in RowsOf(x, a) <=> r \in RowsOf(y, a)
  <2> SUFFICES ASSUME NEW r \in RowType PROVE r \in RowsOf(x, a) <=> r \in RowsOf(y, a)
    OBVIOUS
  <2>1. r.month \in Months
    BY DEF RowType
  <2> DEFINE n == r.month
  <2>2. n \in Months /\ r.month = n
    BY <2>1
  <2> HIDE DEF n
  <2>3. n \in Int /\ r.month <= n /\ Unchanged(a, n)
    BY <1>3, <2>2
  <2>4. \A t \in RowType : t.month <= n => (t \in RowsOf(x, a) <=> t \in RowsOf(y, a))
    BY <2>3, RowsKept DEF x, y
  <2> QED
    BY <2>3, <2>4
<1>5. RowsOf(x, a) = RowsOf(y, a)
  BY <1>1, <1>2, <1>4, RowsInType
<1>6. a \in x.closed <=> a \in y.closed
  BY <1>1, <1>2 DEF Unchanged
<1>7. k \in Int /\ k <= k
  BY <1>3
<1>8. Agree(x, y, a, k)
  BY <1>1, <1>2, <1>4, <1>5, <1>6, <1>7, RowsAgreeUpTo
<1> QED
  BY <1>8 DEF x, y

\* An open asset that nothing was changed of up to a month.
LEMMA AgreeBelow ==
  ASSUME IInv, IInv', NEW a \in Assets, a \notin closed, NEW n \in Int, Unchanged(a, n),
         NEW k \in Months, k <= n
  PROVE  Agree(Input(AllOf(log, paid, closed)), Input(AllOf(log', paid', closed')), a, k)
<1> DEFINE x == Input(AllOf(log, paid, closed))
           y == Input(AllOf(log', paid', closed'))
<1>d. x = Input(AllOf(log, paid, closed)) /\ y = Input(AllOf(log', paid', closed'))
  OBVIOUS
<1> HIDE DEF x, y
<1>1. IsInput(x) /\ x.to = Now /\ x.closed = closed
  BY <1>d, InputsAre
<1>2. IsInput(y) /\ y.to = Now /\ y.closed = closed'
  BY <1>d, InputsAre
<1>3. \A r \in RowType : r.month <= n => (r \in RowsOf(x, a) <=> r \in RowsOf(y, a))
  BY RowsKept DEF x, y
<1>4. a \notin x.closed /\ a \notin y.closed /\ x.to # NoMonth /\ x.to = y.to
  BY <1>1, <1>2, MonthsAre DEF Unchanged
<1>5. Agree(x, y, a, k)
  BY <1>1, <1>2, <1>3, <1>4, RowsAgreeUpTo
<1> QED
  BY <1>5 DEF x, y

-----------------------------------------------------------------------------
(* The past is stable.                                                     *)

\* A write that concerns one asset, open before and after.
LEMMA StableBefore ==
  ASSUME IInv, IInv', NEW a \in Assets, a \notin closed, NEW n \in Int, Unchanged(a, n),
         \A b \in Assets \ {a} : \A k \in Months : Unchanged(b, k)
  PROVE  KeptUpTo(n)
<1> DEFINE x == Input(AllOf(log, paid, closed))
           y == Input(AllOf(log', paid', closed'))
<1>1. ASSUME NEW b \in Assets, NEW k \in Months, k <= n PROVE Agree(x, y, b, k)
  <2>1. CASE b = a
    BY <1>1, <2>1, AgreeBelow
  <2>2. CASE b # a
    <3>1. \A j \in Months : Unchanged(b, j)
      BY <2>2
    <3> QED
      BY <3>1, AgreeAlways
  <2> QED
    BY <2>1, <2>2
<1> QED
  BY <1>1, KeptIf

LEMMA RecordKeeps ==
  ASSUME IInv, IInv', NEW place \in Places, NEW entry \in Entries, Record(place, entry)
  PROVE  /\ \A t \in Touched : t[1] \notin closed => KeptUpTo(t[2] - 1)
         /\ closed' = closed
<1>1. /\ log' = [p \in DOMAIN log \cup {place} |-> IF p = place THEN entry ELSE log[p]]
      /\ paid' = paid /\ closed' = closed
  BY DEF Record, Write
<1>2. place \in Assets \X Months \X Days
  BY ConstantsAssumption
<1>3. \A p : p # place => /\ p \in DOMAIN log <=> p \in DOMAIN log'
                          /\ p \in DOMAIN log => log[p] = log'[p]
  BY <1>1
<1>4. ASSUME NEW t \in Touched PROVE t = <<place[1], place[2]>>
  <2>1. ChangedReceipts = {}
    BY <1>1 DEF ChangedReceipts
  <2>2. \A p \in ChangedPlaces : p = place
    BY <1>3 DEF ChangedPlaces, Holds
  <2> QED
    BY <1>4, <2>1, <2>2 DEF Touched
<1>5. ASSUME place[1] \notin closed PROVE KeptUpTo(place[2] - 1)
  <2> DEFINE a == place[1]
             n == place[2] - 1
  <2>1. a \in Assets /\ place[2] \in Int /\ n \in Int /\ ~(place[2] <= n)
    <3>1. a \in Assets /\ place[2] \in Months
      BY <1>2
    <3>2. place[2] \in Nat
      BY <3>1, MonthsAre
    <3> QED
      BY <3>1, <3>2
  <2>2. Unchanged(a, n)
    <3>1. \A p \in Assets \X Months \X Days : p[2] <= n => p # place
      BY <2>1
    <3> QED
      BY <1>1, <1>3, <3>1 DEF Unchanged
  <2>3. \A b \in Assets \ {a} : \A k \in Months : Unchanged(b, k)
    <3>1. \A b \in Assets \ {a} : \A p \in Assets \X Months \X Days : p[1] = b => p # place
      OBVIOUS
    <3> QED
      BY <1>1, <1>3, <3>1 DEF Unchanged
  <2>4. a \notin closed
    BY <1>5
  <2> HIDE DEF a, n
  <2>5. KeptUpTo(n)
    BY <2>1, <2>2, <2>3, <2>4, StableBefore
  <2> QED
    BY <2>5 DEF n
<1> QED
  BY <1>1, <1>4, <1>5

LEMMA PayKeeps ==
  ASSUME IInv, IInv', NEW receipt \in Receipts, Pay(receipt[1], receipt[2], receipt[3])
  PROVE  /\ \A t \in Touched : t[1] \notin closed => KeptUpTo(t[2] - 1)
         /\ closed' = closed
<1> DEFINE at == <<receipt[1], receipt[2]>>
<1>1. log' = log /\ paid' = [paid EXCEPT ![at] = @ + receipt[3]] /\ closed' = closed
  BY DEF Pay, Write
<1>2. at \in Assets \X Months /\ paid \in [Assets \X Months -> Int]
  BY ConstantsAssumption DEF IInv
<1>3. \A r \in Assets \X Months : r # at => paid'[r] = paid[r]
  BY <1>1, <1>2
<1>4. ASSUME NEW t \in Touched PROVE t = <<receipt[1], receipt[2]>>
  <2>1. ChangedPlaces = {}
    BY <1>1 DEF ChangedPlaces, Holds
  <2>2. \A r \in ChangedReceipts : r = at
    BY <1>3 DEF ChangedReceipts
  <2> QED
    BY <1>2, <1>4, <2>1, <2>2 DEF Touched
<1>5. ASSUME receipt[1] \notin closed PROVE KeptUpTo(receipt[2] - 1)
  <2> DEFINE a == receipt[1]
             n == receipt[2] - 1
  <2>1. a \in Assets /\ receipt[2] \in Int /\ n \in Int /\ ~(receipt[2] <= n)
    <3>1. a \in Assets /\ receipt[2] \in Months
      BY <1>2
    <3>2. receipt[2] \in Nat
      BY <3>1, MonthsAre
    <3> QED
      BY <3>1, <3>2
  <2>2. Unchanged(a, n)
    <3>1. \A k \in Months : k <= n => <<a, k>> # at /\ <<a, k>> \in Assets \X Months
      BY <2>1
    <3>2. \A k \in Months : k <= n => paid[<<a, k>>] = paid'[<<a, k>>]
      BY <1>3, <3>1
    <3> HIDE DEF a, n
    <3> QED
      BY <1>1, <3>2 DEF Unchanged
  <2>3. \A b \in Assets \ {a} : \A k \in Months : Unchanged(b, k)
    <3>1. \A b \in Assets \ {a} : \A k \in Months : <<b, k>> # at /\ <<b, k>> \in Assets \X Months
      OBVIOUS
    <3> HIDE DEF a, n
    <3>2. \A b \in Assets \ {a} : \A k \in Months : paid[<<b, k>>] = paid'[<<b, k>>]
      BY <1>3, <3>1, Zenon
    <3> QED
      BY <1>1, <3>2 DEF Unchanged
  <2>4. a \notin closed
    BY <1>5
  <2> HIDE DEF a, n
  <2>5. KeptUpTo(n)
    BY <2>1, <2>2, <2>3, <2>4, StableBefore
  <2> QED
    BY <2>5 DEF n
<1> QED
  BY <1>1, <1>4, <1>5

\* An asset without payments in months without an entry has the same rows when
\* it is closed.
LEMMA CloseKeepsRows ==
  ASSUME NEW l, NEW p, IsLedger(l, p), NEW c, NEW d, NEW a \in Assets,
         PaidOnlyMonths(AllOf(l, p, {}), a) = {}
  PROVE  /\ RowsOf(Input(AllOf(l, p, c)), a) = RowsOf(Input(AllOf(l, p, d)), a)
         /\ \A k \in EntryMonths(AllOf(l, p, {}), a) :
              k <= Now => k \in RowMonths(Input(AllOf(l, p, c)), a)
<1> DEFINE R == AllOf(l, p, c)
           Q == AllOf(l, p, d)
           O == AllOf(l, p, {})
<1>1. /\ IsRead(R) /\ R.log = l /\ R.paid = p /\ R.req = Whole /\ R.req.to = NoMonth
      /\ IsRead(Q) /\ Q.log = l /\ Q.paid = p /\ Q.req = Whole /\ Q.req.to = NoMonth
      /\ O.log = l /\ O.paid = p /\ O.req = Whole
  BY WholeReadIs
<1>2. PaidOnlyMonths(O, a) = {}
  OBVIOUS
<1> HIDE DEF R, Q, O
<1>3. EntryMonths(R, a) = EntryMonths(O, a) /\ EntryMonths(Q, a) = EntryMonths(O, a)
  BY <1>1, Zenon DEF EntryMonths
<1>4. PaidOnlyMonths(R, a) = {} /\ PaidOnlyMonths(Q, a) = {}
  <2>1. PaidOnlyMonths(R, a) = PaidOnlyMonths(O, a) /\ PaidOnlyMonths(Q, a) = PaidOnlyMonths(O, a)
    BY <1>1, <1>3, Zenon DEF PaidOnlyMonths
  <2> QED
    BY <1>2, <2>1, Zenon
<1>5. /\ MatchesScope(a, Whole)
      /\ MonthsRead(R, a) = EntryMonths(O, a) /\ MonthsRead(Q, a) = EntryMonths(O, a)
  <2>1. MatchesScope(a, Whole)
    BY DEF MatchesScope, Whole
  <2>2. EntryMonths(O, a) \in SUBSET Months
    BY DEF EntryMonths
  <2> QED
    BY <1>1, <1>3, <1>4, <2>1, <2>2 DEF MonthsRead
<1>6. ASSUME NEW m \in EntryMonths(O, a) PROVE RowAt(R, a, m) = RowAt(Q, a, m)
  <2>1. LastEntryIn(R, a, m) = LastEntryIn(Q, a, m) /\ EntriesIn(R, a, m) = EntriesIn(Q, a, m)
    BY <1>1, Zenon DEF LastEntryIn, EntriesIn
  <2>2. m \in EntryMonths(R, a) /\ m \in EntryMonths(Q, a) /\ R.paid = Q.paid
    BY <1>1, <1>3, <1>6
  <2> QED
    BY <2>1, <2>2, Zenon DEF RowAt
<1>7. ASSUME NEW r PROVE r \in RowsOf(Input(R), a) <=> r \in RowsOf(Input(Q), a)
  <2>1. r \in RowsOf(Input(R), a) <=>
           /\ r.asset = a /\ r.month \in MonthsRead(R, a) /\ r = RowAt(R, a, r.month)
           /\ R.req.to = NoMonth => r.month <= Now
    BY <1>1, RowsOfRead
  <2>2. r \in RowsOf(Input(Q), a) <=>
           /\ r.asset = a /\ r.month \in MonthsRead(Q, a) /\ r = RowAt(Q, a, r.month)
           /\ Q.req.to = NoMonth => r.month <= Now
    BY <1>1, RowsOfRead
  <2>3. r.month \in MonthsRead(R, a) <=> r.month \in MonthsRead(Q, a)
    BY <1>5
  <2>4. r.month \in MonthsRead(R, a) => RowAt(R, a, r.month) = RowAt(Q, a, r.month)
    BY <1>5, <1>6
  <2> QED
    BY <1>1, <2>1, <2>2, <2>3, <2>4
<1>8. RowsOf(Input(R), a) = RowsOf(Input(Q), a)
  BY <1>7
<1>9. ASSUME NEW k \in EntryMonths(O, a), k <= Now PROVE k \in RowMonths(Input(R), a)
  <2> DEFINE r == RowAt(R, a, k)
  <2>1. k \in MonthsRead(R, a)
    BY <1>5
  <2>2. r.asset = a /\ r.month = k
    BY DEF RowAt, Row
  <2>3. r = RowAt(R, a, r.month)
    BY <2>2, Zenon
  <2> HIDE DEF r
  <2>4. r \in RowsOf(Input(R), a)
    BY <1>1, <1>9, <2>1, <2>2, <2>3, RowsOfRead
  <2> QED
    BY <2>2, <2>4 DEF RowMonths
<1> QED
  BY <1>8, <1>9 DEF R, Q, O

LEMMA LastEntryMonthIs ==
  ASSUME IInv, NEW a \in Assets, NEW n, n = LastEntryMonth(a)
  PROVE  /\ n \in Nat
         /\ n = 0 \/ (n \in EntryMonths(AllOf(log, paid, {}), a) /\ n <= Now)
<1> DEFINE own == {q \in DOMAIN log : q[1] = a /\ q[2] <= Now}
           S == {p[2] : p \in own}
           R == AllOf(log, paid, {})
<1>1. IsLedger(log, paid)
  BY DEF IInv, IsLedger
<1>2. R.log = log /\ R.req.to = NoMonth
  BY <1>1, WholeReadIs
<1>3. DOMAIN log \in SUBSET (Assets \X Months \X Days) /\ Months \in SUBSET Nat
  BY <1>1, MonthsAre DEF IsLedger, IsLog
<1>4. S \in SUBSET Months
  BY <1>3
<1>5. \A m \in S : m \in Months /\ m <= Now /\ \E p \in DOMAIN log : p[1] = a /\ p[2] = m
  BY <1>3
<1>6. n = Max({0} \cup S)
  BY DEF LastEntryMonth
<1> HIDE DEF own, S, R
<1>7. {0} \cup S \in SUBSET Int /\ {0} \cup S # {} /\ IsFiniteSet({0} \cup S)
  <2>1. IsFiniteSet(S)
    BY <1>4, MonthsAre, FS_Subset
  <2>2. IsFiniteSet(S \cup {0}) /\ S \cup {0} = {0} \cup S
    BY <2>1, FS_AddElement
  <2> QED
    BY <1>3, <1>4, <2>2
<1>8. n \in {0} \cup S
  <2> DEFINE T == {0} \cup S
  <2>1. T \in SUBSET Int /\ T # {} /\ IsFiniteSet(T) /\ n = Max(T)
    BY <1>6, <1>7, Zenon
  <2> HIDE DEF T
  <2>2. n \in T
    BY <2>1, MaxIs
  <2> QED
    BY <2>2 DEF T
<1>9. n \in S => n \in EntryMonths(R, a)
  BY <1>2, <1>5 DEF EntryMonths, InQuery
<1>10. n \in Nat
  <2>1. S \in SUBSET Nat
    BY <1>3, <1>4, Zenon
  <2>2. 0 \in Nat
    OBVIOUS
  <2> QED
    BY <1>8, <2>1, <2>2, Zenon
<1>11. n = 0 \/ (n \in EntryMonths(R, a) /\ n <= Now)
  BY <1>5, <1>8, <1>9
<1> QED
  BY <1>10, <1>11, Zenon DEF R

LEMMA CloseKeeps ==
  ASSUME IInv, IInv', NEW a \in Assets, SetClosed(a)
  PROVE  /\ Touched = {}
         /\ \A b \in closed' \ closed :
              PaidOnlyMonths(Reading("answered", Whole, log, paid, {}, {}), b) = {} =>
                KeptUpTo(LastEntryMonth(b))
<1>1. /\ log' = log /\ paid' = paid
      /\ closed' = IF a \in closed THEN closed \ {a} ELSE closed \cup {a}
  BY DEF SetClosed, Write
<1>2. Touched = {}
  <2>1. ChangedPlaces = {}
    BY <1>1 DEF ChangedPlaces, Holds
  <2>2. ChangedReceipts = {}
    BY <1>1 DEF ChangedReceipts
  <2> QED
    BY <2>1, <2>2 DEF Touched
<1>3. ASSUME NEW b \in closed' \ closed, PaidOnlyMonths(AllOf(log, paid, {}), b) = {}
      PROVE  KeptUpTo(LastEntryMonth(b))
  <2> DEFINE x == Input(AllOf(log, paid, closed))
             y == Input(AllOf(log', paid', closed'))
             n == LastEntryMonth(b)
  <2>1. b = a /\ b \in Assets
    BY <1>1, <1>3
  <2>2. \A c \in Assets \ {b} : \A k \in Months : Unchanged(c, k)
    BY <1>1, <2>1 DEF Unchanged
  <2>3. IsInput(x) /\ x.to = Now /\ IsInput(y) /\ y.to = Now
    BY InputsAre
  <2>4. IsLedger(log, paid)
    BY DEF IInv, IsLedger
  <2>5. /\ RowsOf(x, b) = RowsOf(y, b)
        /\ \A k \in EntryMonths(AllOf(log, paid, {}), b) : k <= Now => k \in RowMonths(x, b)
    BY <1>1, <1>3, <2>1, <2>4, CloseKeepsRows
  <2>6. /\ n \in Nat
        /\ n = 0 \/ (n \in EntryMonths(AllOf(log, paid, {}), b) /\ n <= Now)
    BY <2>1, LastEntryMonthIs
  <2>7. \A c \in Assets \ {b} : \A k \in Months : Agree(x, y, c, k)
    BY <2>2, AgreeAlways
  <2> HIDE DEF x, y, n
  <2>8. ASSUME NEW k \in Months, k <= n PROVE Agree(x, y, b, k)
    <3>1. x.to # NoMonth /\ x.to = y.to
      BY <2>3, MonthsAre
    <3>2. ASSUME NEW i \in Months, i <= n, NEW j \in RowMonths(x, b), j <= i
          PROVE  \E h \in RowMonths(x, b) : i <= h
      <4>1. i \in Nat /\ j \in Nat
        BY <2>3, <3>2, RowMonthsAre, MonthsAre
      <4>2. CASE n = 0
        BY <3>2, <4>1, <4>2
      <4>3. CASE n # 0
        BY <2>5, <2>6, <3>2, <4>3
      <4> QED
        BY <4>2, <4>3
    <3>3. \A i \in Months : i <= n /\ (\E j \in RowMonths(x, b) : j <= i) =>
                              \E j \in RowMonths(x, b) : i <= j
      BY <3>2
    <3>4. \A r \in RowType : r.month <= n => (r \in RowsOf(x, b) <=> r \in RowsOf(y, b))
      BY <2>5
    <3>5. n \in Int
      BY <2>6
    <3> QED
      BY <2>3, <2>5, <2>8, <3>1, <3>3, <3>4, <3>5, RowsAgreeUpTo
  <2>9. \A c \in Assets : \A k \in Months : k <= n => Agree(x, y, c, k)
    BY <2>7, <2>8
  <2>10. n \in Int
    BY <2>6
  <2>11. KeptUpTo(n)
    BY <2>9, <2>10, KeptIf DEF x, y
  <2> QED
    BY <2>11 DEF n
<1> QED
  BY <1>2, <1>3 DEF AllOf

\* The past stays as it was: an entry or a payment of an open asset changes no
\* month before it, and closing an asset that was never paid in a month without
\* an entry none up to its last entry.  logs.go SeriesRows, series.go BuildSeries.
THEOREM PastStable == Spec => PastIsStable
<1> DEFINE A == /\ \A t \in Touched : t[1] \notin closed => KeptUpTo(t[2] - 1)
                /\ \A a \in closed' \ closed :
                     PaidOnlyMonths(Reading("answered", Whole, log, paid, {}, {}), a) = {} =>
                       KeptUpTo(LastEntryMonth(a))
<1>1. IInv /\ [Next]_vars => A
  <2> SUFFICES ASSUME IInv, [Next]_vars PROVE A
    OBVIOUS
  <2>1. IInv'
    BY StepHolds
  <2>2. ASSUME NEW place \in Places, NEW entry \in Entries, Record(place, entry) PROVE A
    BY <2>1, <2>2, RecordKeeps
  <2>3. ASSUME NEW receipt \in Receipts, Pay(receipt[1], receipt[2], receipt[3]) PROVE A
    BY <2>1, <2>3, PayKeeps
  <2>4. ASSUME NEW a \in Assets, SetClosed(a) PROVE A
    BY <2>1, <2>4, CloseKeeps
  <2>5. ASSUME UNCHANGED <<log, paid, closed>> PROVE A
    <3>1. Touched = {}
      <4>1. ChangedPlaces = {}
        BY <2>5 DEF ChangedPlaces, Holds
      <4>2. ChangedReceipts = {}
        BY <2>5 DEF ChangedReceipts
      <4> QED
        BY <4>1, <4>2 DEF Touched
    <3> QED
      BY <2>5, <3>1
  <2>6. CASE \E req \in Requests : ReadEntries(req)
    BY <2>5, <2>6 DEF ReadEntries
  <2>7. CASE ReadPayments
    BY <2>5, <2>7 DEF ReadPayments
  <2>8. CASE ListAssets
    BY <2>5, <2>8 DEF ListAssets
  <2>9. CASE UNCHANGED vars
    BY <2>5, <2>9 DEF vars
  <2> HIDE DEF A
  <2> QED
    BY <2>2, <2>3, <2>4, <2>6, <2>7, <2>8, <2>9 DEF Next
<1>2. PastIsStable <=> [][A]_vars
  BY DEF PastIsStable
<1> HIDE DEF A
<1> QED
  BY <1>1, <1>2, Invariant, PTL DEF Spec

-----------------------------------------------------------------------------
(* The series is what the entries say.                                     *)

LEMMA TheInputIs ==
  ASSUME IInv
  PROVE  /\ IsRead(reader) /\ IsInput(TheInput) /\ TheInput.closed = reader.closed
         /\ TheInput.to # NoMonth <=> reader.req.to = NoMonth
         /\ TheInput.from = reader.req.from
<1>1. IsRead(reader) /\ IsInput(TheInput)
  BY InputIs DEF IInv, TheInput
<1>2. /\ TheInput.closed = reader.closed /\ TheInput.from = reader.req.from
      /\ TheInput.to = IF reader.req.to = NoMonth THEN Now ELSE NoMonth
  BY DEF TheInput, Input
<1>3. Now # NoMonth
  BY MonthsAre
<1> QED
  BY <1>1, <1>2, <1>3

\* The months in which something happens to an asset are those of its rows.
LEMMA HappensIs ==
  ASSUME IInv, NEW a \in Assets, MatchesScope(a, reader.req), NEW k \in Months
  PROVE  /\ k \in EntryMonths(reader, a) <=> InQuery(k, reader.req) /\ HasEntry(a, k)
         /\ EntriesUpTo(a, k) # {} <=> \E j \in EntryMonths(reader, a) : j <= k
         /\ k \in MonthsRead(reader, a) <=> Happens(a, k)
         /\ k \in RowMonths(TheInput, a) <=> Happens(a, k) /\ (reader.req.to # NoMonth \/ k <= Now)
<1>1. DOMAIN reader.log \in SUBSET (Assets \X Months \X Days) /\ reader.paid \in [Assets \X Months -> Int]
  BY DEF IInv, IsRead, IsLog
<1>2. k \in EntryMonths(reader, a) <=> InQuery(k, reader.req) /\ HasEntry(a, k)
  BY DEF EntryMonths, HasEntry
<1>3. EntriesUpTo(a, k) # {} <=> \E j \in EntryMonths(reader, a) : j <= k
  BY <1>1 DEF EntriesUpTo, EntryMonths
<1>4. k \in MonthsRead(reader, a) <=> Happens(a, k)
  <2>1. k \in PaidOnlyMonths(reader, a) <=>
          /\ k \notin EntryMonths(reader, a) /\ InQuery(k, reader.req)
          /\ reader.paid[<<a, k>>] # 0 /\ \E j \in EntryMonths(reader, a) : j <= k
    BY DEF PaidOnlyMonths
  <2> QED
    BY <1>2, <1>3, <2>1 DEF MonthsRead, Happens
<1>5. k \in RowMonths(TheInput, a) <=> k \in MonthsRead(reader, a) /\ (reader.req.to = NoMonth => k <= Now)
  <2>1. \A r : r \in RowsOf(TheInput, a) <=>
           /\ r.asset = a /\ r.month \in MonthsRead(reader, a) /\ r = RowAt(reader, a, r.month)
           /\ reader.req.to = NoMonth => r.month <= Now
    BY RowsOfRead DEF IInv, TheInput
  <2>2. ASSUME k \in RowMonths(TheInput, a)
        PROVE  k \in MonthsRead(reader, a) /\ (reader.req.to = NoMonth => k <= Now)
    BY <2>1, <2>2 DEF RowMonths
  <2>3. ASSUME k \in MonthsRead(reader, a), reader.req.to = NoMonth => k <= Now
        PROVE  k \in RowMonths(TheInput, a)
    <3> DEFINE r == RowAt(reader, a, k)
    <3>1. r.asset = a /\ r.month = k
      BY DEF RowAt, Row
    <3>2. r = RowAt(reader, a, r.month)
      BY <3>1, Zenon
    <3> HIDE DEF r
    <3>3. r \in RowsOf(TheInput, a)
      BY <2>1, <2>3, <3>1, <3>2
    <3> QED
      BY <3>1, <3>3 DEF RowMonths
  <2> QED
    BY <2>2, <2>3
<1> QED
  BY <1>2, <1>3, <1>4, <1>5

\* An asset counts in the months in which it is in the series.
LEMMA CountsIs ==
  ASSUME IInv, NEW a \in Assets, MatchesScope(a, reader.req), NEW m \in Months
  PROVE  /\ Counts(a, m) <=> m \in Covered(TheInput, a)
         /\ m \in Covered(TheInput, a) =>
              /\ InQuery(m, reader.req) /\ (reader.req.to # NoMonth \/ m <= Now)
              /\ \A k \in EntryMonths(reader, a) : k <= m => k \in RowMonths(TheInput, a)
<1> DEFINE X == RowMonths(TheInput, a)
           E == EntryMonths(reader, a)
           lasts == \/ \E k \in X : m <= k
                    \/ a \notin reader.closed /\ reader.req.to = NoMonth /\ m <= Now
<1>1. m \in Covered(TheInput, a) <=>
        /\ \E k \in X : k <= m
        /\ \/ \E k \in X : m <= k
           \/ a \notin TheInput.closed /\ TheInput.to # NoMonth /\ m <= Now
  BY TheInputIs, CoveredIs
<1>2. m \in Covered(TheInput, a) <=> (\E k \in X : k <= m) /\ lasts
  BY <1>1, TheInputIs
<1>3. X \in SUBSET Months /\ E \in SUBSET Months /\ Months \in SUBSET Nat /\ Now \in Nat
  BY TheInputIs, RowMonthsAre, MonthsAre DEF EntryMonths
<1>4. \A k \in Months : k \in X <=> Happens(a, k) /\ (reader.req.to # NoMonth \/ k <= Now)
  BY HappensIs
<1>5. \A k \in Months : /\ EntriesUpTo(a, k) # {} <=> \E j \in E : j <= k
                        /\ k \in E <=> InQuery(k, reader.req) /\ HasEntry(a, k)
  BY HappensIs
<1>6. Counts(a, m) <=> EntriesUpTo(a, m) # {} /\ lasts
  <2>1. (\E k \in X : m <= k) <=>
           \E k \in Months : k >= m /\ Happens(a, k) /\ (reader.req.to # NoMonth \/ k <= Now)
    BY <1>3, <1>4
  <2> QED
    BY <2>1 DEF Counts
<1> HIDE DEF X, E
<1>7. lasts => InQuery(m, reader.req) /\ (reader.req.to # NoMonth \/ m <= Now)
  <2> SUFFICES ASSUME lasts PROVE InQuery(m, reader.req) /\ (reader.req.to # NoMonth \/ m <= Now)
    OBVIOUS
  <2>1. CASE \E k \in X : m <= k
    <3>1. PICK k \in X : m <= k
      BY <2>1
    <3>2. k \in Months /\ Happens(a, k) /\ (reader.req.to # NoMonth \/ k <= Now)
      BY <1>3, <1>4
    <3>3. m \in Nat /\ k \in Nat
      BY <1>3, <3>2
    <3>4. InQuery(k, reader.req)
      BY <3>2 DEF Happens
    <3>5. reader.req.to \in Months \cup {NoMonth}
      BY TheInputIs DEF IsRead, Request
    <3> DEFINE to == reader.req.to
    <3>6. (to = NoMonth \/ k <= to) /\ (to = NoMonth \/ to \in Nat)
      BY <1>3, <3>4, <3>5 DEF InQuery
    <3>7. InQuery(m, reader.req) <=> to = NoMonth \/ m <= to
      BY DEF InQuery
    <3> HIDE DEF to
    <3>8. to = NoMonth \/ m <= to
      BY <3>1, <3>3, <3>6
    <3>9. m <= Now \/ ~(k <= Now)
      BY <1>3, <3>1, <3>3
    <3> QED
      BY <3>2, <3>7, <3>8, <3>9
  <2>2. CASE reader.req.to = NoMonth /\ m <= Now
    BY <2>2 DEF InQuery
  <2> QED
    BY <2>1, <2>2
<1>8. ASSUME lasts, NEW k \in E, k <= m PROVE k \in X
  <2>1. k \in Months /\ k \in Nat /\ m \in Nat
    BY <1>3
  <2>2. Happens(a, k)
    BY <1>5, <2>1 DEF Happens
  <2>3. reader.req.to # NoMonth \/ k <= Now
    BY <1>3, <1>7, <1>8, <2>1
  <2> QED
    BY <1>4, <2>1, <2>2, <2>3
<1>9. ASSUME NEW k \in X, k <= m PROVE \E j \in E : j <= m
  <2>1. k \in Months /\ Happens(a, k)
    BY <1>3, <1>4
  <2>2. k \in E \/ \E j \in E : j <= k
    BY <1>5, <2>1 DEF Happens
  <2> QED
    BY <1>3, <1>9, <2>1, <2>2
<1>10. lasts => (EntriesUpTo(a, m) # {} <=> \E k \in X : k <= m)
  BY <1>5, <1>8, <1>9
<1> HIDE DEF lasts
<1>11. Counts(a, m) <=> m \in Covered(TheInput, a)
  BY <1>2, <1>6, <1>10
<1>12. m \in Covered(TheInput, a) =>
              /\ InQuery(m, reader.req) /\ (reader.req.to # NoMonth \/ m <= Now)
              /\ \A k \in E : k <= m => k \in X
  BY <1>2, <1>7, <1>8
<1> QED
  BY <1>11, <1>12 DEF X, E

\* The latest entry up to a month is the last one of its month.
LEMMA LatestOf ==
  ASSUME IInv, NEW a \in Assets, NEW m \in Months,
         NEW e \in EntryMonths(reader, a), e <= m,
         \A i \in EntryMonths(reader, a) : i <= m => i <= e
  PROVE  LatestEntry(a, m) = LastEntryIn(reader, a, e)
<1> DEFINE E == EntriesUpTo(a, m)
           IsLast(p) == \A q \in E : q[2] < p[2] \/ (q[2] = p[2] /\ q[3] <= p[3])
<1>1. LatestEntry(a, m) = reader.log[CHOOSE p \in E : IsLast(p)]
  BY DEF LatestEntry
<1>2. PICK d \in Days : /\ <<a, e, d>> \in DOMAIN reader.log
                        /\ LastEntryIn(reader, a, e) = reader.log[<<a, e, d>>]
                        /\ \A p \in DOMAIN reader.log : p[1] = a /\ p[2] = e => p[3] <= d
  BY TheInputIs, LastEntryIs
<1>3. DOMAIN reader.log \in SUBSET (Assets \X Months \X Days) /\ Months \in SUBSET Nat /\ Days \in SUBSET Nat
  BY TheInputIs, MonthsAre DEF IsRead, IsLog, Days
<1>4. e \in Months /\ InQuery(e, reader.req)
  BY DEF EntryMonths
<1>5. <<a, e, d>> \in E
  BY <1>2, <1>4 DEF EntriesUpTo
<1>6. ASSUME NEW q \in E
      PROVE  /\ q = <<a, q[2], q[3]>> /\ q[2] \in Nat /\ q[3] \in Nat /\ q[2] <= e
             /\ q[2] = e => q[3] <= d
  <2>1. q \in DOMAIN reader.log /\ q[1] = a /\ q[2] <= m /\ InQuery(q[2], reader.req)
    BY DEF EntriesUpTo
  <2>2. q \in Assets \X Months \X Days
    BY <1>3, <2>1
  <2>3. q = <<q[1], q[2], q[3]>> /\ q[2] \in Months /\ q[3] \in Days
    BY <2>2
  <2>4. q[2] \in EntryMonths(reader, a)
    BY <2>1, <2>3 DEF EntryMonths
  <2> QED
    BY <1>2, <1>3, <2>1, <2>3, <2>4
<1> HIDE DEF E
<1>7. IsLast(<<a, e, d>>)
  <2> SUFFICES ASSUME NEW q \in E PROVE q[2] < e \/ (q[2] = e /\ q[3] <= d)
    BY DEF IsLast
  <2> QED
    BY <1>3, <1>4, <1>6
<1>8. ASSUME NEW p \in E, IsLast(p) PROVE p = <<a, e, d>>
  <2>1. e < p[2] \/ (e = p[2] /\ d <= p[3])
    BY <1>5, <1>8
  <2>2. /\ p = <<a, p[2], p[3]>> /\ p[2] \in Nat /\ p[3] \in Nat /\ p[2] <= e
        /\ p[2] = e => p[3] <= d
    BY <1>6
  <2>3. e \in Nat /\ d \in Nat
    BY <1>3, <1>4
  <2> DEFINE x == p[2]
             y == p[3]
  <2> HIDE DEF x, y
  <2>4. x = e /\ y = d
    BY <2>1, <2>2, <2>3 DEF x, y
  <2> QED
    BY <2>2, <2>4 DEF x, y
<1> HIDE DEF IsLast
<1>9. (CHOOSE p \in E : IsLast(p)) = <<a, e, d>>
  BY <1>5, <1>7, <1>8
<1> QED
  BY <1>1, <1>2, <1>9

\* The row that counts is the latest entry unless the asset is emptied, with the
\* month's payments.
LEMMA SnapLatest ==
  ASSUME IInv, NEW a \in Assets, MatchesScope(a, reader.req), NEW m \in Months, m \in Covered(TheInput, a),
         NEW r, r = Snap(TheInput, a, m)
  PROVE  /\ ~Emptied(a, m) => r.value = LatestEntry(a, m).value /\ r.deposit = LatestEntry(a, m).deposit
         /\ m \in RowMonths(TheInput, a) => r.paid = reader.paid[<<a, m>>]
         /\ m \notin RowMonths(TheInput, a) => reader.paid[<<a, m>>] = 0
<1> DEFINE X == RowMonths(TheInput, a)
           E == EntryMonths(reader, a)
           t == r.month
<1>1. /\ InQuery(m, reader.req) /\ (reader.req.to # NoMonth \/ m <= Now)
      /\ \A k \in E : k <= m => k \in X
  BY CountsIs
<1>2. /\ \E k \in X : k <= m
      /\ X \in SUBSET Months /\ E \in SUBSET Months /\ Months \in SUBSET Nat /\ Now \in Nat
  BY TheInputIs, CoveredIs, RowMonthsAre, MonthsAre DEF EntryMonths
<1>3. \A k \in Months : /\ k \in X <=> Happens(a, k) /\ (reader.req.to # NoMonth \/ k <= Now)
                        /\ k \in E <=> InQuery(k, reader.req) /\ HasEntry(a, k)
                        /\ k \in MonthsRead(reader, a) <=> Happens(a, k)
                        /\ EntriesUpTo(a, k) # {} <=> \E j \in E : j <= k
  BY HappensIs
<1>4. /\ r \in RowsOf(TheInput, a) /\ t \in X /\ t <= m
      /\ \A k \in X : k <= m => k <= t
  BY <1>2, TheInputIs, SnapIs
<1>5. r = RowAt(reader, a, t) /\ t \in MonthsRead(reader, a)
  BY <1>4, TheInputIs, RowsOfRead DEF TheInput
<1>6. t \in Nat /\ m \in Nat /\ t \in Months
  BY <1>2, <1>4
<1> HIDE DEF X, E, t
<1>7. r.paid = reader.paid[<<a, t>>]
  BY <1>5 DEF RowAt, Row
<1>8. m \in X => m = t
  BY <1>4, <1>6
<1>9. m \in X => r.paid = reader.paid[<<a, m>>]
  BY <1>7, <1>8
<1>10. ASSUME m \notin X PROVE reader.paid[<<a, m>>] = 0
  <2>1. reader.paid[<<a, m>>] \in Int
    BY TheInputIs DEF IsRead
  <2>2. \E j \in E : j <= m
    <3>1. Happens(a, t)
      BY <1>3, <1>4, <1>6
    <3>2. \E j \in E : j <= t
      BY <1>3, <1>6, <3>1 DEF Happens
    <3> QED
      BY <1>2, <1>4, <1>6, <3>2
  <2>3. reader.paid[<<a, m>>] # 0 => Happens(a, m)
    BY <1>1, <1>3, <2>2 DEF Happens
  <2>4. ~Happens(a, m)
    BY <1>1, <1>3, <1>10
  <2> QED
    BY <2>1, <2>3, <2>4
<1>11. CASE t \in E
  <2>1. r = Row(a, t, LastEntryIn(reader, a, t), reader.paid[<<a, t>>], EntriesIn(reader, a, t))
    BY <1>5, <1>11 DEF RowAt, E
  <2>2. r.value = LastEntryIn(reader, a, t).value /\ r.deposit = LastEntryIn(reader, a, t).deposit
    BY <2>1 DEF Row
  <2>3. \A i \in E : i <= m => i <= t
    BY <1>1, <1>4
  <2>4. LatestEntry(a, m) = LastEntryIn(reader, a, t)
    BY <1>4, <1>11, <2>3, LatestOf DEF E
  <2> QED
    BY <1>9, <1>10, <2>2, <2>4 DEF X
<1>12. CASE t \notin E
  <2>1. r = Row(a, t, CarriedEntry(reader, a, t), reader.paid[<<a, t>>], 0)
    BY <1>5, <1>12 DEF RowAt, E
  <2>2. r.value = CarriedEntry(reader, a, t).value /\ r.deposit = CarriedEntry(reader, a, t).deposit
    BY <2>1 DEF Row
  <2>3. Happens(a, t) /\ InQuery(t, reader.req)
    BY <1>3, <1>4, <1>6 DEF Happens
  <2>4. ~HasEntry(a, t)
    BY <1>3, <1>6, <1>12, <2>3
  <2>5. \A j \in t .. m : ~HasEntry(a, j)
    <3> SUFFICES ASSUME NEW j \in t .. m, HasEntry(a, j) PROVE FALSE
      OBVIOUS
    <3>1. j \in Months
      BY TheInputIs DEF HasEntry, IsRead, IsLog
    <3>2. InQuery(j, reader.req)
      <4> DEFINE to == reader.req.to
      <4>1. InQuery(m, reader.req) <=> to = NoMonth \/ m <= to
        BY DEF InQuery
      <4>2. InQuery(j, reader.req) <=> to = NoMonth \/ j <= to
        BY DEF InQuery
      <4>3. to = NoMonth \/ to \in Nat
        BY <1>2, TheInputIs DEF IsRead, Request
      <4> HIDE DEF to
      <4> QED
        BY <1>1, <1>6, <4>1, <4>2, <4>3
    <3>3. j \in X
      BY <1>1, <1>3, <1>6, <3>1, <3>2
    <3>4. j = t
      BY <1>4, <1>6, <3>3
    <3> QED
      BY <2>4, <3>4
  <2>6. Emptied(a, m) <=> a \in reader.barred
    BY <1>4, <1>6, <2>3, <2>4, <2>5 DEF Emptied
  <2>7. CASE a \in reader.barred
    BY <1>9, <1>10, <2>6, <2>7 DEF X
  <2>8. CASE a \notin reader.barred
    <3> DEFINE e == CarriedFrom(E, t)
    <3>1. CarriedEntry(reader, a, t) = LastEntryIn(reader, a, e)
      BY <2>8 DEF CarriedEntry, E
    <3>2. \E k \in E : k <= t
      BY <1>3, <1>6, <2>3, <2>4 DEF Happens
    <3>3. e \in E /\ e <= t /\ \A i \in E : i <= t => i <= e
      BY <3>2, <1>6, CarriedFromIs DEF E
    <3> HIDE DEF e
    <3>4. e <= m
      BY <1>2, <1>4, <1>6, <3>3
    <3>5. \A i \in E : i <= m => i <= e
      BY <1>1, <1>4, <3>3
    <3>6. LatestEntry(a, m) = LastEntryIn(reader, a, e)
      BY <3>3, <3>4, <3>5, LatestOf DEF E
    <3>7. r.value = LatestEntry(a, m).value /\ r.deposit = LatestEntry(a, m).deposit
      BY <2>2, <3>1, <3>6
    <3> QED
      BY <1>9, <1>10, <3>7 DEF X
  <2> QED
    BY <2>7, <2>8
<1> QED
  BY <1>11, <1>12

LEMMA ScopeIs ==
  ASSUME IInv, NEW in, NEW mode
  PROVE  /\ InScope(in, reader.req, mode) \in SUBSET Assets
         /\ \A a \in InScope(in, reader.req, mode) : MatchesScope(a, reader.req)
  BY DEF InScope

\* The assets of some that count in a month.
Counting(S, m) == {a \in S : Counts(a, m)}
NoneEmptied(S, m) == \A a \in S : ~Emptied(a, m)

\* The sums of a month.
LEMMA SumsCarried ==
  ASSUME IInv, NEW S, S = InScope(TheInput, reader.req, reader.req.mode), NEW m \in Months
  PROVE  /\ \A a \in S : a \in Counting(S, m) <=> m \in Covered(TheInput, a)
         /\ NoneEmptied(Counting(S, m), m) =>
              /\ Value(TheInput, S, m) = SumOf([a \in Counting(S, m) |-> LatestEntry(a, m).value])
              /\ Deposits(TheInput, S, m) = SumOf([a \in Counting(S, m) |-> LatestEntry(a, m).deposit])
         /\ Payments(TheInput, S, m) = SumOf([a \in Counting(S, m) |-> reader.paid[<<a, m>>]])
<1> DEFINE in == TheInput
           live == Counting(S, m)
           Paying == {b \in live : m \in RowMonths(in, b)}
           paying == [a \in live |-> reader.paid[<<a, m>>]]
<1>0. S \in SUBSET Assets /\ \A a \in S : MatchesScope(a, reader.req)
  BY ScopeIs
<1>1. \A a \in S : Counts(a, m) <=> m \in Covered(in, a)
  BY <1>0, CountsIs
<1>2. live = Live(in, S, m)
  BY <1>1 DEF Live, Counting
<1> HIDE DEF live
<1>3. IsFiniteSet(live) /\ live \in SUBSET S /\ \A a \in live : a \in Assets /\ m \in Covered(in, a)
  <2>1. IsInput(in)
    BY TheInputIs
  <2> HIDE DEF in
  <2>2. IsFiniteSet(Live(in, S, m)) /\ \A a \in Live(in, S, m) : a \in S /\ m \in Covered(in, a)
    BY <1>0, <2>1, LiveIs
  <2> QED
    BY <1>0, <1>2, <2>2
<1>4. ASSUME NEW a \in live
      PROVE  /\ ~Emptied(a, m) => /\ Snap(in, a, m).value = LatestEntry(a, m).value
                                  /\ Snap(in, a, m).deposit = LatestEntry(a, m).deposit
             /\ m \in RowMonths(in, a) => Snap(in, a, m).paid = reader.paid[<<a, m>>]
             /\ m \notin RowMonths(in, a) => reader.paid[<<a, m>>] = 0
  BY <1>0, <1>3, SnapLatest
<1>5. ASSUME NoneEmptied(live, m)
      PROVE  Value(in, S, m) = SumOf([a \in live |-> LatestEntry(a, m).value])
  <2>1. [a \in live |-> Snap(in, a, m).value] = [a \in live |-> LatestEntry(a, m).value]
    BY <1>4, <1>5 DEF NoneEmptied
  <2> QED
    BY <1>2, <2>1, Zenon DEF Value
<1>6. ASSUME NoneEmptied(live, m)
      PROVE  Deposits(in, S, m) = SumOf([a \in live |-> LatestEntry(a, m).deposit])
  <2>1. [a \in live |-> Snap(in, a, m).deposit] = [a \in live |-> LatestEntry(a, m).deposit]
    BY <1>4, <1>6 DEF NoneEmptied
  <2> QED
    BY <1>2, <2>1, Zenon DEF Deposits
<1>7. Payments(in, S, m) = SumOf(paying)
  <2>1. paying \in [live -> Int]
    <3>1. reader.paid \in [Assets \X Months -> Int]
      BY TheInputIs DEF IsRead
    <3> QED
      BY <1>3, <3>1
  <2>2. Paying \in SUBSET live /\ \A a \in live \ Paying : paying[a] = 0
    BY <1>4
  <2>3. Restrict(paying, Paying) = [a \in Paying |-> Snap(in, a, m).paid]
    BY <1>4 DEF Restrict
  <2>4. Payments(in, S, m) = SumOf([a \in Paying |-> Snap(in, a, m).paid])
    BY <1>2, Zenon DEF Payments
  <2> HIDE DEF paying, Paying
  <2>5. SumOf(paying) = SumOf(Restrict(paying, Paying))
    BY <1>3, <2>1, <2>2, SumOver
  <2> QED
    BY <2>3, <2>4, <2>5, Zenon
<1>8. \A a \in S : a \in live <=> m \in Covered(in, a)
  BY <1>1 DEF live, Counting
<1> QED
  BY <1>5, <1>6, <1>7, <1>8 DEF live

LEMMA Carries == IInv => CarriesForward
<1> SUFFICES ASSUME IInv, Answered PROVE CarriesForward
  BY DEF CarriesForward
<1> DEFINE in == TheInput
           S == InScope(in, reader.req, reader.req.mode)
           s == BuildSeries(in, S)
<1>1. TheSeries = s
  BY DEF IInv, TheSeries, Asked, TheInput
<1>2. IsInput(in)
  BY TheInputIs
<1>3. S \in SUBSET Assets /\ \A a \in S : MatchesScope(a, reader.req)
  BY ScopeIs
<1> HIDE DEF in, S
<1>4. ASSUME NEW m \in Axis(s)
      PROVE  LET live == {a \in S : Counts(a, m)} IN
             /\ live # {}
             /\ (\A a \in live : ~Emptied(a, m)) =>
                  /\ s.point[m].V = SumOf([a \in live |-> LatestEntry(a, m).value])
                  /\ s.point[m].D = SumOf([a \in live |-> LatestEntry(a, m).deposit])
             /\ s.point[m].P = SumOf([a \in live |-> reader.paid[<<a, m>>]])
             /\ s.point[m].D = SumOf([k \in {j \in Axis(s) : j <= m} |-> s.point[k].F])
  <2> DEFINE live == Counting(S, m)
  <2>1. m \in Months /\ \E a \in S : m \in Covered(in, a)
    BY <1>2, <1>3, SeriesIs
  <2>2. /\ s.point[m].V = Value(in, S, m) /\ s.point[m].D = Deposits(in, S, m)
        /\ s.point[m].P = Payments(in, S, m)
    BY <1>2, <1>3, PointIs
  <2>3. s.point[m].D = SumOf([k \in {j \in Axis(s) : j <= m} |-> s.point[k].F])
    BY <1>2, <1>3, FlowsAddUp
  <2>4. S = InScope(TheInput, reader.req, reader.req.mode)
    BY DEF S, in
  <2> HIDE DEF s
  <2>5. /\ \A a \in S : a \in live <=> m \in Covered(in, a)
        /\ NoneEmptied(live, m) =>
             /\ Value(in, S, m) = SumOf([a \in live |-> LatestEntry(a, m).value])
             /\ Deposits(in, S, m) = SumOf([a \in live |-> LatestEntry(a, m).deposit])
        /\ Payments(in, S, m) = SumOf([a \in live |-> reader.paid[<<a, m>>]])
    BY <2>1, <2>4, SumsCarried DEF in
  <2> HIDE DEF live
  <2>6. live # {}
    BY <2>1, <2>5
  <2>7. /\ live # {}
        /\ NoneEmptied(live, m) =>
             /\ s.point[m].V = SumOf([a \in live |-> LatestEntry(a, m).value])
             /\ s.point[m].D = SumOf([a \in live |-> LatestEntry(a, m).deposit])
        /\ s.point[m].P = SumOf([a \in live |-> reader.paid[<<a, m>>]])
    BY <2>2, <2>5, <2>6, Zenon
  <2> QED
    BY <2>3, <2>7 DEF live, Counting, NoneEmptied
<1> HIDE DEF s
<1> QED
  BY <1>1, <1>4, Zenon DEF CarriesForward, S, in

-----------------------------------------------------------------------------
(* The quality report explains the series.                                 *)

\* The gaps of some months are the months between them.
LEMMA GapsAre ==
  ASSUME NEW X \in SUBSET Nat, X # {}, IsFiniteSet(X), NEW lo, lo = Min(X), NEW hi, hi = Max(X)
  PROVE  /\ lo \in X /\ hi \in X /\ \A m \in X : lo <= m /\ m <= hi
         /\ Gaps(X) = Cardinality({m \in lo .. hi : m \notin X})
<1>1. X \in SUBSET Int
  OBVIOUS
<1>2. lo \in X /\ hi \in X /\ \A m \in X : lo <= m /\ m <= hi
  BY <1>1, MinIs, MaxIs
<1> DEFINE I == lo .. hi
<1>3. lo \in Int /\ hi \in Int /\ lo <= hi
  BY <1>1, <1>2
<1>4. IsFiniteSet(I) /\ Cardinality(I) = hi - lo + 1
  BY <1>3, FS_Interval
<1>5. I \cap X = X /\ {m \in I : m \notin X} = I \ X
  <2>1. \A m \in X : m \in I
    BY <1>1, <1>2, <1>3
  <2> HIDE DEF I
  <2> QED
    BY <2>1
<1> HIDE DEF I
<1>6. Cardinality(I \ X) = Cardinality(I) - Cardinality(X)
  <2>1. Cardinality(I \ X) = Cardinality(I) - Cardinality(I \cap X)
    BY <1>4, FS_Difference
  <2> QED
    BY <1>5, <2>1, Zenon
<1>7. Cardinality(X) \in Nat
  BY FS_CardinalityType
<1>8. Gaps(X) = hi - lo + 1 - Cardinality(X)
  BY DEF Gaps
<1>9. Gaps(X) = Cardinality(I \ X)
  BY <1>3, <1>4, <1>6, <1>7, <1>8
<1> QED
  BY <1>2, <1>5, <1>9 DEF I

\* The months of one asset's series.
LEMMA AssetAxisIs ==
  ASSUME NEW in, IsInput(in), NEW a \in Assets, NEW req
  PROVE  /\ InScope(in, AssetScope(Whole, a), "all") = {a}
         /\ Axis(AssetSeries(in, Whole, a)) = Covered(in, a)
<1>1. InScope(in, AssetScope(Whole, a), "all") = {a}
  <2>1. AssetScope(Whole, a).asset = a /\ AssetScope(Whole, a).class = NoScope
    BY DEF AssetScope, Whole
  <2>2. \A b \in Assets : MatchesScope(b, AssetScope(Whole, a)) <=> b = a
    BY <2>1, ConstantsAssumption DEF MatchesScope
  <2> QED
    BY <2>2 DEF InScope
<1>2. AssetSeries(in, Whole, a) = BuildSeries(in, {a})
  BY <1>1, Zenon DEF AssetSeries
<1>3. {a} \in SUBSET Assets
  OBVIOUS
<1>4. \A m : m \in Axis(BuildSeries(in, {a})) <=> \E b \in {a} : m \in Covered(in, b)
  BY <1>3, SeriesIs
<1>5. \A m : m \in Axis(BuildSeries(in, {a})) <=> m \in Covered(in, a)
  BY <1>4
<1>6. Axis(BuildSeries(in, {a})) = Covered(in, a)
  BY <1>5
<1> QED
  BY <1>1, <1>2, <1>6

LEMMA QualityExplains == IInv => QualityExplainsSeries
<1> SUFFICES ASSUME IInv, Answered, reader.req = Whole PROVE QualityExplainsSeries
  BY DEF QualityExplainsSeries
<1> DEFINE in     == TheInput
           report == Quality(in.rows, in.closed)
           carried(a) == Axis(AssetSeries(in, Whole, a)) \ RowMonths(in, a)
           months(a)  == {r.month : r \in {q \in in.rows : q.asset = a}}
           byAsset    == {r.asset : r \in in.rows}
<1>1. IsInput(in) /\ in.to = Now /\ Now # NoMonth
  <2>1. Whole.to = NoMonth
    BY DEF Whole
  <2> QED
    BY <2>1, TheInputIs, MonthsAre DEF IsInput
<1>2. /\ report.gaps = [a \in byAsset |-> Gaps(months(a))]
      /\ report.stale = {a \in byAsset \ in.closed : Now - Max(months(a)) > StaleAfter}
      /\ report.future = {r \in in.rows : r.month > Now}
  BY DEF Quality
<1> HIDE DEF in, report
<1>3. /\ \A r \in in.rows : r.asset \in Assets /\ r.month \in Months
      /\ Months \in SUBSET Nat /\ IsFiniteSet(Months) /\ Now \in Nat /\ StaleAfter \in Nat
  BY <1>1, MonthsAre, ConstantsAssumption DEF IsInput, RowType
<1>4. \A r, a : r \in RowsOf(in, a) <=> r \in in.rows /\ r.asset = a /\ r.month <= Now
  BY <1>1 DEF RowsOf
<1>10. \A r \in in.rows : r.month \in Nat /\ (r.month > Now <=> ~(r.month <= Now))
  <2> SUFFICES ASSUME NEW r \in in.rows
               PROVE  r.month \in Nat /\ (r.month > Now <=> ~(r.month <= Now))
    OBVIOUS
  <2> DEFINE m == r.month
  <2>1. m \in Nat
    BY <1>3
  <2> HIDE DEF m
  <2>2. m \in Nat /\ (m > Now <=> ~(m <= Now))
    BY <1>3, <2>1
  <2> QED
    BY <2>2 DEF m
<1>5. report.future = in.rows \ UNION {RowsOf(in, a) : a \in Assets}
  <2> QED
    BY <1>2, <1>3, <1>4, <1>10
<1>6. ASSUME NEW a \in {r.asset : r \in in.rows \ report.future}
      PROVE  LET last == Max(RowMonths(in, a)) IN
             /\ (\A r \in report.future : r.asset # a) =>
                  report.gaps[a] = Cardinality({m \in carried(a) : m < last})
             /\ a \in report.stale <=>
                  /\ \A r \in report.future : r.asset # a
                  /\ Cardinality({m \in carried(a) : m > last}) > StaleAfter
  <2> DEFINE X    == RowMonths(in, a)
             lo   == Min(X)
             last == Max(X)
             C    == carried(a)
             past == {m \in C : m < last}
             tail == {m \in C : m > last}
  <2>1. PICK r \in in.rows : r.asset = a /\ r.month <= Now
    BY <1>2, <1>10
  <2>2. a \in Assets /\ a \in byAsset
    BY <1>3, <2>1
  <2>3. X # {}
    <3>1. r \in RowsOf(in, a)
      BY <1>4, <2>1
    <3> QED
      BY <3>1 DEF RowMonths
  <2>4. X \in SUBSET Nat /\ IsFiniteSet(X) /\ \A k \in X : k <= Now
    BY <1>1, RowMonthsAre
  <2>5. Axis(AssetSeries(in, Whole, a)) = Covered(in, a)
    BY <1>1, <2>2, AssetAxisIs
  <2>6. \A m : m \in C <=> m \in Covered(in, a) /\ m \notin X
    BY <2>5
  <2>7. Covered(in, a) \in SUBSET Months
    BY <1>1, CoveredIs
  <2>8. Covered(in, a) = IF a \notin in.closed THEN lo .. Max({last, Now}) ELSE lo .. last
    BY <1>1, <2>3 DEF Covered
  <2> HIDE DEF X, C, lo, last
  <2>9. /\ lo \in X /\ last \in X /\ \A m \in X : lo <= m /\ m <= last
        /\ Gaps(X) = Cardinality({m \in lo .. last : m \notin X})
    BY <2>3, <2>4, GapsAre DEF lo, last
  <2>10. lo \in Nat /\ last \in Nat /\ last <= Now /\ lo <= last
    BY <2>4, <2>9
  <2>11. Max({last, Now}) = Now
    <3> DEFINE T == {last, Now}
    <3>1. T \in SUBSET Int /\ Now \in T /\ \A n \in T : n <= Now
      BY <1>3, <2>10
    <3> HIDE DEF T
    <3>2. Max(T) = Now
      BY <3>1, MaxIsOnly
    <3> QED
      BY <3>2 DEF T
  <2>12. past = {m \in lo .. last : m \notin X}
    <3>1. ASSUME NEW m PROVE m \in past <=> m \in lo .. last /\ m \notin X
      <4>1. CASE a \in in.closed
        BY <2>6, <2>8, <2>9, <2>10, <4>1
      <4>2. CASE a \notin in.closed
        <5>1. Covered(in, a) = lo .. Now
          BY <2>8, <2>11, <4>2
        <5> QED
          BY <1>3, <2>6, <2>9, <2>10, <5>1
      <4> QED
        BY <4>1, <4>2
    <3> QED
      BY <3>1
  <2>13. a \in in.closed => tail = {}
    BY <2>6, <2>8, <2>10
  <2>14. a \notin in.closed => tail = (last + 1) .. Now
    <3> SUFFICES ASSUME a \notin in.closed, NEW m PROVE m \in tail <=> m \in (last + 1) .. Now
      OBVIOUS
    <3>1. Covered(in, a) = lo .. Now
      BY <2>8, <2>11
    <3> QED
      BY <1>3, <2>6, <2>9, <2>10, <3>1
  <2>15. a \in in.closed => Cardinality(tail) = 0
    BY <2>13, FS_EmptySet
  <2>16. a \notin in.closed => Cardinality(tail) = Now - last
    <3>1. last + 1 \in Int /\ Now \in Int
      BY <1>3, <2>10
    <3>2. Cardinality((last + 1) .. Now) = IF last + 1 > Now THEN 0 ELSE Now - (last + 1) + 1
      BY <3>1, FS_Interval
    <3>3. (IF last + 1 > Now THEN 0 ELSE Now - (last + 1) + 1) = Now - last
      BY <1>3, <2>10
    <3> HIDE DEF tail
    <3> QED
      BY <2>14, <3>2, <3>3, Zenon
  <2>17. report.gaps[a] = Gaps(months(a))
    BY <1>2, <2>2
  <2>18. a \in report.stale <=> a \notin in.closed /\ Now - Max(months(a)) > StaleAfter
    BY <1>2, <2>2
  <2> HIDE DEF past, tail
  <2>19. CASE \A t \in report.future : t.asset # a
    <3>1. months(a) = X
      <4>1. \A t \in in.rows : t.asset = a => t.month <= Now
        BY <1>2, <1>10, <2>19
      <4>2. {q \in in.rows : q.asset = a} = RowsOf(in, a)
        BY <1>4, <4>1
      <4> QED
        BY <4>2, Zenon DEF X, RowMonths
    <3> HIDE DEF months
    <3>2. report.gaps[a] = Cardinality(past)
      BY <2>9, <2>12, <2>17, <3>1
    <3>3. Max(months(a)) = last
      BY <3>1 DEF last
    <3>4. a \in report.stale <=> Cardinality(tail) > StaleAfter
      BY <1>3, <2>10, <2>15, <2>16, <2>18, <3>3
    <3> QED
      BY <2>19, <3>2, <3>4 DEF past, tail, last, C, X
  <2>20. CASE \E t \in report.future : t.asset = a
    <3>1. PICK t \in in.rows : t.asset = a /\ t.month > Now
      BY <1>2, <2>20
    <3> DEFINE M == months(a)
               n == Max(M)
    <3>2. t.month \in M /\ M \in SUBSET Months
      BY <1>3, <3>1
    <3> HIDE DEF M
    <3>3. M # {} /\ M \in SUBSET Int /\ IsFiniteSet(M)
      <4>1. IsFiniteSet(M)
        BY <1>3, <3>2, FS_Subset
      <4> QED
        BY <1>3, <3>2, <4>1
    <3>4. n \in M /\ t.month <= n
      BY <3>2, <3>3, MaxIs
    <3>5. Now < t.month /\ t.month \in Nat /\ n \in Nat
      BY <1>3, <3>1, <3>2, <3>4
    <3> HIDE DEF n
    <3>6. ~(Now - n > StaleAfter)
      BY <1>3, <3>4, <3>5
    <3>7. a \notin report.stale
      BY <2>18, <3>6 DEF n, M
    <3> QED
      BY <2>20, <3>7
  <2> QED
    BY <2>19, <2>20
<1> QED
  BY <1>5, <1>6 DEF QualityExplainsSeries, in, report

\* The series of a request is what the entries say, and the quality report
\* explains it.  logs.go SeriesRows, series.go BuildSeries, quality.go.
THEOREM SeriesIsExplained == Spec => []SeriesExplained
<1>1. IInv => SeriesExplained
  BY Carries, QualityExplains DEF SeriesExplained
<1> QED
  BY <1>1, Invariant, PTL

-----------------------------------------------------------------------------
(* The parts add up.                                                       *)

\* What an asset adds to the value of a month, and to its payments.
Part(in, a, m) == IF m \in Covered(in, a) THEN Snap(in, a, m).value ELSE 0
Received(in, a, m) ==
  IF m \in Covered(in, a) /\ m \in RowMonths(in, a) THEN Snap(in, a, m).paid ELSE 0

Parts(in, S, m) == [a \in S |-> Part(in, a, m)]
ReceivedBy(in, S, m) == [a \in S |-> Received(in, a, m)]

LEMMA AssetsAre ==
  ASSUME NEW S \in SUBSET Assets
  PROVE  IsFiniteSet(S) /\ \A T \in SUBSET S : IsFiniteSet(T) /\ T \in SUBSET Assets
<1>1. IsFiniteSet(Assets)
  BY ConstantsAssumption
<1>2. \A T \in SUBSET S : T \in SUBSET Assets
  OBVIOUS
<1> QED
  BY <1>1, <1>2, FS_Subset

LEMMA PartsAre ==
  ASSUME NEW in, IsInput(in), NEW S \in SUBSET Assets, NEW m
  PROVE  /\ Parts(in, S, m) \in [S -> Int] /\ ReceivedBy(in, S, m) \in [S -> Int]
         /\ Value(in, S, m) = SumOf(Parts(in, S, m))
         /\ Payments(in, S, m) = SumOf(ReceivedBy(in, S, m))
<1> DEFINE L == Live(in, S, m)
           P == {b \in L : m \in RowMonths(in, b)}
           v == Parts(in, S, m)
           p == ReceivedBy(in, S, m)
<1>1. /\ L \in SUBSET S
      /\ \A a \in L : Snap(in, a, m).value \in Int /\ Snap(in, a, m).paid \in Int
  BY LiveIs DEF RowType
<1>2. \A a \in S : a \in L <=> m \in Covered(in, a)
  BY DEF Live
<1>3. Value(in, S, m) = SumOf([a \in L |-> Snap(in, a, m).value])
  BY Zenon DEF Value
<1>4. Payments(in, S, m) = SumOf([a \in P |-> Snap(in, a, m).paid])
  BY Zenon DEF Payments
<1> HIDE DEF L
<1>5. P \in SUBSET S /\ \A a \in S : a \in P <=> m \in Covered(in, a) /\ m \in RowMonths(in, a)
  BY <1>1, <1>2
<1>6. \A a \in P : a \in L
  OBVIOUS
<1> HIDE DEF P
<1>7. v \in [S -> Int]
  BY <1>1, <1>2 DEF Parts, Part
<1>8. p \in [S -> Int]
  BY <1>1, <1>5, <1>6 DEF ReceivedBy, Received
<1>9. Restrict(v, L) = [a \in L |-> Snap(in, a, m).value]
  <2>1. \A a \in L : a \in S /\ v[a] = Snap(in, a, m).value
    BY <1>1, <1>2 DEF Parts, Part
  <2> HIDE DEF v
  <2> QED
    BY <2>1 DEF Restrict
<1>10. \A a \in S \ L : v[a] = 0
  BY <1>2 DEF Parts, Part
<1>11. Restrict(p, P) = [a \in P |-> Snap(in, a, m).paid]
  <2>1. \A a \in P : a \in S /\ p[a] = Snap(in, a, m).paid
    BY <1>5 DEF ReceivedBy, Received
  <2> HIDE DEF p
  <2> QED
    BY <2>1 DEF Restrict
<1>12. \A a \in S \ P : p[a] = 0
  BY <1>5 DEF ReceivedBy, Received
<1>13. IsFiniteSet(S)
  BY AssetsAre
<1> HIDE DEF v, p
<1>14. SumOf(v) = SumOf(Restrict(v, L))
  BY <1>1, <1>7, <1>10, <1>13, SumOver
<1>15. SumOf(p) = SumOf(Restrict(p, P))
  BY <1>5, <1>8, <1>12, <1>13, SumOver
<1>16. Value(in, S, m) = SumOf(v)
  BY <1>3, <1>9, <1>14, Zenon
<1>17. Payments(in, S, m) = SumOf(p)
  BY <1>4, <1>11, <1>15, Zenon
<1> QED
  BY <1>7, <1>8, <1>16, <1>17 DEF v, p

\* The values of groups of assets add up to that of all of them.
LEMMA GroupsAddUp ==
  ASSUME NEW in, IsInput(in), NEW S \in SUBSET Assets, NEW m, NEW K, IsFiniteSet(K), NEW key \in [S -> K]
  PROVE  SumOf([k \in K |-> Value(in, {a \in S : key[a] = k}, m)]) = Value(in, S, m)
<1> DEFINE f == Parts(in, S, m)
           In(k) == {a \in S : key[a] = k}
<1>1. f \in [S -> Int] /\ IsFiniteSet(S)
  BY PartsAre, AssetsAre
<1>2. SumOf([k \in K |-> SumOf(Restrict(f, In(k)))]) = SumOf(f)
  <2> HIDE DEF f
  <2> QED
    BY <1>1, SumGroups
<1>3. ASSUME NEW k \in K PROVE Value(in, In(k), m) = SumOf(Restrict(f, In(k)))
  <2>1. In(k) \in SUBSET Assets /\ In(k) \in SUBSET S
    OBVIOUS
  <2> HIDE DEF In
  <2>2. Value(in, In(k), m) = SumOf(Parts(in, In(k), m))
    BY <2>1, PartsAre
  <2>3. Restrict(f, In(k)) = Parts(in, In(k), m)
    BY <2>1 DEF Restrict, Parts
  <2> QED
    BY <2>2, <2>3, Zenon
<1>4. Value(in, S, m) = SumOf(f)
  BY PartsAre
<1> HIDE DEF f, In
<1>5. [k \in K |-> Value(in, In(k), m)] = [k \in K |-> SumOf(Restrict(f, In(k)))]
  BY <1>3
<1>6. SumOf([k \in K |-> Value(in, In(k), m)]) = Value(in, S, m)
  BY <1>2, <1>4, <1>5, Zenon
<1> QED
  BY <1>6 DEF In

\* What a chart shows of some assets in a month that a range shows.
LEMMA ValueAtIs ==
  ASSUME NEW in, IsInput(in), NEW S \in SUBSET Assets, NEW m, in.from = NoMonth \/ m >= in.from
  PROVE  ValueAt(BuildSeries(in, S), m) = Value(in, S, m)
<1> DEFINE s == BuildSeries(in, S)
<1>1. /\ s.visible = Visible(Axis(s), in.from)
      /\ m \in Axis(s) <=> \E a \in S : m \in Covered(in, a)
  BY SeriesIs
<1>2. m \in Axis(s) => s.point[m].V = Value(in, S, m)
  BY PointIs
<1>3. Value(in, S, m) = SumOf([a \in Live(in, S, m) |-> Snap(in, a, m).value])
  BY DEF Value
<1> HIDE DEF s
<1>4. m \in s.visible <=> m \in Axis(s)
  BY <1>1 DEF Visible
<1>5. CASE m \in s.visible
  BY <1>2, <1>4, <1>5 DEF ValueAt, s
<1>6. CASE m \notin s.visible
  <2>1. Live(in, S, m) = {}
    BY <1>1, <1>4, <1>6 DEF Live
  <2> DEFINE f == [a \in Live(in, S, m) |-> Snap(in, a, m).value]
  <2>2. f \in [{} -> Int]
    BY <2>1
  <2> HIDE DEF f
  <2>3. SumOf(f) = 0
    BY <2>2, SumNothing
  <2>4. ValueAt(s, m) = 0
    BY <1>6 DEF ValueAt
  <2> QED
    BY <1>3, <2>3, <2>4 DEF f, s
<1> QED
  BY <1>5, <1>6

\* The series of the classes cover the assets in scope.
LEMMA ClassScopes ==
  ASSUME NEW in, NEW req \in Request, NEW c \in ClassesOf(req)
  PROVE  /\ c \in Classes
         /\ InScope(in, [ClassScope(req, c) EXCEPT !.asset = req.asset], "merged")
              = {a \in InScope(in, req, "merged") : ClassOf[a] = c}
<1> DEFINE q == [ClassScope(req, c) EXCEPT !.asset = req.asset]
<1>1. q.asset = req.asset /\ q.class = c
  BY DEF ClassScope, Request
<1>2. c \in Classes /\ c # NoScope /\ req.class \in {c, NoScope}
  BY ConstantsAssumption DEF ClassesOf
<1> HIDE DEF q
<1>3. \A a \in Assets : MatchesScope(a, q) <=> MatchesScope(a, req) /\ ClassOf[a] = c
  <2> SUFFICES ASSUME NEW a \in Assets
               PROVE  MatchesScope(a, q) <=> MatchesScope(a, req) /\ ClassOf[a] = c
    OBVIOUS
  <2>1. ClassOf[a] \in Classes /\ ClassOf[a] # NoScope
    BY ConstantsAssumption
  <2> QED
    BY <1>1, <1>2, <2>1 DEF MatchesScope
<1>4. InScope(in, q, "merged") = {a \in InScope(in, req, "merged") : ClassOf[a] = c}
  BY <1>3 DEF InScope
<1> QED
  BY <1>2, <1>4 DEF q

LEMMA ClassesAddUp ==
  ASSUME NEW in, IsInput(in), NEW req \in Request, NEW m, in.from = NoMonth \/ m >= in.from
  PROVE  SumOf(AllocationOverTime(in, req, m)) = Value(in, InScope(in, req, "merged"), m)
<1> DEFINE S == InScope(in, req, "merged")
           K == ClassesOf(req)
           key == [a \in S |-> ClassOf[a]]
<1>1. S \in SUBSET Assets
  BY DEF InScope
<1>2. key \in [S -> K]
  <2>1. \A a \in S : ClassOf[a] \in K
    <3> SUFFICES ASSUME NEW a \in S PROVE ClassOf[a] \in K
      OBVIOUS
    <3>1. a \in Assets /\ req.class \in {ClassOf[a], NoScope}
      BY DEF InScope, MatchesScope
    <3>2. ClassOf[a] \in Classes
      BY <3>1, ConstantsAssumption
    <3> QED
      BY <3>1, <3>2 DEF ClassesOf
  <2> HIDE DEF S, K
  <2> QED
    BY <2>1
<1>3. IsFiniteSet(K)
  <2>1. K \in SUBSET Classes /\ IsFiniteSet(Classes)
    BY ConstantsAssumption DEF ClassesOf
  <2> QED
    BY <2>1, FS_Subset
<1>4. ASSUME NEW c \in K
      PROVE  ValueAt(BuildSeries(in, InScope(in, [ClassScope(req, c) EXCEPT !.asset = req.asset], "merged")), m)
               = Value(in, {a \in S : key[a] = c}, m)
  <2> DEFINE T == InScope(in, [ClassScope(req, c) EXCEPT !.asset = req.asset], "merged")
  <2>1. T = {a \in S : ClassOf[a] = c}
    BY ClassScopes
  <2> HIDE DEF T, S
  <2>2. T = {a \in S : key[a] = c} /\ T \in SUBSET Assets
    BY <1>1, <2>1
  <2> HIDE DEF key
  <2>3. ValueAt(BuildSeries(in, T), m) = Value(in, T, m)
    BY <2>2, ValueAtIs
  <2> QED
    BY <2>2, <2>3, Zenon DEF T
<1>5. AllocationOverTime(in, req, m) = [c \in K |-> Value(in, {a \in S : key[a] = c}, m)]
  <2> HIDE DEF key, S
  <2> QED
    BY <1>4, Zenon DEF AllocationOverTime
<1> HIDE DEF S, K, key
<1>6. SumOf([c \in K |-> Value(in, {a \in S : key[a] = c}, m)]) = Value(in, S, m)
  BY <1>1, <1>2, <1>3, GroupsAddUp
<1> QED
  BY <1>5, <1>6, Zenon DEF S

\* The series of one asset.
LEMMA AssetScopeIs ==
  ASSUME NEW in, NEW req \in Request, NEW a \in Assets
  PROVE  /\ InScope(in, AssetScope(req, a), "all") = {a}
         /\ InScope(in, AssetScope(req, a), "merged") = {a}
         /\ InScope(in, AssetScope(req, a), "active") = {a} \ in.closed
<1>1. AssetScope(req, a).asset = a /\ AssetScope(req, a).class = NoScope
  BY DEF AssetScope, Request
<1>2. \A b \in Assets : MatchesScope(b, AssetScope(req, a)) <=> b = a
  BY <1>1, ConstantsAssumption DEF MatchesScope
<1> QED
  BY <1>2 DEF InScope

LEMMA PartOf ==
  ASSUME NEW in, IsInput(in), NEW a \in Assets, NEW m
  PROVE  Value(in, {a}, m) = Part(in, a, m) /\ Payments(in, {a}, m) = Received(in, a, m)
         /\ Part(in, a, m) \in Int /\ Received(in, a, m) \in Int
<1>1. {a} \in SUBSET Assets
  OBVIOUS
<1> DEFINE f == Parts(in, {a}, m)
           g == ReceivedBy(in, {a}, m)
<1>2. /\ f \in [{a} -> Int] /\ g \in [{a} -> Int]
      /\ Value(in, {a}, m) = SumOf(f) /\ Payments(in, {a}, m) = SumOf(g)
  BY <1>1, PartsAre
<1>3. f[a] = Part(in, a, m) /\ g[a] = Received(in, a, m)
  BY DEF Parts, ReceivedBy
<1> HIDE DEF f, g
<1>4. SumOf(f) = f[a] /\ SumOf(g) = g[a] /\ f[a] \in Int /\ g[a] \in Int
  BY <1>2, SumOne
<1> QED
  BY <1>2, <1>3, <1>4

LEMMA NamesAddUp ==
  ASSUME NEW in, IsInput(in), NEW C \in SUBSET Assets, NEW m
  PROVE  SumOf([n \in {NameOf[a] : a \in C} |-> Value(in, {a \in C : NameOf[a] = n}, m)]) = Value(in, C, m)
<1> DEFINE K == {NameOf[a] : a \in C}
           key == [a \in C |-> NameOf[a]]
<1>1. IsFiniteSet(C)
  BY AssetsAre
<1>2. IsFiniteSet(K)
  BY <1>1, ImageIs
<1>3. key \in [C -> K]
  OBVIOUS
<1>4. ASSUME NEW n PROVE {a \in C : key[a] = n} = {a \in C : NameOf[a] = n}
  OBVIOUS
<1> HIDE DEF K, key
<1>5. SumOf([n \in K |-> Value(in, {a \in C : key[a] = n}, m)]) = Value(in, C, m)
  BY <1>2, <1>3, GroupsAddUp
<1>6. [n \in K |-> Value(in, {a \in C : key[a] = n}, m)]
        = [n \in K |-> Value(in, {a \in C : NameOf[a] = n}, m)]
  BY <1>4
<1> QED
  BY <1>5, <1>6, Zenon DEF K

LEMMA AssetsAddUp ==
  ASSUME NEW in, IsInput(in), NEW req \in Request, NEW m, in.from = NoMonth \/ m >= in.from,
         \A a, b \in Charted(in, req) : NameOf[a] = NameOf[b] => a = b
  PROVE  SumOf(AllocationOverTimeAssets(in, req, m)) = Value(in, InScope(in, req, "merged"), m)
<1> DEFINE S == InScope(in, req, "merged")
           C == Charted(in, req)
           K == {NameOf[a] : a \in C}
           f == Parts(in, S, m)
           V(n) == ValueAt(AssetSeries(in, req, CHOOSE a \in C : NameOf[a] = n), m)
           G(n) == {a \in C : NameOf[a] = n}
<1>1. S \in SUBSET Assets /\ C \in SUBSET S
  BY DEF InScope, Charted
<1>2. ASSUME NEW a \in Assets PROVE AssetSeries(in, req, a) = BuildSeries(in, {a})
  <2>1. InScope(in, AssetScope(req, a), "all") = {a}
    BY AssetScopeIs
  <2> QED
    BY <2>1, Zenon DEF AssetSeries
<1>3. ASSUME NEW a \in S \ C PROVE f[a] = 0
  <2> DEFINE s == BuildSeries(in, {a})
  <2>1. a \in Assets /\ {a} \in SUBSET Assets /\ MatchesScope(a, req)
    BY DEF InScope
  <2>2. ~ \E k \in s.visible : s.point[k].V # 0
    BY <1>2, <1>3, <2>1, Zenon DEF Charted
  <2>3. /\ s.visible = Visible(Axis(s), in.from)
        /\ m \in Axis(s) <=> \E b \in {a} : m \in Covered(in, b)
    BY <2>1, SeriesIs
  <2>4. m \in Axis(s) => s.point[m].V = Value(in, {a}, m)
    BY <2>1, PointIs
  <2> HIDE DEF s
  <2>5. m \in Covered(in, a) => Value(in, {a}, m) = 0
    BY <2>2, <2>3, <2>4 DEF Visible
  <2>6. Part(in, a, m) = 0
    BY <2>1, <2>5, PartOf DEF Part
  <2> QED
    BY <2>6 DEF Parts
<1>4. f \in [S -> Int] /\ Value(in, S, m) = SumOf(f) /\ IsFiniteSet(S) /\ IsFiniteSet(C) /\ C \in SUBSET Assets
  BY <1>1, PartsAre, AssetsAre
<1>5. Restrict(f, C) = Parts(in, C, m)
  BY <1>1 DEF Restrict, Parts
<1>6. Value(in, C, m) = SumOf(Parts(in, C, m))
  BY <1>4, PartsAre
<1> HIDE DEF S, C, f
<1>7. SumOf(f) = SumOf(Restrict(f, C))
  BY <1>1, <1>3, <1>4, SumOver
<1>8. Value(in, C, m) = Value(in, S, m)
  BY <1>4, <1>5, <1>6, <1>7, Zenon
<1>9. ASSUME NEW n \in K PROVE V(n) = Value(in, G(n), m)
  <2> DEFINE a == CHOOSE b \in C : NameOf[b] = n
  <2>1. a \in C /\ NameOf[a] = n
    <3>1. \E b \in C : NameOf[b] = n
      OBVIOUS
    <3> QED
      BY <3>1, Zenon
  <2>2. V(n) = ValueAt(AssetSeries(in, req, a), m)
    OBVIOUS
  <2> HIDE DEF a, V
  <2>3. G(n) = {a}
    <3>1. \A b \in C : NameOf[b] = NameOf[a] => b = a
      BY <2>1 DEF C
    <3> QED
      BY <2>1, <3>1
  <2> HIDE DEF G
  <2>4. AssetSeries(in, req, a) = BuildSeries(in, {a}) /\ {a} \in SUBSET Assets
    BY <1>2, <1>4, <2>1
  <2>5. ValueAt(BuildSeries(in, {a}), m) = Value(in, {a}, m)
    BY <2>4, ValueAtIs
  <2> QED
    BY <2>2, <2>3, <2>4, <2>5, Zenon
<1>10. AllocationOverTimeAssets(in, req, m) = [n \in K |-> V(n)]
  BY Zenon DEF AllocationOverTimeAssets, C
<1>11. [n \in K |-> V(n)] = [n \in K |-> Value(in, G(n), m)]
  <2> HIDE DEF K, V, G
  <2> QED
    BY <1>9
<1>12. SumOf([n \in K |-> Value(in, G(n), m)]) = Value(in, C, m)
  <2> HIDE DEF V
  <2> QED
    BY <1>4, NamesAddUp
<1> HIDE DEF K, V
<1> QED
  BY <1>8, <1>10, <1>11, <1>12, Zenon DEF S

\* What an asset pays in the months that a range shows.
ShownMonths(in) == Visible(Months, in.from)
IncomeOf(in, a) == SumOf([m \in ShownMonths(in) |-> Received(in, a, m)])
Incomes(in, S) == [a \in S |-> IncomeOf(in, a)]

LEMMA IncomesAre ==
  ASSUME NEW in, IsInput(in), NEW S \in SUBSET Assets
  PROVE  /\ IsFiniteSet(ShownMonths(in)) /\ ShownMonths(in) \in SUBSET Months
         /\ Incomes(in, S) \in [S -> Int]
<1> DEFINE M == ShownMonths(in)
<1>1. M \in SUBSET Months
  BY DEF ShownMonths, Visible
<1>2. IsFiniteSet(M)
  BY <1>1, MonthsAre, FS_Subset
<1> HIDE DEF M
<1>3. ASSUME NEW a \in S PROVE IncomeOf(in, a) \in Int
  <2> DEFINE f == [m \in M |-> Received(in, a, m)]
  <2>1. \A m \in M : Received(in, a, m) \in Int
    BY PartOf
  <2>2. f \in [M -> Int]
    BY <2>1
  <2> HIDE DEF f
  <2>3. SumOf(f) \in Int
    BY <1>2, <2>2, SumTyped
  <2> QED
    BY <2>3 DEF f, IncomeOf, M
<1>4. Incomes(in, S) \in [S -> Int]
  BY <1>3 DEF Incomes
<1> QED
  BY <1>1, <1>2, <1>4 DEF M

\* The income of a series is that of its assets.
LEMMA IncomeIs ==
  ASSUME NEW in, IsInput(in), NEW S \in SUBSET Assets, NEW s, s = BuildSeries(in, S)
  PROVE  PaidIn(s, s.visible) = SumOf(Incomes(in, S))
<1> DEFINE M == ShownMonths(in)
           f == [m \in M |-> Payments(in, S, m)]
           t == [p \in M \X S |-> Received(in, p[2], p[1])]
           vis == s.visible
<1>1. M \in SUBSET Months /\ IsFiniteSet(M) /\ IsFiniteSet(S)
  BY IncomesAre, AssetsAre
<1>2. /\ vis = Visible(Axis(s), in.from) /\ Axis(s) \in SUBSET Months
      /\ \A m : m \in Axis(s) <=> \E a \in S : m \in Covered(in, a)
  BY SeriesIs
<1>3. vis \in SUBSET M /\ \A m \in M : m \in vis <=> m \in Axis(s)
  BY <1>2 DEF ShownMonths, Visible
<1>4. \A m \in vis : s.point[m].P = Payments(in, S, m)
  BY <1>3, PointIs
<1>5. ASSUME NEW m \in M
      PROVE  /\ f[m] = SumOf([a \in S |-> Received(in, a, m)]) /\ f[m] \in Int
             /\ m \notin vis => f[m] = 0
  <2> DEFINE g == ReceivedBy(in, S, m)
  <2>1. g \in [S -> Int] /\ Payments(in, S, m) = SumOf(g)
    BY PartsAre
  <2>2. f[m] = Payments(in, S, m)
    OBVIOUS
  <2>3. m \notin vis => \A a \in S : g[a] = 0
    BY <1>2, <1>3 DEF ReceivedBy, Received
  <2>4. g = [a \in S |-> Received(in, a, m)]
    BY DEF ReceivedBy
  <2> HIDE DEF f, g
  <2>5. f[m] \in Int
    BY <1>1, <2>1, <2>2, SumTyped
  <2>6. m \notin vis => f[m] = 0
    BY <1>1, <2>1, <2>2, <2>3, SumZero
  <2> QED
    BY <2>1, <2>2, <2>4, <2>5, <2>6, Zenon
<1>6. PaidIn(s, vis) = SumOf([m \in vis |-> Payments(in, S, m)])
  <2>1. [m \in vis |-> s.point[m].P] = [m \in vis |-> Payments(in, S, m)]
    BY <1>4
  <2> QED
    BY <2>1, Zenon DEF PaidIn
<1>7. Restrict(f, vis) = [m \in vis |-> Payments(in, S, m)]
  BY <1>3 DEF Restrict
<1>8. f = [m \in M |-> f[m]]
  OBVIOUS
<1>9. t \in Table(M, S)
  <2>1. \A a \in S : \A m \in M : Received(in, a, m) \in Int
    BY PartOf
  <2> HIDE DEF M
  <2> QED
    BY <2>1 DEF Table
<1>10. RowSums(t, M, S) = [m \in M |-> SumOf([a \in S |-> Received(in, a, m)])]
  <2>1. ASSUME NEW m \in M PROVE [a \in S |-> t[<<m, a>>]] = [a \in S |-> Received(in, a, m)]
    OBVIOUS
  <2> HIDE DEF t, M
  <2>2. ASSUME NEW m \in M PROVE SumOf([a \in S |-> t[<<m, a>>]]) = SumOf([a \in S |-> Received(in, a, m)])
    BY <2>1, Zenon
  <2> QED
    BY <2>2, Zenon DEF RowSums
<1>11. ColSums(t, M, S) = Incomes(in, S)
  <2>1. ASSUME NEW a \in S PROVE [m \in M |-> t[<<m, a>>]] = [m \in M |-> Received(in, a, m)]
    OBVIOUS
  <2> HIDE DEF t
  <2>2. ASSUME NEW a \in S PROVE SumOf([m \in M |-> t[<<m, a>>]]) = IncomeOf(in, a)
    BY <2>1, Zenon DEF IncomeOf
  <2> QED
    BY <2>2, Zenon DEF ColSums, Incomes
<1> HIDE DEF M, f, t, vis
<1>12. f = RowSums(t, M, S)
  <2>1. f = [m \in M |-> SumOf([a \in S |-> Received(in, a, m)])]
    BY <1>5, <1>8, Zenon
  <2> QED
    BY <1>10, <2>1, Zenon
<1>13. f \in [M -> Int] /\ \A m \in M \ vis : f[m] = 0
  BY <1>5, <1>8
<1>14. SumOf(f) = SumOf(Restrict(f, vis))
  BY <1>1, <1>3, <1>13, SumOver
<1>15. SumOf(RowSums(t, M, S)) = SumOf(ColSums(t, M, S))
  BY <1>1, <1>9, SumSwap
<1>16. PaidIn(s, vis) = SumOf(Incomes(in, S))
  BY <1>6, <1>7, <1>11, <1>12, <1>14, <1>15, Zenon
<1> QED
  BY <1>16 DEF vis

\* An asset that was not read of pays nothing.
LEMMA NoIncome ==
  ASSUME NEW in, IsInput(in), NEW a \in Assets, RowMonths(in, a) = {}
  PROVE  IncomeOf(in, a) = 0
<1> DEFINE M == ShownMonths(in)
           f == [m \in M |-> Received(in, a, m)]
<1>1. IsFiniteSet(M)
  BY IncomesAre
<1>2. \A m \in M : f[m] = 0
  BY DEF Received
<1>3. f \in [M -> Int]
  BY DEF Received
<1> HIDE DEF f, M
<1>4. SumOf(f) = 0
  BY <1>1, <1>2, <1>3, SumZero
<1> QED
  BY <1>4 DEF IncomeOf, f, M

\* The income by class, by asset and by year.
LEMMA IncomeAddsUp ==
  ASSUME NEW in, IsInput(in), NEW req \in Request,
         \A a \in Assets : RowMonths(in, a) # {} => MatchesScope(a, req),
         NEW s, s = BuildSeries(in, InScope(in, req, req.mode)), NEW income, income = PaidIn(s, s.visible)
  PROVE  SumOf(IncomeByClass(in, req)) = income /\ SumOf(IncomeByAsset(in, req)) = income
<1> DEFINE S == InScope(in, req, req.mode)
           T == {a \in Assets : req.mode = "active" => a \notin in.closed}
           f == Incomes(in, T)
           key == [a \in T |-> ClassOf[a]]
           G(c) == {a \in T : key[a] = c}
           series(a) == BuildSeries(in, InScope(in, AssetScope(req, a), req.mode))
<1>1. T \in SUBSET Assets /\ S \in SUBSET T /\ S \in SUBSET Assets /\ \A a \in T \ S : RowMonths(in, a) = {}
  BY DEF InScope
<1>2. income = SumOf(Incomes(in, S))
  <2> HIDE DEF S
  <2> QED
    BY <1>1, IncomeIs DEF S
<1>3. f \in [T -> Int] /\ IsFiniteSet(T) /\ IsFiniteSet(Assets) /\ IsFiniteSet(Classes)
  BY <1>1, IncomesAre, AssetsAre, ConstantsAssumption
<1>4. \A a \in T \ S : f[a] = 0
  BY <1>1, NoIncome DEF Incomes
<1>5. Restrict(f, S) = Incomes(in, S)
  BY <1>1 DEF Restrict, Incomes
<1>6. key \in [T -> Classes]
  BY ConstantsAssumption
<1>7. ASSUME NEW c \in Classes
      PROVE  InScope(in, ClassScope(req, c), req.mode) = G(c)
  <2>1. ClassScope(req, c).asset = NoScope /\ ClassScope(req, c).class = c /\ c # NoScope
    BY ConstantsAssumption DEF ClassScope, Request
  <2>2. \A a \in Assets : MatchesScope(a, ClassScope(req, c)) <=> ClassOf[a] = c
    BY <2>1 DEF MatchesScope
  <2> QED
    BY <2>2 DEF InScope
<1>8. ASSUME NEW a \in Assets
      PROVE  InScope(in, AssetScope(req, a), req.mode) = {b \in T : b = a}
  <2>1. AssetScope(req, a).asset = a /\ AssetScope(req, a).class = NoScope
    BY DEF AssetScope, Request
  <2>2. \A b \in Assets : MatchesScope(b, AssetScope(req, a)) <=> b = a
    BY <2>1, ConstantsAssumption DEF MatchesScope
  <2> QED
    BY <2>2 DEF InScope
<1> HIDE DEF S
<1>9. \A c : G(c) \in SUBSET T /\ G(c) \in SUBSET Assets
  OBVIOUS
<1>10. ASSUME NEW E \in SUBSET T PROVE Restrict(f, E) = Incomes(in, E)
  BY DEF Restrict, Incomes
<1> HIDE DEF T, f, G
<1>11. SumOf(f) = income
  <2>1. SumOf(f) = SumOf(Restrict(f, S))
    BY <1>1, <1>3, <1>4, SumOver
  <2> QED
    BY <1>2, <1>5, <2>1, Zenon
<1>12. SumOf(IncomeByClass(in, req)) = SumOf(f)
  <2>1. ASSUME NEW c \in Classes
        PROVE  LET r == BuildSeries(in, InScope(in, ClassScope(req, c), req.mode))
               IN  PaidIn(r, r.visible) = SumOf(Restrict(f, G(c)))
    <3> DEFINE r == BuildSeries(in, InScope(in, ClassScope(req, c), req.mode))
    <3>1. r = BuildSeries(in, G(c))
      BY <1>7, Zenon
    <3> HIDE DEF r
    <3>2. PaidIn(r, r.visible) = SumOf(Incomes(in, G(c)))
      BY <1>9, <3>1, IncomeIs
    <3>3. Restrict(f, G(c)) = Incomes(in, G(c))
      BY <1>9, <1>10
    <3> QED
      BY <3>2, <3>3, Zenon DEF r
  <2>2. IncomeByClass(in, req) = [c \in Classes |-> SumOf(Restrict(f, G(c)))]
    BY <2>1, Zenon DEF IncomeByClass
  <2>3. SumOf([c \in Classes |-> SumOf(Restrict(f, {a \in T : key[a] = c}))]) = SumOf(f)
    <3> HIDE DEF key
    <3> QED
      BY <1>3, <1>6, SumGroups
  <2> QED
    BY <2>2, <2>3, Zenon DEF G
<1>13. SumOf(IncomeByAsset(in, req)) = SumOf(f)
  <2> DEFINE h == IncomeByAsset(in, req)
  <2>1. ASSUME NEW a \in Assets
        PROVE  LET r == BuildSeries(in, InScope(in, AssetScope(req, a), req.mode))
               IN  PaidIn(r, r.visible) = IF a \in T THEN f[a] ELSE 0
    <3> DEFINE r == BuildSeries(in, InScope(in, AssetScope(req, a), req.mode))
               E == {b \in T : b = a}
               g == Incomes(in, E)
    <3>1. r = BuildSeries(in, E)
      BY <1>8, Zenon
    <3>2. E \in SUBSET Assets /\ E \in SUBSET T
      BY <1>1
    <3>3. IF a \in T THEN E = {a} ELSE E = {}
      OBVIOUS
    <3>4. a \in T => f[a] = IncomeOf(in, a)
      BY DEF f, Incomes
    <3>5. \A b \in E : g[b] = IncomeOf(in, b)
      BY DEF Incomes
    <3> HIDE DEF r, E, g
    <3>6. PaidIn(r, r.visible) = SumOf(g)
      BY <3>1, <3>2, IncomeIs DEF g
    <3>7. g \in [E -> Int]
      BY <3>2, IncomesAre DEF g
    <3>8. CASE a \in T
      <4>1. g \in [{a} -> Int] /\ g[a] = f[a]
        BY <3>3, <3>4, <3>5, <3>7, <3>8
      <4>2. SumOf(g) = g[a]
        BY <4>1, SumOne
      <4> QED
        BY <3>6, <3>8, <4>1, <4>2 DEF r
    <3>9. CASE a \notin T
      <4>1. g \in [{} -> Int]
        BY <3>3, <3>7, <3>9
      <4>2. SumOf(g) = 0
        BY <4>1, SumNothing
      <4> QED
        BY <3>6, <3>9, <4>2 DEF r
    <3> QED
      BY <3>8, <3>9
  <2>2. h = [a \in Assets |-> IF a \in T THEN f[a] ELSE 0]
    BY <2>1, Zenon DEF IncomeByAsset
  <2> HIDE DEF h
  <2>3. h \in [Assets -> Int] /\ \A a \in Assets \ T : h[a] = 0
    BY <1>3, <2>2
  <2>4. Restrict(h, T) = f
    BY <1>1, <1>3, <2>2 DEF Restrict
  <2>5. SumOf(h) = SumOf(Restrict(h, T))
    BY <1>1, <1>3, <2>3, SumOver
  <2> QED
    BY <2>4, <2>5, Zenon DEF h
<1> QED
  BY <1>11, <1>12, <1>13

LEMMA YearIncomesAddUp ==
  ASSUME NEW in, IsInput(in), NEW S \in SUBSET Assets, NEW s, s = BuildSeries(in, S)
  PROVE  SumOf(IncomeByYear(s)) = PaidIn(s, s.visible)
<1> DEFINE vis == s.visible
           f == [m \in vis |-> s.point[m].P]
           K == {Year(m) : m \in vis}
           key == [m \in vis |-> Year(m)]
<1>1. vis \in SUBSET Axis(s) /\ IsFiniteSet(Axis(s))
  BY SeriesIs DEF Visible
<1>2. IsFiniteSet(vis)
  BY <1>1, FS_Subset
<1>3. f \in [vis -> Int]
  <2>1. \A m \in vis : s.point[m].P \in Int
    BY <1>1, PointIs
  <2> HIDE DEF vis
  <2> QED
    BY <2>1
<1>4. \A y : MonthsOfYear(s, y) = {m \in vis : key[m] = y}
  BY DEF MonthsOfYear
<1> HIDE DEF vis
<1>5. key \in [vis -> K]
  OBVIOUS
<1>6. IsFiniteSet(K)
  <2>1. K = {key[m] : m \in vis}
    OBVIOUS
  <2> HIDE DEF key, K
  <2>2. IsFiniteSet({key[m] : m \in vis})
    BY <1>2, ImageIs
  <2> QED
    BY <2>1, <2>2, Zenon
<1>7. ASSUME NEW y PROVE PaidIn(s, MonthsOfYear(s, y)) = SumOf(Restrict(f, {m \in vis : key[m] = y}))
  <2> DEFINE E == {m \in vis : key[m] = y}
  <2>1. E \in SUBSET vis
    OBVIOUS
  <2> HIDE DEF E
  <2>2. Restrict(f, E) = [m \in E |-> s.point[m].P]
    BY <2>1 DEF Restrict
  <2>3. MonthsOfYear(s, y) = E
    BY <1>4 DEF E
  <2>4. PaidIn(s, E) = SumOf(Restrict(f, E))
    BY <2>2, Zenon DEF PaidIn
  <2> QED
    BY <2>3, <2>4, Zenon DEF E
<1>8. SumOf(f) = PaidIn(s, vis)
  BY Zenon DEF PaidIn
<1> HIDE DEF f, key
<1>9. IncomeByYear(s) = [y \in K |-> SumOf(Restrict(f, {m \in vis : key[m] = y}))]
  BY <1>7, Zenon DEF IncomeByYear, vis, K
<1> HIDE DEF K
<1>10. SumOf([y \in K |-> SumOf(Restrict(f, {m \in vis : key[m] = y}))]) = SumOf(f)
  BY <1>2, <1>3, <1>5, <1>6, SumGroups
<1> QED
  BY <1>8, <1>9, <1>10, Zenon DEF vis

\* Open assets with rows are in every month from the first one to now.
LEMMA OpenCovered ==
  ASSUME NEW in, IsInput(in), in.to # NoMonth, NEW a \in Assets
  PROVE  /\ \A m \in Covered(in, a) : m \in Months /\ m <= Now
         /\ a \notin in.closed /\ Covered(in, a) # {} => Now \in Covered(in, a)
<1>1. /\ Covered(in, a) \in SUBSET Months
      /\ \A m \in Months :
           m \in Covered(in, a) <=>
             /\ \E k \in RowMonths(in, a) : k <= m
             /\ \/ \E k \in RowMonths(in, a) : m <= k
                \/ a \notin in.closed /\ in.to # NoMonth /\ m <= Now
  BY CoveredIs
<1>2. /\ RowMonths(in, a) \in SUBSET Nat /\ \A k \in RowMonths(in, a) : k <= Now
      /\ Months \in SUBSET Nat /\ Now \in Months
  BY RowMonthsAre, MonthsAre
<1>3. ASSUME NEW m \in Covered(in, a) PROVE m \in Months /\ m <= Now
  <2>1. m \in Months /\ ((\E k \in RowMonths(in, a) : m <= k) \/ m <= Now)
    BY <1>1
  <2>2. CASE \E k \in RowMonths(in, a) : m <= k
    <3>1. PICK k \in RowMonths(in, a) : m <= k
      BY <2>2
    <3>2. m \in Nat /\ k \in Nat /\ Now \in Nat /\ k <= Now
      BY <1>2, <2>1
    <3> QED
      BY <2>1, <3>1, <3>2
  <2> QED
    BY <2>1, <2>2
<1>4. Now <= Now
  BY <1>2
<1> QED
  BY <1>1, <1>2, <1>3, <1>4

\* The tables show what open assets are worth now, if the range has begun.
Begun(in) == in.from = NoMonth \/ Now >= in.from

LEMMA OpenWorth ==
  ASSUME NEW in, IsInput(in), in.to # NoMonth, NEW S \in SUBSET (Assets \ in.closed)
  PROVE  Worth(BuildSeries(in, S)) = IF Begun(in) THEN Value(in, S, Now) ELSE 0
<1> DEFINE s == BuildSeries(in, S)
<1>1. S \in SUBSET Assets
  OBVIOUS
<1>2. /\ s.visible = Visible(Axis(s), in.from) /\ Axis(s) \in SUBSET Months
      /\ \A m : m \in Axis(s) <=> \E a \in S : m \in Covered(in, a)
  BY <1>1, SeriesIs
<1>3. /\ \A m \in Axis(s) : m <= Now
      /\ Axis(s) # {} => Now \in Axis(s)
  BY <1>1, <1>2, OpenCovered
<1>4. Now \in Axis(s) => s.point[Now].V = Value(in, S, Now)
  BY <1>1, PointIs
<1>5. Begun(in) => ValueAt(s, Now) = Value(in, S, Now)
  BY <1>1, ValueAtIs DEF Begun
<1>6. Months \in SUBSET Nat /\ Now \in Nat /\ (in.from = NoMonth \/ in.from \in Nat)
  BY MonthsAre DEF IsInput
<1> HIDE DEF s
<1>7. \A m \in s.visible : m \in Axis(s) /\ (in.from = NoMonth \/ m >= in.from)
  BY <1>2 DEF Visible
<1>8. CASE s.visible = {}
  <2>1. Worth(s) = 0
    BY <1>8 DEF Worth
  <2>2. ValueAt(s, Now) = 0
    BY <1>8 DEF ValueAt
  <2> QED
    BY <1>5, <2>1, <2>2 DEF s
<1>9. CASE s.visible # {}
  <2>1. Now \in Axis(s) /\ Begun(in)
    <3>1. PICK m \in s.visible : m \in Axis(s) /\ (in.from = NoMonth \/ m >= in.from)
      BY <1>7, <1>9
    <3>2. m \in Nat /\ m <= Now /\ Now \in Axis(s)
      BY <1>2, <1>3, <1>6, <3>1
    <3> DEFINE from == in.from
    <3>3. (from = NoMonth \/ from \in Nat) /\ (from = NoMonth \/ m >= from)
      BY <1>6, <3>1
    <3> HIDE DEF from
    <3>4. from = NoMonth \/ Now >= from
      BY <1>6, <3>2, <3>3
    <3> QED
      BY <3>2, <3>4 DEF Begun, from
  <2>2. Now \in s.visible /\ s.visible \in SUBSET Int
    <3>1. Now \in s.visible
      BY <1>2, <2>1 DEF Begun, Visible
    <3>2. \A m \in s.visible : m \in Nat
      BY <1>2, <1>6, <1>7
    <3> QED
      BY <3>1, <3>2
  <2>3. \A m \in s.visible : m <= Now
    BY <1>3, <1>7
  <2>4. Max(s.visible) = Now
    BY <2>2, <2>3, MaxIsOnly
  <2>5. Worth(s) = s.point[Now].V
    BY <1>9, <2>4, Zenon DEF Worth, Latest
  <2> QED
    BY <1>4, <2>1, <2>5 DEF s
<1> QED
  BY <1>8, <1>9

\* The tables of open assets and of their classes.
OpenOf(in, req) == {b \in Assets \ in.closed : MatchesScope(b, req)}

LEMMA TablesAddUp ==
  ASSUME NEW in, IsInput(in), in.to # NoMonth, NEW req \in Request
  PROVE  /\ SumOf(AssetValues(in, req)) = IF Begun(in) THEN Value(in, OpenOf(in, req), Now) ELSE 0
         /\ req.asset = NoScope => SumOf(ClassValues(in, req)) = SumOf(AssetValues(in, req))
<1> DEFINE O == OpenOf(in, req)
           K == ClassesOf(req)
           key == [a \in O |-> ClassOf[a]]
           G(c) == {a \in O : key[a] = c}
           rest(a) == BuildSeries(in, InScope(in, AssetScope(req, a), "active"))
           total == IF Begun(in) THEN Value(in, O, Now) ELSE 0
<1>1. O \in SUBSET Assets /\ O \in SUBSET (Assets \ in.closed) /\ \A a \in O : MatchesScope(a, req)
  BY DEF OpenOf
<1>2. IsFiniteSet(O)
  BY <1>1, AssetsAre
<1>3. ASSUME NEW a \in O
      PROVE  Worth(BuildSeries(in, InScope(in, AssetScope(req, a), "active")))
               = IF Begun(in) THEN Part(in, a, Now) ELSE 0
  <2>1. InScope(in, AssetScope(req, a), "active") = {a} \ in.closed /\ {a} \ in.closed = {a}
    BY <1>1, AssetScopeIs
  <2>2. {a} \in SUBSET (Assets \ in.closed) /\ a \in Assets
    BY <1>1
  <2>3. Worth(BuildSeries(in, {a})) = IF Begun(in) THEN Value(in, {a}, Now) ELSE 0
    BY <2>2, OpenWorth
  <2>4. Value(in, {a}, Now) = Part(in, a, Now)
    BY <2>2, PartOf
  <2> QED
    BY <2>1, <2>3, <2>4, Zenon
<1>4. AssetValues(in, req) = [a \in O |-> IF Begun(in) THEN Part(in, a, Now) ELSE 0]
  BY <1>3, Zenon DEF AssetValues, OpenOf
<1>5. SumOf(AssetValues(in, req)) = total
  <2>1. CASE Begun(in)
    <3>1. AssetValues(in, req) = Parts(in, O, Now)
      BY <1>4, <2>1 DEF Parts
    <3>2. Value(in, O, Now) = SumOf(Parts(in, O, Now))
      BY <1>1, PartsAre
    <3> QED
      BY <2>1, <3>1, <3>2, Zenon
  <2>2. CASE ~Begun(in)
    <3> DEFINE f == AssetValues(in, req)
    <3>1. f \in [O -> Int] /\ \A a \in O : f[a] = 0
      BY <1>4, <2>2
    <3> HIDE DEF f, O
    <3>2. SumOf(f) = 0
      BY <1>2, <3>1, SumZero
    <3> QED
      BY <2>2, <3>2 DEF f
  <2> QED
    BY <2>1, <2>2
<1>6. ASSUME req.asset = NoScope PROVE SumOf(ClassValues(in, req)) = total
  <2>1. ASSUME NEW a \in O PROVE ClassOf[a] \in K
    <3>1. ClassOf[a] \in Classes /\ req.class \in {ClassOf[a], NoScope}
      BY <1>1, ConstantsAssumption DEF MatchesScope
    <3> QED
      BY <3>1 DEF ClassesOf
  <2>2. key \in [O -> K]
    BY <2>1
  <2>3. IsFiniteSet(K) /\ K \in SUBSET Classes
    <3>1. K \in SUBSET Classes /\ IsFiniteSet(Classes)
      BY ConstantsAssumption DEF ClassesOf
    <3> QED
      BY <3>1, FS_Subset
  <2>4. ASSUME NEW c \in K
        PROVE  Worth(BuildSeries(in, InScope(in, ClassScope(req, c), "active")))
                 = IF Begun(in) THEN Value(in, G(c), Now) ELSE 0
    <3>1. InScope(in, ClassScope(req, c), "active") = G(c)
      <4>1. ClassScope(req, c).asset = NoScope /\ ClassScope(req, c).class = c
        BY DEF ClassScope, Request
      <4>2. c # NoScope /\ req.class \in {c, NoScope}
        BY <2>3, ConstantsAssumption DEF ClassesOf
      <4>3. \A a \in Assets : MatchesScope(a, ClassScope(req, c)) <=> MatchesScope(a, req) /\ ClassOf[a] = c
        <5> SUFFICES ASSUME NEW a \in Assets
                     PROVE  MatchesScope(a, ClassScope(req, c)) <=> MatchesScope(a, req) /\ ClassOf[a] = c
          OBVIOUS
        <5>1. ClassOf[a] \in Classes /\ ClassOf[a] # NoScope
          BY ConstantsAssumption
        <5> QED
          BY <1>6, <4>1, <4>2, <5>1 DEF MatchesScope
      <4>4. G(c) = {a \in O : ClassOf[a] = c}
        OBVIOUS
      <4> HIDE DEF G
      <4> QED
        BY <4>3, <4>4 DEF InScope, OpenOf
    <3>2. G(c) \in SUBSET (Assets \ in.closed)
      BY <1>1
    <3> HIDE DEF G
    <3>3. Worth(BuildSeries(in, G(c))) = IF Begun(in) THEN Value(in, G(c), Now) ELSE 0
      BY <3>2, OpenWorth
    <3> QED
      BY <3>1, <3>3, Zenon
  <2>5. ClassValues(in, req) = [c \in K |-> IF Begun(in) THEN Value(in, G(c), Now) ELSE 0]
    <3> HIDE DEF G
    <3> QED
      BY <2>4, Zenon DEF ClassValues
  <2> HIDE DEF O, K, key
  <2>6. CASE Begun(in)
    <3>1. SumOf([c \in K |-> Value(in, {a \in O : key[a] = c}, Now)]) = Value(in, O, Now)
      BY <1>1, <2>2, <2>3, GroupsAddUp
    <3>2. ClassValues(in, req) = [c \in K |-> Value(in, {a \in O : key[a] = c}, Now)]
      BY <2>5, <2>6, Zenon
    <3> QED
      BY <2>6, <3>1, <3>2, Zenon
  <2>7. CASE ~Begun(in)
    <3> DEFINE f == ClassValues(in, req)
    <3>1. f \in [K -> Int] /\ \A c \in K : f[c] = 0
      BY <2>5, <2>7
    <3> HIDE DEF f
    <3>2. SumOf(f) = 0
      BY <2>3, <3>1, SumZero
    <3> QED
      BY <2>7, <3>2 DEF f
  <2> QED
    BY <2>6, <2>7
<1> QED
  BY <1>5, <1>6 DEF O

\* The value of the assets of a range's last month that are still open.
LEMMA OpenAtTheEnd ==
  ASSUME NEW in, IsInput(in), in.to # NoMonth, NEW req \in Request,
         NEW S, S = InScope(in, req, req.mode), NEW s, s = BuildSeries(in, S), s.visible # {}
  PROVE  Latest(s).V - ClosedRest(in, req, s) = IF Begun(in) THEN Value(in, OpenOf(in, req), Now) ELSE 0
<1> DEFINE vis == s.visible
           m == Max(vis)
           O == OpenOf(in, req)
           C == S \cap in.closed
           f == Parts(in, S, m)
<1>1. S \in SUBSET Assets /\ S \ C = O /\ O \in SUBSET (Assets \ in.closed) /\ C \in SUBSET S
  BY DEF InScope, OpenOf
<1>2. /\ vis = Visible(Axis(s), in.from) /\ Axis(s) \in SUBSET Months /\ IsFiniteSet(Axis(s))
      /\ \A k : k \in Axis(s) <=> \E a \in S : k \in Covered(in, a)
  BY <1>1, SeriesIs
<1>3. Months \in SUBSET Nat /\ Now \in Nat /\ (in.from = NoMonth \/ in.from \in Nat)
  BY MonthsAre DEF IsInput
<1>4. \A k : k \in vis <=> k \in Axis(s) /\ (in.from = NoMonth \/ k >= in.from)
  BY <1>2 DEF Visible
<1>5. Latest(s).V = s.point[m].V /\ ClosedRest(in, req, s) = Value(in, C, m)
  BY Zenon DEF Latest, ClosedRest
<1> HIDE DEF vis, O, C
<1>6. m \in vis /\ \A k \in vis : k <= m
  <2>1. vis \in SUBSET Axis(s)
    BY <1>4
  <2>2. IsFiniteSet(vis)
    BY <1>2, <2>1, FS_Subset
  <2>3. vis \in SUBSET Int /\ vis # {}
    <3>1. \A k \in vis : k \in Nat
      BY <1>2, <1>3, <2>1
    <3>2. vis # {}
      BY DEF vis
    <3> QED
      BY <3>1, <3>2
  <2> QED
    BY <2>2, <2>3, MaxIs
<1> HIDE DEF m
<1>7. m \in Axis(s) /\ m \in Nat /\ (in.from = NoMonth \/ m >= in.from)
  BY <1>2, <1>3, <1>4, <1>6
<1>8. m <= Now
  BY <1>1, <1>2, <1>7, OpenCovered
<1>9. Begun(in)
  <2> DEFINE from == in.from
  <2>1. (from = NoMonth \/ from \in Nat) /\ (from = NoMonth \/ m >= from)
    BY <1>3, <1>7
  <2> HIDE DEF from
  <2>2. from = NoMonth \/ Now >= from
    BY <1>3, <1>7, <1>8, <2>1
  <2> QED
    BY <2>2 DEF Begun, from
<1>10. s.point[m].V = Value(in, S, m)
  BY <1>1, <1>7, PointIs
<1>11. Value(in, S, m) = Value(in, C, m) + Value(in, O, m)
  <2>1. f \in [S -> Int] /\ IsFiniteSet(S) /\ Value(in, S, m) = SumOf(f)
    BY <1>1, PartsAre, AssetsAre
  <2>2. C \in SUBSET Assets /\ O \in SUBSET Assets /\ O \in SUBSET S
    BY <1>1
  <2>3. Value(in, C, m) = SumOf(Parts(in, C, m)) /\ Value(in, O, m) = SumOf(Parts(in, O, m))
    BY <2>2, PartsAre
  <2>4. Restrict(f, C) = Parts(in, C, m) /\ Restrict(f, O) = Parts(in, O, m)
    BY <1>1, <2>2 DEF Restrict, Parts
  <2> HIDE DEF f
  <2>5. SumOf(f) = SumOf(Restrict(f, C)) + SumOf(Restrict(f, S \ C))
    BY <1>1, <2>1, SumJoin
  <2>6. SumOf(f) = SumOf(Restrict(f, C)) + SumOf(Restrict(f, O))
    BY <1>1, <2>5, Zenon
  <2> QED
    BY <2>1, <2>3, <2>4, <2>6, Zenon
<1>12. Value(in, O, m) = Value(in, O, Now)
  <2>1. CASE m = Now
    BY <2>1
  <2>2. CASE m # Now
    <3>1. Now \notin Axis(s)
      <4>1. Now \in Axis(s) => Now <= m
        BY <1>4, <1>6, <1>9 DEF Begun
      <4> QED
        BY <1>3, <1>7, <1>8, <2>2, <4>1
    <3>2. ASSUME NEW a \in O PROVE Covered(in, a) = {}
      <4>1. a \in S /\ a \in Assets /\ a \notin in.closed
        BY <1>1
      <4> QED
        BY <1>2, <3>1, <4>1, OpenCovered
    <3>3. Parts(in, O, m) = Parts(in, O, Now)
      BY <3>2 DEF Parts, Part
    <3>4. O \in SUBSET Assets
      BY <1>1
    <3>5. Value(in, O, m) = SumOf(Parts(in, O, m)) /\ Value(in, O, Now) = SumOf(Parts(in, O, Now))
      BY <3>4, PartsAre
    <3> QED
      BY <3>3, <3>5, Zenon
  <2> QED
    BY <2>1, <2>2
<1>13. Value(in, C, m) \in Int /\ Value(in, O, m) \in Int
  <2>1. C \in SUBSET Assets /\ O \in SUBSET Assets
    BY <1>1
  <2> QED
    BY <2>1, SumsTyped
<1>14. Latest(s).V - ClosedRest(in, req, s) = Value(in, O, Now)
  BY <1>5, <1>10, <1>11, <1>12, <1>13
<1> QED
  BY <1>9, <1>14 DEF O

\* The parts add up to the whole, whatever was written between the queries.
\* breakdown.go, income.go.
LEMMA AddsUp == IInv => PartsAddUp
<1> SUFFICES ASSUME IInv, Answered PROVE PartsAddUp
  BY DEF PartsAddUp
<1> DEFINE in == TheInput
           req == reader.req
           S == InScope(in, req, req.mode)
           A == InScope(in, req, "merged")
           s == BuildSeries(in, S)
           all == BuildSeries(in, A)
<1>1. TheSeries = s
  BY DEF IInv, TheSeries, Asked, TheInput
<1>2. /\ IsInput(in) /\ req \in Request /\ S \in SUBSET Assets /\ A \in SUBSET Assets
      /\ in.to # NoMonth <=> req.to = NoMonth
  BY TheInputIs, ScopeIs DEF IsRead
<1>3. ASSUME NEW a \in Assets, RowMonths(in, a) # {} PROVE MatchesScope(a, req)
  <2>1. PICK r : r \in RowsOf(in, a)
    BY <1>3 DEF RowMonths
  <2>2. r.month \in MonthsRead(reader, a)
    BY <2>1, TheInputIs, RowsOfRead DEF TheInput
  <2> QED
    BY <2>2 DEF MonthsRead
<1> HIDE DEF in, req, S, A
<1>4. ASSUME NEW m \in all.visible
      PROVE  /\ SumOf(AllocationOverTime(in, req, m)) = all.point[m].V
             /\ (\A a, b \in Charted(in, req) : NameOf[a] = NameOf[b] => a = b) =>
                  SumOf(AllocationOverTimeAssets(in, req, m)) = all.point[m].V
  <2>1. all.visible = Visible(Axis(all), in.from)
    BY <1>2, SeriesIs
  <2>2. m \in Axis(all) /\ (in.from = NoMonth \/ m >= in.from)
    BY <2>1 DEF Visible
  <2>3. all.point[m].V = Value(in, A, m)
    BY <1>2, <2>2, PointIs
  <2>4. SumOf(AllocationOverTime(in, req, m)) = Value(in, A, m)
    BY <1>2, <2>2, ClassesAddUp DEF A
  <2>5. (\A a, b \in Charted(in, req) : NameOf[a] = NameOf[b] => a = b) =>
          SumOf(AllocationOverTimeAssets(in, req, m)) = Value(in, A, m)
    BY <1>2, <2>2, AssetsAddUp DEF A
  <2> QED
    BY <2>3, <2>4, <2>5
<1> DEFINE income == PaidIn(s, s.visible)
<1>5. SumOf(IncomeByClass(in, req)) = income /\ SumOf(IncomeByAsset(in, req)) = income
  BY <1>2, <1>3, IncomeAddsUp DEF S
<1>6. SumOf(IncomeByYear(s)) = income
  BY <1>2, YearIncomesAddUp
<1>7. ASSUME req.to = NoMonth
      PROVE  /\ s.visible # {} =>
                  Latest(s).V - ClosedRest(in, req, s) = SumOf(AssetValues(in, req))
             /\ req.asset = NoScope => SumOf(ClassValues(in, req)) = SumOf(AssetValues(in, req))
  <2>1. in.to # NoMonth
    BY <1>2, <1>7
  <2>2. /\ SumOf(AssetValues(in, req)) = IF Begun(in) THEN Value(in, OpenOf(in, req), Now) ELSE 0
        /\ req.asset = NoScope => SumOf(ClassValues(in, req)) = SumOf(AssetValues(in, req))
    BY <1>2, <2>1, TablesAddUp
  <2> HIDE DEF s
  <2>3. s.visible # {} =>
          Latest(s).V - ClosedRest(in, req, s) = IF Begun(in) THEN Value(in, OpenOf(in, req), Now) ELSE 0
    BY <1>2, <2>1, OpenAtTheEnd DEF s, S
  <2> QED
    BY <2>2, <2>3
<1> HIDE DEF s, all, income
<1>8. LET named == \A a, b \in Charted(in, req) : NameOf[a] = NameOf[b] => a = b
      IN  /\ \A m \in all.visible :
               /\ SumOf(AllocationOverTime(in, req, m)) = all.point[m].V
               /\ named => SumOf(AllocationOverTimeAssets(in, req, m)) = all.point[m].V
          /\ SumOf(IncomeByClass(in, req)) = income
          /\ SumOf(IncomeByAsset(in, req)) = income
          /\ SumOf(IncomeByYear(s)) = income
          /\ req.to = NoMonth =>
               /\ s.visible # {} =>
                    Latest(s).V - ClosedRest(in, req, s) = SumOf(AssetValues(in, req))
               /\ req.asset = NoScope => SumOf(ClassValues(in, req)) = SumOf(AssetValues(in, req))
  BY <1>4, <1>5, <1>6, <1>7
<1> QED
  BY <1>1, <1>8, Zenon DEF PartsAddUp, in, req, all, A, income

\* The parts of every answer add up to the whole.  breakdown.go, income.go.
THEOREM PartsAlwaysAddUp == Spec => []PartsAddUp
<1> QED
  BY AddsUp, Invariant, PTL

-----------------------------------------------------------------------------
(* What holds of a series, whatever it was built from.                     *)

IsPoint(p) == p.V \in Int /\ p.D \in Int /\ p.P \in Int /\ p.F \in Int

IsSeries(s) ==
  /\ s = [point |-> s.point, visible |-> s.visible]
  /\ Axis(s) \in SUBSET Months /\ s.visible \in SUBSET Axis(s)
  /\ \A k \in Axis(s) : \A m \in s.visible : m <= k => k \in s.visible
  /\ \A m \in Axis(s) : IsPoint(s.point[m])
  /\ \A m \in Axis(s) :
       LET before == {k \in Axis(s) : k < m}
       IN  s.point[m].F = s.point[m].D - IF before = {} THEN 0 ELSE s.point[Max(before)].D

LEMMA BuiltIs ==
  ASSUME NEW in, IsInput(in), NEW S \in SUBSET Assets
  PROVE  IsSeries(BuildSeries(in, S))
<1> DEFINE s == BuildSeries(in, S)
           from == in.from
<1>1. Axis(s) \in SUBSET Months /\ s.visible = Visible(Axis(s), from)
  BY SeriesIs
<1>2. \A m \in Axis(s) : s.point[m].V \in Int /\ s.point[m].D \in Int /\ s.point[m].P \in Int
  BY PointIs
<1>3. \A m \in Axis(s) :
        LET before == {k \in Axis(s) : k < m}
        IN  /\ s.point[m].F \in Int
            /\ s.point[m].F = s.point[m].D - IF before = {} THEN 0 ELSE s.point[Max(before)].D
  BY FlowIs
<1>4. Months \in SUBSET Nat /\ (from = NoMonth \/ from \in Nat)
  BY MonthsAre DEF IsInput
<1>5. s = [point |-> s.point, visible |-> s.visible]
  BY DEF BuildSeries
<1> HIDE DEF s, from
<1>6. s.visible \in SUBSET Axis(s)
  BY <1>1 DEF Visible
<1>7. \A k \in Axis(s) : \A m \in s.visible : m <= k => k \in s.visible
  <2> SUFFICES ASSUME NEW k \in Axis(s), NEW m \in s.visible, m <= k PROVE k \in s.visible
    OBVIOUS
  <2>1. k \in Nat /\ m \in Nat /\ (from = NoMonth \/ m >= from)
    BY <1>1, <1>4, <1>6 DEF Visible
  <2>2. from = NoMonth \/ k >= from
    BY <1>4, <2>1
  <2> QED
    BY <1>1, <2>2 DEF Visible
<1>8. \A m \in Axis(s) : IsPoint(s.point[m])
  BY <1>2, <1>3 DEF IsPoint
<1>9. IsSeries(s)
  BY <1>1, <1>3, <1>5, <1>6, <1>7, <1>8 DEF IsSeries
<1> QED
  BY <1>9 DEF s

LEMMA SeriesSets ==
  ASSUME NEW s, IsSeries(s)
  PROVE  /\ Axis(s) \in SUBSET Nat /\ IsFiniteSet(Axis(s))
         /\ \A S \in SUBSET Axis(s) : /\ S \in SUBSET Nat /\ S \in SUBSET Int /\ IsFiniteSet(S)
                                      /\ S # {} => /\ Min(S) \in S /\ Max(S) \in S
                                                   /\ \A m \in S : Min(S) <= m /\ m <= Max(S)
         /\ s.visible \in SUBSET Axis(s)
<1>1. Axis(s) \in SUBSET Nat /\ IsFiniteSet(Axis(s))
  BY MonthsAre, FS_Subset DEF IsSeries
<1>2. ASSUME NEW S \in SUBSET Axis(s)
      PROVE  /\ S \in SUBSET Nat /\ S \in SUBSET Int /\ IsFiniteSet(S)
             /\ S # {} => /\ Min(S) \in S /\ Max(S) \in S
                          /\ \A m \in S : Min(S) <= m /\ m <= Max(S)
  <2>1. S \in SUBSET Nat /\ S \in SUBSET Int
    BY <1>1
  <2>2. IsFiniteSet(S)
    BY <1>1, FS_Subset
  <2> QED
    BY <2>1, <2>2, MinIs, MaxIs
<1> QED
  BY <1>1, <1>2 DEF IsSeries

\* The month before one.
PrevMonth(s, m) == Max({k \in Axis(s) : k < m})

LEMMA BeforeIs ==
  ASSUME NEW s, IsSeries(s), NEW m \in Axis(s), NEW j \in Axis(s), j < m
  PROVE  /\ PrevMonth(s, m) \in Axis(s) /\ PrevMonth(s, m) < m
         /\ \A k \in Axis(s) : k < m => k <= PrevMonth(s, m)
         /\ PointBefore(s, m) = s.point[PrevMonth(s, m)]
         /\ s.point[m].F = s.point[m].D - s.point[PrevMonth(s, m)].D
<1> DEFINE S == {k \in Axis(s) : k < m}
           p == Max(S)
<1>1. S \in SUBSET Axis(s) /\ S # {}
  OBVIOUS
<1>2. s.point[m].F = s.point[m].D - IF S = {} THEN 0 ELSE s.point[p].D
  BY DEF IsSeries
<1>3. p \in S /\ \A k \in S : k <= p
  <2> HIDE DEF S
  <2> QED
    BY <1>1, SeriesSets
<1>4. PrevMonth(s, m) = p /\ PointBefore(s, m) = s.point[p]
  BY DEF PrevMonth, PointBefore
<1> HIDE DEF p
<1>5. p \in Axis(s) /\ p < m /\ \A k \in Axis(s) : k < m => k <= p
  BY <1>3
<1> HIDE DEF S
<1>6. s.point[m].F = s.point[m].D - s.point[p].D
  BY <1>1, <1>2
<1> QED
  BY <1>4, <1>5, <1>6

LEMMA BaselineIs ==
  ASSUME NEW s, IsSeries(s), HasBaseline(s)
  PROVE  /\ Baseline(s) \in Axis(s) /\ Baseline(s) \notin s.visible
         /\ \A m \in s.visible : Baseline(s) < m
         /\ s.visible # {} => /\ Baseline(s) = PrevMonth(s, Min(s.visible))
                              /\ PointBefore(s, Min(s.visible)) = s.point[Baseline(s)]
<1> DEFINE S == Axis(s) \ s.visible
           b == Max(S)
           m == Min(s.visible)
<1>1. S \in SUBSET Axis(s) /\ S # {}
  BY SeriesSets DEF HasBaseline
<1>2. b \in S /\ \A k \in S : k <= b
  <2> HIDE DEF S
  <2> QED
    BY <1>1, SeriesSets
<1>3. Baseline(s) = b
  BY DEF Baseline
<1> HIDE DEF b
<1>4. b \in Axis(s) /\ b \notin s.visible /\ Axis(s) \in SUBSET Nat /\ s.visible \in SUBSET Axis(s)
  BY <1>2, SeriesSets
<1>5. ASSUME NEW k \in s.visible PROVE b < k
  <2>1. b \in Nat /\ k \in Nat
    BY <1>4
  <2>2. ~(k <= b)
    BY <1>4 DEF IsSeries
  <2> QED
    BY <2>1, <2>2
<1>6. ASSUME s.visible # {}
      PROVE  b = PrevMonth(s, m) /\ PointBefore(s, m) = s.point[b]
  <2>1. m \in s.visible /\ \A k \in s.visible : m <= k
    BY <1>4, <1>6, SeriesSets
  <2> HIDE DEF m
  <2>2. b < m /\ m \in Axis(s) /\ m \in Nat /\ b \in Nat
    BY <1>4, <1>5, <2>1
  <2> DEFINE p == PrevMonth(s, m)
  <2>3. /\ p \in Axis(s) /\ p < m /\ \A k \in Axis(s) : k < m => k <= p
        /\ PointBefore(s, m) = s.point[p]
    BY <1>4, <2>2, BeforeIs
  <2> HIDE DEF p
  <2>4. p \in Nat /\ b <= p /\ p \notin s.visible
    <3>1. p \in Nat /\ b <= p
      BY <1>4, <2>2, <2>3
    <3>2. ~(m <= p)
      BY <2>2, <2>3, <3>1
    <3> QED
      BY <2>1, <3>1, <3>2
  <2>5. p <= b
    BY <1>2, <2>3, <2>4
  <2>6. p = b
    BY <2>2, <2>4, <2>5
  <2> QED
    BY <2>3, <2>6 DEF p
<1> QED
  BY <1>3, <1>4, <1>5, <1>6 DEF m

-----------------------------------------------------------------------------
(* Ranges.                                                                 *)

\* A range changes what is visible, and nothing else.
LEMMA FromSame ==
  ASSUME NEW in, IsInput(in), NEW q, q.rows = in.rows, q.closed = in.closed, q.to = in.to,
         q.from = NoMonth, NEW S \in SUBSET Assets
  PROVE  /\ IsInput(q)
         /\ BuildSeries(q, S).point = BuildSeries(in, S).point
         /\ BuildSeries(q, S).visible = Axis(BuildSeries(in, S))
<1> DEFINE s == BuildSeries(in, S)
           t == BuildSeries(q, S)
<1>1. IsInput(q)
  BY DEF IsInput
<1>2. ASSUME NEW a PROVE RowsOf(in, a) = RowsOf(q, a)
  BY Zenon DEF RowsOf
<1>3. ASSUME NEW a PROVE RowMonths(in, a) = RowMonths(q, a)
  BY <1>2, Zenon DEF RowMonths
<1>4. ASSUME NEW a PROVE Covered(in, a) = Covered(q, a)
  BY <1>3 DEF Covered
<1>5. ASSUME NEW a, NEW k PROVE Snap(in, a, k) = Snap(q, a, k)
  BY <1>2, <1>3 DEF Snap
<1>6. ASSUME NEW a, NEW k PROVE Agree(in, q, a, k)
  BY <1>3, <1>4, <1>5, Zenon DEF Agree
<1>7. Axis(s) = Axis(t)
  <2>1. \A m : m \in Axis(s) <=> \E a \in S : m \in Covered(in, a)
    BY SeriesIs
  <2>2. \A m : m \in Axis(t) <=> \E a \in S : m \in Covered(q, a)
    BY <1>1, SeriesIs
  <2> HIDE DEF s, t
  <2>3. \A m : m \in Axis(s) <=> m \in Axis(t)
    BY <1>4, <2>1, <2>2, Zenon
  <2> QED
    BY <2>3
<1>8. ASSUME NEW m \in Axis(s) PROVE t.point[m] = s.point[m]
  <2>1. m \in Int
    BY SeriesIs
  <2>2. \A a \in S : \A k \in Months : k <= m => Agree(in, q, a, k)
    BY <1>6
  <2> QED
    BY <1>1, <2>1, <2>2, PointsAgree
<1>9. /\ s.point = [m \in Axis(s) |-> s.point[m]]
      /\ t.point = [m \in Axis(t) |-> t.point[m]]
  <2>1. s.point = [m \in Axis(s) |-> [V |-> Value(in, S, m), D |-> Deposits(in, S, m),
                                    P |-> Payments(in, S, m), F |-> Flow(in, S, Axis(s), m)]]
    BY SeriesIs
  <2>2. t.point = [m \in Axis(t) |-> [V |-> Value(q, S, m), D |-> Deposits(q, S, m),
                                    P |-> Payments(q, S, m), F |-> Flow(q, S, Axis(t), m)]]
    BY <1>1, SeriesIs
  <2> HIDE DEF s, t
  <2>3. ASSUME NEW f, NEW D, NEW E(_), f = [m \in D |-> E(m)] PROVE f = [m \in D |-> f[m]]
    BY <2>3
  <2> QED
    BY <2>1, <2>2
<1>10. t.visible = Visible(Axis(t), NoMonth)
  BY <1>1, SeriesIs
<1> HIDE DEF s, t
<1>11. t.point = s.point
  <2>1. [m \in Axis(s) |-> s.point[m]] = [m \in Axis(t) |-> t.point[m]]
    BY <1>7, <1>8
  <2> QED
    BY <1>9, <2>1, Zenon
<1>12. t.visible = Axis(s)
  BY <1>7, <1>10 DEF Visible
<1> QED
  BY <1>1, <1>11, <1>12 DEF s, t

\* The legs of a range with a month before it are its own months, each with a
\* month before it.
LEMMA RangeLegsAre ==
  ASSUME NEW s, IsSeries(s), HasBaseline(s)
  PROVE  LegMonths(s) = s.visible /\ ~Seeded(s)
<1> DEFINE b == Baseline(s)
           C == ChainMonths(s)
<1>1. C = s.visible \cup {b}
  BY Zenon DEF ChainMonths
<1>2. b \in Axis(s) /\ b \notin s.visible /\ \A m \in s.visible : b < m
  BY BaselineIs
<1>3. ~Seeded(s)
  BY DEF Seeded
<1>4. C \in SUBSET Int /\ b \in C
  BY <1>1, <1>2, SeriesSets
<1>5. Min(C) = b
  <2>1. \A m \in C : b <= m
    BY <1>1, <1>2, <1>4
  <2> HIDE DEF b, C
  <2> QED
    BY <1>4, <2>1, MinIsOnly
<1>6. LegMonths(s) = C \ {Min(C)}
  <2> HIDE DEF C
  <2>1. LegMonths(s) = IF C = {} \/ Seeded(s) THEN C ELSE C \ {Min(C)}
    BY Zenon DEF LegMonths, C
  <2> QED
    BY <1>3, <1>4, <2>1
<1> HIDE DEF b, C
<1> QED
  BY <1>1, <1>2, <1>3, <1>5, <1>6

\* What a range shows and what all of the months show, of one point function.
LEMMA FactorsSame ==
  ASSUME NEW s, IsSeries(s), NEW t, IsSeries(t), t.point = s.point, t.visible = Axis(s),
         NEW m \in LegMonths(s)
  PROVE  m \in LegMonths(t) /\ SameAs(Chain(s)[m].g, Chain(t)[m].g)
<1>1. Axis(t) = Axis(s) /\ ~HasBaseline(t)
  BY Zenon DEF Axis, HasBaseline
<1>2. CASE ~HasBaseline(s)
  <2>1. s = t
    BY <1>2 DEF HasBaseline, IsSeries
  <2> QED
    BY <2>1 DEF SameAs
<1>3. CASE HasBaseline(s)
  <2> DEFINE A == Axis(s)
             b == Baseline(s)
  <2>1. LegMonths(s) = s.visible /\ ~Seeded(s) /\ m \in s.visible
    BY <1>3, RangeLegsAre
  <2>2. b \in A /\ b < m /\ m \in A /\ b \in Nat /\ m \in Nat
    BY <1>3, <2>1, BaselineIs, SeriesSets
  <2>3. ChainMonths(t) = A
    BY <1>1 DEF ChainMonths
  <2>4. m # Min(A)
    <3>1. Min(A) <= b /\ Min(A) \in Nat
      BY <2>2, SeriesSets
    <3> HIDE DEF A, b
    <3> QED
      BY <2>2, <3>1
  <2>5. m \in LegMonths(t)
    <3> HIDE DEF A
    <3>1. LegMonths(t) = IF A = {} \/ Seeded(t) THEN A ELSE A \ {Min(A)}
      BY <2>3, Zenon DEF LegMonths
    <3> QED
      BY <2>2, <2>4, <3>1
  <2>6. Chain(s)[m] = Leg(s, m)
    BY <2>1 DEF Chain
  <2>7. Chain(t)[m] = Leg(t, m)
    <3>1. m # Min(t.visible)
      BY <2>4, Zenon DEF A
    <3> QED
      BY <2>5, <3>1 DEF Chain
  <2>8. PointBefore(s, m) = PointBefore(t, m)
    BY <1>1, Zenon DEF PointBefore
  <2>9. Leg(s, m).g = Leg(t, m).g
    <3> DEFINE base == PointBefore(s, m).V + s.point[m].F
    <3>1. Leg(s, m).g = IF base <= 0 THEN One ELSE <<s.point[m].V, base>>
      BY DEF Leg
    <3>2. Leg(t, m).g = IF PointBefore(t, m).V + t.point[m].F <= 0 THEN One
                        ELSE <<t.point[m].V, PointBefore(t, m).V + t.point[m].F>>
      BY DEF Leg
    <3>3. /\ PointBefore(t, m).V + t.point[m].F = base
          /\ t.point[m].V = s.point[m].V
      BY <2>8, Zenon
    <3> QED
      BY <3>1, <3>2, <3>3, Zenon
  <2> QED
    BY <2>5, <2>6, <2>7, <2>9, Zenon DEF SameAs
<1> QED
  BY <1>2, <1>3

LEMMA SplitSame ==
  ASSUME NEW s, IsSeries(s), NEW t, IsSeries(t), t.point = s.point, t.visible = Axis(s),
         NEW m \in DOMAIN Decompose(s)
  PROVE  Decompose(s)[m] = Decompose(t)[m]
<1>1. Axis(t) = Axis(s) /\ ~HasBaseline(t)
  BY Zenon DEF Axis, HasBaseline
<1>2. CASE ~HasBaseline(s)
  <2>1. s = t
    BY <1>2 DEF HasBaseline, IsSeries
  <2> QED
    BY <2>1
<1>3. CASE HasBaseline(s)
  <2> DEFINE A == Axis(s)
             b == Baseline(s)
  <2>1. m \in s.visible
    BY <1>3 DEF Decompose
  <2>2. b \in A /\ b < m /\ m \in A /\ b \in Nat /\ m \in Nat
    BY <1>3, <2>1, BaselineIs, SeriesSets
  <2>3. m # Min(A)
    <3>1. Min(A) <= b /\ Min(A) \in Nat
      BY <2>2, SeriesSets
    <3> HIDE DEF A, b
    <3> QED
      BY <2>2, <3>1
  <2>4. PointBefore(s, m) = PointBefore(t, m)
    BY <1>1, Zenon DEF PointBefore
  <2>5. Decompose(s)[m] = [newMoney |-> s.point[m].F,
                           growth |-> s.point[m].V - PointBefore(s, m).V - s.point[m].F]
    BY <1>3, <2>1 DEF Decompose
  <2>6. m \in t.visible /\ m # Min(t.visible)
    BY <2>2, <2>3, Zenon DEF A
  <2>7. Decompose(t)[m] = [newMoney |-> t.point[m].F,
                           growth |-> t.point[m].V - PointBefore(t, m).V - t.point[m].F]
    BY <1>1, <2>6 DEF Decompose
  <2> QED
    BY <2>4, <2>5, <2>7, Zenon
<1> QED
  BY <1>2, <1>3

LEMMA YearIs ==
  /\ \A m \in Nat : Year(m) \in Nat
  /\ \A k, m \in Nat : k <= m => Year(k) <= Year(m)
<1>1. \A m \in Nat : m \div 12 \in Nat
  OBVIOUS
<1>2. \A k, m \in Nat : k <= m => k \div 12 <= m \div 12
  OBVIOUS
<1> QED
  BY <1>1, <1>2 DEF Year

\* The months of a year that has any.
LEMMA MonthsOfYearAre ==
  ASSUME NEW s, IsSeries(s), NEW y \in DOMAIN YearTable(s)
  PROVE  LET M == MonthsOfYear(s, y)
         IN  /\ M \in SUBSET s.visible /\ M \in SUBSET Axis(s) /\ M \in SUBSET Nat /\ IsFiniteSet(M)
             /\ M # {} /\ Min(M) \in M /\ Max(M) \in M /\ y \in Nat
             /\ \A m \in M : Min(M) <= m /\ m <= Max(M) /\ Year(m) = y
             /\ YearTable(s)[y] = YearRow(s, y)
<1> DEFINE M == MonthsOfYear(s, y)
<1>1. y \in {Year(m) : m \in s.visible} /\ YearTable(s)[y] = YearRow(s, y)
  BY DEF YearTable
<1>2. M \in SUBSET s.visible /\ \A m \in M : Year(m) = y
  BY DEF MonthsOfYear
<1>3. M # {}
  BY <1>1 DEF MonthsOfYear
<1> HIDE DEF M
<1>4. M \in SUBSET Axis(s)
  BY <1>2, SeriesSets
<1>5. /\ M \in SUBSET Nat /\ IsFiniteSet(M) /\ Min(M) \in M /\ Max(M) \in M
      /\ \A m \in M : Min(M) <= m /\ m <= Max(M)
  BY <1>3, <1>4, SeriesSets
<1>6. y \in Nat
  BY <1>2, <1>5, YearIs
<1> QED
  BY <1>1, <1>2, <1>3, <1>4, <1>5, <1>6 DEF M

\* What a year opens with, after its first month or a month before the range.
LEMMA OpensWith ==
  ASSUME NEW s, IsSeries(s), NEW y \in DOMAIN YearTable(s)
  PROVE  LET lo == Min(MonthsOfYear(s, y))
         IN  YearRow(s, y).start = IF lo = Min(s.visible) /\ ~HasBaseline(s)
                                   THEN s.point[lo].V - s.point[lo].F ELSE PointBefore(s, lo).V
<1> DEFINE lo == Min(MonthsOfYear(s, y))
<1>1. YearRow(s, y).start = IF lo = Min(s.visible) THEN OpeningValue(s) ELSE PointBefore(s, lo).V
  BY DEF YearRow
<1>2. s.visible # {}
  BY MonthsOfYearAre
<1> HIDE DEF lo
<1>3. CASE lo # Min(s.visible)
  BY <1>1, <1>3, Zenon DEF lo
<1>4. CASE lo = Min(s.visible) /\ HasBaseline(s)
  <2>1. YearRow(s, y).start = s.point[Baseline(s)].V
    BY <1>1, <1>4, Zenon DEF OpeningValue
  <2>2. PointBefore(s, lo) = s.point[Baseline(s)]
    BY <1>2, <1>4, BaselineIs
  <2> QED
    BY <1>4, <2>1, <2>2, Zenon DEF lo
<1>5. CASE lo = Min(s.visible) /\ ~HasBaseline(s)
  <2>1. OpeningValue(s) = s.point[lo].V - s.point[lo].F
    BY <1>5, Zenon DEF OpeningValue
  <2> QED
    BY <1>1, <1>5, <2>1, Zenon DEF lo
<1> QED
  BY <1>3, <1>4, <1>5

LEMMA YearsSame ==
  ASSUME NEW s, IsSeries(s), NEW t, IsSeries(t), t.point = s.point, t.visible = Axis(s),
         NEW from \in Nat, s.visible = Visible(Axis(s), from), from # NoMonth,
         NEW y \in DOMAIN YearTable(s), y > Year(from)
  PROVE  YearTable(s)[y] = YearTable(t)[y]
<1>1. Axis(t) = Axis(s) /\ ~HasBaseline(t)
  BY Zenon DEF Axis, HasBaseline
<1>2. CASE ~HasBaseline(s)
  <2>1. s = t
    BY <1>2 DEF HasBaseline, IsSeries
  <2> QED
    BY <2>1
<1>3. CASE HasBaseline(s)
  <2> DEFINE A == Axis(s)
             b == Baseline(s)
             M == MonthsOfYear(s, y)
             lo == Min(M)
  <2>1. /\ M \in SUBSET s.visible /\ M \in SUBSET A /\ M \in SUBSET Nat
        /\ M # {} /\ lo \in M /\ y \in Nat /\ YearTable(s)[y] = YearRow(s, y)
    BY MonthsOfYearAre
  <2>2. M = MonthsOfYear(t, y)
    <3>1. ASSUME NEW m \in A, Year(m) = y PROVE m \in s.visible
      <4>1. m \in Nat
        BY SeriesSets
      <4>2. ~(m <= from)
        BY <2>1, <3>1, <4>1, YearIs
      <4>3. m >= from
        BY <4>1, <4>2
      <4> QED
        BY <4>3 DEF Visible
    <3>2. MonthsOfYear(t, y) = {m \in A : Year(m) = y}
      BY DEF MonthsOfYear
    <3> QED
      BY <2>1, <3>1, <3>2 DEF MonthsOfYear
  <2>3. y \in DOMAIN YearTable(t)
    <3>1. lo \in A /\ Year(lo) = y
      BY <2>1 DEF MonthsOfYear
    <3> HIDE DEF lo, A
    <3> QED
      BY <3>1 DEF YearTable, A
  <2>4. YearTable(t)[y] = YearRow(t, y)
    BY <2>3, MonthsOfYearAre
  <2>5. b \in A /\ b < lo /\ lo \in A /\ b \in Nat /\ lo \in Nat
    BY <1>3, <2>1, BaselineIs, SeriesSets
  <2>6. lo # Min(A)
    <3>1. Min(A) <= b /\ Min(A) \in Nat
      BY <2>5, SeriesSets
    <3> HIDE DEF A, b, lo
    <3> QED
      BY <2>5, <3>1
  <2>7. YearRow(s, y).start = PointBefore(s, lo).V
    BY <1>3, OpensWith
  <2>8. YearRow(t, y).start = PointBefore(t, lo).V
    <3>1. lo # Min(t.visible)
      BY <2>6, Zenon DEF A
    <3>2. YearRow(t, y).start = IF Min(MonthsOfYear(t, y)) = Min(t.visible) /\ ~HasBaseline(t)
                                THEN t.point[Min(MonthsOfYear(t, y))].V - t.point[Min(MonthsOfYear(t, y))].F
                                ELSE PointBefore(t, Min(MonthsOfYear(t, y))).V
      BY <2>3, OpensWith
    <3> QED
      BY <2>2, <3>1, <3>2, Zenon
  <2>9. PointBefore(s, lo) = PointBefore(t, lo)
    BY <1>1, Zenon DEF PointBefore
  <2> DEFINE row(start, point) ==
               LET end      == point[Max(M)].V
                   deposits == SumOf([m \in M |-> point[m].F])
                   income   == SumOf([m \in M |-> point[m].P])
               IN  [start |-> start, end |-> end, deposits |-> deposits, income |-> income,
                    growth |-> end - start - deposits + income]
  <2>10. YearRow(s, y) = row(YearRow(s, y).start, s.point)
    BY DEF YearRow, PaidIn
  <2>11. YearRow(t, y) = row(YearRow(t, y).start, t.point)
    <3> HIDE DEF M
    <3> QED
      BY <2>2 DEF YearRow, PaidIn
  <2> HIDE DEF row, M, lo
  <2> QED
    BY <2>1, <2>4, <2>7, <2>8, <2>9, <2>10, <2>11, Zenon
<1> QED
  BY <1>2, <1>3

LEMMA UnboundedIs ==
  ASSUME NEW r, IsReader(r), IsRead(r)
  PROVE  LET u == Unbounded(r)
         IN  /\ IsRead(u)
             /\ u.log = r.log /\ u.paid = r.paid /\ u.barred = r.barred /\ u.closed = r.closed
             /\ u.req.asset = r.req.asset /\ u.req.class = r.req.class
             /\ u.req.from = NoMonth /\ u.req.to = NoMonth
<1> DEFINE q == [r.req EXCEPT !.from = NoMonth, !.to = NoMonth]
           u == [r EXCEPT !.req = q]
<1>1. r.req \in Request
  BY DEF IsRead
<1>2. /\ q \in Request /\ q.asset = r.req.asset /\ q.class = r.req.class
      /\ q.from = NoMonth /\ q.to = NoMonth
  BY <1>1 DEF Request
<1>3. Unbounded(r) = u
  <2>1. Unbounded(r) = [r EXCEPT !.req = [[@ EXCEPT !.from = NoMonth] EXCEPT !.to = NoMonth]]
    BY DEF Unbounded, IsReader
  <2> QED
    BY <2>1
<1> HIDE DEF q
<1>4. /\ u.log = r.log /\ u.paid = r.paid /\ u.barred = r.barred /\ u.closed = r.closed
      /\ u.req = q
  BY DEF IsReader
<1> HIDE DEF u
<1>5. IsRead(u)
  BY <1>2, <1>4 DEF IsRead
<1> QED
  BY <1>2, <1>3, <1>4, <1>5

\* Up to a "to" that is not in the future, a range has the rows of the whole, and
\* an asset whose rows in the range have not ended counts for the same.
LEMMA ToAgrees ==
  ASSUME NEW r, IsReader(r), IsRead(r), r.req.to # NoMonth, r.req.to <= Now,
         NEW x, x = Input(r), NEW y, y = Input(Unbounded(r)),
         NEW a \in Assets, NEW m \in Months, m <= r.req.to,
         RowMonths(x, a) = {} \/ \E j \in RowMonths(x, a) : m <= j
  PROVE  Agree(x, y, a, m)
<1> DEFINE u == Unbounded(r)
           n == r.req.to
           X == RowMonths(x, a)
           Y == RowMonths(y, a)
<1>1. /\ IsRead(u) /\ u.log = r.log /\ u.paid = r.paid /\ u.barred = r.barred /\ u.closed = r.closed
      /\ u.req.asset = r.req.asset /\ u.req.class = r.req.class /\ u.req.to = NoMonth
  BY UnboundedIs
<1>2. Months \in SUBSET Nat /\ Now \in Nat /\ n \in Months /\ n \in Int /\ n <= Now /\ Now # NoMonth
  BY MonthsAre DEF IsRead, Request
<1>3. IsInput(x) /\ IsInput(y) /\ x.closed = r.closed /\ y.closed = r.closed /\ x.to = NoMonth /\ y.to = Now
  <2>1. IsInput(x) /\ IsInput(y)
    BY <1>1, InputIs
  <2>2. x.closed = r.closed /\ x.to = NoMonth
    BY DEF Input
  <2>3. y.closed = u.closed /\ y.to = Now
    <3> HIDE DEF u
    <3>1. y = Input(u)
      BY DEF u
    <3> QED
      BY <1>1, <3>1 DEF Input
  <2> QED
    BY <1>1, <2>1, <2>2, <2>3
<1> HIDE DEF u
<1>4. ASSUME NEW k \in Months, k <= n
      PROVE  /\ k \in MonthsRead(r, a) <=> k \in MonthsRead(u, a)
             /\ k \in MonthsRead(r, a) => RowAt(r, a, k) = RowAt(u, a, k)
  <2>1. MatchesScope(a, r.req) <=> MatchesScope(a, u.req)
    BY <1>1, Zenon DEF MatchesScope
  <2>2. \A i \in Months : i <= n => (InQuery(i, r.req) <=> InQuery(i, u.req))
    BY <1>1 DEF InQuery
  <2>3. a \in r.barred <=> a \in u.barred
    BY <1>1
  <2>4. \A p \in Assets \X Months \X Days :
           p[1] = a /\ p[2] <= n => /\ p \in DOMAIN r.log <=> p \in DOMAIN u.log
                                    /\ p \in DOMAIN r.log => r.log[p] = u.log[p]
    BY <1>1, Zenon
  <2>5. \A i \in Months : i <= n => r.paid[<<a, i>>] = u.paid[<<a, i>>]
    BY <1>1, Zenon
  <2> QED
    BY <1>1, <1>2, <1>4, <2>1, <2>2, <2>3, <2>4, <2>5, RowAtAgrees
<1>5. ASSUME NEW t
      PROVE  /\ t \in RowsOf(x, a) <=> /\ t.asset = a /\ t.month \in MonthsRead(r, a)
                                       /\ t = RowAt(r, a, t.month)
             /\ t \in RowsOf(y, a) <=> /\ t.asset = a /\ t.month \in MonthsRead(u, a)
                                       /\ t = RowAt(u, a, t.month) /\ t.month <= Now
  <2>1. y = Input(u)
    BY DEF u
  <2> QED
    BY <1>1, <2>1, RowsOfRead
<1>6. \A k \in MonthsRead(r, a) : k \in Months /\ k <= n
  <2> SUFFICES ASSUME NEW k \in MonthsRead(r, a) PROVE k \in Months /\ k <= n
    OBVIOUS
  <2>1. k \in Months /\ InQuery(k, r.req)
    BY DEF MonthsRead, EntryMonths, PaidOnlyMonths
  <2> QED
    BY <2>1 DEF InQuery
<1>7. \A t : t.month <= n => (t \in RowsOf(x, a) <=> t \in RowsOf(y, a))
  <2> SUFFICES ASSUME NEW t, t.month <= n PROVE t \in RowsOf(x, a) <=> t \in RowsOf(y, a)
    OBVIOUS
  <2>1. t.month \in MonthsRead(u, a) => t.month \in Months
    BY DEF MonthsRead
  <2>2. t.month \in Months => /\ t.month \in MonthsRead(r, a) <=> t.month \in MonthsRead(u, a)
                              /\ t.month \in MonthsRead(r, a) => RowAt(r, a, t.month) = RowAt(u, a, t.month)
                              /\ t.month <= Now
    <3> SUFFICES ASSUME t.month \in Months
                 PROVE  /\ t.month \in MonthsRead(r, a) <=> t.month \in MonthsRead(u, a)
                        /\ t.month \in MonthsRead(r, a) => RowAt(r, a, t.month) = RowAt(u, a, t.month)
                        /\ t.month <= Now
      OBVIOUS
    <3>1. /\ t.month \in MonthsRead(r, a) <=> t.month \in MonthsRead(u, a)
          /\ t.month \in MonthsRead(r, a) => RowAt(r, a, t.month) = RowAt(u, a, t.month)
      BY <1>4, Zenon
    <3>2. t.month \in Nat
      BY <1>2
    <3>3. t.month <= Now
      BY <1>2, <3>2
    <3> QED
      BY <3>1, <3>3, Zenon
  <2>3. t \in RowsOf(x, a) => t \in RowsOf(y, a)
    BY <1>5, <1>6, <2>2
  <2>4. t \in RowsOf(y, a) => t \in RowsOf(x, a)
    BY <1>5, <2>1, <2>2
  <2> QED
    BY <2>3, <2>4
<1>8. /\ X \in SUBSET Months /\ Y \in SUBSET Months
      /\ \A t \in RowsOf(x, a) : t \in x.rows /\ t.month \in X
      /\ \A t \in RowsOf(y, a) : t \in y.rows /\ t.month \in Y
      /\ \A j \in X : \E t \in RowsOf(x, a) : t.month = j
      /\ \A j \in Y : \E t \in RowsOf(y, a) : t.month = j
  BY <1>3, RowMonthsAre
<1> HIDE DEF X, Y
<1>9. \A j \in X : j <= n
  BY <1>5, <1>6, <1>8
<1>10. \A j \in Months : j <= n => (j \in X <=> j \in Y)
  BY <1>7, <1>8
<1>11. /\ m \in Covered(x, a) <=> (\E j \in X : j <= m) /\ (\E j \in X : m <= j)
       /\ m \in Covered(y, a) <=>
            (\E j \in Y : j <= m) /\ ((\E j \in Y : m <= j) \/ (a \notin y.closed /\ m <= Now))
  BY <1>2, <1>3, CoveredIs DEF X, Y
<1>12. m \in Nat /\ n \in Nat /\ m <= n
  BY <1>2
<1> HIDE DEF n
<1>13. \A j \in Months : j <= m => j <= n
  BY <1>2, <1>12
<1>14. (\E j \in X : j <= m) <=> (\E j \in Y : j <= m)
  BY <1>8, <1>10, <1>13
<1>15. m \in Covered(x, a) <=> m \in Covered(y, a)
  <2>1. (\E j \in X : j <= m) => \E j \in X : m <= j
    BY DEF X
  <2>2. (\E j \in X : m <= j) => \E j \in Y : m <= j
    BY <1>8, <1>9, <1>10
  <2> QED
    BY <1>11, <1>14, <2>1, <2>2
<1>16. ASSUME m \in Covered(x, a) PROVE Snap(x, a, m) = Snap(y, a, m)
  <2>1. \E j \in X : j <= m
    BY <1>11, <1>16
  <2> DEFINE t == Snap(x, a, m)
  <2>2. /\ t \in RowsOf(x, a) /\ t.month \in X /\ t.month <= m
        /\ \A j \in X : j <= m => j <= t.month
    BY <1>3, <2>1, SnapIs DEF X
  <2> HIDE DEF t
  <2>3. t.month \in Months /\ t.month <= n
    BY <1>8, <1>13, <2>2
  <2>4. t \in RowsOf(y, a)
    BY <1>7, <2>2, <2>3 DEF n
  <2>5. \A j \in Y : j <= m => j <= t.month
    BY <1>8, <1>10, <1>13, <2>2
  <2>6. Snap(y, a, m) = t
    BY <1>3, <2>2, <2>4, <2>5, SnapIsOnly DEF Y
  <2> QED
    BY <2>6 DEF t
<1>17. m \in X <=> m \in Y
  BY <1>10, <1>12
<1> QED
  BY <1>15, <1>16, <1>17 DEF Agree, X, Y

\* A range shows what the whole history shows.
\* series.go VisibleFrom and ChainPoints, twrr.go, service.go.
LEMMA RangesAgree == IInv => RangeAgrees
<1> SUFFICES ASSUME IInv, Answered PROVE RangeAgrees
  BY DEF RangeAgrees
<1> DEFINE in == TheInput
           req == reader.req
           S == InScope(in, req, req.mode)
           q == [in EXCEPT !.from = NoMonth]
           w == Input(Unbounded(reader))
           s == BuildSeries(in, S)
           t == BuildSeries(q, S)
           whole == Asked(w, req)
           ended(m) == \E a \in S : RowMonths(in, a) # {} /\ Max(RowMonths(in, a)) < m
<1>1. TheSeries = s
  BY DEF IInv, TheSeries, Asked, TheInput
<1>2. /\ IsReader(reader) /\ IsRead(reader) /\ IsInput(in) /\ in.closed = reader.closed
      /\ in.from = req.from /\ req \in Request /\ S \in SUBSET Assets
  BY TheInputIs, ScopeIs DEF IInv, IsRead
<1>3. q.rows = in.rows /\ q.closed = in.closed /\ q.to = in.to /\ q.from = NoMonth
  BY DEF TheInput, Input
<1> HIDE DEF in, q, S
<1>4. IsInput(q) /\ t.point = s.point /\ t.visible = Axis(s)
  BY <1>2, <1>3, FromSame
<1>5. IsSeries(s) /\ IsSeries(t)
  BY <1>2, <1>4, BuiltIs
<1>6. s.visible = Visible(Axis(s), req.from)
  <2>1. s.visible = Visible(Axis(s), in.from)
    BY <1>2, SeriesIs
  <2> QED
    BY <1>2, <2>1, Zenon
<1>7. ASSUME req.to # NoMonth, req.to <= Now, NEW m \in s.visible, ~ended(m)
      PROVE  s.point[m].V = whole.point[m].V
  <2>1. m \in Axis(s) /\ m \in Months
    BY <1>5 DEF IsSeries
  <2>2. s.point[m].V = Value(in, S, m) /\ \E a \in S : m \in Covered(in, a)
    BY <1>2, <2>1, PointIs, SeriesIs
  <2>3. in = Input(reader)
    BY DEF in, TheInput
  <2>4. ASSUME NEW a \in S
        PROVE  RowMonths(in, a) = {} \/ \E j \in RowMonths(in, a) : m <= j
    <3> DEFINE X == RowMonths(in, a)
    <3>1. X \in SUBSET Nat /\ X \in SUBSET Int /\ IsFiniteSet(X)
      BY <1>2, RowMonthsAre
    <3>2. m \in Nat
      BY <2>1, MonthsAre
    <3>3. X = {} \/ ~(Max(X) < m)
      BY <1>7
    <3> HIDE DEF X
    <3>4. ASSUME X # {} PROVE \E j \in X : m <= j
      <4> DEFINE j == Max(X)
      <4>1. j \in X
        BY <3>1, <3>4, MaxIs
      <4>2. j \in Nat /\ ~(j < m)
        BY <3>1, <3>3, <3>4, <4>1
      <4> HIDE DEF j
      <4>3. m <= j
        BY <3>2, <4>2
      <4> QED
        BY <4>1, <4>3
    <3>5. X = {} \/ \E j \in X : m <= j
      BY <3>4
    <3> QED
      BY <3>5 DEF X
  <2>5. m <= req.to
    <3>1. PICK a \in S : m \in Covered(in, a)
      BY <2>2
    <3>2. PICK j \in RowMonths(in, a) : m <= j
      BY <1>2, <2>4, <3>1, CoveredIs
    <3>3. PICK r : r \in RowsOf(in, a) /\ r.month = j
      BY <1>2, <3>2, RowMonthsAre
    <3>4. j \in MonthsRead(reader, a) /\ a \in Assets
      BY <1>2, <2>3, <3>3, RowsOfRead
    <3>5. InQuery(j, req) /\ j \in Months
      BY <3>4 DEF MonthsRead, EntryMonths, PaidOnlyMonths
    <3>6. j <= req.to /\ j \in Nat /\ m \in Nat /\ req.to \in Nat
      BY <1>2, <1>7, <2>1, <3>5, MonthsAre DEF InQuery, Request
    <3> QED
      BY <3>2, <3>6
  <2>6. \A a \in S : Agree(in, w, a, m)
    <3> SUFFICES ASSUME NEW a \in S PROVE Agree(in, w, a, m)
      OBVIOUS
    <3>1. a \in Assets /\ (RowMonths(in, a) = {} \/ \E j \in RowMonths(in, a) : m <= j)
      BY <1>2, <2>4
    <3> HIDE DEF w, req
    <3> QED
      BY <1>2, <1>7, <2>1, <2>3, <2>5, <3>1, ToAgrees DEF w, req
  <2>7. Value(in, S, m) = Value(w, S, m)
    <3> HIDE DEF w
    <3> QED
      BY <2>6, SumsAgree
  <2>8. IsInput(w) /\ w.closed = in.closed
    <3>1. IsRead(Unbounded(reader)) /\ Unbounded(reader).closed = reader.closed
      BY <1>2, UnboundedIs
    <3>2. w.closed = Unbounded(reader).closed
      BY DEF Input
    <3> QED
      BY <1>2, <3>1, <3>2, InputIs
  <2> HIDE DEF w
  <2>9. InScope(w, req, req.mode) = S
    BY <2>8, Zenon DEF InScope, S
  <2>10. whole = BuildSeries(w, S)
    BY <2>9, Zenon DEF Asked
  <2>11. m \in Axis(BuildSeries(w, S))
    <3>1. \E a \in S : m \in Covered(w, a)
      BY <2>2, <2>6 DEF Agree
    <3> QED
      BY <1>2, <2>8, <3>1, SeriesIs
  <2>12. BuildSeries(w, S).point[m].V = Value(w, S, m)
    BY <1>2, <2>8, <2>11, PointIs
  <2> QED
    BY <2>2, <2>7, <2>10, <2>12, Zenon
<1> HIDE DEF w, s, t, whole
<1>8. \A m \in s.visible : s.point[m] = t.point[m]
  BY <1>4, Zenon
<1>9. \A m \in LegMonths(s) : m \in LegMonths(t) /\ SameAs(Chain(s)[m].g, Chain(t)[m].g)
  BY <1>4, <1>5, FactorsSame
<1>10. \A y \in DOMAIN YearTable(s) :
         req.from # NoMonth /\ y > Year(req.from) => YearTable(s)[y] = YearTable(t)[y]
  <2> SUFFICES ASSUME NEW y \in DOMAIN YearTable(s), req.from # NoMonth, y > Year(req.from)
               PROVE  YearTable(s)[y] = YearTable(t)[y]
    OBVIOUS
  <2>1. req.from \in Nat
    BY <1>2, MonthsAre DEF Request
  <2> HIDE DEF req
  <2> QED
    BY <1>4, <1>5, <1>6, <2>1, YearsSame
<1>11. \A m \in DOMAIN Decompose(s) : Decompose(s)[m] = Decompose(t)[m]
  BY <1>4, <1>5, SplitSame
<1>12. /\ \A m \in s.visible : s.point[m] = t.point[m]
       /\ \A m \in LegMonths(s) : m \in LegMonths(t) /\ SameAs(Chain(s)[m].g, Chain(t)[m].g)
       /\ \A y \in DOMAIN YearTable(s) :
            req.from # NoMonth /\ y > Year(req.from) => YearTable(s)[y] = YearTable(t)[y]
       /\ \A m \in DOMAIN Decompose(s) : Decompose(s)[m] = Decompose(t)[m]
       /\ req.to # NoMonth /\ req.to <= Now =>
            \A m \in s.visible : ~ended(m) => s.point[m].V = whole.point[m].V
  BY <1>7, <1>8, <1>9, <1>10, <1>11
<1> HIDE DEF ended
<1> QED
  BY <1>1, <1>12, Zenon DEF RangeAgrees, in, req, S, q, w, t, whole, ended

-----------------------------------------------------------------------------
(* Tables.                                                                 *)

\* Visible months without a gap among them.
IsSpan(s, T) ==
  /\ T \in SUBSET s.visible /\ T # {}
  /\ \A k \in Axis(s) : Min(T) <= k /\ k <= Max(T) => k \in T

LEMMA SpanIs ==
  ASSUME NEW s, IsSeries(s), NEW T, IsSpan(s, T)
  PROVE  /\ T \in SUBSET Axis(s) /\ T \in SUBSET Nat /\ T \in SUBSET Int /\ IsFiniteSet(T)
         /\ Min(T) \in T /\ Max(T) \in T /\ \A m \in T : Min(T) <= m /\ m <= Max(T)
         /\ \A m \in T : m # Min(T) =>
              /\ PrevMonth(s, m) \in T /\ PrevMonth(s, m) < m
              /\ \A k \in T : k < m => k <= PrevMonth(s, m)
              /\ PointBefore(s, m) = s.point[PrevMonth(s, m)]
              /\ s.point[m].F = s.point[m].D - s.point[PrevMonth(s, m)].D
<1>1. T \in SUBSET Axis(s) /\ T # {}
  BY SeriesSets DEF IsSpan
<1>2. /\ T \in SUBSET Nat /\ T \in SUBSET Int /\ IsFiniteSet(T)
      /\ Min(T) \in T /\ Max(T) \in T /\ \A m \in T : Min(T) <= m /\ m <= Max(T)
  BY <1>1, SeriesSets
<1>3. ASSUME NEW m \in T, m # Min(T)
      PROVE  /\ PrevMonth(s, m) \in T /\ PrevMonth(s, m) < m
             /\ \A k \in T : k < m => k <= PrevMonth(s, m)
             /\ PointBefore(s, m) = s.point[PrevMonth(s, m)]
             /\ s.point[m].F = s.point[m].D - s.point[PrevMonth(s, m)].D
  <2> DEFINE lo == Min(T)
             hi == Max(T)
             p == PrevMonth(s, m)
  <2>1. lo \in T /\ lo <= m /\ m <= hi /\ lo \in Nat /\ hi \in Nat /\ m \in Nat /\ lo # m
    BY <1>2, <1>3
  <2> HIDE DEF lo, hi
  <2>2. lo < m /\ lo \in Axis(s) /\ m \in Axis(s)
    BY <1>1, <2>1
  <2>3. /\ p \in Axis(s) /\ p < m /\ \A k \in Axis(s) : k < m => k <= p
        /\ PointBefore(s, m) = s.point[p]
        /\ s.point[m].F = s.point[m].D - s.point[p].D
    BY <2>2, BeforeIs
  <2> HIDE DEF p
  <2>4. p \in Nat /\ lo <= p
    BY <2>2, <2>3, SeriesSets
  <2>5. lo <= p /\ p <= hi
    BY <2>1, <2>3, <2>4
  <2>6. p \in T
    BY <2>3, <2>5 DEF IsSpan, lo, hi
  <2>7. \A k \in T : k < m => k <= p
    BY <1>1, <2>3
  <2> QED
    BY <2>3, <2>6, <2>7 DEF p
<1> QED
  BY <1>1, <1>2, <1>3

\* What the months of a span add to the value adds up.
LEMMA SpanAddsUp ==
  ASSUME NEW s, IsSeries(s), NEW T, IsSpan(s, T), NEW c \in Int, NEW g \in [T -> Int],
         g[Min(T)] = s.point[Min(T)].V - c,
         \A m \in T : m # Min(T) => g[m] = s.point[m].V - PointBefore(s, m).V
  PROVE  SumOf(g) = s.point[Max(T)].V - c
<1> DEFINE lo == Min(T)
           hi == Max(T)
           v == [m \in T |-> s.point[m].V]
<1>1. /\ T \in SUBSET Axis(s) /\ T \in SUBSET Nat /\ T \in SUBSET Int /\ IsFiniteSet(T)
      /\ lo \in T /\ hi \in T /\ \A m \in T : lo <= m /\ m <= hi
  BY SpanIs
<1>2. v \in [T -> Int]
  BY <1>1 DEF IsSeries, IsPoint
<1>3. ASSUME NEW m \in T
      PROVE  LET before == {k \in T : k < m}
             IN  g[m] = v[m] - IF before = {} THEN c ELSE v[Max(before)]
  <2> DEFINE B == {k \in T : k < m}
  <2>1. v[m] = s.point[m].V
    OBVIOUS
  <2>2. CASE m = lo
    <3>1. B = {}
      <4>1. \A k \in T : m <= k /\ k \in Nat /\ m \in Nat
        BY <1>1, <2>2
      <4> HIDE DEF lo
      <4> QED
        BY <4>1
    <3>2. g[m] = v[m] - c
      BY <2>1, <2>2
    <3> HIDE DEF B, v
    <3>3. g[m] = v[m] - IF B = {} THEN c ELSE v[Max(B)]
      BY <3>1, <3>2, Zenon
    <3> QED
      BY <3>3 DEF B
  <2>3. CASE m # lo
    <3> DEFINE p == PrevMonth(s, m)
    <3>1. /\ p \in T /\ p < m /\ \A k \in T : k < m => k <= p
          /\ PointBefore(s, m) = s.point[p]
      BY <2>3, SpanIs
    <3> HIDE DEF p
    <3>2. p \in B /\ B \in SUBSET Int /\ \A k \in B : k <= p
      BY <1>1, <3>1
    <3>3. v[p] = s.point[p].V
      BY <3>1
    <3>4. g[m] = v[m] - v[p]
      <4>1. g[m] = s.point[m].V - PointBefore(s, m).V
        BY <2>3
      <4> QED
        BY <2>1, <3>1, <3>3, <4>1, Zenon
    <3> HIDE DEF B, v
    <3>5. B # {} /\ Max(B) = p
      BY <3>2, MaxIsOnly
    <3>6. g[m] = v[m] - IF B = {} THEN c ELSE v[Max(B)]
      BY <3>4, <3>5, Zenon
    <3> QED
      BY <3>6 DEF B
  <2> QED
    BY <2>2, <2>3
<1> HIDE DEF v, hi, lo
<1>4. \A k \in T : k <= hi
  BY <1>1
<1>5. AreSteps(g, v, c, T)
  BY <1>3 DEF AreSteps
<1>6. SumOf(g) = v[hi] - c
  BY <1>1, <1>2, <1>4, <1>5, SumOfSteps
<1> QED
  BY <1>1, <1>6 DEF v, hi

LEMMA SpansAre ==
  ASSUME NEW s, IsSeries(s)
  PROVE  /\ s.visible # {} => IsSpan(s, s.visible)
         /\ \A y \in DOMAIN YearTable(s) : IsSpan(s, MonthsOfYear(s, y))
<1>1. ASSUME s.visible # {} PROVE IsSpan(s, s.visible)
  <2>1. Min(s.visible) \in s.visible
    BY <1>1, SeriesSets
  <2>2. \A k \in Axis(s) : Min(s.visible) <= k => k \in s.visible
    BY <2>1 DEF IsSeries
  <2> QED
    BY <1>1, <2>2 DEF IsSpan
<1>2. ASSUME NEW y \in DOMAIN YearTable(s) PROVE IsSpan(s, MonthsOfYear(s, y))
  <2> DEFINE M == MonthsOfYear(s, y)
  <2>1. /\ M \in SUBSET s.visible /\ M \in SUBSET Nat /\ M # {} /\ Min(M) \in M /\ Max(M) \in M /\ y \in Nat
        /\ \A m \in M : Year(m) = y
    BY MonthsOfYearAre
  <2>2. ASSUME NEW k \in Axis(s), Min(M) <= k, k <= Max(M) PROVE k \in M
    <3>1. k \in s.visible
      BY <2>1, <2>2 DEF IsSeries
    <3>2. k \in Nat
      BY SeriesSets
    <3>3. Year(Min(M)) <= Year(k) /\ Year(k) <= Year(Max(M)) /\ Year(k) \in Nat
      BY <2>1, <2>2, <3>2, YearIs
    <3>4. Year(Min(M)) = y /\ Year(Max(M)) = y
      BY <2>1
    <3>5. Year(k) = y
      BY <2>1, <3>3, <3>4
    <3> QED
      BY <3>1, <3>5 DEF MonthsOfYear
  <2> HIDE DEF M
  <2>3. IsSpan(s, M)
    BY <2>1, <2>2 DEF IsSpan
  <2> QED
    BY <2>3 DEF M
<1> QED
  BY <1>1, <1>2

LEMMA SplitIs ==
  ASSUME NEW s, IsSeries(s), s.visible # {}
  PROVE  /\ DOMAIN Decompose(s) = s.visible \ IF HasBaseline(s) THEN {} ELSE {Min(s.visible)}
         /\ \A m \in DOMAIN Decompose(s) :
              /\ m \in s.visible /\ m \in Axis(s)
              /\ Decompose(s)[m].newMoney = s.point[m].F
              /\ Decompose(s)[m].growth = s.point[m].V - PointBefore(s, m).V - s.point[m].F
              /\ IsPoint(s.point[m]) /\ IsPoint(PointBefore(s, m))
<1> DEFINE D == s.visible \ IF HasBaseline(s) THEN {} ELSE {Min(s.visible)}
<1>1. Decompose(s) = [m \in D |-> [newMoney |-> s.point[m].F,
                                   growth |-> s.point[m].V - PointBefore(s, m).V - s.point[m].F]]
  BY Zenon DEF Decompose
<1>2. ASSUME NEW m \in D PROVE m \in s.visible /\ m \in Axis(s) /\ IsPoint(s.point[m]) /\ IsPoint(PointBefore(s, m))
  <2> DEFINE first == Min(s.visible)
  <2>1. m \in s.visible /\ m \in Axis(s) /\ s.visible \in SUBSET Axis(s)
    BY SeriesSets
  <2>2. IsPoint(s.point[m])
    BY <2>1 DEF IsSeries
  <2>3. \E j \in Axis(s) : j < m
    <3>1. CASE HasBaseline(s)
      BY <2>1, <3>1, BaselineIs
    <3>2. CASE ~HasBaseline(s)
      <4>1. first \in s.visible /\ first <= m /\ first # m
        BY <2>1, <3>2, SeriesSets
      <4>2. first \in Nat /\ m \in Nat
        BY <2>1, <4>1, SeriesSets
      <4> HIDE DEF first
      <4>3. first < m
        BY <4>1, <4>2
      <4> QED
        BY <2>1, <4>1, <4>3
    <3> QED
      BY <3>1, <3>2
  <2>4. PointBefore(s, m) = s.point[PrevMonth(s, m)] /\ PrevMonth(s, m) \in Axis(s)
    BY <2>1, <2>3, BeforeIs
  <2>5. IsPoint(s.point[PrevMonth(s, m)])
    BY <2>4 DEF IsSeries
  <2> QED
    BY <2>1, <2>2, <2>4, <2>5, Zenon
<1> HIDE DEF D
<1>3. DOMAIN Decompose(s) = D
  BY <1>1
<1>4. ASSUME NEW m \in D
      PROVE  /\ Decompose(s)[m].newMoney = s.point[m].F
             /\ Decompose(s)[m].growth = s.point[m].V - PointBefore(s, m).V - s.point[m].F
  BY <1>1
<1> QED
  BY <1>2, <1>3, <1>4, Zenon DEF D

LEMMA YearRowIs ==
  ASSUME NEW s, IsSeries(s), NEW y \in DOMAIN YearTable(s)
  PROVE  LET M == MonthsOfYear(s, y)
             row == YearTable(s)[y]
         IN  /\ row.end = s.point[Max(M)].V /\ row.start = YearRow(s, y).start
             /\ row.deposits = SumOf([m \in M |-> s.point[m].F]) /\ row.deposits \in Int
             /\ row.income \in Int
             /\ row.growth = row.end - row.start - row.deposits + row.income
<1> DEFINE M == MonthsOfYear(s, y)
           f == [m \in M |-> s.point[m].F]
           p == [m \in M |-> s.point[m].P]
           row == YearRow(s, y)
<1>1. /\ row.end = s.point[Max(M)].V
      /\ row.deposits = SumOf(f) /\ row.income = SumOf(p)
      /\ row.growth = row.end - row.start - row.deposits + row.income
  BY DEF YearRow, PaidIn
<1>2. M \in SUBSET Axis(s) /\ IsFiniteSet(M) /\ YearTable(s)[y] = row
  BY MonthsOfYearAre
<1> HIDE DEF M
<1>3. f \in [M -> Int] /\ p \in [M -> Int]
  BY <1>2 DEF IsSeries, IsPoint
<1> HIDE DEF f, p
<1>4. SumOf(f) \in Int /\ SumOf(p) \in Int
  BY <1>2, <1>3, SumTyped
<1> QED
  BY <1>1, <1>2, <1>4, Zenon DEF M, f, p

\* The months of a year that the split has.
LEMMA SplitOfYear ==
  ASSUME NEW s, IsSeries(s), NEW y \in DOMAIN YearTable(s)
  PROVE  LET M == MonthsOfYear(s, y)
             first == Min(M) = Min(s.visible) /\ ~HasBaseline(s)
         IN  M \cap DOMAIN Decompose(s) = IF first THEN M \ {Min(M)} ELSE M
<1> DEFINE M == MonthsOfYear(s, y)
           lo == Min(M)
           v == Min(s.visible)
           D == DOMAIN Decompose(s)
<1>1. M \in SUBSET s.visible /\ M # {} /\ lo \in M /\ (\A m \in M : lo <= m) /\ M \in SUBSET Nat
  BY MonthsOfYearAre
<1>2. D = s.visible \ IF HasBaseline(s) THEN {} ELSE {v}
  BY <1>1, SplitIs
<1>3. v \in s.visible /\ \A m \in s.visible : v <= m
  BY <1>1, SeriesSets
<1> HIDE DEF M, lo, v, D
<1>4. CASE lo = v /\ ~HasBaseline(s)
  <2>1. M \cap D = M \ {lo}
    BY <1>1, <1>2, <1>4
  <2> QED
    BY <1>4, <2>1, Zenon DEF M, lo, v, D
<1>5. CASE ~(lo = v /\ ~HasBaseline(s))
  <2>1. v \notin M \/ HasBaseline(s)
    <3> SUFFICES ASSUME v \in M, lo # v PROVE FALSE
      BY <1>5
    <3>1. lo <= v /\ v <= lo /\ lo \in Nat /\ v \in Nat
      BY <1>1, <1>3
    <3> QED
      BY <3>1
  <2>2. M \cap D = M
    BY <1>1, <1>2, <2>1
  <2> QED
    BY <1>5, <2>2, Zenon DEF M, lo, v, D
<1> QED
  BY <1>4, <1>5

\* The deposits and the growth of a year are those of its months.
LEMMA YearAddsUp ==
  ASSUME NEW s, IsSeries(s), NEW y \in DOMAIN YearTable(s)
  PROVE  LET M == MonthsOfYear(s, y)
             parts == Decompose(s)
             in == M \cap DOMAIN parts
             row == YearTable(s)[y]
         IN  /\ row.growth - row.income = SumOf([m \in in |-> parts[m].growth])
             /\ row.deposits = SumOf([m \in in |-> parts[m].newMoney])
                               + IF Min(M) = Min(s.visible) /\ ~HasBaseline(s)
                                 THEN s.point[Min(s.visible)].F ELSE 0
<1> DEFINE M == MonthsOfYear(s, y)
           parts == Decompose(s)
           in == M \cap DOMAIN parts
           row == YearTable(s)[y]
           lo == Min(M)
           hi == Max(M)
           first == lo = Min(s.visible) /\ ~HasBaseline(s)
           f == [m \in M |-> s.point[m].F]
           h == [m \in M |-> IF m \in in THEN parts[m].growth ELSE 0]
           g == [m \in M |-> h[m] + f[m]]
           c == row.start
<1>1. /\ M \in SUBSET s.visible /\ M \in SUBSET Axis(s) /\ M \in SUBSET Nat /\ IsFiniteSet(M)
      /\ M # {} /\ lo \in M /\ hi \in M /\ \A m \in M : lo <= m
  BY MonthsOfYearAre
<1>2. /\ row.end = s.point[hi].V /\ row.start = YearRow(s, y).start
      /\ row.deposits = SumOf(f) /\ row.deposits \in Int /\ row.income \in Int
      /\ row.growth = row.end - row.start - row.deposits + row.income
  BY YearRowIs
<1>3. in = IF first THEN M \ {lo} ELSE M
  BY SplitOfYear
<1>4. c = IF first THEN s.point[lo].V - s.point[lo].F ELSE PointBefore(s, lo).V
  BY <1>2, OpensWith, Zenon
<1>5. \A m \in M : s.point[m].V \in Int /\ s.point[m].F \in Int
  BY <1>1 DEF IsSeries, IsPoint
<1>6. \A m \in in : /\ parts[m].newMoney = s.point[m].F
                    /\ parts[m].growth = s.point[m].V - PointBefore(s, m).V - s.point[m].F
                    /\ PointBefore(s, m).V \in Int
  <2>1. \A m \in in : m \in DOMAIN parts
    OBVIOUS
  <2> HIDE DEF in, parts
  <2> QED
    BY <1>1, <2>1, SplitIs DEF parts, IsPoint
<1>7. IsSpan(s, M)
  BY SpansAre
<1> HIDE DEF M, parts, in, row, lo, hi, first
<1>8. f \in [M -> Int]
  BY <1>5
<1>9. \A m \in in : parts[m].growth \in Int
  <2> SUFFICES ASSUME NEW m \in in PROVE parts[m].growth \in Int
    OBVIOUS
  <2>1. m \in M
    BY <1>3
  <2> QED
    BY <1>5, <1>6, <2>1
<1>10. h \in [M -> Int]
  BY <1>9
<1>11. g \in [M -> Int] /\ \A m \in M : g[m] = h[m] + f[m]
  <2>1. \A m \in M : h[m] \in Int /\ f[m] \in Int
    BY <1>8, <1>10, Zenon
  <2> HIDE DEF h, f
  <2> QED
    BY <2>1
<1>12. \A m \in in : g[m] = s.point[m].V - PointBefore(s, m).V
  <2> SUFFICES ASSUME NEW m \in in PROVE g[m] = s.point[m].V - PointBefore(s, m).V
    OBVIOUS
  <2>1. m \in M
    BY <1>3
  <2>2. g[m] = parts[m].growth + s.point[m].F
    BY <2>1
  <2> QED
    BY <1>5, <1>6, <2>1, <2>2
<1>13. c \in Int
  <2>1. CASE first
    BY <1>1, <1>4, <1>5, <2>1
  <2>2. CASE ~first
    BY <1>1, <1>3, <1>4, <1>6, <2>2
  <2> QED
    BY <2>1, <2>2
<1>14. g[lo] = s.point[lo].V - c
  <2>1. CASE first
    <3>1. lo \notin in
      BY <1>3, <2>1
    <3>2. g[lo] = 0 + s.point[lo].F
      BY <1>1, <3>1
    <3> QED
      BY <1>1, <1>4, <1>5, <2>1, <3>2
  <2>2. CASE ~first
    BY <1>1, <1>3, <1>4, <1>12, <2>2
  <2> QED
    BY <2>1, <2>2
<1>15. \A m \in M : m # lo => g[m] = s.point[m].V - PointBefore(s, m).V
  BY <1>3, <1>12
<1> HIDE DEF g, c
<1>16. SumOf(g) = s.point[hi].V - c
  BY <1>7, <1>11, <1>13, <1>14, <1>15, SpanAddsUp DEF lo, hi
<1>17. SumOf(g) = SumOf(h) + SumOf(f)
  <2> HIDE DEF h, f
  <2>1. Adds(g, h, f, M)
    BY <1>8, <1>10, <1>11 DEF Adds
  <2>2. IsFiniteSet(M)
    BY <1>1
  <2> QED
    BY <2>1, <2>2, SumAdds
<1>18. in \in SUBSET M /\ IsFiniteSet(in)
  <2>1. in \in SUBSET M
    BY <1>3
  <2> QED
    BY <1>1, <2>1, FS_Subset
<1>19. SumOf(h) = SumOf([m \in in |-> parts[m].growth])
  <2>1. \A m \in M \ in : h[m] = 0
    OBVIOUS
  <2>2. Restrict(h, in) = [m \in in |-> parts[m].growth]
    BY <1>18 DEF Restrict
  <2> HIDE DEF h
  <2>3. SumOf(h) = SumOf(Restrict(h, in))
    BY <1>1, <1>10, <1>18, <2>1, SumOver
  <2> QED
    BY <2>2, <2>3, Zenon
<1>20. SumOf(h) \in Int
  <2> HIDE DEF h
  <2> QED
    BY <1>1, <1>10, SumTyped
<1>21. row.growth - row.income = SumOf([m \in in |-> parts[m].growth])
  <2> DEFINE total == SumOf(h)
             money == SumOf(f)
             end == s.point[hi].V
  <2>1. total + money = end - c
    BY <1>16, <1>17, Zenon
  <2>2. total \in Int /\ money \in Int /\ end \in Int /\ row.income \in Int
    BY <1>1, <1>2, <1>5, <1>20
  <2>3. row.growth = end - c - money + row.income
    BY <1>2, Zenon DEF c
  <2> HIDE DEF total, money, end
  <2>4. row.growth - row.income = total
    BY <1>13, <2>1, <2>2, <2>3
  <2> QED
    BY <1>19, <2>4, Zenon DEF total
<1>22. row.deposits = SumOf([m \in in |-> parts[m].newMoney])
                      + IF first THEN s.point[Min(s.visible)].F ELSE 0
  <2>1. [m \in in |-> parts[m].newMoney] = [m \in in |-> s.point[m].F]
    BY <1>6
  <2>2. Restrict(f, in) = [m \in in |-> s.point[m].F]
    BY <1>18 DEF Restrict
  <2>3. CASE first
    <3>1. f[lo] = s.point[lo].F /\ lo = Min(s.visible)
      BY <1>1, <2>3 DEF first
    <3>2. in = M \ {lo}
      BY <1>3, <2>3
    <3>3. SumOf(f) = f[lo] + SumOf(Restrict(f, M \ {lo}))
      <4> HIDE DEF f
      <4> QED
        BY <1>1, <1>8, SumRemove
    <3>4. SumOf(Restrict(f, in)) \in Int
      <4>1. Restrict(f, in) \in [in -> Int]
        BY <1>8, <1>18 DEF Restrict
      <4> HIDE DEF f
      <4> QED
        BY <1>18, <4>1, SumTyped
    <3> DEFINE money == SumOf(Restrict(f, in))
               old == s.point[lo].F
    <3>5. row.deposits = old + money /\ old \in Int /\ money \in Int
      BY <1>1, <1>2, <1>5, <3>1, <3>2, <3>3, <3>4, Zenon
    <3> HIDE DEF money, old
    <3>6. row.deposits = money + old
      BY <3>5
    <3> QED
      BY <2>1, <2>2, <2>3, <3>1, <3>6, Zenon DEF money, old
  <2>4. CASE ~first
    <3>1. in = M
      BY <1>3, <2>4
    <3>2. row.deposits = SumOf([m \in in |-> parts[m].newMoney])
      BY <1>2, <2>1, <3>1, Zenon
    <3>3. row.deposits = row.deposits + 0
      BY <1>2
    <3> QED
      BY <2>4, <3>2, <3>3, Zenon
  <2> QED
    BY <2>3, <2>4
<1> QED
  BY <1>21, <1>22, Zenon DEF M, parts, in, row, lo, first

\* A year ends with what the chart of values shows for it.
LEMMA YearEnds ==
  ASSUME NEW s, IsSeries(s), NEW y \in DOMAIN YearTable(s)
  PROVE  GroupLast(s, "year")[<<y>>] = s.point[Max(MonthsOfYear(s, y))].V
<1> DEFINE b == <<y>>
           in(c) == {m \in s.visible : Bucket("year", m) = c}
           B == {Bucket("year", m) : m \in s.visible}
<1>1. \A m : Bucket("year", m) = <<Year(m)>>
  BY DEF Bucket
<1>2. PICK m \in s.visible : Year(m) = y
  BY MonthsOfYearAre DEF MonthsOfYear
<1>3. b \in B
  BY <1>1, <1>2
<1>4. in(b) = MonthsOfYear(s, y)
  BY <1>1 DEF MonthsOfYear
<1>5. GroupLast(s, "year") = [c \in B |-> s.point[Max(in(c))].V]
  BY Zenon DEF GroupLast
<1> HIDE DEF B, in, b
<1>6. GroupLast(s, "year")[b] = s.point[Max(in(b))].V
  BY <1>3, <1>5
<1> QED
  BY <1>4, <1>6, Zenon DEF b

\* A year opens with what the year before it in the table ends with.
LEMMA YearsMeet ==
  ASSUME NEW s, IsSeries(s), NEW y \in DOMAIN YearTable(s), NEW z \in DOMAIN YearTable(s), z < y,
         \A x \in DOMAIN YearTable(s) : ~(z < x /\ x < y)
  PROVE  YearTable(s)[y].start = s.point[Max(MonthsOfYear(s, z))].V
<1> DEFINE M == MonthsOfYear(s, y)
           N == MonthsOfYear(s, z)
           lo == Min(M)
           hi == Max(N)
           p == PrevMonth(s, lo)
<1>1. /\ M \in SUBSET s.visible /\ M \in SUBSET Axis(s) /\ M \in SUBSET Nat /\ lo \in M /\ y \in Nat
      /\ \A m \in M : lo <= m /\ Year(m) = y
  BY MonthsOfYearAre
<1>2. /\ N \in SUBSET s.visible /\ N \in SUBSET Axis(s) /\ N \in SUBSET Nat /\ hi \in N /\ z \in Nat
      /\ \A m \in N : m <= hi /\ Year(m) = z
  BY MonthsOfYearAre
<1>3. YearTable(s)[y].start = IF lo = Min(s.visible) /\ ~HasBaseline(s)
                              THEN s.point[lo].V - s.point[lo].F ELSE PointBefore(s, lo).V
  BY YearRowIs, OpensWith, Zenon
<1> HIDE DEF lo, hi, p
<1>4. hi < lo
  <2>1. ~(lo <= hi)
    <3> SUFFICES ASSUME lo <= hi PROVE FALSE
      OBVIOUS
    <3>1. lo \in Nat /\ hi \in Nat /\ Year(lo) = y /\ Year(hi) = z
      BY <1>1, <1>2
    <3>2. y <= z
      BY <3>1, YearIs
    <3> QED
      BY <1>1, <1>2, <3>2
  <2> QED
    BY <1>1, <1>2, <2>1
<1>5. lo # Min(s.visible)
  <2>1. Min(s.visible) <= hi /\ Min(s.visible) \in Nat
    BY <1>2, SeriesSets
  <2> QED
    BY <1>1, <1>2, <1>4, <2>1
<1>6. /\ p \in Axis(s) /\ p < lo /\ hi <= p /\ PointBefore(s, lo) = s.point[p]
  <2>1. lo \in Axis(s) /\ hi \in Axis(s)
    BY <1>1, <1>2
  <2> QED
    BY <1>4, <2>1, BeforeIs DEF p
<1>7. p \in s.visible /\ p \in Nat
  BY <1>2, <1>6, SeriesSets DEF IsSeries
<1>8. Year(p) \in DOMAIN YearTable(s)
  BY <1>7 DEF YearTable
<1>9. Year(p) = z
  <2>1. lo \in Nat /\ hi \in Nat /\ Year(lo) = y /\ Year(hi) = z
    BY <1>1, <1>2
  <2>2. p \notin M
    <3> SUFFICES ASSUME p \in M PROVE FALSE
      OBVIOUS
    <3>1. lo <= p
      BY <1>1
    <3> QED
      BY <1>6, <1>7, <2>1, <3>1
  <2>3. Year(p) # y
    BY <1>7, <2>2 DEF MonthsOfYear
  <2>4. z <= Year(p) /\ Year(p) <= y /\ Year(p) \in Nat
    BY <1>6, <1>7, <2>1, YearIs
  <2>5. ~(z < Year(p) /\ Year(p) < y)
    BY <1>8
  <2> QED
    BY <1>1, <1>2, <2>3, <2>4, <2>5
<1>10. p = hi
  <2>1. p \in N
    BY <1>7, <1>9 DEF MonthsOfYear
  <2>2. p <= hi /\ hi \in Nat
    BY <1>2, <2>1
  <2> QED
    BY <1>6, <1>7, <2>2
<1> QED
  BY <1>3, <1>5, <1>6, <1>10, Zenon DEF hi

\* Months counted from the first.
LEMMA MoreBelow ==
  ASSUME NEW S \in SUBSET Nat, IsFiniteSet(S), NEW k \in S, NEW m \in S, k < m
  PROVE  Cardinality({j \in S : j < k}) < Cardinality({j \in S : j < m})
<1> DEFINE K == {j \in S : j < k}
           M == {j \in S : j < m}
<1>1. M \in SUBSET S /\ k \in M
  OBVIOUS
<1>2. K \in SUBSET (M \ {k})
  <2> SUFFICES ASSUME NEW j \in K PROVE j \in M \ {k}
    OBVIOUS
  <2>1. j \in S /\ j < k /\ j \in Nat /\ k \in Nat /\ m \in Nat
    OBVIOUS
  <2>2. j < m /\ j # k
    BY <2>1
  <2> QED
    BY <2>1, <2>2
<1> HIDE DEF K, M
<1>3. IsFiniteSet(M)
  BY <1>1, FS_Subset
<1>4. IsFiniteSet(M \ {k}) /\ Cardinality(M \ {k}) = Cardinality(M) - 1
  BY <1>1, <1>3, FS_RemoveElement
<1>5. IsFiniteSet(K) /\ Cardinality(K) <= Cardinality(M \ {k})
  BY <1>2, <1>4, FS_Subset
<1>6. Cardinality(K) \in Nat /\ Cardinality(M) \in Nat
  BY <1>3, <1>5, FS_CardinalityType
<1>7. Cardinality(K) < Cardinality(M)
  BY <1>4, <1>5, <1>6
<1> QED
  BY <1>7 DEF K, M

LEMMA NthIs ==
  ASSUME NEW S \in SUBSET Nat, IsFiniteSet(S), NEW m \in S
  PROVE  LET i == Cardinality({k \in S : k < m}) + 1
         IN  /\ i \in 1 .. Cardinality(S)
             /\ Nth(S, i) = m
<1> DEFINE below(n) == {k \in S : k < n}
           c(n) == Cardinality(below(n))
           i == c(m) + 1
<1>1. ASSUME NEW n \in S
      PROVE  c(n) \in Nat
  <2>1. below(n) \in SUBSET S
    OBVIOUS
  <2> HIDE DEF below
  <2>2. IsFiniteSet(below(n))
    BY <2>1, FS_Subset
  <2> QED
    BY <2>2, FS_CardinalityType
<1>2. i \in 1 .. Cardinality(S)
  <2>1. below(m) \in SUBSET (S \ {m})
    OBVIOUS
  <2> HIDE DEF below
  <2>2. IsFiniteSet(S \ {m}) /\ Cardinality(S \ {m}) = Cardinality(S) - 1
    BY FS_RemoveElement
  <2>3. Cardinality(below(m)) <= Cardinality(S \ {m})
    BY <2>1, <2>2, FS_Subset
  <2>4. Cardinality(S) \in Nat /\ c(m) \in Nat
    BY <1>1, FS_CardinalityType
  <2> QED
    BY <2>2, <2>3, <2>4
<1>3. ASSUME NEW n \in S, c(n) = c(m) PROVE n = m
  <2>1. n \in Nat /\ m \in Nat /\ c(n) \in Nat /\ c(m) \in Nat
    BY <1>1
  <2>2. ~(n < m)
    <3> SUFFICES ASSUME n < m PROVE FALSE
      OBVIOUS
    <3>1. c(n) < c(m)
      BY MoreBelow
    <3> HIDE DEF c
    <3> QED
      BY <1>3, <2>1, <3>1
  <2>3. ~(m < n)
    <3> SUFFICES ASSUME m < n PROVE FALSE
      OBVIOUS
    <3>1. c(m) < c(n)
      BY MoreBelow
    <3> HIDE DEF c
    <3> QED
      BY <1>3, <2>1, <3>1
  <2> HIDE DEF c
  <2> QED
    BY <2>1, <2>2, <2>3
<1>4. Nth(S, i) = CHOOSE n \in S : c(n) = i - 1
  BY DEF Nth
<1>5. \A n \in S : c(n) = i - 1 <=> n = m
  <2>1. c(m) \in Nat
    BY <1>1
  <2>2. i - 1 = c(m)
    <3> HIDE DEF c
    <3> QED
      BY <2>1
  <2> HIDE DEF c, i
  <2> QED
    BY <1>3, <2>2
<1> HIDE DEF c, i
<1>6. (CHOOSE n \in S : c(n) = i - 1) = m
  BY <1>5
<1> QED
  BY <1>2, <1>4, <1>6 DEF c, i

\* The numbers of a set below one, and the others.
BelowOf(S, m) == {k \in S : k < m}
FromOn(S, m) == {k \in S : m <= k}

\* One is the next of the set after another.
NextOf(S, k, m) == k < m /\ \A j \in S : j <= k \/ m <= j

LEMMA RankIs ==
  ASSUME NEW S \in SUBSET Nat, IsFiniteSet(S), NEW m \in S
  PROVE  /\ BelowOf(S, m) \in SUBSET S /\ IsFiniteSet(BelowOf(S, m))
         /\ FromOn(S, m) \in SUBSET S /\ IsFiniteSet(FromOn(S, m))
         /\ Cardinality(S) \in Nat /\ Cardinality(BelowOf(S, m)) \in Nat
         /\ Cardinality(FromOn(S, m)) \in Nat /\ Cardinality(FromOn(S, m)) >= 1
         /\ Cardinality(BelowOf(S, m)) = Cardinality(S) - Cardinality(FromOn(S, m))
<1> DEFINE B == BelowOf(S, m)
           F == FromOn(S, m)
<1>1. B \in SUBSET S /\ F \in SUBSET S /\ m \in F
  BY DEF BelowOf, FromOn
<1>2. B = S \ F
  <2>1. \A k \in S : k < m <=> ~(m <= k)
    OBVIOUS
  <2> QED
    BY <2>1 DEF BelowOf, FromOn
<1> HIDE DEF B, F
<1>3. IsFiniteSet(B) /\ IsFiniteSet(F)
  BY <1>1, FS_Subset
<1>4. Cardinality(S) \in Nat /\ Cardinality(B) \in Nat /\ Cardinality(F) \in Nat
  BY <1>3, FS_CardinalityType
<1>5. Cardinality(B) = Cardinality(S) - Cardinality(F)
  <2>1. S \cap F = F
    BY <1>1
  <2>2. Cardinality(S \ F) = Cardinality(S) - Cardinality(S \cap F)
    BY FS_Difference
  <2> QED
    BY <1>2, <2>1, <2>2, Zenon
<1>6. Cardinality(F) # 0
  BY <1>1, <1>3, FS_EmptySet
<1>7. Cardinality(F) >= 1
  BY <1>4, <1>6
<1> QED
  BY <1>1, <1>3, <1>4, <1>5, <1>7 DEF B, F

\* The next number's place is the next place.
LEMMA NextRank ==
  ASSUME NEW S \in SUBSET Nat, IsFiniteSet(S), NEW k \in S, NEW m \in S, NextOf(S, k, m)
  PROVE  Cardinality(BelowOf(S, m)) = Cardinality(BelowOf(S, k)) + 1
<1>1. BelowOf(S, m) = BelowOf(S, k) \cup {k}
  <2> SUFFICES ASSUME NEW j \in S PROVE j < m <=> (j < k \/ j = k)
    BY DEF BelowOf
  <2>1. j \in Nat /\ k \in Nat /\ m \in Nat /\ k < m /\ (j <= k \/ m <= j)
    BY DEF NextOf
  <2> QED
    BY <2>1
<1>2. k \notin BelowOf(S, k)
  BY DEF BelowOf
<1>3. IsFiniteSet(BelowOf(S, k))
  BY RankIs
<1>4. Cardinality(BelowOf(S, k) \cup {k}) = Cardinality(BelowOf(S, k)) + 1
  BY <1>2, <1>3, FS_AddElement
<1> QED
  BY <1>1, <1>4, Zenon

LEMMA NextExists ==
  ASSUME NEW S \in SUBSET Nat, IsFiniteSet(S), NEW m \in S
  PROVE  /\ BelowOf(S, m) # {} => \E k \in S : NextOf(S, k, m)
         /\ FromOn(S, m) # {m} => \E k \in S : NextOf(S, m, k)
<1>1. ASSUME BelowOf(S, m) # {} PROVE \E k \in S : NextOf(S, k, m)
  <2> DEFINE B == BelowOf(S, m)
             k == Max(B)
  <2>0. B \in SUBSET S /\ IsFiniteSet(B) /\ B # {}
    BY <1>1, RankIs
  <2>1. B \in SUBSET Int
    <3> HIDE DEF B
    <3> QED
      BY <2>0
  <2> HIDE DEF B
  <2>2. k \in B /\ \A j \in B : j <= k
    BY <2>0, <2>1, MaxIs
  <2> HIDE DEF k
  <2>3. k \in S /\ k < m
    BY <2>2 DEF B, BelowOf
  <2>4. ASSUME NEW j \in S PROVE j <= k \/ m <= j
    <3>1. j < m \/ m <= j
      OBVIOUS
    <3> QED
      BY <2>2, <3>1 DEF B, BelowOf
  <2> QED
    BY <2>3, <2>4 DEF NextOf
<1>2. ASSUME FromOn(S, m) # {m} PROVE \E k \in S : NextOf(S, m, k)
  <2> DEFINE A == {j \in S : m < j}
             k == Min(A)
  <2>1. A # {}
    <3>1. m \in FromOn(S, m)
      BY DEF FromOn
    <3>2. PICK j \in FromOn(S, m) : j # m
      BY <1>2, <3>1
    <3>3. j \in S /\ m <= j /\ j \in Nat /\ m \in Nat
      BY DEF FromOn
    <3>4. m < j
      BY <3>2, <3>3
    <3> QED
      BY <3>3, <3>4
  <2>2. A \in SUBSET Nat
    OBVIOUS
  <2> HIDE DEF A
  <2>3. k \in A /\ \A j \in A : k <= j
    BY <2>1, <2>2, MinIs
  <2> HIDE DEF k
  <2>4. k \in S /\ m < k
    BY <2>3 DEF A
  <2>5. ASSUME NEW j \in S PROVE j <= m \/ k <= j
    <3>1. j <= m \/ m < j
      OBVIOUS
    <3> QED
      BY <2>3, <3>1 DEF A
  <2> QED
    BY <2>4, <2>5 DEF NextOf
<1> QED
  BY <1>1, <1>2

\* The n-th counted from the month before, or from the first month left out.
LEMMA NthBefore ==
  ASSUME NEW S \in SUBSET Nat, IsFiniteSet(S), NEW M \in SUBSET S
  PROVE  {Nth(S, Cardinality(BelowOf(S, m))) :
            m \in {j \in M : Cardinality(BelowOf(S, j)) \in 1 .. Cardinality(S)}}
         = {k \in S : \E m \in M : NextOf(S, k, m)}
<1> DEFINE c(m) == Cardinality(BelowOf(S, m))
           N == {j \in M : c(j) \in 1 .. Cardinality(S)}
           X == {k \in S : \E m \in M : NextOf(S, k, m)}
<1>1. ASSUME NEW k \in S, NEW m \in M, NextOf(S, k, m)
      PROVE  c(m) \in 1 .. Cardinality(S) /\ Nth(S, c(m)) = k
  <2>1. c(m) = c(k) + 1
    BY <1>1, NextRank
  <2>2. c(k) + 1 \in 1 .. Cardinality(S) /\ Nth(S, c(k) + 1) = k
    BY NthIs DEF BelowOf
  <2> HIDE DEF c
  <2> QED
    BY <2>1, <2>2, Zenon
<1>2. ASSUME NEW m \in N PROVE Nth(S, c(m)) \in X
  <2>1. m \in M /\ c(m) # 0
    OBVIOUS
  <2>2. BelowOf(S, m) # {}
    BY <2>1, FS_EmptySet
  <2>3. PICK k \in S : NextOf(S, k, m)
    BY <2>1, <2>2, NextExists
  <2> HIDE DEF N, c
  <2> QED
    BY <1>1, <2>1, <2>3
<1>3. ASSUME NEW k \in X PROVE \E m \in N : k = Nth(S, c(m))
  <2>1. PICK m \in M : NextOf(S, k, m)
    OBVIOUS
  <2>2. c(m) \in 1 .. Cardinality(S) /\ Nth(S, c(m)) = k
    BY <1>1, <2>1
  <2> HIDE DEF c, X
  <2>3. m \in N
    BY <2>2
  <2> QED
    BY <2>2, <2>3
<1> HIDE DEF N, X, c
<1>4. {Nth(S, c(m)) : m \in N} = X
  BY <1>2, <1>3
<1> QED
  BY <1>4, Zenon DEF N, X, c

LEMMA NthAfter ==
  ASSUME NEW S \in SUBSET Nat, IsFiniteSet(S), NEW M \in SUBSET S, NEW first \in S,
         \A j \in S : first <= j
  PROVE  {Nth(S \ {first}, Cardinality(BelowOf(S, m)) + 1) :
            m \in {j \in M : Cardinality(BelowOf(S, j)) + 1 \in 1 .. Cardinality(S \ {first})}}
         = {k \in S : \E m \in M : NextOf(S, m, k)}
<1> DEFINE L == S \ {first}
           c(m) == Cardinality(BelowOf(S, m)) + 1
           N == {j \in M : c(j) \in 1 .. Cardinality(L)}
           X == {k \in S : \E m \in M : NextOf(S, m, k)}
<1>0. L \in SUBSET Nat /\ IsFiniteSet(L) /\ Cardinality(L) = Cardinality(S) - 1
  BY FS_RemoveElement
<1>1. ASSUME NEW k \in S, NEW m \in M, NextOf(S, m, k)
      PROVE  c(m) \in 1 .. Cardinality(L) /\ Nth(L, c(m)) = k
  <2> HIDE DEF L
  <2>1. Cardinality(BelowOf(S, k)) = Cardinality(BelowOf(S, m)) + 1
    BY <1>1, NextRank
  <2>2. m \in Nat /\ k \in Nat /\ first \in Nat /\ m < k /\ first <= m
    BY <1>1 DEF NextOf
  <2>3. first < k
    BY <2>2
  <2>4. k \in L
    BY <2>2, <2>3 DEF L
  <2>5. first \in BelowOf(S, k)
    BY <2>3 DEF BelowOf
  <2>6. BelowOf(L, k) = BelowOf(S, k) \ {first}
    BY DEF BelowOf, L
  <2>7. Cardinality(BelowOf(S, k) \ {first}) = Cardinality(BelowOf(S, k)) - 1
    BY <2>5, RankIs, FS_RemoveElement
  <2>8. Cardinality(BelowOf(S, m)) \in Nat
    BY RankIs
  <2>9. Cardinality(BelowOf(L, k)) = Cardinality(BelowOf(S, m))
    BY <2>1, <2>6, <2>7, <2>8
  <2>10. /\ Cardinality(BelowOf(L, k)) + 1 \in 1 .. Cardinality(L)
         /\ Nth(L, Cardinality(BelowOf(L, k)) + 1) = k
    BY <1>0, <2>4, NthIs DEF BelowOf
  <2> QED
    BY <2>9, <2>10
<1>2. ASSUME NEW m \in N PROVE Nth(L, c(m)) \in X
  <2>1. m \in M /\ m \in S /\ c(m) \in 1 .. Cardinality(L)
    OBVIOUS
  <2>2. FromOn(S, m) # {m}
    <3> SUFFICES ASSUME FromOn(S, m) = {m} PROVE FALSE
      OBVIOUS
    <3>1. Cardinality(FromOn(S, m)) = 1
      BY FS_Singleton
    <3>2. /\ Cardinality(BelowOf(S, m)) = Cardinality(S) - Cardinality(FromOn(S, m))
          /\ Cardinality(S) \in Nat /\ Cardinality(BelowOf(S, m)) \in Nat
      BY <2>1, RankIs
    <3> HIDE DEF L
    <3> QED
      BY <1>0, <2>1, <3>1, <3>2
  <2>3. PICK k \in S : NextOf(S, m, k)
    BY <2>1, <2>2, NextExists
  <2>4. Nth(L, c(m)) = k
    BY <1>1, <2>1, <2>3
  <2> HIDE DEF N, c, L
  <2> QED
    BY <2>1, <2>3, <2>4
<1>3. ASSUME NEW k \in X PROVE \E m \in N : k = Nth(L, c(m))
  <2>1. PICK m \in M : NextOf(S, m, k)
    OBVIOUS
  <2>2. c(m) \in 1 .. Cardinality(L) /\ Nth(L, c(m)) = k
    BY <1>1, <2>1
  <2> HIDE DEF c, X, L
  <2>3. m \in N
    BY <2>2
  <2> QED
    BY <2>2, <2>3
<1> HIDE DEF N, X, c, L
<1>4. {Nth(L, c(m)) : m \in N} = X
  BY <1>2, <1>3
<1> QED
  BY <1>4, Zenon DEF N, X, c, L

\* What is multiplied for a year, and months of which range they are.
MultipliedIn(s, y) ==
  IF Seeded(s) THEN MonthsOfYear(s, y)
  ELSE IF HasBaseline(s) THEN {k \in s.visible : \E m \in MonthsOfYear(s, y) : FollowedBy(s, k, m)}
  ELSE {k \in s.visible : \E m \in MonthsOfYear(s, y) : FollowedBy(s, m, k)}

LEMMA FactorsOfYear ==
  ASSUME NEW s, IsSeries(s), NEW y \in DOMAIN YearTable(s)
  PROVE  FactorMonths(s, y) = MultipliedIn(s, y)
<1> DEFINE V == s.visible
           M == MonthsOfYear(s, y)
           c(m) == Cardinality(BelowOf(V, m))
           Factors(L, add) == {Nth(L, c(m) + add) : m \in {k \in M : c(k) + add \in 1 .. Cardinality(L)}}
<1>1. V \in SUBSET Nat /\ IsFiniteSet(V) /\ M \in SUBSET V /\ V # {} /\ Min(V) \in V /\ \A j \in V : Min(V) <= j
  <2>1. M # {} /\ M \in SUBSET V
    BY MonthsOfYearAre
  <2>2. V \in SUBSET Axis(s)
    BY SeriesSets
  <2> HIDE DEF M, V
  <2> QED
    BY <2>1, <2>2, SeriesSets
<1>2. FactorMonths(s, y) = Factors(LegMonths(s), IF HasBaseline(s) THEN 0 ELSE 1)
  BY Zenon DEF FactorMonths, BelowOf
<1>3. CASE Seeded(s)
  <2>1. ~HasBaseline(s)
    BY <1>3 DEF Seeded
  <2>2. LegMonths(s) = V
    BY <1>3, <2>1 DEF LegMonths, ChainMonths
  <2>3. FactorMonths(s, y) = Factors(V, 1)
    BY <1>2, <2>1, <2>2, Zenon
  <2> HIDE DEF M, V
  <2>4. ASSUME NEW m \in M PROVE c(m) + 1 \in 1 .. Cardinality(V) /\ Nth(V, c(m) + 1) = m
    BY <1>1, NthIs DEF BelowOf
  <2> HIDE DEF c
  <2>5. {k \in M : c(k) + 1 \in 1 .. Cardinality(V)} = M
    BY <2>4
  <2>6. {Nth(V, c(m) + 1) : m \in M} = M
    BY <2>4
  <2>7. Factors(V, 1) = M
    BY <2>5, <2>6, Zenon
  <2> HIDE DEF Factors
  <2> QED
    BY <1>3, <2>3, <2>7, Zenon DEF MultipliedIn, M
<1>4. CASE ~Seeded(s) /\ HasBaseline(s)
  <2> DEFINE b == Baseline(s)
  <2>1. b \notin V /\ b \in Nat /\ \A m \in V : b < m
    BY <1>4, BaselineIs, SeriesSets
  <2>2. ChainMonths(s) = V \cup {b}
    BY <1>4 DEF ChainMonths
  <2> HIDE DEF V, M, b
  <2>3. Min(V \cup {b}) = b
    <3>1. \A m \in V \cup {b} : b <= m
      BY <1>1, <2>1
    <3>2. V \cup {b} \in SUBSET Int
      BY <1>1, <2>1
    <3> QED
      BY <3>1, <3>2, MinIsOnly
  <2>4. LegMonths(s) = V
    <3>1. LegMonths(s) = (V \cup {b}) \ {b}
      BY <1>1, <1>4, <2>2, <2>3, Zenon DEF LegMonths
    <3>2. (V \cup {b}) \ {b} = V
      BY <2>1
    <3> QED
      BY <3>1, <3>2, Zenon
  <2>5. FactorMonths(s, y) = Factors(V, 0)
    BY <1>2, <1>4, <2>4, Zenon
  <2>6. \A m \in M : c(m) + 0 = c(m)
    <3>1. \A m \in M : c(m) \in Nat
      BY <1>1, RankIs
    <3> HIDE DEF c
    <3> QED
      BY <3>1
  <2>7. Factors(V, 0) = {Nth(V, c(m)) : m \in {k \in M : c(k) \in 1 .. Cardinality(V)}}
    <3> HIDE DEF c
    <3> QED
      BY <2>6
  <2>8. {Nth(V, c(m)) : m \in {k \in M : c(k) \in 1 .. Cardinality(V)}}
        = {k \in V : \E m \in M : NextOf(V, k, m)}
    BY <1>1, NthBefore, Zenon
  <2>9. MultipliedIn(s, y) = {k \in V : \E m \in M : NextOf(V, k, m)}
    BY <1>4, Zenon DEF MultipliedIn, FollowedBy, NextOf, V, M
  <2> HIDE DEF Factors
  <2> QED
    BY <2>5, <2>7, <2>8, <2>9, Zenon
<1>5. CASE ~Seeded(s) /\ ~HasBaseline(s)
  <2> DEFINE first == Min(V)
             L == V \ {first}
  <2>1. ChainMonths(s) = V
    BY <1>5 DEF ChainMonths
  <2>2. LegMonths(s) = L
    BY <1>1, <1>5, <2>1, Zenon DEF LegMonths
  <2>3. FactorMonths(s, y) = Factors(L, 1)
    BY <1>2, <1>5, <2>2, Zenon
  <2> HIDE DEF V, M, first
  <2>4. Factors(L, 1) = {k \in V : \E m \in M : NextOf(V, m, k)}
    BY <1>1, NthAfter, Zenon DEF first
  <2>5. MultipliedIn(s, y) = {k \in V : \E m \in M : NextOf(V, m, k)}
    BY <1>5, Zenon DEF MultipliedIn, FollowedBy, NextOf, V, M
  <2> HIDE DEF Factors
  <2> QED
    BY <2>3, <2>4, <2>5, Zenon
<1> QED
  BY <1>3, <1>4, <1>5

\* What the overview compares with: the month before the last one, or the
\* first month of a range.
LEMMA LooksBack ==
  ASSUME NEW s, IsSeries(s), NEW n \in Nat, n = Cardinality(s.visible), n >= 2
  PROVE  LET last == Max(s.visible)
             first == Min(s.visible)
         IN  /\ s.visible # {} /\ last \in s.visible /\ first \in s.visible /\ first # last
             /\ Nth(s.visible, n - 1) = PrevMonth(s, last)
             /\ Nth(s.visible, 1) = first
<1> DEFINE V == s.visible
           last == Max(V)
           first == Min(V)
           p == PrevMonth(s, last)
<1>1. V \in SUBSET Nat /\ IsFiniteSet(V)
  BY SeriesSets
<1>2. V # {}
  BY FS_EmptySet
<1>3. IsSpan(s, V)
  BY <1>2, SpansAre
<1>4. last \in V /\ first \in V /\ \A m \in V : first <= m /\ m <= last
  BY <1>1, <1>2, SeriesSets
<1> HIDE DEF V, last, first
<1>5. first # last
  <2> SUFFICES ASSUME first = last PROVE FALSE
    OBVIOUS
  <2>1. V = {last}
    <3>1. ASSUME NEW m \in V PROVE m = last
      <4>1. m \in Nat /\ last \in Nat /\ last <= m /\ m <= last
        BY <1>1, <1>4
      <4> QED
        BY <4>1
    <3> QED
      BY <1>4, <3>1
  <2>2. Cardinality(V) = 1
    BY <2>1, FS_Singleton
  <2> QED
    BY <2>2 DEF V
<1>6. p \in V /\ p < last /\ \A k \in V : k < last => k <= p
  BY <1>3, <1>4, <1>5, SpanIs DEF last, first
<1> HIDE DEF p
<1>7. Nth(V, n - 1) = p
  <2> DEFINE B == {k \in V : k < p}
  <2>1. B = (V \ {last}) \ {p}
    <3>1. ASSUME NEW k \in B PROVE k \in (V \ {last}) \ {p}
      <4>1. k \in Nat /\ p \in Nat /\ last \in Nat /\ k < p
        BY <1>1, <1>4, <1>6
      <4> QED
        BY <1>6, <4>1
    <3>2. ASSUME NEW k \in (V \ {last}) \ {p} PROVE k \in B
      <4>1. k \in Nat /\ p \in Nat /\ last \in Nat /\ k <= last /\ k # last /\ k # p
        BY <1>1, <1>4, <1>6
      <4>2. k < last
        BY <4>1
      <4>3. k <= p
        BY <1>6, <4>2
      <4> QED
        BY <4>1, <4>3
    <3> QED
      BY <3>1, <3>2
  <2> HIDE DEF B
  <2>2. IsFiniteSet(V \ {last}) /\ Cardinality(V \ {last}) = n - 1
    BY <1>1, <1>4, FS_RemoveElement DEF V
  <2>3. p \in V \ {last}
    BY <1>1, <1>4, <1>6
  <2>4. Cardinality(B) = n - 2
    <3> DEFINE W == V \ {last}
    <3> HIDE DEF W
    <3>1. Cardinality(W \ {p}) = Cardinality(W) - 1
      BY <2>2, <2>3, FS_RemoveElement DEF W
    <3>2. Cardinality(W \ {p}) = n - 1 - 1
      BY <2>2, <3>1 DEF W
    <3>3. B = W \ {p}
      BY <2>1, Zenon DEF W
    <3>4. n - 1 - 1 = n - 2
      OBVIOUS
    <3> QED
      BY <3>2, <3>3, <3>4, Zenon
  <2>5. Nth(V, Cardinality(B) + 1) = p
    BY <1>1, <1>6, NthIs DEF B
  <2>6. Cardinality(B) + 1 = n - 1
    BY <2>4
  <2> QED
    BY <2>5, <2>6
<1>8. Nth(V, 1) = first
  <2> DEFINE B == {k \in V : k < first}
  <2>1. B = {}
    <3>1. \A k \in V : first <= k /\ first \in Nat /\ k \in Nat
      BY <1>1, <1>4
    <3> QED
      BY <3>1
  <2>2. Cardinality(B) = 0
    BY <2>1, FS_EmptySet
  <2>3. Nth(V, Cardinality(B) + 1) = first
    BY <1>1, <1>4, NthIs
  <2> HIDE DEF B
  <2>4. Cardinality(B) + 1 = 1
    BY <2>2
  <2> QED
    BY <2>3, <2>4
<1> QED
  BY <1>2, <1>4, <1>5, <1>7, <1>8, Zenon DEF V, last, first, p

\* The change of one month.
LEMMA MonthChanges ==
  ASSUME NEW s, IsSeries(s), NEW n \in Nat, n = Cardinality(s.visible), n >= 2
  PROVE  LET last == Max(s.visible)
         IN  /\ Delta(s, 1).deposits = Decompose(s)[last].newMoney
             /\ Delta(s, 1).return = Decompose(s)[last].growth
<1> DEFINE last == Max(s.visible)
           p == PrevMonth(s, last)
           cur == s.point[last]
           prev == s.point[p]
<1>1. /\ s.visible # {} /\ last \in s.visible /\ last # Min(s.visible)
      /\ Nth(s.visible, n - 1) = p
  BY LooksBack
<1>2. IsSpan(s, s.visible)
  BY <1>1, SpansAre
<1>3. p \in s.visible /\ PointBefore(s, last) = prev /\ cur.F = cur.D - prev.D
  BY <1>1, <1>2, SpanIs
<1>4. Min({1, n - 1}) = 1
  <2> DEFINE S == {1, n - 1}
  <2>1. S \in SUBSET Int /\ 1 \in S /\ \A k \in S : 1 <= k
    OBVIOUS
  <2> HIDE DEF S
  <2>2. Min(S) = 1
    BY <2>1, MinIsOnly
  <2> QED
    BY <2>2 DEF S
<1>5. s.point[Nth(s.visible, n - Min({1, n - 1}))] = prev /\ Latest(s) = cur
  BY <1>1, <1>4, Zenon DEF Latest
<1>6. Delta(s, 1).deposits = cur.D - prev.D /\ Delta(s, 1).return = (cur.V - cur.D) - (prev.V - prev.D)
  <2> HIDE DEF cur, prev
  <2> QED
    BY <1>5 DEF Delta
<1>7. last \in DOMAIN Decompose(s)
  <2>1. DOMAIN Decompose(s) = s.visible \ IF HasBaseline(s) THEN {} ELSE {Min(s.visible)}
    BY <1>1, SplitIs
  <2> HIDE DEF last
  <2> QED
    BY <1>1, <2>1
<1>8. /\ Decompose(s)[last].newMoney = cur.F
      /\ Decompose(s)[last].growth = cur.V - PointBefore(s, last).V - cur.F
      /\ IsPoint(cur)
  <2> HIDE DEF last
  <2> QED
    BY <1>1, <1>7, SplitIs
<1>9. IsPoint(prev)
  BY <1>3, SeriesSets DEF IsSeries
<1>10. Decompose(s)[last].growth = cur.V - prev.V - cur.F
  BY <1>3, <1>8, Zenon
<1> HIDE DEF cur, prev
<1>11. cur.V \in Int /\ cur.D \in Int /\ prev.V \in Int /\ prev.D \in Int
  BY <1>8, <1>9 DEF IsPoint
<1>12. cur.V - prev.V - cur.F = (cur.V - cur.D) - (prev.V - prev.D)
  BY <1>3, <1>11
<1> QED
  BY <1>3, <1>6, <1>8, <1>10, <1>12, Zenon DEF cur, prev, last

\* The month that the change of a year compares with: the months after it are
\* the last year's.
LEMMA YearBack ==
  ASSUME NEW s, IsSeries(s), NEW n \in Nat, n = Cardinality(s.visible), n >= 2
  PROVE  \E p \in s.visible : /\ Nth(s.visible, n - Min({12, n - 1})) = p
                              /\ LastYear(s) = {m \in s.visible : p < m}
                              /\ p < Max(s.visible)
<1> DEFINE V == s.visible
           first == Min(V)
           last == Max(V)
           F(m) == Cardinality(FromOn(V, m))
           Y == LastYear(s)
<1>0. Nth(V, 1) = first /\ first # last
  BY LooksBack
<1>1. /\ V \in SUBSET Nat /\ IsFiniteSet(V) /\ first \in V /\ last \in V
      /\ \A m \in V : first <= m /\ m <= last
  <2>1. V \in SUBSET Axis(s)
    BY SeriesSets
  <2>2. V # {}
    BY FS_EmptySet
  <2> HIDE DEF V
  <2> QED
    BY <2>1, <2>2, SeriesSets
<1>2. Y = {m \in V : F(m) <= 12} \ {first}
  BY Zenon DEF LastYear, FromOn
<1>3. n = Cardinality(V)
  OBVIOUS
<1> HIDE DEF V, first, last, Y
<1>4. \A m \in V : F(m) \in Nat /\ F(m) <= n
  BY <1>1, <1>3, RankIs, FS_Subset
<1>5. CASE n <= 12
  <2>1. Min({12, n - 1}) = n - 1
    <3> DEFINE S == {12, n - 1}
               k == n - 1
    <3>1. S \in SUBSET Int /\ k \in S /\ \A j \in S : k <= j
      BY <1>5
    <3> HIDE DEF S, k
    <3>2. Min(S) = k
      BY <3>1, MinIsOnly
    <3> QED
      BY <3>2 DEF S, k
  <2>2. n - (n - 1) = 1
    OBVIOUS
  <2>3. Nth(V, n - Min({12, n - 1})) = first
    BY <1>0, <2>1, <2>2, Zenon
  <2>4. \A m \in V : F(m) <= 12
    BY <1>4, <1>5
  <2>5. \A m \in V : m # first <=> first < m
    BY <1>1
  <2> HIDE DEF F
  <2>6. Y = {m \in V : first < m}
    BY <1>2, <2>4, <2>5
  <2>7. first < last
    BY <1>0, <1>1
  <2> QED
    BY <1>1, <2>3, <2>6, <2>7, Zenon DEF V, Y, last
<1>6. CASE n > 12
  <2> DEFINE Far == {m \in V : ~(F(m) <= 12)}
             p == Max(Far)
  <2>1. first \in Far
    <3>1. FromOn(V, first) = V
      BY <1>1 DEF FromOn
    <3>2. F(first) = n
      BY <1>3, <3>1, Zenon
    <3> HIDE DEF F
    <3> QED
      BY <1>1, <1>6, <3>2
  <2>2. p \in Far /\ \A k \in Far : k <= p
    <3>1. Far \in SUBSET V
      OBVIOUS
    <3> HIDE DEF Far
    <3>2. IsFiniteSet(Far)
      BY <1>1, <3>1, FS_Subset
    <3>3. Far \in SUBSET Int
      BY <1>1, <3>1
    <3> QED
      BY <2>1, <3>2, <3>3, MaxIs
  <2>3. p \in V /\ ~(F(p) <= 12) /\ F(p) \in Nat
    BY <1>4, <2>2
  <2> HIDE DEF p
  <2>4. p # last
    <3> SUFFICES ASSUME p = last PROVE FALSE
      OBVIOUS
    <3>1. FromOn(V, last) = {last}
      <4>1. ASSUME NEW m \in V PROVE last <= m <=> m = last
        <5>1. m \in Nat /\ last \in Nat /\ m <= last
          BY <1>1
        <5> QED
          BY <5>1
      <4> QED
        BY <1>1, <4>1 DEF FromOn
    <3>2. F(p) = 1
      BY <3>1, FS_Singleton, Zenon
    <3> QED
      BY <2>3, <3>2
  <2>5. p < last
    BY <1>1, <2>3, <2>4
  <2>6. PICK q \in V : NextOf(V, p, q)
    <3>0. p \in Nat /\ last \in Nat /\ p <= last
      BY <1>1, <2>3, <2>5
    <3>1. last \in FromOn(V, p)
      BY <1>1, <3>0 DEF FromOn
    <3>2. FromOn(V, p) # {p}
      BY <2>4, <3>1
    <3> QED
      BY <1>1, <2>3, <3>2, NextExists
  <2>7. F(p) = 13
    <3>1. p < q /\ p \in Nat /\ q \in Nat
      BY <1>1, <2>3, <2>6 DEF NextOf
    <3>2. q \notin Far
      BY <2>2, <3>1
    <3>3. F(q) <= 12 /\ F(q) \in Nat
      BY <1>4, <2>6, <3>2
    <3>4. Cardinality(BelowOf(V, q)) = Cardinality(BelowOf(V, p)) + 1
      BY <1>1, <2>3, <2>6, NextRank
    <3>5. /\ Cardinality(BelowOf(V, q)) = n - F(q) /\ Cardinality(BelowOf(V, p)) = n - F(p)
      BY <1>1, <1>3, <2>3, RankIs
    <3> HIDE DEF F
    <3> QED
      BY <2>3, <3>3, <3>4, <3>5
  <2>8. Nth(V, n - 12) = p
    <3>1. Nth(V, Cardinality(BelowOf(V, p)) + 1) = p
      BY <1>1, <2>3, NthIs DEF BelowOf
    <3>2. Cardinality(BelowOf(V, p)) = n - F(p)
      BY <1>1, <1>3, <2>3, RankIs
    <3> HIDE DEF F
    <3>3. Cardinality(BelowOf(V, p)) + 1 = n - 12
      BY <2>7, <3>2
    <3> QED
      BY <3>1, <3>3, Zenon
  <2>9. Min({12, n - 1}) = 12
    <3> DEFINE S == {12, n - 1}
    <3>1. S \in SUBSET Int /\ 12 \in S /\ \A j \in S : 12 <= j
      BY <1>6
    <3> HIDE DEF S
    <3>2. Min(S) = 12
      BY <3>1, MinIsOnly
    <3> QED
      BY <3>2 DEF S
  <2>10. ASSUME NEW m \in V PROVE m \in Y <=> p < m
    <3>1. m \in Nat /\ p \in Nat /\ F(m) \in Nat
      BY <1>1, <1>4, <2>3
    <3>2. ASSUME p < m PROVE m \in Y
      <4>1. m \notin Far
        BY <2>2, <3>1, <3>2
      <4>2. m # first
        BY <2>1, <4>1
      <4> QED
        BY <1>2, <4>1, <4>2
    <3>3. ASSUME ~(p < m) PROVE m \notin Y
      <4>1. FromOn(V, p) \in SUBSET FromOn(V, m)
        <5> SUFFICES ASSUME NEW k \in V, p <= k PROVE m <= k
          BY DEF FromOn
        <5>1. k \in Nat
          BY <1>1
        <5> QED
          BY <3>1, <3>3, <5>1
      <4>2. F(p) <= F(m)
        <5>1. IsFiniteSet(FromOn(V, m))
          BY <1>1, RankIs
        <5> QED
          BY <4>1, <5>1, FS_Subset
      <4>3. ~(F(m) <= 12)
        <5> HIDE DEF F
        <5> QED
          BY <2>7, <3>1, <4>2
      <4> QED
        BY <1>2, <4>3
    <3> QED
      BY <3>2, <3>3
  <2>11. Y \in SUBSET V
    BY <1>2
  <2> HIDE DEF Far, F
  <2>12. Y = {m \in V : p < m}
    BY <2>10, <2>11
  <2>13. Nth(V, n - Min({12, n - 1})) = p
    BY <2>8, <2>9, Zenon
  <2> QED
    BY <2>3, <2>5, <2>12, <2>13, Zenon DEF V, Y, last
<1> QED
  BY <1>5, <1>6

\* The change of a year, over all of a range that is shorter.
LEMMA RangeChanges ==
  ASSUME NEW s, IsSeries(s), NEW n \in Nat, n = Cardinality(s.visible), n >= 2
  PROVE  LET parts == Decompose(s)
         IN  Delta(s, 12).value = SumOf([m \in LastYear(s) |-> parts[m].newMoney + parts[m].growth])
<1> DEFINE V == s.visible
           last == Max(V)
           parts == Decompose(s)
           cur == s.point[last]
<1>1. PICK p \in V : /\ Nth(V, n - Min({12, n - 1})) = p
                     /\ LastYear(s) = {m \in V : p < m}
                     /\ p < last
  BY YearBack, Zenon
<1> DEFINE later == {m \in V : p < m}
           T == {m \in V : p <= m}
           prev == s.point[p]
           g == [m \in T |-> IF m = p THEN 0 ELSE s.point[m].V - PointBefore(s, m).V]
           c == prev.V
<1>2. /\ V \in SUBSET Axis(s) /\ V \in SUBSET Nat /\ IsFiniteSet(V)
      /\ last \in V /\ Min(V) \in V /\ \A m \in V : Min(V) <= m /\ m <= last
  <2>1. V \in SUBSET Axis(s) /\ V # {}
    BY SeriesSets
  <2> HIDE DEF V
  <2> QED
    BY <2>1, SeriesSets
<1>3. T \in SUBSET V /\ p \in T /\ last \in T /\ IsFiniteSet(T)
  <2>1. T \in SUBSET V
    OBVIOUS
  <2>2. IsFiniteSet(T)
    BY <1>2, <2>1, FS_Subset
  <2>3. p \in Nat /\ last \in Nat
    BY <1>2
  <2> HIDE DEF last
  <2>4. p <= p /\ p <= last
    BY <1>1, <2>3
  <2> QED
    BY <1>2, <2>1, <2>2, <2>4
<1>4. Min(T) = p /\ Max(T) = last
  <2>1. T \in SUBSET Int /\ \A m \in T : p <= m /\ m <= last
    BY <1>2
  <2> HIDE DEF T, last
  <2> QED
    BY <1>3, <2>1, MinIsOnly, MaxIsOnly
<1>5. IsSpan(s, T)
  <2>1. ASSUME NEW k \in Axis(s), p <= k PROVE k \in T
    BY <2>1 DEF IsSeries
  <2> HIDE DEF T
  <2> QED
    BY <1>3, <1>4, <2>1 DEF IsSpan
<1>6. Delta(s, 12).value = cur.V - c
  <2>1. s.point[Nth(V, n - Min({12, n - 1}))] = prev /\ Latest(s) = cur
    BY <1>1, Zenon DEF Latest
  <2> HIDE DEF cur, prev
  <2> QED
    BY <2>1 DEF Delta
<1>7. \A m \in V : s.point[m].V \in Int
  BY <1>2 DEF IsSeries, IsPoint
<1>8. later \in SUBSET T /\ later \in SUBSET DOMAIN parts
  <2>1. DOMAIN parts = V \ IF HasBaseline(s) THEN {} ELSE {Min(V)}
    BY SplitIs
  <2>2. ASSUME NEW m \in later PROVE m \in T /\ m \in V \ {Min(V)}
    <3>1. m \in Nat /\ p \in Nat /\ Min(V) \in Nat /\ p < m /\ Min(V) <= p
      BY <1>2
    <3>2. p <= m /\ m # Min(V)
      BY <3>1
    <3> QED
      BY <3>2
  <2> HIDE DEF later, T, V, parts
  <2> QED
    BY <2>1, <2>2
<1>9. ASSUME NEW m \in later
      PROVE  /\ PointBefore(s, m).V \in Int
             /\ parts[m].newMoney + parts[m].growth = s.point[m].V - PointBefore(s, m).V
             /\ g[m] = s.point[m].V - PointBefore(s, m).V
  <2>1. m \in DOMAIN parts /\ m \in T /\ m # p
    <3>1. m # p
      BY <1>2
    <3> QED
      BY <1>8, <3>1
  <2>2. /\ parts[m].newMoney = s.point[m].F
        /\ parts[m].growth = s.point[m].V - PointBefore(s, m).V - s.point[m].F
        /\ IsPoint(s.point[m]) /\ IsPoint(PointBefore(s, m))
    <3> HIDE DEF later
    <3> QED
      BY <1>2, <2>1, SplitIs
  <2> DEFINE x == s.point[m]
             q == PointBefore(s, m)
  <2> HIDE DEF x, q
  <2>3. x.V \in Int /\ x.F \in Int /\ q.V \in Int
    BY <2>2 DEF IsPoint, x, q
  <2>4. x.F + (x.V - q.V - x.F) = x.V - q.V
    BY <2>3
  <2>5. g[m] = x.V - q.V
    BY <2>1, Zenon DEF x, q
  <2> QED
    BY <2>2, <2>3, <2>4, <2>5, Zenon DEF x, q
<1>10. \A m \in T : m # p <=> m \in later
  <2> SUFFICES ASSUME NEW m \in T PROVE m # p <=> m \in later
    OBVIOUS
  <2>1. m \in V /\ p <= m /\ m \in Nat /\ p \in Nat
    BY <1>2
  <2> QED
    BY <2>1
<1>11. g \in [T -> Int]
  <2>1. ASSUME NEW m \in T
        PROVE  (IF m = p THEN 0 ELSE s.point[m].V - PointBefore(s, m).V) \in Int
    <3>1. CASE m = p
      BY <3>1
    <3>2. CASE m # p
      <4>1. m \in later /\ m \in V
        BY <1>3, <1>10, <3>2
      <4>2. s.point[m].V \in Int /\ PointBefore(s, m).V \in Int
        BY <1>7, <1>9, <4>1
      <4> QED
        BY <3>2, <4>2
    <3> QED
      BY <3>1, <3>2
  <2> HIDE DEF later, T
  <2> QED
    BY <2>1
<1>12. c \in Int /\ g[p] = s.point[p].V - c
  <2>1. c \in Int
    BY <1>7
  <2>2. g[p] = 0
    BY <1>3
  <2> HIDE DEF g
  <2> QED
    BY <2>1, <2>2
<1>13. \A m \in T : m # p => g[m] = s.point[m].V - PointBefore(s, m).V
  BY Zenon
<1>14. \A m \in T \ later : g[m] = 0
  <2> SUFFICES ASSUME NEW m \in T \ later PROVE g[m] = 0
    OBVIOUS
  <2>1. m = p
    BY <1>10
  <2> QED
    BY <1>3, <2>1
<1>15. Restrict(g, later) = [m \in later |-> parts[m].newMoney + parts[m].growth]
  <2> HIDE DEF g, later
  <2>1. Restrict(g, later) = [m \in later |-> g[m]]
    BY DEF Restrict
  <2> QED
    BY <1>9, <2>1
<1>16. LastYear(s) = later
  BY <1>1, Zenon
<1> HIDE DEF g, c, later, T
<1>17. SumOf(g) = s.point[Max(T)].V - c
  BY <1>4, <1>5, <1>11, <1>12, <1>13, SpanAddsUp
<1>18. SumOf(g) = SumOf(Restrict(g, later))
  BY <1>3, <1>8, <1>11, <1>14, SumOver
<1>19. SumOf([m \in later |-> parts[m].newMoney + parts[m].growth]) = cur.V - c
  BY <1>4, <1>15, <1>17, <1>18, Zenon
<1> QED
  BY <1>6, <1>16, <1>19, Zenon

LEMMA YearsDoAgree == IInv => YearsAgree
<1> SUFFICES ASSUME IInv, Answered PROVE YearsAgree
  BY Zenon DEF YearsAgree
<1> DEFINE s == TheSeries
           table == YearTable(s)
           parts == Decompose(s)
           in(y) == MonthsOfYear(s, y) \cap DOMAIN parts
           first(y) == Min(MonthsOfYear(s, y)) = Min(s.visible) /\ ~HasBaseline(s)
           last == Max(s.visible)
<1>1. IsSeries(s)
  <2> DEFINE S == InScope(TheInput, reader.req, reader.req.mode)
  <2>1. TheSeries = BuildSeries(TheInput, S)
    BY DEF IInv, TheSeries, Asked, TheInput
  <2>2. IsInput(TheInput) /\ S \in SUBSET Assets
    BY TheInputIs, ScopeIs DEF IInv, IsRead
  <2> HIDE DEF S
  <2>3. IsSeries(BuildSeries(TheInput, S))
    BY <2>2, BuiltIs
  <2> QED
    BY <2>1, <2>3, Zenon
<1> HIDE DEF s
<1>2. ASSUME NEW y \in DOMAIN table
      PROVE  /\ table[y].end = GroupLast(s, "year")[<<y>>]
             /\ \A z \in DOMAIN table :
                  z < y /\ (\A x \in DOMAIN table : ~(z < x /\ x < y)) =>
                    table[y].start = GroupLast(s, "year")[<<z>>]
  <2>1. table[y].end = GroupLast(s, "year")[<<y>>]
    BY <1>1, YearEnds, YearRowIs, Zenon
  <2>2. ASSUME NEW z \in DOMAIN table, z < y, \A x \in DOMAIN table : ~(z < x /\ x < y)
        PROVE  table[y].start = GroupLast(s, "year")[<<z>>]
    <3>1. table[y].start = s.point[Max(MonthsOfYear(s, z))].V
      BY <1>1, <2>2, YearsMeet, Zenon
    <3>2. GroupLast(s, "year")[<<z>>] = s.point[Max(MonthsOfYear(s, z))].V
      BY <1>1, YearEnds, Zenon
    <3> QED
      BY <3>1, <3>2, Zenon
  <2> QED
    BY <2>1, <2>2, Zenon
<1>3. ASSUME NEW y \in DOMAIN table
      PROVE  /\ table[y].growth - table[y].income = SumOf([m \in in(y) |-> parts[m].growth])
             /\ table[y].deposits = SumOf([m \in in(y) |-> parts[m].newMoney])
                                    + IF first(y) THEN s.point[Min(s.visible)].F ELSE 0
  BY <1>1, YearAddsUp, Zenon
<1>4. ASSUME NEW y \in DOMAIN table
      PROVE  FactorMonths(s, y) =
               IF Seeded(s) THEN MonthsOfYear(s, y)
               ELSE IF HasBaseline(s) THEN {k \in s.visible : \E m \in MonthsOfYear(s, y) : FollowedBy(s, k, m)}
               ELSE {k \in s.visible : \E m \in MonthsOfYear(s, y) : FollowedBy(s, m, k)}
  BY <1>1, FactorsOfYear, Zenon DEF MultipliedIn
<1>5. ASSUME Cardinality(s.visible) >= 2
      PROVE  /\ Delta(s, 1).deposits = parts[last].newMoney
             /\ Delta(s, 1).return = parts[last].growth
             /\ Delta(s, 12).value = SumOf([m \in LastYear(s) |-> parts[m].newMoney + parts[m].growth])
  <2> DEFINE n == Cardinality(s.visible)
  <2>1. n \in Nat /\ n >= 2 /\ n = Cardinality(s.visible)
    BY <1>1, <1>5, SeriesSets, FS_CardinalityType
  <2> HIDE DEF n
  <2>2. Delta(s, 1).deposits = parts[last].newMoney /\ Delta(s, 1).return = parts[last].growth
    BY <1>1, <2>1, MonthChanges, Zenon
  <2>3. Delta(s, 12).value = SumOf([m \in LastYear(s) |-> parts[m].newMoney + parts[m].growth])
    BY <1>1, <2>1, RangeChanges, Zenon
  <2> QED
    BY <2>2, <2>3, Zenon
<1>6. \A y \in DOMAIN table :
        /\ table[y].end = GroupLast(s, "year")[<<y>>]
        /\ \A z \in DOMAIN table :
             z < y /\ (\A x \in DOMAIN table : ~(z < x /\ x < y)) =>
               table[y].start = GroupLast(s, "year")[<<z>>]
        /\ table[y].growth - table[y].income = SumOf([m \in in(y) |-> parts[m].growth])
        /\ table[y].deposits = SumOf([m \in in(y) |-> parts[m].newMoney])
                               + IF first(y) THEN s.point[Min(s.visible)].F ELSE 0
        /\ FactorMonths(s, y) =
             IF Seeded(s) THEN MonthsOfYear(s, y)
             ELSE IF HasBaseline(s) THEN {k \in s.visible : \E m \in MonthsOfYear(s, y) : FollowedBy(s, k, m)}
             ELSE {k \in s.visible : \E m \in MonthsOfYear(s, y) : FollowedBy(s, m, k)}
        /\ Cardinality(s.visible) >= 2 =>
             /\ Delta(s, 1).deposits = parts[last].newMoney
             /\ Delta(s, 1).return = parts[last].growth
             /\ Delta(s, 12).value = SumOf([m \in LastYear(s) |-> parts[m].newMoney + parts[m].growth])
  <2> HIDE DEF table, parts, in, first, last
  <2> QED
    BY <1>2, <1>3, <1>4, <1>5, Zenon
<1> QED
  BY <1>6, Zenon DEF YearsAgree, s, table, parts, in, first, last

\* A range shows what the whole history shows, and the yearly table, the chart,
\* the monthly split and the overview tell the same story of it, for every
\* request and every ledger.  series.go VisibleFrom, service.go yearlyTable,
\* groupLast and Overview, twrr.go.
THEOREM NumbersAlwaysAgree == Spec => []NumbersAgree
<1>1. IInv => NumbersAgree
  BY RangesAgree, YearsDoAgree, Zenon DEF NumbersAgree
<1> QED
  BY <1>1, Invariant, PTL

-----------------------------------------------------------------------------
(* Records.                                                                *)

\* The longest runs, month by month.
RunsStep(legs, acc, m) ==
  LET up   == IF Less(One, legs[m].g) THEN acc.up + 1 ELSE 0
      down == IF Less(legs[m].g, One) THEN acc.down + 1 ELSE 0
  IN  [up |-> up, down |-> down,
       upMax |-> Max({up, acc.upMax}), downMax |-> Max({down, acc.downMax})]

NoRun == [up |-> 0, down |-> 0, upMax |-> 0, downMax |-> 0]

RunsPass(R, legs) ==
  CHOOSE f : f = [S \in SUBSET R |->
                    IF S = {} THEN NoRun ELSE RunsStep(legs, f[S \ {Max(S)}], Max(S))]

LEMMA StreaksPass ==
  ASSUME NEW s
  PROVE  Streaks(s) = RunsPass(ReturnMonths(s), Chain(s))[ReturnMonths(s)]
  BY DEF Streaks, Pass, MapThenFoldSet, RunsPass, RunsStep, NoRun

LEMMA RunsPassIs ==
  ASSUME NEW R \in SUBSET Nat, IsFiniteSet(R), NEW legs
  PROVE  \A S \in SUBSET R :
           RunsPass(R, legs)[S] =
             IF S = {} THEN NoRun ELSE RunsStep(legs, RunsPass(R, legs)[S \ {Max(S)}], Max(S))
<1> DEFINE A == [up : Nat, down : Nat, upMax : Nat, downMax : Nat]
           F == [p \in A \X R |-> RunsStep(legs, p[1], p[2])]
           Step(f, S) == IF S = {} THEN NoRun ELSE RunsStep(legs, f[S \ {Max(S)}], Max(S))
<1>1. ASSUME NEW acc \in A, NEW m \in R PROVE RunsStep(legs, acc, m) \in A
  <2> DEFINE up == IF Less(One, legs[m].g) THEN acc.up + 1 ELSE 0
             down == IF Less(legs[m].g, One) THEN acc.down + 1 ELSE 0
  <2>1. up \in Nat /\ down \in Nat /\ acc.upMax \in Nat /\ acc.downMax \in Nat
    OBVIOUS
  <2> HIDE DEF up, down
  <2>2. Max({up, acc.upMax}) \in Nat /\ Max({down, acc.downMax}) \in Nat
    BY <2>1, LongerOf
  <2>3. RunsStep(legs, acc, m) = [up |-> up, down |-> down, upMax |-> Max({up, acc.upMax}),
                                  downMax |-> Max({down, acc.downMax})]
    BY DEF RunsStep, up, down
  <2> QED
    BY <2>1, <2>2, <2>3
<1>2. NoRun \in A
  BY DEF NoRun
<1>3. F \in [A \X R -> A]
  BY <1>1
<1>4. \A acc \in A, m \in R : F[<<acc, m>>] = RunsStep(legs, acc, m)
  OBVIOUS
<1> HIDE DEF A, F
<1>5. PICK g \in [SUBSET R -> A] : IsPass(g, R, NoRun, F)
  BY <1>2, <1>3, PassExists
<1>6. ASSUME NEW S \in SUBSET R PROVE g[S] = Step(g, S)
  <2>1. CASE S = {}
    BY <1>5, <2>1 DEF IsPass
  <2>2. CASE S # {}
    <3>1. Max(S) \in S
      <4>1. S \in SUBSET Nat /\ IsFiniteSet(S)
        BY FS_Subset
      <4> QED
        BY <2>2, <4>1, LastIs
    <3>2. g[S \ {Max(S)}] \in A /\ Max(S) \in R
      BY <3>1
    <3>3. g[S] = F[<<g[S \ {Max(S)}], Max(S)>>]
      BY <1>5, <2>2 DEF IsPass
    <3> QED
      BY <1>4, <2>2, <3>2, <3>3
  <2> QED
    BY <2>1, <2>2
<1>7. g = [S \in SUBSET R |-> Step(g, S)]
  <2> HIDE DEF Step
  <2> QED
    BY <1>6
<1> DEFINE f == RunsPass(R, legs)
<1>8. f = [S \in SUBSET R |-> Step(f, S)]
  BY <1>7, Zenon DEF RunsPass
<1> HIDE DEF f
<1>9. \A S \in SUBSET R : f[S] = Step(f, S)
  <2> HIDE DEF Step
  <2> QED
    BY <1>8
<1> QED
  BY <1>9, Zenon DEF f

LEMMA RunsAre ==
  ASSUME NEW R \in SUBSET Nat, IsFiniteSet(R), NEW legs
  PROVE  LET last == RunsPass(R, legs)[R]
         IN  /\ AreRuns(R, {m \in R : Less(One, legs[m].g)}, last.up, last.upMax)
             /\ AreRuns(R, {m \in R : Less(legs[m].g, One)}, last.down, last.downMax)
<1> DEFINE f == RunsPass(R, legs)
           Up == {m \in R : Less(One, legs[m].g)}
           Down == {m \in R : Less(legs[m].g, One)}
           Fine(S) == AreRuns(S, Up, f[S].up, f[S].upMax) /\ AreRuns(S, Down, f[S].down, f[S].downMax)
           Good == {S \in SUBSET R : Fine(S)}
<1>1. \A S \in SUBSET R :
        f[S] = IF S = {} THEN NoRun ELSE RunsStep(legs, f[S \ {Max(S)}], Max(S))
  BY RunsPassIs
<1>2. \A m \in R : /\ m \in Up <=> Less(One, legs[m].g)
                   /\ m \in Down <=> Less(legs[m].g, One)
  OBVIOUS
<1> HIDE DEF f, Up, Down
<1>3. Fine({})
  <2>1. f[{}] = NoRun
    BY <1>1
  <2> QED
    BY <2>1, NoRuns DEF NoRun
<1>4. ASSUME NEW S \in SUBSET R, S # {}, Fine(S \ {Max(S)}) PROVE Fine(S)
  <2> DEFINE m == Max(S)
             acc == f[S \ {m}]
             up == IF m \in Up THEN acc.up + 1 ELSE 0
             down == IF m \in Down THEN acc.down + 1 ELSE 0
  <2>1. S \in SUBSET Nat /\ IsFiniteSet(S)
    BY FS_Subset
  <2>2. m \in R
    BY <1>4, <2>1, LastIs
  <2>3. f[S] = RunsStep(legs, acc, m)
    BY <1>1, <1>4
  <2>4. AreRuns(S \ {m}, Up, acc.up, acc.upMax) /\ AreRuns(S \ {m}, Down, acc.down, acc.downMax)
    BY <1>4
  <2>5. AreRuns(S, Up, up, Max({up, acc.upMax}))
    BY <1>4, <2>1, <2>4, RunsGoOn
  <2>6. AreRuns(S, Down, down, Max({down, acc.downMax}))
    BY <1>4, <2>1, <2>4, RunsGoOn
  <2> HIDE DEF m, acc
  <2>7. /\ f[S].up = up /\ f[S].upMax = Max({up, acc.upMax})
        /\ f[S].down = down /\ f[S].downMax = Max({down, acc.downMax})
    <3>1. (m \in Up <=> Less(One, legs[m].g)) /\ (m \in Down <=> Less(legs[m].g, One))
      BY <1>2, <2>2
    <3>2. /\ (IF Less(One, legs[m].g) THEN acc.up + 1 ELSE 0) = up
          /\ (IF Less(legs[m].g, One) THEN acc.down + 1 ELSE 0) = down
      BY <3>1, Zenon
    <3> HIDE DEF up, down
    <3>3. RunsStep(legs, acc, m) = [up |-> up, down |-> down, upMax |-> Max({up, acc.upMax}),
                                    downMax |-> Max({down, acc.downMax})]
      BY <3>2, Zenon DEF RunsStep
    <3> QED
      BY <2>3, <3>3
  <2> HIDE DEF up, down
  <2> QED
    BY <2>5, <2>6, <2>7, Zenon
<1>5. Good \in SUBSET SUBSET R /\ {} \in Good
  BY <1>3
<1>6. \A S \in SUBSET R : S # {} /\ S \ {Max(S)} \in Good => S \in Good
  BY <1>4
<1> HIDE DEF Fine
<1>7. R \in Good
  <2> HIDE DEF Good
  <2> QED
    BY <1>5, <1>6, InTheirOrder
<1>8. Fine(R)
  BY <1>7
<1> QED
  BY <1>8, Zenon DEF Fine, f, Up, Down

\* The longest run as the definition has it.
LEMMA LongestIs ==
  ASSUME NEW R \in SUBSET Nat, IsFiniteSet(R), NEW K, NEW now, NEW most, AreRuns(R, K, now, most)
  PROVE  Max({0} \cup {Cardinality({k \in R : p[1] <= k /\ k <= p[2]}) :
                         p \in {q \in R \X R : \A k \in R : q[1] <= k /\ k <= q[2] => k \in K}}) = most
<1> DEFINE Q == {q \in R \X R : \A k \in R : q[1] <= k /\ k <= q[2] => k \in K}
           size(p) == Cardinality({k \in R : p[1] <= k /\ k <= p[2]})
           L == {0} \cup {size(p) : p \in Q}
<1>1. /\ most \in Nat
      /\ \A a, b \in R : Between(R, a, b) \in SUBSET K => Cardinality(Between(R, a, b)) <= most
      /\ most = 0 \/ \E a, b \in R : /\ Between(R, a, b) \in SUBSET K
                                     /\ Cardinality(Between(R, a, b)) = most
  BY DEF AreRuns
<1>2. ASSUME NEW p \in Q PROVE size(p) <= most /\ size(p) \in Int
  <2>1. p[1] \in R /\ p[2] \in R /\ Between(R, p[1], p[2]) \in SUBSET K
    BY DEF Between
  <2>2. size(p) = Cardinality(Between(R, p[1], p[2]))
    BY DEF Between
  <2>3. Cardinality(Between(R, p[1], p[2])) \in Nat
    <3>1. Between(R, p[1], p[2]) \in SUBSET R
      BY DEF Between
    <3>2. IsFiniteSet(Between(R, p[1], p[2]))
      BY <3>1, FS_Subset
    <3> QED
      BY <3>2, FS_CardinalityType
  <2>4. Cardinality(Between(R, p[1], p[2])) <= most
    BY <1>1, <2>1
  <2> HIDE DEF size
  <2> QED
    BY <2>2, <2>3, <2>4
<1>3. most \in L
  <2>1. CASE most = 0
    BY <2>1
  <2>2. CASE most # 0
    <3>1. PICK a \in R, b \in R : /\ Between(R, a, b) \in SUBSET K
                                  /\ Cardinality(Between(R, a, b)) = most
      BY <1>1, <2>2
    <3> DEFINE p == <<a, b>>
    <3>2. p \in Q
      BY <3>1 DEF Between
    <3>3. size(p) = most
      BY <3>1 DEF Between
    <3> QED
      BY <3>2, <3>3
  <2> QED
    BY <2>1, <2>2
<1> HIDE DEF Q, size
<1>4. L \in SUBSET Int /\ \A n \in L : n <= most
  BY <1>1, <1>2
<1> HIDE DEF L
<1>5. Max(L) = most
  BY <1>3, <1>4, MaxIsOnly
<1> QED
  BY <1>5, Zenon DEF L, Q, size

\* The order of fractions.
IsFraction(x) == x[1] \in Int /\ x[2] \in Int /\ x[2] > 0

LEMMA Products ==
  ASSUME NEW p \in Int, NEW q \in Int, NEW n \in Int, n > 0, p * n <= q * n
  PROVE  p <= q
<1> SUFFICES ASSUME q < p PROVE FALSE
  OBVIOUS
<1> DEFINE d == p - q
<1>1. d \in Int /\ d >= 1 /\ p = q + d
  OBVIOUS
<1>2. p * n = q * n + d * n
  BY <1>1
<1>3. d * n >= n
  BY <1>1
<1> HIDE DEF d
<1>4. q * n \in Int /\ d * n \in Int
  BY <1>1
<1> QED
  BY <1>2, <1>3, <1>4

LEMMA LessIs ==
  /\ \A x, y : IsFraction(x) /\ IsFraction(y) /\ Less(x, y) => ~Less(y, x) /\ ~SameAs(x, y)
  /\ \A x, y, z : /\ IsFraction(x) /\ IsFraction(y) /\ IsFraction(z)
                  /\ Less(x, y)
                  => Less(x, z) \/ Less(z, y)
<1>1. ASSUME NEW x, NEW y, IsFraction(x), IsFraction(y), Less(x, y)
      PROVE  ~Less(y, x) /\ ~SameAs(x, y)
  <2>1. x[1] * y[2] \in Int /\ y[1] * x[2] \in Int
    BY <1>1 DEF IsFraction
  <2> QED
    BY <1>1, <2>1 DEF Less, SameAs
<1>2. ASSUME NEW x, NEW y, NEW z, IsFraction(x), IsFraction(y), IsFraction(z),
             ~Less(x, z), ~Less(z, y)
      PROVE  ~Less(x, y)
  <2> DEFINE a == x[1]  b == x[2]  c == y[1]  d == y[2]  e == z[1]  f == z[2]
  <2>1. a \in Int /\ b \in Int /\ c \in Int /\ d \in Int /\ e \in Int /\ f \in Int /\ b > 0 /\ d > 0 /\ f > 0
    BY <1>2 DEF IsFraction
  <2>2. ~(a * f < e * b) /\ ~(e * d < c * f)
    BY <1>2 DEF Less
  <2>3. Less(x, y) <=> a * d < c * b
    BY DEF Less
  <2> HIDE DEF a, b, c, d, e, f
  <2>4. e * b <= a * f /\ c * f <= e * d
    BY <2>1, <2>2
  <2>5. (e * b) * d <= (a * f) * d /\ (c * f) * b <= (e * d) * b
    BY <2>1, <2>4
  <2>6. (c * b) * f = (c * f) * b /\ (e * d) * b = (e * b) * d /\ (a * f) * d = (a * d) * f
    BY <2>1
  <2> DEFINE p == c * b
             q == a * d
  <2>7. p \in Int /\ q \in Int
    BY <2>1
  <2>8. p * f <= q * f
    <3> DEFINE u == (e * b) * d
               v == p * f
               w == q * f
    <3>1. u \in Int /\ v \in Int /\ w \in Int
      BY <2>1
    <3>2. v <= u /\ u <= w
      BY <2>5, <2>6
    <3> HIDE DEF u, v, w
    <3>3. v <= w
      BY <3>1, <3>2
    <3> QED
      BY <3>3 DEF v, w
  <2> HIDE DEF p, q
  <2>9. p <= q
    BY <2>1, <2>7, <2>8, Products
  <2> QED
    BY <2>3, <2>7, <2>9 DEF p, q
<1> QED
  BY <1>1, <1>2

\* m is the first of S among those that none of S is preferred to; B has the
\* pairs whose second is preferred.
IsFirst(S, m, B) ==
  /\ m \in S
  /\ \A k \in S : <<m, k>> \notin B /\ (<<k, m>> \notin B => m <= k)

IsPreference(B, R) ==
  /\ \A x, y \in R : <<x, y>> \in B => <<y, x>> \notin B
  /\ \A x, y, z \in R : <<x, y>> \in B => <<x, z>> \in B \/ <<z, y>> \in B

LEMMA FirstGoesOn ==
  ASSUME NEW R \in SUBSET Nat, NEW B, IsPreference(B, R), NEW S \in SUBSET R, NEW best, IsFirst(S, best, B),
         NEW m \in R, \A k \in S : k <= m
  PROVE  IsFirst(S \cup {m}, IF <<best, m>> \in B THEN m ELSE best, B)
<1>1. /\ best \in S /\ best \in R /\ S \in SUBSET Nat /\ m \in Nat
      /\ \A k \in S : <<best, k>> \notin B /\ (<<k, best>> \notin B => best <= k)
  BY DEF IsFirst
<1>2. <<m, m>> \notin B /\ m <= m
  BY <1>1 DEF IsPreference
<1>3. CASE <<best, m>> \in B
  <2>1. ASSUME NEW k \in S PROVE <<k, m>> \in B /\ <<m, k>> \notin B
    <3>1. <<best, k>> \notin B
      BY <1>1
    <3>2. <<k, m>> \in B
      BY <1>1, <1>3, <3>1 DEF IsPreference
    <3> QED
      BY <3>2 DEF IsPreference
  <2>2. IsFirst(S \cup {m}, m, B)
    BY <1>2, <2>1 DEF IsFirst
  <2> QED
    BY <1>3, <2>2
<1>4. CASE <<best, m>> \notin B
  <2>1. best <= m
    BY <1>1
  <2>2. IsFirst(S \cup {m}, best, B)
    BY <1>1, <1>4, <2>1 DEF IsFirst
  <2> QED
    BY <1>4, <2>2
<1> QED
  BY <1>3, <1>4

\* The best and the worst, month by month.
ExtremesStep(legs, acc, m) ==
  [best  |-> IF Less(legs[acc.best].g, legs[m].g) THEN m ELSE acc.best,
   worst |-> IF Less(legs[m].g, legs[acc.worst].g) THEN m ELSE acc.worst]

Both(m) == [best |-> m, worst |-> m]

ExtremesPass(R, legs) ==
  CHOOSE f : f = [S \in SUBSET R |->
                    IF S = {} THEN Both(Min(R)) ELSE ExtremesStep(legs, f[S \ {Max(S)}], Max(S))]

LEMMA ExtremesAsPass ==
  ASSUME NEW s
  PROVE  Extremes(s) = ExtremesPass(ReturnMonths(s), Chain(s))[ReturnMonths(s)]
  BY DEF Extremes, Pass, MapThenFoldSet, ExtremesPass, ExtremesStep, Both

LEMMA ExtremesPassIs ==
  ASSUME NEW R \in SUBSET Nat, IsFiniteSet(R), R # {}, NEW legs
  PROVE  \A S \in SUBSET R :
           ExtremesPass(R, legs)[S] =
             IF S = {} THEN Both(Min(R))
             ELSE ExtremesStep(legs, ExtremesPass(R, legs)[S \ {Max(S)}], Max(S))
<1> DEFINE A == [best : R, worst : R]
           F == [p \in A \X R |-> ExtremesStep(legs, p[1], p[2])]
           start == Both(Min(R))
           Step(f, S) == IF S = {} THEN start ELSE ExtremesStep(legs, f[S \ {Max(S)}], Max(S))
<1>1. ASSUME NEW acc \in A, NEW m \in R PROVE ExtremesStep(legs, acc, m) \in A
  BY DEF ExtremesStep
<1>2. start \in A
  BY MinIs DEF Both
<1>3. F \in [A \X R -> A]
  BY <1>1
<1>4. \A acc \in A, m \in R : F[<<acc, m>>] = ExtremesStep(legs, acc, m)
  OBVIOUS
<1> HIDE DEF A, F, start
<1>5. PICK g \in [SUBSET R -> A] : IsPass(g, R, start, F)
  BY <1>2, <1>3, PassExists
<1>6. ASSUME NEW S \in SUBSET R PROVE g[S] = Step(g, S)
  <2>1. CASE S = {}
    BY <1>5, <2>1 DEF IsPass
  <2>2. CASE S # {}
    <3>1. Max(S) \in S
      <4>1. S \in SUBSET Nat /\ IsFiniteSet(S)
        BY FS_Subset
      <4> QED
        BY <2>2, <4>1, LastIs
    <3>2. g[S \ {Max(S)}] \in A /\ Max(S) \in R
      BY <3>1
    <3>3. g[S] = F[<<g[S \ {Max(S)}], Max(S)>>]
      BY <1>5, <2>2 DEF IsPass
    <3> QED
      BY <1>4, <2>2, <3>2, <3>3
  <2> QED
    BY <2>1, <2>2
<1>7. g = [S \in SUBSET R |-> Step(g, S)]
  <2> HIDE DEF Step
  <2> QED
    BY <1>6
<1> DEFINE f == ExtremesPass(R, legs)
<1>8. f = [S \in SUBSET R |-> Step(f, S)]
  BY <1>7, Zenon DEF ExtremesPass, start
<1> HIDE DEF f
<1>9. \A S \in SUBSET R : f[S] = Step(f, S)
  <2> HIDE DEF Step
  <2> QED
    BY <1>8
<1> QED
  BY <1>9, Zenon DEF f, start

LEMMA ExtremesAre ==
  ASSUME NEW R \in SUBSET Nat, IsFiniteSet(R), R # {}, NEW legs, \A m \in R : IsFraction(legs[m].g)
  PROVE  LET last == ExtremesPass(R, legs)[R]
         IN  /\ last.best \in R /\ last.worst \in R
             /\ \A m \in R :
                  /\ ~Less(legs[last.best].g, legs[m].g) /\ ~Less(legs[m].g, legs[last.worst].g)
                  /\ SameAs(legs[m].g, legs[last.best].g) => last.best <= m
                  /\ SameAs(legs[m].g, legs[last.worst].g) => last.worst <= m
<1> DEFINE f == ExtremesPass(R, legs)
           first == Min(R)
           Up == {p \in R \X R : Less(legs[p[1]].g, legs[p[2]].g)}
           Down == {p \in R \X R : Less(legs[p[2]].g, legs[p[1]].g)}
           Fine(S) == /\ IsFirst(S \cup {first}, f[S].best, Up)
                      /\ IsFirst(S \cup {first}, f[S].worst, Down)
           Good == {S \in SUBSET R : Fine(S)}
<1>1. \A S \in SUBSET R :
        f[S] = IF S = {} THEN Both(first) ELSE ExtremesStep(legs, f[S \ {Max(S)}], Max(S))
  BY ExtremesPassIs
<1>2. \A k, m \in R : /\ <<k, m>> \in Up <=> Less(legs[k].g, legs[m].g)
                      /\ <<k, m>> \in Down <=> Less(legs[m].g, legs[k].g)
  OBVIOUS
<1>3. first \in R /\ \A k \in R : first <= k
  BY MinIs
<1> HIDE DEF f, Up, Down, first
<1>4. IsPreference(Up, R)
  <2>1. ASSUME NEW x \in R, NEW y \in R, <<x, y>> \in Up PROVE <<y, x>> \notin Up
    BY <1>2, <2>1, LessIs
  <2>2. ASSUME NEW x \in R, NEW y \in R, NEW z \in R, <<x, y>> \in Up PROVE <<x, z>> \in Up \/ <<z, y>> \in Up
    BY <1>2, <2>2, LessIs
  <2> QED
    BY <2>1, <2>2 DEF IsPreference
<1>5. IsPreference(Down, R)
  <2>1. ASSUME NEW x \in R, NEW y \in R, <<x, y>> \in Down PROVE <<y, x>> \notin Down
    BY <1>2, <2>1, LessIs
  <2>2. ASSUME NEW x \in R, NEW y \in R, NEW z \in R, <<x, y>> \in Down
        PROVE  <<x, z>> \in Down \/ <<z, y>> \in Down
    BY <1>2, <2>2, LessIs
  <2> QED
    BY <2>1, <2>2 DEF IsPreference
<1>6. Fine({})
  <2>1. f[{}] = Both(first)
    BY <1>1
  <2>2. f[{}].best = first /\ f[{}].worst = first
    BY <2>1 DEF Both
  <2>3. first <= first
    BY <1>3
  <2>4. \A k \in {} \cup {first} : k = first
    OBVIOUS
  <2>5. IsFirst({} \cup {first}, first, Up) /\ IsFirst({} \cup {first}, first, Down)
    BY <1>3, <1>4, <1>5, <2>3, <2>4 DEF IsFirst, IsPreference
  <2> QED
    BY <2>2, <2>5, Zenon
<1>7. ASSUME NEW S \in SUBSET R, S # {}, Fine(S \ {Max(S)}) PROVE Fine(S)
  <2> DEFINE m == Max(S)
             T == (S \ {m}) \cup {first}
             acc == f[S \ {m}]
             best == IF <<acc.best, m>> \in Up THEN m ELSE acc.best
             worst == IF <<acc.worst, m>> \in Down THEN m ELSE acc.worst
  <2>1. S \in SUBSET Nat /\ IsFiniteSet(S)
    BY FS_Subset
  <2>2. m \in S /\ m \in R /\ \A k \in S \ {m} : k <= m
    <3>1. m \in S /\ m \in Nat /\ \A k \in S \ {m} : k < m
      BY <1>7, <2>1, LastIs
    <3> HIDE DEF m
    <3>2. \A k \in S \ {m} : k <= m
      BY <2>1, <3>1
    <3> QED
      BY <3>1, <3>2
  <2>3. f[S] = ExtremesStep(legs, acc, m)
    BY <1>1, <1>7
  <2>4. IsFirst(T, acc.best, Up) /\ IsFirst(T, acc.worst, Down)
    BY <1>7
  <2> HIDE DEF acc, m
  <2>5. T \in SUBSET R /\ T \cup {m} = S \cup {first} /\ \A k \in T : k <= m
    BY <1>3, <2>2
  <2>6. acc.best \in R /\ acc.worst \in R
    BY <2>4, <2>5 DEF IsFirst
  <2> HIDE DEF T
  <2>7. IsFirst(T \cup {m}, best, Up) /\ IsFirst(T \cup {m}, worst, Down)
    BY <1>4, <1>5, <2>2, <2>4, <2>5, FirstGoesOn
  <2>8. f[S].best = best /\ f[S].worst = worst
    <3>1. (<<acc.best, m>> \in Up <=> Less(legs[acc.best].g, legs[m].g))
          /\ (<<acc.worst, m>> \in Down <=> Less(legs[m].g, legs[acc.worst].g))
      BY <1>2, <2>2, <2>6
    <3>2. (IF Less(legs[acc.best].g, legs[m].g) THEN m ELSE acc.best) = best
      BY <3>1, Zenon
    <3>3. (IF Less(legs[m].g, legs[acc.worst].g) THEN m ELSE acc.worst) = worst
      BY <3>1, Zenon
    <3> HIDE DEF best, worst
    <3>4. ExtremesStep(legs, acc, m) = [best |-> best, worst |-> worst]
      BY <3>2, <3>3, Zenon DEF ExtremesStep
    <3> QED
      BY <2>3, <3>4
  <2> QED
    BY <2>5, <2>7, <2>8, Zenon
<1>8. Good \in SUBSET SUBSET R /\ {} \in Good
  BY <1>6
<1>9. \A S \in SUBSET R : S # {} /\ S \ {Max(S)} \in Good => S \in Good
  BY <1>7
<1> HIDE DEF Fine
<1>10. R \in Good
  <2> HIDE DEF Good
  <2> QED
    BY <1>8, <1>9, InTheirOrder
<1>11. Fine(R)
  BY <1>10
<1>12. R \cup {first} = R
  BY <1>3
<1> DEFINE best == f[R].best
           worst == f[R].worst
<1>13. IsFirst(R, best, Up) /\ IsFirst(R, worst, Down)
  BY <1>11, <1>12, Zenon DEF Fine
<1> HIDE DEF best, worst
<1>14. best \in R /\ worst \in R
  BY <1>13 DEF IsFirst
<1>15. ASSUME NEW m \in R
       PROVE  /\ ~Less(legs[best].g, legs[m].g) /\ ~Less(legs[m].g, legs[worst].g)
              /\ SameAs(legs[m].g, legs[best].g) => best <= m
              /\ SameAs(legs[m].g, legs[worst].g) => worst <= m
  <2>1. /\ <<best, m>> \notin Up /\ (<<m, best>> \notin Up => best <= m)
        /\ <<worst, m>> \notin Down /\ (<<m, worst>> \notin Down => worst <= m)
    BY <1>13 DEF IsFirst
  <2>2. /\ ~Less(legs[best].g, legs[m].g) /\ (~Less(legs[m].g, legs[best].g) => best <= m)
        /\ ~Less(legs[m].g, legs[worst].g) /\ (~Less(legs[worst].g, legs[m].g) => worst <= m)
    BY <1>2, <1>14, <2>1
  <2>3. /\ SameAs(legs[m].g, legs[best].g) => ~Less(legs[m].g, legs[best].g)
        /\ SameAs(legs[m].g, legs[worst].g) => ~Less(legs[worst].g, legs[m].g)
    <3>1. IsFraction(legs[m].g) /\ IsFraction(legs[best].g) /\ IsFraction(legs[worst].g)
      BY <1>14
    <3>2. \A x, y : IsFraction(x) /\ IsFraction(y) /\ SameAs(x, y) => ~Less(x, y) /\ ~Less(y, x)
      <4>1. \A x, y : SameAs(x, y) => SameAs(y, x)
        BY DEF SameAs
      <4> QED
        BY <4>1, LessIs, Zenon
    <3> QED
      BY <3>1, <3>2, Zenon
  <2> QED
    BY <2>2, <2>3
<1> QED
  BY <1>14, <1>15, Zenon DEF best, worst, f

\* The deepest fall, month by month; v has the points.
DrawdownStep(v, acc, m) ==
  LET peak  == IF v[m].V > v[acc.at].V THEN m ELSE acc.at
      depth == <<v[peak].V - v[m].V, v[peak].V>>
  IN  IF v[peak].V > 0 /\ Less(acc.depth, depth)
      THEN [at |-> peak, depth |-> depth, peak |-> peak, trough |-> m]
      ELSE [acc EXCEPT !.at = peak]

NoFall(m) == [at |-> m, depth |-> <<0, 1>>, peak |-> m, trough |-> m]

\* Among the months T none up to j has a value above that of i.
IsHighest(v, T, i, j) == \A k \in T : k <= j => v[k].V <= v[i].V

\* What is known after the months T.
IsDeepest(v, T, acc) ==
  /\ acc = [at |-> acc.at, depth |-> acc.depth, peak |-> acc.peak, trough |-> acc.trough]
  /\ acc.at \in T /\ \A k \in T : v[k].V <= v[acc.at].V
  /\ IsFraction(acc.depth)
  /\ \A i, j \in T : i <= j /\ v[i].V > 0 /\ IsHighest(v, T, i, j) =>
       ~Less(acc.depth, <<v[i].V - v[j].V, v[i].V>>)
  /\ acc.peak \in T /\ acc.trough \in T /\ acc.peak <= acc.trough
  /\ acc.depth[1] > 0 =>
       /\ SameAs(acc.depth, <<v[acc.peak].V - v[acc.trough].V, v[acc.peak].V>>)
       /\ v[acc.peak].V > 0 /\ IsHighest(v, T, acc.peak, acc.trough)

LEMMA FallGoesOn ==
  ASSUME NEW C \in SUBSET Nat, NEW v, \A m \in C : v[m].V \in Int, NEW T \in SUBSET C,
         NEW acc, IsDeepest(v, T, acc), NEW m \in C, \A k \in T : k <= m
  PROVE  IsDeepest(v, T \cup {m}, DrawdownStep(v, acc, m))
<1> DEFINE peak == IF v[m].V > v[acc.at].V THEN m ELSE acc.at
           depth == <<v[peak].V - v[m].V, v[peak].V>>
           U == T \cup {m}
           deeper == v[peak].V > 0 /\ Less(acc.depth, depth)
           next == DrawdownStep(v, acc, m)
           pair(i, j) == <<v[i].V - v[j].V, v[i].V>>
<1>1. /\ acc.at \in T /\ \A k \in T : v[k].V <= v[acc.at].V
      /\ IsFraction(acc.depth)
      /\ \A i, j \in T : i <= j /\ v[i].V > 0 /\ IsHighest(v, T, i, j) => ~Less(acc.depth, pair(i, j))
      /\ acc.peak \in T /\ acc.trough \in T /\ acc.peak <= acc.trough
      /\ acc.depth[1] > 0 => /\ SameAs(acc.depth, pair(acc.peak, acc.trough))
                             /\ v[acc.peak].V > 0 /\ IsHighest(v, T, acc.peak, acc.trough)
  BY DEF IsDeepest
<1>2. \A k \in U : v[k].V \in Int /\ k \in Nat /\ k <= m
  <2>1. ASSUME NEW k \in U PROVE k \in C /\ k <= m
    BY <2>1
  <2> HIDE DEF U
  <2> QED
    BY <2>1
<1>3. peak \in U /\ v[peak].V \in Int /\ peak <= m /\ \A k \in U : v[k].V <= v[peak].V
  <2>1. v[acc.at].V \in Int /\ v[m].V \in Int
    BY <1>1
  <2>2. CASE v[m].V > v[acc.at].V
    <3>1. \A k \in T : v[k].V <= v[m].V
      BY <1>1, <1>2, <2>1, <2>2
    <3>2. ASSUME NEW k \in U PROVE v[k].V <= v[m].V
      <4>1. CASE k = m
        <5>1. v[m].V <= v[m].V
          BY <2>1
        <5> QED
          BY <4>1, <5>1, Zenon
      <4>2. CASE k \in T
        BY <3>1, <4>2
      <4> QED
        BY <4>1, <4>2
    <3>3. peak = m /\ m \in U
      BY <2>2
    <3> HIDE DEF peak, U
    <3> QED
      BY <1>2, <3>2, <3>3
  <2>3. CASE ~(v[m].V > v[acc.at].V)
    <3>1. v[m].V <= v[acc.at].V
      BY <1>1, <2>1, <2>3
    <3> QED
      BY <1>1, <1>2, <2>3, <3>1
  <2> QED
    BY <2>2, <2>3
<1>4. next = IF deeper
             THEN [at |-> peak, depth |-> depth, peak |-> peak, trough |-> m]
             ELSE [at |-> peak, depth |-> acc.depth, peak |-> acc.peak,
                   trough |-> acc.trough]
  <2> HIDE DEF peak
  <2>1. [acc EXCEPT !.at = peak] =
          [at |-> peak, depth |-> acc.depth, peak |-> acc.peak,
           trough |-> acc.trough]
    <3> DEFINE a == acc.at
               d == acc.depth
               p == acc.peak
               t == acc.trough
               r == [at |-> a, depth |-> d, peak |-> p, trough |-> t]
    <3>1. acc = r
      BY Zenon DEF IsDeepest
    <3> HIDE DEF a, d, p, t
    <3>2. [r EXCEPT !.at = peak] = [at |-> peak, depth |-> d, peak |-> p, trough |-> t]
      OBVIOUS
    <3> HIDE DEF r
    <3>3. [acc EXCEPT !.at = peak] = [at |-> peak, depth |-> d, peak |-> p, trough |-> t]
      BY <3>1, <3>2, Zenon
    <3> QED
      BY <3>3, Zenon DEF d, p, t
  <2> QED
    BY <2>1, Zenon DEF DrawdownStep, peak
<1>5. \A i, j \in U : v[i].V > 0 => IsFraction(pair(i, j))
  <2> SUFFICES ASSUME NEW i \in U, NEW j \in U, v[i].V > 0 PROVE IsFraction(pair(i, j))
    OBVIOUS
  <2>1. v[i].V \in Int /\ v[j].V \in Int
    BY <1>2
  <2>2. v[i].V - v[j].V \in Int /\ v[i].V \in Int
    BY <2>1
  <2> QED
    BY <2>2 DEF IsFraction
<1>6. depth = pair(peak, m)
  OBVIOUS
<1>7. \A i, j \in U : i <= j => j = m \/ (i \in T /\ j \in T)
  BY <1>2
<1> HIDE DEF peak, depth, U, next
<1>8. ASSUME NEW i \in U, v[i].V > 0, IsHighest(v, U, i, m) PROVE v[peak].V > 0 /\ pair(i, m) = depth
  <2>1. v[i].V <= v[peak].V
    BY <1>3
  <2>2. v[peak].V <= v[i].V
    BY <1>3, <1>8 DEF IsHighest
  <2>3. v[i].V \in Int /\ v[peak].V \in Int
    BY <1>2, <1>3
  <2>4. v[i].V = v[peak].V
    BY <2>1, <2>2, <2>3
  <2> QED
    BY <1>6, <1>8, <2>4
<1>9. m \in U /\ T \in SUBSET U
  BY DEF U
<1>10. SameAs(depth, pair(peak, m)) /\ IsHighest(v, U, peak, m)
  BY <1>3, <1>6 DEF SameAs, IsHighest
<1>13. \A i, j \in T : IsHighest(v, U, i, j) => IsHighest(v, T, i, j)
  BY <1>9 DEF IsHighest
<1> HIDE DEF pair
<1>11. CASE deeper
  <2>1. next.at = peak /\ next.depth = depth /\ next.peak = peak /\ next.trough = m
        /\ next = [at |-> next.at, depth |-> next.depth, peak |-> next.peak,
                   trough |-> next.trough]
    BY <1>4, <1>11
  <2>2. IsFraction(depth)
    BY <1>3, <1>5, <1>6, <1>9, <1>11
  <2>3. ASSUME NEW i \in U, NEW j \in U, i <= j, v[i].V > 0, IsHighest(v, U, i, j)
        PROVE  ~Less(depth, pair(i, j))
    <3>1. CASE j = m
      <4>1. pair(i, m) = depth
        BY <1>8, <2>3, <3>1
      <4>2. ~Less(depth, depth)
        BY <2>2, LessIs
      <4> QED
        BY <3>1, <4>1, <4>2, Zenon
    <3>2. CASE i \in T /\ j \in T
      <4>1. ~Less(acc.depth, pair(i, j)) /\ IsFraction(pair(i, j))
        BY <1>1, <1>5, <1>9, <1>13, <2>3, <3>2
      <4>2. Less(acc.depth, depth)
        BY <1>11
      <4>3. Less(pair(i, j), depth)
        BY <1>1, <2>2, <4>1, <4>2, LessIs
      <4> QED
        BY <2>2, <4>1, <4>3, LessIs
    <3> QED
      BY <1>7, <2>3, <3>1, <3>2
  <2>4. SameAs(next.depth, pair(next.peak, next.trough)) /\ IsHighest(v, U, next.peak, next.trough)
    BY <1>10, <2>1, Zenon
  <2>5. v[next.peak].V > 0
    BY <1>11, <2>1, Zenon
  <2> HIDE DEF next
  <2> QED
    BY <1>3, <1>9, <2>1, <2>2, <2>3, <2>4, <2>5 DEF IsDeepest, pair, U, next
<1>12. CASE ~deeper
  <2>1. /\ next.at = peak /\ next.depth = acc.depth /\ next.peak = acc.peak
        /\ next.trough = acc.trough
        /\ next = [at |-> next.at, depth |-> next.depth, peak |-> next.peak,
                   trough |-> next.trough]
    BY <1>4, <1>12
  <2>3. ASSUME NEW i \in U, NEW j \in U, i <= j, v[i].V > 0, IsHighest(v, U, i, j)
        PROVE  ~Less(acc.depth, pair(i, j))
    <3>1. CASE j = m
      <4>1. v[peak].V > 0 /\ pair(i, m) = depth
        BY <1>8, <2>3, <3>1
      <4>2. ~Less(acc.depth, depth)
        BY <1>12, <4>1
      <4> QED
        BY <3>1, <4>1, <4>2, Zenon
    <3>2. CASE i \in T /\ j \in T
      BY <1>1, <1>13, <2>3, <3>2
    <3> QED
      BY <1>7, <2>3, <3>1, <3>2
  <2>4. acc.depth[1] > 0 => v[acc.peak].V > 0 /\ IsHighest(v, U, acc.peak, acc.trough)
    <3> SUFFICES ASSUME acc.depth[1] > 0, NEW k \in U, k <= acc.trough PROVE v[k].V <= v[acc.peak].V
      BY <1>1 DEF IsHighest
    <3>1. k \in T
      <4>1. CASE k = m
        <5>1. acc.trough <= m /\ acc.trough \in Nat /\ m \in Nat
          BY <1>1, <1>2, <1>9
        <5>2. m <= acc.trough
          BY <4>1
        <5>3. acc.trough = m
          BY <5>1, <5>2
        <5> QED
          BY <1>1, <4>1, <5>3
      <4> QED
        BY <4>1 DEF U
    <3> QED
      BY <1>1, <3>1 DEF IsHighest
  <2> QED
    BY <1>1, <1>3, <1>9, <2>1, <2>3, <2>4 DEF IsDeepest, pair, U, next
<1> QED
  BY <1>11, <1>12, Zenon DEF U, next

DrawdownPass(C, v) ==
  CHOOSE f : f = [S \in SUBSET C |->
                    IF S = {} THEN NoFall(Min(C)) ELSE DrawdownStep(v, f[S \ {Max(S)}], Max(S))]

LEMMA DrawdownAsPass ==
  ASSUME NEW s
  PROVE  Drawdown(s) = DrawdownPass(ChainMonths(s), s.point)[ChainMonths(s)]
  BY DEF Drawdown, Pass, MapThenFoldSet, DrawdownPass, DrawdownStep, NoFall

LEMMA DrawdownPassIs ==
  ASSUME NEW C \in SUBSET Nat, IsFiniteSet(C), C # {}, NEW v, \A m \in C : v[m].V \in Int
  PROVE  \A S \in SUBSET C :
           DrawdownPass(C, v)[S] =
             IF S = {} THEN NoFall(Min(C))
             ELSE DrawdownStep(v, DrawdownPass(C, v)[S \ {Max(S)}], Max(S))
<1> DEFINE A == [at : C, depth : Int \X Int, peak : C, trough : C]
           F == [p \in A \X C |-> DrawdownStep(v, p[1], p[2])]
           start == NoFall(Min(C))
           Step(f, S) == IF S = {} THEN start ELSE DrawdownStep(v, f[S \ {Max(S)}], Max(S))
<1>1. ASSUME NEW acc \in A, NEW m \in C PROVE DrawdownStep(v, acc, m) \in A
  <2> DEFINE peak == IF v[m].V > v[acc.at].V THEN m ELSE acc.at
             depth == <<v[peak].V - v[m].V, v[peak].V>>
  <2>1. peak \in C
    OBVIOUS
  <2> HIDE DEF peak
  <2>2. depth \in Int \X Int
    <3>1. v[peak].V \in Int /\ v[m].V \in Int
      BY <2>1
    <3> QED
      BY <3>1
  <2> HIDE DEF depth
  <2>3. [at |-> peak, depth |-> depth, peak |-> peak, trough |-> m] \in A
    BY <2>1, <2>2
  <2>4. [acc EXCEPT !.at = peak] \in A
    BY <2>1
  <2> HIDE DEF A
  <2>5. DrawdownStep(v, acc, m) = IF v[peak].V > 0 /\ Less(acc.depth, depth)
                                  THEN [at |-> peak, depth |-> depth, peak |-> peak, trough |-> m]
                                  ELSE [acc EXCEPT !.at = peak]
    BY Zenon DEF DrawdownStep, peak, depth
  <2> QED
    BY <2>3, <2>4, <2>5, Zenon
<1>2. start \in A
  <2>1. Min(C) \in C /\ <<0, 1>> \in Int \X Int
    BY MinIs
  <2> QED
    BY <2>1 DEF NoFall
<1>3. F \in [A \X C -> A]
  <2> HIDE DEF A
  <2> QED
    BY <1>1
<1>4. \A acc \in A, m \in C : F[<<acc, m>>] = DrawdownStep(v, acc, m)
  <2> HIDE DEF A
  <2> QED
    OBVIOUS
<1> HIDE DEF A, F, start
<1>5. PICK g \in [SUBSET C -> A] : IsPass(g, C, start, F)
  BY <1>2, <1>3, PassExists
<1>6. ASSUME NEW S \in SUBSET C PROVE g[S] = Step(g, S)
  <2>1. CASE S = {}
    BY <1>5, <2>1 DEF IsPass
  <2>2. CASE S # {}
    <3>1. Max(S) \in S
      <4>1. S \in SUBSET Nat /\ IsFiniteSet(S)
        BY FS_Subset
      <4> QED
        BY <2>2, <4>1, LastIs
    <3>2. g[S \ {Max(S)}] \in A /\ Max(S) \in C
      BY <3>1
    <3>3. g[S] = F[<<g[S \ {Max(S)}], Max(S)>>]
      BY <1>5, <2>2 DEF IsPass
    <3> QED
      BY <1>4, <2>2, <3>2, <3>3
  <2> QED
    BY <2>1, <2>2
<1>7. g = [S \in SUBSET C |-> Step(g, S)]
  <2> HIDE DEF Step
  <2> QED
    BY <1>6
<1> DEFINE f == DrawdownPass(C, v)
<1>8. f = [S \in SUBSET C |-> Step(f, S)]
  BY <1>7, Zenon DEF DrawdownPass, start
<1> HIDE DEF f
<1>9. \A S \in SUBSET C : f[S] = Step(f, S)
  <2> HIDE DEF Step
  <2> QED
    BY <1>8
<1> QED
  BY <1>9, Zenon DEF f, start

LEMMA DrawdownIs ==
  ASSUME NEW C \in SUBSET Nat, IsFiniteSet(C), C # {}, NEW v, \A m \in C : v[m].V \in Int
  PROVE  IsDeepest(v, C, DrawdownPass(C, v)[C])
<1> DEFINE f == DrawdownPass(C, v)
           first == Min(C)
           Fine(S) == IsDeepest(v, S \cup {first}, f[S])
           Good == {S \in SUBSET C : Fine(S)}
<1>1. \A S \in SUBSET C :
        f[S] = IF S = {} THEN NoFall(first) ELSE DrawdownStep(v, f[S \ {Max(S)}], Max(S))
  BY DrawdownPassIs
<1>2. first \in C /\ first \in Nat /\ \A k \in C : first <= k
  BY MinIs
<1> HIDE DEF f, first
<1>3. Fine({})
  <2> DEFINE acc == NoFall(first)
             x == v[first].V
  <2>1. f[{}] = acc
    BY <1>1
  <2>2. /\ acc.at = first /\ acc.depth = <<0, 1>> /\ acc.peak = first /\ acc.trough = first
        /\ acc = [at |-> acc.at, depth |-> acc.depth, peak |-> acc.peak, trough |-> acc.trough]
    BY DEF NoFall
  <2>3. x \in Int /\ x <= x /\ first <= first
    BY <1>2
  <2>4. \A k \in {} \cup {first} : k = first
    OBVIOUS
  <2>5. IsFraction(<<0, 1>>) /\ ~(<<0, 1>>[1] > 0)
    BY DEF IsFraction
  <2>6. ~Less(<<0, 1>>, <<x - x, x>>)
    BY <2>3 DEF Less
  <2>7. first \in {} \cup {first}
    OBVIOUS
  <2> HIDE DEF acc
  <2>8. IsDeepest(v, {} \cup {first}, acc)
    <3>1. acc.at \in {} \cup {first} /\ acc.peak \in {} \cup {first} /\ acc.trough \in {} \cup {first}
          /\ acc.peak <= acc.trough
      BY <2>2, <2>3
    <3>2. \A k \in {} \cup {first} : v[k].V <= v[acc.at].V
      BY <2>2, <2>3, <2>4, Zenon
    <3>3. \A i, j \in {} \cup {first} :
            i <= j /\ v[i].V > 0 /\ IsHighest(v, {} \cup {first}, i, j) =>
              ~Less(acc.depth, <<v[i].V - v[j].V, v[i].V>>)
      BY <2>2, <2>4, <2>6, Zenon
    <3>4. IsFraction(acc.depth) /\ ~(acc.depth[1] > 0)
      BY <2>2, <2>5, Zenon
    <3> QED
      BY <2>2, <3>1, <3>2, <3>3, <3>4, Zenon DEF IsDeepest
  <2> QED
    BY <2>1, <2>8, Zenon
<1>4. ASSUME NEW S \in SUBSET C, S # {}, Fine(S \ {Max(S)}) PROVE Fine(S)
  <2> DEFINE m == Max(S)
             T == (S \ {m}) \cup {first}
             acc == f[S \ {m}]
  <2>1. S \in SUBSET Nat /\ IsFiniteSet(S)
    BY FS_Subset
  <2>2. m \in S /\ m \in C /\ \A k \in S \ {m} : k <= m
    <3>1. m \in S /\ m \in Nat /\ \A k \in S \ {m} : k < m
      BY <1>4, <2>1, LastIs
    <3> HIDE DEF m
    <3>2. \A k \in S \ {m} : k <= m
      BY <2>1, <3>1
    <3> QED
      BY <3>1, <3>2
  <2>3. f[S] = DrawdownStep(v, acc, m)
    BY <1>1, <1>4
  <2>4. IsDeepest(v, T, acc)
    BY <1>4
  <2> HIDE DEF acc, m
  <2>5. T \in SUBSET C /\ T \cup {m} = S \cup {first} /\ \A k \in T : k <= m
    BY <1>2, <2>2
  <2> HIDE DEF T
  <2>6. IsDeepest(v, T \cup {m}, DrawdownStep(v, acc, m))
    BY <2>2, <2>4, <2>5, FallGoesOn
  <2> QED
    BY <2>3, <2>5, <2>6, Zenon
<1>5. Good \in SUBSET SUBSET C /\ {} \in Good
  BY <1>3
<1>6. \A S \in SUBSET C : S # {} /\ S \ {Max(S)} \in Good => S \in Good
  BY <1>4
<1> HIDE DEF Fine
<1>7. C \in Good
  <2> HIDE DEF Good
  <2> QED
    BY <1>5, <1>6, InTheirOrder
<1>8. Fine(C)
  BY <1>7
<1>9. C \cup {first} = C
  BY <1>2
<1> QED
  BY <1>8, <1>9, Zenon DEF Fine, f

\* From a higher peak a fall to the same value is no less deep.
LEMMA DeeperFromHigher ==
  ASSUME NEW a \in Nat, NEW b \in Nat, NEW c \in Nat, b <= a
  PROVE  ~Less(<<a - c, a>>, <<b - c, b>>)
<1>1. Less(<<a - c, a>>, <<b - c, b>>) <=> (a - c) * b < (b - c) * a
  BY DEF Less
<1>2. (a - c) * b = a * b - c * b /\ (b - c) * a = a * b - c * a
  OBVIOUS
<1>3. c * b <= c * a
  <2> DEFINE d == a - b
  <2>1. d \in Nat /\ a = b + d
    OBVIOUS
  <2>2. c * a = c * b + c * d
    BY <2>1
  <2> HIDE DEF d
  <2>3. c * d >= 0
    BY <2>1
  <2>4. c * b \in Int /\ c * d \in Int
    BY <2>1
  <2> QED
    BY <2>2, <2>3, <2>4
<1>4. a * b \in Int /\ c * b \in Int /\ c * a \in Int
  OBVIOUS
<1>5. ~((a - c) * b < (b - c) * a)
  <2> DEFINE x == a * b
             y == c * b
             z == c * a
  <2> HIDE DEF x, y, z
  <2>1. ~(x - y < x - z)
    BY <1>3, <1>4 DEF x, y, z
  <2> QED
    BY <1>2, <2>1, Zenon DEF x, y, z
<1> QED
  BY <1>1, <1>5

\* Where no value is negative, no fall from any earlier value is deeper.
LEMMA NoneDeeper ==
  ASSUME NEW C \in SUBSET Nat, IsFiniteSet(C), NEW v, NEW acc, IsDeepest(v, C, acc),
         \A m \in C : v[m].V \in Nat,
         NEW i \in C, NEW j \in C, i <= j, v[i].V > 0
  PROVE  ~Less(acc.depth, <<v[i].V - v[j].V, v[i].V>>)
<1> DEFINE D == {k \in C : k <= j}
           g == [k \in D |-> v[k].V]
           W == {g[k] : k \in D}
<1>1. IsFiniteSet(D)
  BY FS_Subset
<1>2. D \in SUBSET C /\ i \in D /\ \A k \in D : g[k] = v[k].V /\ v[k].V \in Nat /\ k <= j
  OBVIOUS
<1> HIDE DEF D, g
<1>3. W \in SUBSET Int /\ W # {} /\ IsFiniteSet(W)
  <2>1. IsFiniteSet(W)
    BY <1>1, ImageIs, Zenon
  <2>2. \A x \in W : x \in Int
    BY <1>2
  <2> QED
    BY <1>2, <2>1, <2>2
<1>4. PICK w \in W : \A x \in W : x <= w
  <2> HIDE DEF W
  <2> QED
    BY <1>3, MaxExists
<1>5. PICK h \in D : w = g[h]
  OBVIOUS
<1>6. h \in C /\ h <= j /\ v[h].V \in Nat /\ \A k \in D : v[k].V <= v[h].V
  BY <1>2, <1>4, <1>5
<1>7. v[i].V \in Nat /\ v[j].V \in Nat /\ v[i].V <= v[h].V
  BY <1>2, <1>6
<1>8. v[h].V > 0
  BY <1>6, <1>7
<1>9. IsHighest(v, C, h, j)
  BY <1>6 DEF IsHighest, D
<1> DEFINE far == <<v[h].V - v[j].V, v[h].V>>
           near == <<v[i].V - v[j].V, v[i].V>>
<1>10. ~Less(acc.depth, far) /\ IsFraction(acc.depth)
  BY <1>6, <1>8, <1>9 DEF IsDeepest
<1>11. ~Less(far, near)
  BY <1>6, <1>7, DeeperFromHigher
<1>12. IsFraction(far) /\ IsFraction(near)
  BY <1>6, <1>7, <1>8 DEF IsFraction
<1> HIDE DEF far, near
<1>13. ~Less(acc.depth, near)
  BY <1>10, <1>11, <1>12, LessIs
<1> QED
  BY <1>13 DEF near

\* The legs but a seed are fractions.
LEMMA LegIs ==
  ASSUME NEW s, IsSeries(s), NEW m \in Axis(s), NEW j \in Axis(s), j < m
  PROVE  IsFraction(Leg(s, m).g)
<1> DEFINE p == s.point[m]
           q == PointBefore(s, m)
           base == q.V + p.F
           x == IF base <= 0 THEN One ELSE <<p.V, base>>
<1>1. p.V \in Int /\ p.F \in Int /\ q.V \in Int
  <2>1. IsPoint(p)
    BY DEF IsSeries
  <2>2. PrevMonth(s, m) \in Axis(s) /\ q = s.point[PrevMonth(s, m)]
    BY BeforeIs
  <2>3. IsPoint(q)
    BY <2>2 DEF IsSeries
  <2> HIDE DEF p, q
  <2> QED
    BY <2>1, <2>3 DEF IsPoint
<1>2. Leg(s, m).g = x
  BY DEF Leg
<1> HIDE DEF p, q
<1>3. base \in Int
  BY <1>1
<1> HIDE DEF base
<1>4. CASE base <= 0
  <2>1. x = One
    BY <1>4
  <2>2. IsFraction(One)
    BY DEF IsFraction, One
  <2> QED
    BY <1>2, <2>1, <2>2, Zenon
<1>5. CASE ~(base <= 0)
  <2>1. x = <<p.V, base>>
    BY <1>5
  <2>2. IsFraction(<<p.V, base>>)
    BY <1>1, <1>3, <1>5 DEF IsFraction
  <2> QED
    BY <1>2, <2>1, <2>2, Zenon
<1> QED
  BY <1>4, <1>5

LEMMA LegsAre ==
  ASSUME NEW s, IsSeries(s)
  PROVE  /\ ChainMonths(s) \in SUBSET Nat /\ IsFiniteSet(ChainMonths(s))
         /\ ReturnMonths(s) \in SUBSET ChainMonths(s)
         /\ ChainMonths(s) \in SUBSET Axis(s)
         /\ \A m \in ReturnMonths(s) : IsFraction(Chain(s)[m].g)
<1> DEFINE C == ChainMonths(s)
           R == ReturnMonths(s)
           L == LegMonths(s)
<1>1. C = s.visible \cup IF HasBaseline(s) THEN {Baseline(s)} ELSE {}
  BY Zenon DEF ChainMonths
<1>2. C \in SUBSET Axis(s)
  <2>1. s.visible \in SUBSET Axis(s)
    BY SeriesSets
  <2>2. HasBaseline(s) => Baseline(s) \in Axis(s)
    BY BaselineIs
  <2> HIDE DEF C
  <2> QED
    BY <1>1, <2>1, <2>2
<1>3. C \in SUBSET Nat /\ IsFiniteSet(C)
  <2> HIDE DEF C
  <2> QED
    BY <1>2, SeriesSets
<1>4. L = IF C = {} \/ Seeded(s) THEN C ELSE C \ {Min(C)}
  BY Zenon DEF LegMonths, L, C
<1>5. R = IF Seeded(s) THEN L \ {Min(s.visible)} ELSE L
  BY Zenon DEF ReturnMonths, R, L
<1>6. Chain(s) = [m \in L |-> IF Seeded(s) /\ m = Min(s.visible) THEN SeedLeg(s, m) ELSE Leg(s, m)]
  BY Zenon DEF Chain, L
<1>7. Seeded(s) => C = s.visible
  <2>1. Seeded(s) => ~HasBaseline(s)
    BY Zenon DEF Seeded
  <2> HIDE DEF C
  <2> QED
    BY <1>1, <2>1
<1> HIDE DEF C, L, R
<1>8. L \in SUBSET C /\ R \in SUBSET L
  <2>1. L \in SUBSET C
    BY <1>4
  <2>2. R \in SUBSET L
    BY <1>5
  <2> QED
    BY <2>1, <2>2
<1>9. ASSUME NEW m \in R PROVE IsFraction(Chain(s)[m].g)
  <2>1. m \in L /\ m \in C /\ m \in Axis(s)
    BY <1>2, <1>8
  <2>2. m # Min(C)
    <3>1. CASE Seeded(s)
      BY <1>5, <1>7, <3>1
    <3>2. CASE ~Seeded(s)
      BY <1>4, <2>1, <3>2
    <3> QED
      BY <3>1, <3>2
  <2>3. Min(C) \in Axis(s) /\ Min(C) < m
    <3>1. Min(C) \in C /\ Min(C) <= m
      BY <1>3, <2>1, MinIs
    <3>2. Min(C) \in Nat /\ m \in Nat
      BY <1>3, <2>1, <3>1
    <3> QED
      BY <1>2, <2>2, <3>1, <3>2
  <2>4. Chain(s)[m] = Leg(s, m)
    <3>1. ~(Seeded(s) /\ m = Min(s.visible))
      BY <1>5
    <3>2. Chain(s)[m] = IF Seeded(s) /\ m = Min(s.visible) THEN SeedLeg(s, m) ELSE Leg(s, m)
      BY <1>6, <2>1
    <3> QED
      BY <3>1, <3>2, Zenon
  <2>5. IsFraction(Leg(s, m).g)
    BY <2>1, <2>3, LegIs
  <2> QED
    BY <2>4, <2>5, Zenon
<1> QED
  BY <1>2, <1>3, <1>8, <1>9 DEF C, R

LongestAreShown(s) ==
  LET legs == Chain(s)
  IN  /\ Streaks(s).upMax = LongestRun(s, LAMBDA m : Less(One, legs[m].g))
      /\ Streaks(s).downMax = LongestRun(s, LAMBDA m : Less(legs[m].g, One))

LEMMA RunsHold == ASSUME NEW s, IsSeries(s) PROVE LongestAreShown(s)
<1> DEFINE R == ReturnMonths(s)
           legs == Chain(s)
           Up == {m \in R : Less(One, legs[m].g)}
           Down == {m \in R : Less(legs[m].g, One)}
           last == RunsPass(R, legs)[R]
           Longest(K) ==
             Max({0} \cup {Cardinality({k \in R : p[1] <= k /\ k <= p[2]}) :
                             p \in {q \in R \X R : \A k \in R : q[1] <= k /\ k <= q[2] => k \in K}})
<1>1. R \in SUBSET Nat /\ IsFiniteSet(R)
  <2>1. R \in SUBSET ChainMonths(s) /\ ChainMonths(s) \in SUBSET Nat /\ IsFiniteSet(ChainMonths(s))
    BY LegsAre
  <2> HIDE DEF R
  <2> QED
    BY <2>1, FS_Subset
<1>2. Streaks(s) = last
  BY StreaksPass, Zenon
<1>3. {q \in R \X R : \A k \in R : q[1] <= k /\ k <= q[2] => Less(One, legs[k].g)} =
      {q \in R \X R : \A k \in R : q[1] <= k /\ k <= q[2] => k \in Up}
  <2>1. \A k \in R : Less(One, legs[k].g) <=> k \in Up
    OBVIOUS
  <2> HIDE DEF R, legs, Up
  <2> QED
    BY <2>1
<1>4. {q \in R \X R : \A k \in R : q[1] <= k /\ k <= q[2] => Less(legs[k].g, One)} =
      {q \in R \X R : \A k \in R : q[1] <= k /\ k <= q[2] => k \in Down}
  <2>1. \A k \in R : Less(legs[k].g, One) <=> k \in Down
    OBVIOUS
  <2> HIDE DEF R, legs, Down
  <2> QED
    BY <2>1
<1>5. LongestRun(s, LAMBDA m : Less(One, legs[m].g)) = Longest(Up)
  BY <1>3, Zenon DEF LongestRun
<1>6. LongestRun(s, LAMBDA m : Less(legs[m].g, One)) = Longest(Down)
  BY <1>4, Zenon DEF LongestRun
<1>7. AreRuns(R, Up, last.up, last.upMax) /\ AreRuns(R, Down, last.down, last.downMax)
  <2> HIDE DEF R, legs
  <2> QED
    BY <1>1, RunsAre, Zenon
<1> HIDE DEF R, legs, Up, Down, last
<1>8. Longest(Up) = last.upMax /\ Longest(Down) = last.downMax
  <2>1. Longest(Up) = last.upMax
    BY <1>1, <1>7, LongestIs, Zenon
  <2>2. Longest(Down) = last.downMax
    BY <1>1, <1>7, LongestIs, Zenon
  <2> QED
    BY <2>1, <2>2
<1> HIDE DEF Longest
<1> QED
  BY <1>2, <1>5, <1>6, <1>8, Zenon DEF LongestAreShown, legs

LEMMA ExtremesHold ==
  ASSUME NEW s, IsSeries(s), ReturnMonths(s) # {}
  PROVE  LET legs  == Chain(s)
             best  == Extremes(s).best
             worst == Extremes(s).worst
         IN  \A m \in ReturnMonths(s) :
               /\ ~Less(legs[best].g, legs[m].g) /\ ~Less(legs[m].g, legs[worst].g)
               /\ SameAs(legs[m].g, legs[best].g) => best <= m
               /\ SameAs(legs[m].g, legs[worst].g) => worst <= m
<1> DEFINE R == ReturnMonths(s)
           legs == Chain(s)
           last == ExtremesPass(R, legs)[R]
<1>1. R \in SUBSET Nat /\ IsFiniteSet(R) /\ R # {} /\ \A m \in R : IsFraction(legs[m].g)
  <2>1. /\ R \in SUBSET ChainMonths(s) /\ ChainMonths(s) \in SUBSET Nat /\ IsFiniteSet(ChainMonths(s))
        /\ \A m \in R : IsFraction(legs[m].g)
    BY LegsAre
  <2>2. R # {}
    OBVIOUS
  <2> HIDE DEF R, legs
  <2>3. R \in SUBSET Nat
    BY <2>1
  <2>4. IsFiniteSet(R)
    BY <2>1, FS_Subset
  <2> QED
    BY <2>1, <2>2, <2>3, <2>4, Zenon
<1>2. Extremes(s) = last
  BY ExtremesAsPass, Zenon
<1> HIDE DEF R, legs
<1>3. \A m \in R :
        /\ ~Less(legs[last.best].g, legs[m].g) /\ ~Less(legs[m].g, legs[last.worst].g)
        /\ SameAs(legs[m].g, legs[last.best].g) => last.best <= m
        /\ SameAs(legs[m].g, legs[last.worst].g) => last.worst <= m
  BY <1>1, ExtremesAre, Zenon
<1> QED
  BY <1>2, <1>3, Zenon DEF R, legs

LEMMA DrawdownHolds ==
  ASSUME NEW s, IsSeries(s), ChainMonths(s) # {}
  PROVE  /\ IsDeepest(s.point, ChainMonths(s), Drawdown(s))
         /\ ChainMonths(s) \in SUBSET Nat /\ IsFiniteSet(ChainMonths(s))
         /\ \A m \in ChainMonths(s) : s.point[m].V \in Int
<1> DEFINE C == ChainMonths(s)
           v == s.point
<1>1. C \in SUBSET Nat /\ IsFiniteSet(C) /\ C \in SUBSET Axis(s) /\ C # {}
  BY LegsAre, Zenon
<1>2. \A m \in C : v[m].V \in Int
  <2> HIDE DEF C
  <2> QED
    BY <1>1 DEF IsSeries, IsPoint
<1>3. Drawdown(s) = DrawdownPass(C, v)[C]
  BY DrawdownAsPass, Zenon
<1> HIDE DEF C, v
<1>4. IsDeepest(v, C, DrawdownPass(C, v)[C])
  BY <1>1, <1>2, DrawdownIs, Zenon
<1> QED
  BY <1>1, <1>2, <1>3, <1>4, Zenon DEF C, v

LEMMA RiskHolds == IInv => RiskByDefinition
<1> SUFFICES ASSUME IInv, Answered, ReturnMonths(TheSeries) # {} PROVE RiskByDefinition
  BY Zenon DEF RiskByDefinition
<1> DEFINE s == TheSeries
           S == InScope(TheInput, reader.req, reader.req.mode)
           legs == Chain(s)
           R == ReturnMonths(s)
           down == Drawdown(s)
           V(m) == s.point[m].V
           best == Extremes(s).best
           worst == Extremes(s).worst
<1>1. s = BuildSeries(TheInput, S)
  BY DEF IInv, TheSeries, Asked, TheInput
<1>2. IsInput(TheInput) /\ S \in SUBSET Assets
  BY TheInputIs, ScopeIs DEF IInv, IsRead
<1>3. ReturnMonths(s) # {}
  OBVIOUS
<1> HIDE DEF S, s
<1>4. IsSeries(s)
  <2>1. IsSeries(BuildSeries(TheInput, S))
    BY <1>2, BuiltIs
  <2> QED
    BY <1>1, <2>1, Zenon
<1>5. /\ Streaks(s).upMax = LongestRun(s, LAMBDA m : Less(One, legs[m].g))
      /\ Streaks(s).downMax = LongestRun(s, LAMBDA m : Less(legs[m].g, One))
  <2>1. LongestAreShown(s)
    BY <1>4, RunsHold, Zenon
  <2> QED
    BY <2>1, Zenon DEF LongestAreShown
<1>6. \A m \in R : /\ ~Less(legs[best].g, legs[m].g) /\ ~Less(legs[m].g, legs[worst].g)
                   /\ SameAs(legs[m].g, legs[best].g) => best <= m
                   /\ SameAs(legs[m].g, legs[worst].g) => worst <= m
  BY <1>3, <1>4, ExtremesHold, Zenon
<1>7. /\ IsDeepest(s.point, ChainMonths(s), down)
      /\ ChainMonths(s) \in SUBSET Nat /\ IsFiniteSet(ChainMonths(s))
      /\ \A m \in ChainMonths(s) : s.point[m].V \in Int
  <2>1. ReturnMonths(s) \in SUBSET ChainMonths(s)
    BY <1>4, LegsAre
  <2>2. ChainMonths(s) # {}
    BY <1>3, <2>1
  <2> QED
    BY <1>4, <2>2, DrawdownHolds, Zenon
<1>8. /\ \A i, j \in ChainMonths(s) :
           /\ i <= j /\ V(i) > 0
           /\ HighestUpTo(s, i, j) \/ \A m \in ChainMonths(s) : V(m) >= 0
           => ~Less(down.depth, <<V(i) - V(j), V(i)>>)
  <2> SUFFICES ASSUME NEW i \in ChainMonths(s), NEW j \in ChainMonths(s), i <= j, V(i) > 0,
                      HighestUpTo(s, i, j) \/ \A m \in ChainMonths(s) : V(m) >= 0
               PROVE  ~Less(down.depth, <<V(i) - V(j), V(i)>>)
    OBVIOUS
  <2> HIDE DEF down
  <2>1. CASE HighestUpTo(s, i, j)
    <3>1. IsHighest(s.point, ChainMonths(s), i, j)
      BY <2>1 DEF HighestUpTo, IsHighest
    <3> QED
      BY <1>7, <3>1, Zenon DEF IsDeepest
  <2>2. CASE \A m \in ChainMonths(s) : V(m) >= 0
    <3>1. \A m \in ChainMonths(s) : s.point[m].V \in Nat
      BY <1>7, <2>2
    <3> QED
      BY <1>7, <3>1, NoneDeeper
  <2> QED
    BY <2>1, <2>2
<1>9. /\ down.peak <= down.trough
      /\ down.depth[1] > 0 =>
           /\ SameAs(down.depth, <<V(down.peak) - V(down.trough), V(down.peak)>>)
           /\ V(down.peak) > 0 /\ HighestUpTo(s, down.peak, down.trough)
  BY <1>7, Zenon DEF IsDeepest, IsHighest, HighestUpTo
<1> QED
  BY <1>5, <1>6, <1>8, <1>9, Zenon DEF RiskByDefinition, s

\* The records the risk panel shows are the ones their definitions over all
\* months give: the longest runs of gains and of losses, the first best and the
\* first worst month, the deepest fall from the highest value so far, which is
\* the deepest from any earlier value where none is negative, though the code
\* finds each in one pass.  metrics.go RiskFrom.
THEOREM RecordsAreRight == Spec => []RiskByDefinition
<1>1. IInv => RiskByDefinition
  BY RiskHolds
<1> QED
  BY <1>1, Invariant, PTL

=============================================================================
