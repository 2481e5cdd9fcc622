--------------------------- MODULE ImporterProofs ---------------------------
(***************************************************************************)
(* Proofs about Importer, for any files, assets, entries and bounds.       *)
(***************************************************************************)
EXTENDS Importer, FiniteSetTheorems, TLAPS

-----------------------------------------------------------------------------
(* Sets of numbers.                                                        *)

LEMMA MinExists ==
  ASSUME NEW S \in SUBSET Nat, S # {}
  PROVE  \E m \in S : \A n \in S : m <= n
  <1>1. \E x \in S : \A y \in S : ~ (<<y, x>> \in OpToRel(<, Nat))
    BY NatLessThanWellFounded, WFMin
  <1>2. PICK x \in S : \A y \in S : ~ (<<y, x>> \in OpToRel(<, Nat))
    BY <1>1
  <1>3. ASSUME NEW y \in S PROVE x <= y
    <2>1. <<y, x>> \notin OpToRel(<, Nat)
      BY <1>2
    <2>2. ~ (y < x)
      BY <2>1 DEF OpToRel
    <2> QED
      BY <2>2
  <1> QED
    BY <1>3

\* A finite set of naturals has a greatest element.
LEMMA MaxExists ==
  ASSUME NEW S \in SUBSET Nat, S # {}, IsFiniteSet(S)
  PROVE  \E m \in S : \A n \in S : n <= m
  <1> DEFINE Odd == {X \in SUBSET Nat : IsFiniteSet(X) /\ X # {} /\ ~ \E m \in X : \A n \in X : n <= m}
             Sizes == {k \in Nat : \E X \in Odd : Cardinality(X) = k}
  <1> SUFFICES ASSUME Odd # {} PROVE FALSE
    OBVIOUS
  <1>1. Sizes # {} /\ Sizes \in SUBSET Nat
    BY FS_CardinalityType
  <1>2. PICK k \in Sizes : \A l \in Sizes : k <= l
    BY <1>1, MinExists
  <1>3. PICK X \in Odd : Cardinality(X) = k
    OBVIOUS
  <1>4. PICK x \in X : TRUE
    BY <1>3
  <1>5. IsFiniteSet(X \ {x}) /\ Cardinality(X \ {x}) = k - 1
    BY <1>3, <1>4, FS_RemoveElement
  <1>6. k - 1 \in Nat /\ k \in Nat
    <2>1. Cardinality(X \ {x}) \in Nat
      BY <1>5, FS_CardinalityType
    <2> QED
      BY <1>5, <2>1
  <1>7. X \ {x} \notin Odd
    <2> SUFFICES ASSUME X \ {x} \in Odd PROVE FALSE
      OBVIOUS
    <2>1. k - 1 \in Sizes
      BY <1>5, <1>6
    <2>2. k <= k - 1
      BY <1>2, <2>1
    <2> QED
      BY <1>6, <2>2
  <1>8. CASE X = {x}
    BY <1>3, <1>8
  <1>9. CASE X # {x}
    <2>1. PICK m \in X \ {x} : \A n \in X \ {x} : n <= m
      BY <1>3, <1>4, <1>5, <1>7, <1>9
    <2>2. CASE x <= m
      BY <1>3, <2>1, <2>2
    <2>3. CASE ~(x <= m)
      <3>1. \A n \in X : n <= x
        BY <1>3, <2>1, <2>3
      <3> QED
        BY <1>3, <3>1
    <2> QED
      BY <2>2, <2>3
  <1> QED
    BY <1>8, <1>9

\* The element that the model chooses.
LEMMA LatestIs ==
  ASSUME NEW S \in SUBSET Nat, S # {}, IsFiniteSet(S)
  PROVE  Latest(S) \in S /\ \A n \in S : n <= Latest(S)
<1>1. \E m \in S : \A n \in S : n <= m
  BY MaxExists
<1> QED
  BY <1>1 DEF Latest

\* No two elements are both the greatest.
LEMMA LatestIsOnly ==
  ASSUME NEW S \in SUBSET Nat, IsFiniteSet(S), NEW m \in S, \A n \in S : n <= m
  PROVE  Latest(S) = m
<1>1. Latest(S) \in S /\ m <= Latest(S) /\ Latest(S) <= m
  BY LatestIs
<1>2. \A x, y \in Nat : x <= y /\ y <= x => x = y
  OBVIOUS
<1> QED
  BY <1>1, <1>2, Zenon

\* How many elements come before one, itself included.
UpTo(S, a) == Cardinality({b \in S : b <= a})
DownTo(S, a) == Cardinality({b \in S : b >= a})

LEMMA RanksAre ==
  ASSUME NEW S \in SUBSET Nat, IsFiniteSet(S), NEW a \in S
  PROVE  /\ UpTo(S, a) \in 1 .. Cardinality(S)
         /\ DownTo(S, a) \in 1 .. Cardinality(S)
<1> Cardinality(S) \in Nat
  BY FS_CardinalityType
<1>1. ASSUME NEW T \in SUBSET S, a \in T
      PROVE  Cardinality(T) \in 1 .. Cardinality(S)
  <2>1. IsFiniteSet(T) /\ Cardinality(T) <= Cardinality(S)
    BY FS_Subset
  <2>2. Cardinality(T) \in Nat /\ Cardinality(T) # 0
    BY <1>1, <2>1, FS_CardinalityType, FS_EmptySet
  <2> QED
    BY <2>1, <2>2
<1>2. a \in {b \in S : b <= a} /\ a \in {b \in S : b >= a}
  OBVIOUS
<1> QED
  BY <1>1, <1>2 DEF UpTo, DownTo

\* Ranks have no gaps.
LEMMA NextUp ==
  ASSUME NEW S \in SUBSET Nat, IsFiniteSet(S), NEW n \in Nat, NEW a \in S, n < UpTo(S, a)
  PROVE  \E m \in S : UpTo(S, m) = n + 1
<1> DEFINE Above == {b \in S : n < UpTo(S, b)}
<1>1. PICK m \in Above : \A b \in Above : m <= b
  BY MinExists
<1> DEFINE Before == {b \in S : b <= m} \ {m}
<1>2. IsFiniteSet({b \in S : b <= m}) /\ IsFiniteSet(Before)
  BY FS_Subset
<1>3. Cardinality(Before) \in Nat /\ Cardinality({b \in S : b <= m}) = Cardinality(Before) + 1
  <2> DEFINE Until == {b \in S : b <= m}
  <2>1. m \in Until /\ IsFiniteSet(Until) /\ Before = Until \ {m}
    BY <1>1, <1>2
  <2>2. Cardinality(Before) \in Nat /\ Cardinality(Until) \in Nat
    BY <1>2, FS_CardinalityType
  <2>3. Cardinality(Before) = Cardinality(Until) - 1
    <3> HIDE DEF Until, Before
    <3> QED
      BY <2>1, FS_RemoveElement
  <2> QED
    BY <2>2, <2>3
<1>4. Cardinality(Before) <= n
  <2>1. CASE Before = {}
    BY <2>1, FS_EmptySet
  <2>2. CASE Before # {}
    <3>1. PICK p \in Before : \A b \in Before : b <= p
      BY <1>2, <2>2, MaxExists
    <3>2. p < m /\ p \in S
      BY <1>1, <3>1
    <3>3. UpTo(S, p) <= n
      BY <1>1, <3>2, RanksAre
    <3>4. ASSUME NEW b \in S PROVE b \in Before <=> b <= p
      <4>1. b \in Nat /\ p \in Nat /\ m \in Nat /\ p # m
        BY <1>1, <3>2
      <4>2. b \in Before => b <= p
        BY <3>1
      <4>3. b <= p => b <= m /\ b # m
        BY <3>2, <4>1
      <4> QED
        BY <4>2, <4>3
    <3>5. Before = {b \in S : b <= p}
      BY <3>4
    <3> QED
      BY <3>3, <3>5 DEF UpTo
  <2> QED
    BY <2>1, <2>2
<1>5. UpTo(S, m) = Cardinality(Before) + 1 /\ n < UpTo(S, m)
  BY <1>1, <1>3 DEF UpTo
<1> QED
  BY <1>3, <1>4, <1>5

LEMMA NextDown ==
  ASSUME NEW S \in SUBSET Nat, IsFiniteSet(S), NEW n \in Nat, NEW a \in S, n < DownTo(S, a)
  PROVE  \E m \in S : DownTo(S, m) = n + 1
<1> DEFINE Above == {b \in S : n < DownTo(S, b)}
<1>1. PICK m \in Above : \A b \in Above : b <= m
  BY FS_Subset, MaxExists
<1> DEFINE Before == {b \in S : b >= m} \ {m}
<1>2. IsFiniteSet({b \in S : b >= m}) /\ IsFiniteSet(Before)
  BY FS_Subset
<1>3. Cardinality(Before) \in Nat /\ Cardinality({b \in S : b >= m}) = Cardinality(Before) + 1
  <2> DEFINE From == {b \in S : b >= m}
  <2>1. m \in From /\ IsFiniteSet(From) /\ Before = From \ {m}
    BY <1>1, <1>2
  <2>2. Cardinality(Before) \in Nat /\ Cardinality(From) \in Nat
    BY <1>2, FS_CardinalityType
  <2>3. Cardinality(Before) = Cardinality(From) - 1
    <3> HIDE DEF From, Before
    <3> QED
      BY <2>1, FS_RemoveElement
  <2> QED
    BY <2>2, <2>3
<1>4. Cardinality(Before) <= n
  <2>1. CASE Before = {}
    BY <2>1, FS_EmptySet
  <2>2. CASE Before # {}
    <3>1. PICK p \in Before : \A b \in Before : p <= b
      BY <2>2, MinExists
    <3>2. m < p /\ p \in S
      BY <1>1, <3>1
    <3>3. DownTo(S, p) <= n
      BY <1>1, <3>2, RanksAre
    <3>4. ASSUME NEW b \in S PROVE b \in Before <=> b >= p
      <4>1. b \in Nat /\ p \in Nat /\ m \in Nat /\ p # m
        BY <1>1, <3>2
      <4>2. b \in Before => b >= p
        BY <3>1
      <4>3. b >= p => b >= m /\ b # m
        BY <3>2, <4>1
      <4> QED
        BY <4>2, <4>3
    <3>5. Before = {b \in S : b >= p}
      BY <3>4
    <3> QED
      BY <3>3, <3>5 DEF DownTo
  <2> QED
    BY <2>1, <2>2
<1>5. DownTo(S, m) = Cardinality(Before) + 1 /\ n < DownTo(S, m)
  BY <1>1, <1>3 DEF DownTo
<1> QED
  BY <1>3, <1>4, <1>5

-----------------------------------------------------------------------------
(* Batches.                                                                *)

\* The types of assets and entries.
WorldOK ==
  /\ Maps(assets, AssetIds, States)
  /\ Maps(entries, Nat \ {0}, [id : DOMAIN assets, value : Values \cup {NoValue}])
  /\ IsFiniteSet(DOMAIN entries)

RowsOK(rows) == Maps(rows, AssetIds \cup 1 .. MaxRows, GridRow)

\* The parts of Batch.
Top == Latest({0} \cup DOMAIN entries)
Writes(rows, mode) == Created(rows) \cup Replaced(rows, mode)
Gone(rows, mode) == {Latest(PlacesOf(entries, rows[i].id)) : i \in Replaced(rows, mode)}
Put(rows, mode) == {Top + i : i \in Writes(rows, mode)}

LEMMA BatchIs ==
  ASSUME NEW rows, NEW mode
  PROVE  Batch(rows, mode) =
           [e \in (DOMAIN entries \ Gone(rows, mode)) \cup Put(rows, mode) |->
              IF e \in Put(rows, mode) THEN rows[e - Top] ELSE entries[e]]
BY DEF Batch, Top, Writes, Gone, Put

LEMMA WorldFinite ==
  ASSUME WorldOK
  PROVE  /\ IsFiniteSet(DOMAIN assets) /\ DOMAIN assets \in SUBSET Nat
         /\ IsFiniteSet(DOMAIN entries) /\ DOMAIN entries \in SUBSET Nat
<1>1. Len(StartAssets) + MaxEdits \in Nat
  BY ConstantsAssumption
<1>2. DOMAIN assets \in SUBSET AssetIds /\ DOMAIN entries \in SUBSET Nat /\ IsFiniteSet(DOMAIN entries)
  BY DEF WorldOK, Maps
<1>3. IsFiniteSet(AssetIds) /\ AssetIds \in SUBSET Nat
  BY <1>1, FS_Interval DEF AssetIds
<1> QED
  BY <1>2, <1>3, FS_Subset

LEMMA TopIs ==
  ASSUME WorldOK
  PROVE  Top \in Nat /\ \A e \in DOMAIN entries : e <= Top
<1>1. DOMAIN entries \subseteq Nat /\ IsFiniteSet(DOMAIN entries)
  BY DEF WorldOK, Maps
<1>2. IsFiniteSet({0} \cup DOMAIN entries)
  <2>1. {0} \cup DOMAIN entries = DOMAIN entries \cup {0}
    OBVIOUS
  <2> QED
    BY <1>1, <2>1, FS_AddElement
<1> QED
  BY <1>1, <1>2, LatestIs DEF Top

LEMMA PlacesAre ==
  ASSUME WorldOK, NEW a
  PROVE  /\ PlacesOf(entries, a) \in SUBSET Nat
         /\ IsFiniteSet(PlacesOf(entries, a))
         /\ PlacesOf(entries, a) # {} =>
              /\ Latest(PlacesOf(entries, a)) \in PlacesOf(entries, a)
              /\ \A e \in PlacesOf(entries, a) : e <= Latest(PlacesOf(entries, a))
<1>1. DOMAIN entries \subseteq Nat /\ IsFiniteSet(DOMAIN entries)
  BY DEF WorldOK, Maps
<1>2. PlacesOf(entries, a) \in SUBSET Nat /\ PlacesOf(entries, a) \in SUBSET DOMAIN entries
  BY <1>1 DEF PlacesOf
<1>3. IsFiniteSet(PlacesOf(entries, a))
  BY <1>1, <1>2, FS_Subset
<1> QED
  BY <1>2, <1>3, LatestIs

\* What a batch writes is about open assets, one entry for each of its rows.
LEMMA WritesAre ==
  ASSUME NEW rows, NEW mode, WorldOK, RowsOK(rows), NEW i \in Writes(rows, mode)
  PROVE  /\ i \in DOMAIN rows /\ i \in Nat \ {0} /\ rows[i] \in GridRow
         /\ i <= Len(StartAssets) + MaxEdits + MaxRows
         /\ rows[i].id \in DOMAIN assets /\ assets[rows[i].id] = "open"
<1>1. i \in DOMAIN rows /\ StateOf(assets, rows[i].id) = "open"
  BY DEF Writes, Created, Replaced, Recorded, OfOpen
<1>2. rows[i].id \in DOMAIN assets /\ assets[rows[i].id] = "open"
  BY <1>1 DEF StateOf
<1>3. i \in AssetIds \cup 1 .. MaxRows /\ rows[i] \in GridRow
  BY <1>1 DEF RowsOK, Maps
<1>4. Len(StartAssets) \in Nat /\ MaxEdits \in Nat /\ MaxRows \in Nat
  BY ConstantsAssumption
<1>5. i \in Nat \ {0} /\ i <= Len(StartAssets) + MaxEdits + MaxRows
  BY <1>3, <1>4 DEF AssetIds
<1> QED
  BY <1>1, <1>2, <1>3, <1>5

LEMMA GoneAre ==
  ASSUME NEW rows, NEW mode, WorldOK, NEW e \in Gone(rows, mode)
  PROVE  \E i \in Replaced(rows, mode) :
           /\ e = Latest(PlacesOf(entries, rows[i].id))
           /\ e \in PlacesOf(entries, rows[i].id)
<1>1. PICK i \in Replaced(rows, mode) : e = Latest(PlacesOf(entries, rows[i].id))
  BY DEF Gone
<1>2. PlacesOf(entries, rows[i].id) # {}
  BY DEF Replaced, Recorded
<1> QED
  BY <1>1, <1>2, PlacesAre

LEMMA PutAre ==
  ASSUME NEW rows, NEW mode, WorldOK, RowsOK(rows)
  PROVE  /\ \A i \in Writes(rows, mode) : Top + i \in Put(rows, mode)
         /\ \A e \in Put(rows, mode) :
              /\ e \in Nat \ {0} /\ e > Top /\ e \notin DOMAIN entries
              /\ e <= Top + (Len(StartAssets) + MaxEdits + MaxRows)
              /\ e - Top \in Writes(rows, mode) /\ Top + (e - Top) = e
<1>1. Top \in Nat /\ \A e \in DOMAIN entries : e <= Top
  BY TopIs
<1>2. \A i \in Writes(rows, mode) : Top + i \in Put(rows, mode)
  BY DEF Put
<1>3. ASSUME NEW e \in Put(rows, mode)
      PROVE  /\ e \in Nat \ {0} /\ e > Top /\ e \notin DOMAIN entries
             /\ e <= Top + (Len(StartAssets) + MaxEdits + MaxRows)
             /\ e - Top \in Writes(rows, mode) /\ Top + (e - Top) = e
  <2>1. PICK i \in Writes(rows, mode) : e = Top + i
    BY DEF Put
  <2>2. i \in Nat \ {0} /\ i <= Len(StartAssets) + MaxEdits + MaxRows
    BY WritesAre
  <2>3. Len(StartAssets) \in Nat /\ MaxEdits \in Nat /\ MaxRows \in Nat
    BY ConstantsAssumption
  <2>4. e \in Nat \ {0} /\ e > Top /\ e - Top = i
    BY <1>1, <2>1, <2>2
  <2>5. e \notin DOMAIN entries
    BY <1>1, <2>1, <2>2
  <2>6. e <= Top + (Len(StartAssets) + MaxEdits + MaxRows)
    BY <1>1, <2>1, <2>2, <2>3
  <2> QED
    BY <2>1, <2>4, <2>5, <2>6
<1> QED
  BY <1>2, <1>3

\* The entries after a batch.
LEMMA BatchHas ==
  ASSUME NEW rows, NEW mode, WorldOK, RowsOK(rows)
  PROVE  /\ DOMAIN Batch(rows, mode) = (DOMAIN entries \ Gone(rows, mode)) \cup Put(rows, mode)
         /\ \A i \in Writes(rows, mode) : Batch(rows, mode)[Top + i] = rows[i]
<1>1. Top \in Nat
  BY TopIs
<1>2. DOMAIN Batch(rows, mode) = (DOMAIN entries \ Gone(rows, mode)) \cup Put(rows, mode)
  BY BatchIs
<1>3. ASSUME NEW i \in Writes(rows, mode) PROVE Batch(rows, mode)[Top + i] = rows[i]
  <2>1. Top + i \in Put(rows, mode)
    BY PutAre
  <2>2. i \in Nat
    BY WritesAre
  <2>3. (Top + i) - Top = i
    BY <1>1, <2>2
  <2>4. Batch(rows, mode)[Top + i] = rows[(Top + i) - Top]
    BY <2>1, BatchIs
  <2> QED
    BY <2>3, <2>4
<1> QED
  BY <1>2, <1>3

LEMMA BatchKeeps ==
  ASSUME NEW rows, NEW mode, WorldOK, RowsOK(rows), NEW e \in DOMAIN entries, e \notin Gone(rows, mode)
  PROVE  Batch(rows, mode)[e] = entries[e]
<1>1. e \notin Put(rows, mode)
  BY PutAre
<1> QED
  BY <1>1, BatchIs

LEMMA BatchTyped ==
  ASSUME NEW rows, NEW mode, WorldOK, RowsOK(rows)
  PROVE  /\ Maps(Batch(rows, mode), Nat \ {0}, [id : DOMAIN assets, value : Values \cup {NoValue}])
         /\ IsFiniteSet(DOMAIN Batch(rows, mode))
<1> DEFINE B == Batch(rows, mode)
           Entry == [id : DOMAIN assets, value : Values \cup {NoValue}]
           Cap == Top + (Len(StartAssets) + MaxEdits + MaxRows)
<1>1. DOMAIN entries \subseteq Nat \ {0} /\ \A e \in DOMAIN entries : entries[e] \in Entry
  BY DEF WorldOK, Maps
<1>2. Top \in Nat /\ Cap \in Nat
  BY TopIs, ConstantsAssumption
<1>3. DOMAIN B = (DOMAIN entries \ Gone(rows, mode)) \cup Put(rows, mode)
  BY BatchHas
<1>4. ASSUME NEW e \in DOMAIN B PROVE e \in Nat \ {0} /\ e <= Cap /\ B[e] \in Entry
  <2>1. CASE e \in Put(rows, mode)
    <3>1. PICK i \in Writes(rows, mode) : e = Top + i /\ e \in Nat \ {0} /\ e <= Cap
      BY <2>1, PutAre
    <3>2. B[e] = rows[i]
      BY <3>1, BatchHas
    <3>3. rows[i] \in GridRow /\ rows[i].id \in DOMAIN assets
      BY <3>1, WritesAre
    <3>4. rows[i] \in Entry
      BY <3>3 DEF GridRow
    <3> QED
      BY <3>1, <3>2, <3>4
  <2>2. CASE e \in DOMAIN entries \ Gone(rows, mode)
    <3>1. B[e] = entries[e]
      BY <2>2, BatchKeeps
    <3>2. e <= Top
      BY <2>2, TopIs
    <3>3. Len(StartAssets) \in Nat /\ MaxEdits \in Nat /\ MaxRows \in Nat
      BY ConstantsAssumption
    <3>4. e \in Nat \ {0} /\ entries[e] \in Entry
      BY <1>1, <2>2
    <3>5. e <= Cap
      BY <1>2, <3>2, <3>3, <3>4
    <3> QED
      BY <3>1, <3>4, <3>5
  <2> QED
    BY <1>3, <2>1, <2>2
<1>5. IsFiniteSet(DOMAIN B)
  <2>1. DOMAIN B \in SUBSET Nat /\ \A e \in DOMAIN B : e <= Cap
    BY <1>4
  <2> HIDE DEF B, Cap
  <2> QED
    BY <1>2, <2>1, FS_BoundedSetOfNaturals
<1>6. B = [e \in DOMAIN B |-> B[e]]
  BY BatchIs
<1>7. B \in [DOMAIN B -> Entry]
  <2> HIDE DEF B, Entry
  <2> QED
    BY <1>4, <1>6
<1>8. DOMAIN B \subseteq Nat \ {0}
  BY <1>4
<1> QED
  BY <1>5, <1>7, <1>8 DEF Maps

\* An asset that no row is written for keeps its entries.
LEMMA BatchSpares ==
  ASSUME NEW rows, NEW mode, WorldOK, RowsOK(rows),
         NEW a, \A i \in Writes(rows, mode) : rows[i].id # a
  PROVE  /\ PlacesOf(Batch(rows, mode), a) = PlacesOf(entries, a)
         /\ \A e \in PlacesOf(entries, a) : Batch(rows, mode)[e] = entries[e]
         /\ ValuesOf(Batch(rows, mode), a) = ValuesOf(entries, a)
<1> DEFINE B == Batch(rows, mode)
<1>0. DOMAIN B = (DOMAIN entries \ Gone(rows, mode)) \cup Put(rows, mode)
  BY BatchHas
<1>1. ASSUME NEW e \in DOMAIN B, B[e].id = a PROVE e \in DOMAIN entries /\ entries[e].id = a
  <2>1. e \notin Put(rows, mode)
    <3> SUFFICES ASSUME e \in Put(rows, mode) PROVE FALSE
      OBVIOUS
    <3>1. PICK i \in Writes(rows, mode) : e = Top + i
      BY PutAre
    <3>2. B[e] = rows[i]
      BY <3>1, BatchHas
    <3> QED
      BY <1>1, <3>2
  <2>2. e \in DOMAIN entries /\ e \notin Gone(rows, mode)
    BY <1>0, <2>1
  <2> QED
    BY <1>1, <2>2, BatchKeeps
<1>2. ASSUME NEW e \in DOMAIN entries, entries[e].id = a PROVE e \in DOMAIN B /\ B[e] = entries[e]
  <2>1. e \notin Gone(rows, mode)
    <3> SUFFICES ASSUME e \in Gone(rows, mode) PROVE FALSE
      OBVIOUS
    <3>1. PICK i \in Replaced(rows, mode) : e \in PlacesOf(entries, rows[i].id)
      BY GoneAre
    <3>2. entries[e].id = rows[i].id /\ i \in Writes(rows, mode)
      BY <3>1 DEF PlacesOf, Writes
    <3> QED
      BY <1>2, <3>2
  <2>2. e \in DOMAIN B
    BY <1>0, <2>1
  <2>3. B[e] = entries[e]
    BY <2>1, BatchKeeps
  <2> QED
    BY <2>2, <2>3
<1>3. PlacesOf(B, a) = PlacesOf(entries, a)
  <2> HIDE DEF B
  <2>1. \A e \in PlacesOf(B, a) : e \in PlacesOf(entries, a)
    BY <1>1 DEF PlacesOf
  <2>2. \A e \in PlacesOf(entries, a) : e \in PlacesOf(B, a)
    BY <1>2 DEF PlacesOf
  <2> QED
    BY <2>1, <2>2
<1>4. \A e \in PlacesOf(entries, a) : B[e] = entries[e]
  <2> HIDE DEF B
  <2> QED
    BY <1>2 DEF PlacesOf
<1>5. ValuesOf(B, a) = ValuesOf(entries, a)
  <2> HIDE DEF B
  <2> QED
    BY <1>3, <1>4 DEF ValuesOf
<1> QED
  BY <1>3, <1>4, <1>5, Zenon

\* One that a row is written for has it as its newest, in the place of the newest
\* it had if the row replaces one.
LEMMA BatchPlaces ==
  ASSUME NEW rows, NEW mode, WorldOK, RowsOK(rows), ~Duplicated(rows),
         NEW i \in Writes(rows, mode), NEW a, a = rows[i].id
  PROVE  PlacesOf(Batch(rows, mode), a) =
           (PlacesOf(entries, a) \ (IF i \in Replaced(rows, mode) THEN {Latest(PlacesOf(entries, a))}
                                                                  ELSE {})) \cup {Top + i}
<1> DEFINE B == Batch(rows, mode)
           Old == IF i \in Replaced(rows, mode) THEN {Latest(PlacesOf(entries, a))} ELSE {}
<1>0. DOMAIN B = (DOMAIN entries \ Gone(rows, mode)) \cup Put(rows, mode)
  BY BatchHas
<1>1. ASSUME NEW j \in Writes(rows, mode), rows[j].id = a PROVE j = i
  <2>1. i \in DOMAIN rows /\ j \in DOMAIN rows
    BY WritesAre
  <2> QED
    BY <1>1, <2>1 DEF Duplicated
<1>2. ASSUME NEW e \in PlacesOf(B, a) PROVE e \in (PlacesOf(entries, a) \ Old) \cup {Top + i}
  <2>1. e \in DOMAIN B /\ B[e].id = a
    BY <1>2 DEF PlacesOf
  <2>2. CASE e \in Put(rows, mode)
    <3>1. PICK j \in Writes(rows, mode) : e = Top + j
      BY <2>2, PutAre
    <3>2. B[e] = rows[j]
      BY <3>1, BatchHas
    <3>3. j = i
      BY <1>1, <2>1, <3>2
    <3> QED
      BY <3>1, <3>3
  <2>3. CASE e \notin Put(rows, mode)
    <3>1. e \in DOMAIN entries /\ e \notin Gone(rows, mode)
      BY <1>0, <2>1, <2>3
    <3>2. e \in PlacesOf(entries, a)
      BY <2>1, <3>1, BatchKeeps DEF PlacesOf
    <3>3. e \notin Old
      BY <3>1 DEF Gone
    <3> QED
      BY <3>2, <3>3
  <2> QED
    BY <2>2, <2>3
<1>3. ASSUME NEW e \in (PlacesOf(entries, a) \ Old) \cup {Top + i} PROVE e \in PlacesOf(B, a)
  <2>1. CASE e = Top + i
    <3>1. e \in DOMAIN B
      <4>1. e \in Put(rows, mode)
        BY <2>1, PutAre
      <4> QED
        BY <1>0, <4>1
    <3>2. B[e] = rows[i]
      BY <2>1, BatchHas
    <3> QED
      BY <3>1, <3>2 DEF PlacesOf
  <2>2. CASE e \in PlacesOf(entries, a) \ Old
    <3>1. e \in DOMAIN entries /\ entries[e].id = a
      BY <2>2 DEF PlacesOf
    <3>2. e \notin Gone(rows, mode)
      <4> SUFFICES ASSUME e \in Gone(rows, mode) PROVE FALSE
        OBVIOUS
      <4>1. PICK j \in Replaced(rows, mode) :
              /\ e = Latest(PlacesOf(entries, rows[j].id))
              /\ e \in PlacesOf(entries, rows[j].id)
        BY GoneAre
      <4>2. rows[j].id = a /\ j \in Writes(rows, mode)
        BY <3>1, <4>1 DEF PlacesOf, Writes
      <4>3. j = i
        BY <1>1, <4>2
      <4> QED
        BY <2>2, <4>1, <4>3
    <3>3. e \in DOMAIN B
      BY <1>0, <3>1, <3>2
    <3>4. B[e] = entries[e]
      BY <3>1, <3>2, BatchKeeps
    <3> QED
      BY <3>1, <3>3, <3>4 DEF PlacesOf
  <2> QED
    BY <1>3, <2>1, <2>2
<1> HIDE DEF B, Old
<1>4. PlacesOf(B, a) = (PlacesOf(entries, a) \ Old) \cup {Top + i}
  BY <1>2, <1>3
<1> QED
  BY <1>4 DEF B, Old

LEMMA BatchNewest ==
  ASSUME NEW rows, NEW mode, WorldOK, RowsOK(rows), ~Duplicated(rows),
         NEW i \in Writes(rows, mode)
  PROVE  /\ Top + i \in PlacesOf(Batch(rows, mode), rows[i].id)
         /\ Batch(rows, mode)[Top + i] = rows[i]
         /\ \A e \in PlacesOf(Batch(rows, mode), rows[i].id) : e <= Top + i
<1>1. PlacesOf(Batch(rows, mode), rows[i].id) \subseteq PlacesOf(entries, rows[i].id) \cup {Top + i}
  BY BatchPlaces
<1>2. Top + i \in PlacesOf(Batch(rows, mode), rows[i].id)
  BY BatchPlaces
<1>3. \A e \in DOMAIN entries : e \in Nat /\ e <= Top
  BY TopIs DEF WorldOK, Maps
<1>4. i \in Nat /\ Top \in Nat
  BY WritesAre, TopIs
<1>5. \A e \in PlacesOf(entries, rows[i].id) : e <= Top + i
  BY <1>3, <1>4 DEF PlacesOf
<1>6. Top + i <= Top + i
  BY <1>4
<1>7. Batch(rows, mode)[Top + i] = rows[i]
  BY BatchHas
<1> QED
  BY <1>1, <1>2, <1>5, <1>6, <1>7

\* Writing the value that was there changes nothing but the place.
LEMMA SameValueKeeps ==
  ASSUME NEW rows, NEW mode, WorldOK, RowsOK(rows), ~Duplicated(rows),
         NEW i \in Replaced(rows, mode), NEW a, a = rows[i].id,
         entries[Latest(PlacesOf(entries, a))].value = rows[i].value
  PROVE  /\ Cardinality(PlacesOf(Batch(rows, mode), a)) = Cardinality(PlacesOf(entries, a))
         /\ ValuesOf(Batch(rows, mode), a) = ValuesOf(entries, a)
<1> DEFINE B == Batch(rows, mode)
           P == PlacesOf(entries, a)
           n == Latest(P)
           t == Top + i
<1>1. i \in Writes(rows, mode)
  BY DEF Writes
<1>2. P # {}
  BY DEF Replaced, Recorded
<1>3. n \in P /\ P \in SUBSET Nat /\ IsFiniteSet(P)
  BY <1>2, PlacesAre
<1>4. PlacesOf(B, a) = (P \ {n}) \cup {t}
  BY <1>1, BatchPlaces
<1>5. t \notin P
  <2>1. t \in Put(rows, mode)
    BY <1>1, PutAre
  <2>2. t \notin DOMAIN entries
    BY <2>1, PutAre
  <2> QED
    BY <2>2 DEF PlacesOf
<1>6. B[t] = rows[i]
  BY <1>1, BatchHas
<1>7. ASSUME NEW e \in P \ {n} PROVE B[e] = entries[e]
  <2>1. e \in DOMAIN entries
    BY DEF PlacesOf
  <2>2. e \in DOMAIN B /\ e \notin Put(rows, mode)
    <3>1. e \in DOMAIN B
      BY <1>4 DEF PlacesOf
    <3>2. e \notin Put(rows, mode)
      BY <2>1, PutAre
    <3> QED
      BY <3>1, <3>2
  <2>3. e \notin Gone(rows, mode)
    BY <2>2, BatchHas
  <2> QED
    BY <2>1, <2>3, BatchKeeps
<1> HIDE DEF B, P, n, t
<1>8. Cardinality(PlacesOf(B, a)) = Cardinality(P)
  <2>1. IsFiniteSet(P \ {n}) /\ Cardinality(P \ {n}) = Cardinality(P) - 1 /\ Cardinality(P) \in Nat
    BY <1>3, FS_RemoveElement, FS_CardinalityType
  <2>2. Cardinality((P \ {n}) \cup {t}) = Cardinality(P \ {n}) + 1
    BY <1>5, <2>1, FS_AddElement
  <2> QED
    BY <1>4, <2>1, <2>2
<1>9. ValuesOf(B, a) = ValuesOf(entries, a)
  <2>1. entries[n].value = rows[i].value
    BY DEF n, P
  <2>2. ValuesOf(entries, a) = {entries[e].value : e \in P}
    BY DEF ValuesOf, P
  <2>3. ValuesOf(B, a) = {B[e].value : e \in (P \ {n}) \cup {t}}
    BY <1>4 DEF ValuesOf
  <2>4. \A v \in ValuesOf(B, a) : v \in ValuesOf(entries, a)
    BY <1>3, <1>6, <1>7, <2>1, <2>2, <2>3
  <2>5. \A v \in ValuesOf(entries, a) : v \in ValuesOf(B, a)
    <3> SUFFICES ASSUME NEW e \in P PROVE entries[e].value \in ValuesOf(B, a)
      BY <2>2
    <3>1. CASE e = n
      BY <1>6, <2>1, <2>3, <3>1
    <3>2. CASE e # n
      BY <1>7, <2>3, <3>2
    <3> QED
      BY <3>1, <3>2
  <2> QED
    BY <2>4, <2>5
<1> QED
  BY <1>8, <1>9 DEF B, P

-----------------------------------------------------------------------------
(* The invariant.                                                          *)

RowsIn(sh, t) == [i \in Applied(sh[t]) |-> [id |-> sh[t][i].id, value |-> sh[t][i].value]]

Tables(D, R) == UNION {[K -> R] : K \in SUBSET D}

\* The types of a call's fields.
Phases == {"idle", "assets", "entries", "post", "forget", "grid"}
FileKinds == Files \cup {<<>>} \cup Tables(AssetIds, GridRow)
Listings == Tables(AssetIds, States)
RowSets == Tables(AssetIds \cup 1 .. MaxRows, GridRow)
Surroundings == OtherMonths \cup {Idle.others}
CallSet == [phase : Phases, file : FileKinds, from : Nat, listed : Listings,
            found : SUBSET AssetIds, token : Nat, rows : RowSets, mode : {"replace", "skip"},
            written : Nat, replaced : Nat, clean : BOOLEAN, others : Surroundings]

\* A commit posts the rows of a report on the screen, which has no bad amounts.
CommitHolds(call, sh) ==
  /\ call.token \in DOMAIN sh \cup {NoToken}
  /\ call.token # NoToken =>
       /\ call.rows = RowsIn(sh, call.token)
       /\ call.mode = "replace"
       /\ \A i \in DOMAIN sh[call.token] : sh[call.token][i].action # "bad amount"

\* What a call holds in each phase.
PhaseHolds(call) ==
  /\ call.phase \in {"assets", "entries"} => call.file \in Files /\ call.token = NoToken
  /\ call.phase = "assets" => call.found = {}
  /\ call.phase \notin {"assets", "entries"} => call.from = 0
  /\ call.phase = "forget" => call.token # NoToken
  /\ call.phase = "grid" =>
       /\ call.token = NoToken
       /\ call.file \in Tables(AssetIds, GridRow)
       /\ \A a \in DOMAIN call.file : call.file[a].id = a
  /\ call.phase = "post" /\ call.token = NoToken =>
       \A i \in DOMAIN call.rows : call.rows[i].id = i /\ i \in DOMAIN call.file

CallStands(call, sh) == call \in CallSet /\ CommitHolds(call, sh) /\ PhaseHolds(call)

\* The grid of these assets, entries and figures of other months.
GridOf(as, es, others) ==
  [a \in {b \in DOMAIN as : as[b] = "open" /\ OnPage(0, UpTo(DOMAIN as, b))} |->
     [id |-> a, value |-> IF a \in DOMAIN others.later THEN others.later[a]
                                                       ELSE Standing(es, a, others)]]

FirstAssets(as, n) == {a \in DOMAIN as : UpTo(DOMAIN as, a) <= n}
FirstEntries(es, n) == {e \in DOMAIN es : DownTo(DOMAIN es, e) <= n}

\* A call that nothing has disturbed has read the first pages of what there is.
CleanHolds(call, as, es) ==
  /\ call.phase = "assets" =>
       /\ DOMAIN call.listed = FirstAssets(as, call.from)
       /\ \A a \in DOMAIN call.listed : call.listed[a] = as[a]
       /\ call.from > 0 => call.from - PageSize < Cardinality(DOMAIN as)
  /\ call.phase = "entries" =>
       /\ call.listed = as
       /\ call.found = IdsOf(es, FirstEntries(es, call.from))
       /\ call.from > 0 => call.from - PageSize < Cardinality(DOMAIN es)
  /\ call.phase \in {"grid", "post"} /\ call.token = NoToken =>
       call.file = GridOf(as, es, call.others)

CallHolds(call, as, es, sh) == CallStands(call, sh) /\ (call.clean => CleanHolds(call, as, es))

\* A report's rows are few and have assets and amounts.
ShownHolds(sh) ==
  /\ sh \in Seq(Seq(ReportLine))
  /\ \A t \in DOMAIN sh : \A i \in Applied(sh[t]) :
       i \in 1 .. MaxRows /\ sh[t][i].id \in AssetIds /\ sh[t][i].value \in Values

\* No token is remembered whose commit has succeeded.
TokensHold(sh, tk, sp) ==
  Maps(tk, DOMAIN sh, {"live", "expired"}) /\ sp \subseteq DOMAIN sh /\ DOMAIN tk \cap sp = {}

\* Nothing has changed since these reports.
FreshHolds(sh, fr, as, es) ==
  /\ fr \subseteq DOMAIN sh
  /\ \A t \in fr : \A i \in DOMAIN sh[t] :
       sh[t][i].action = Action(sh[t][i], as, IdsOf(es, DOMAIN es))

\* Nothing has changed since the batch of this report.
LastHolds(sh, t, as, es) ==
  /\ t \in DOMAIN sh \cup {NoToken}
  /\ t # NoToken => \A i \in Applied(sh[t]) :
       sh[t][i].id \in DOMAIN as /\ as[sh[t][i].id] = "open" =>
         \E e \in PlacesOf(es, sh[t][i].id) :
           /\ es[e].value = sh[t][i].value
           /\ \A k \in PlacesOf(es, sh[t][i].id) : k <= e

CallsHold == client = [c \in Clients |-> client[c]] /\ \A c \in Clients : CallHolds(client[c], assets, entries, shown)

UsedOK == used \in [calls : 0 .. MaxCalls, edits : 0 .. MaxEdits, faults : 0 .. MaxFaults]

IInv ==
  /\ WorldOK
  /\ ShownHolds(shown)
  /\ TokensHold(shown, tokens, spent)
  /\ CallsHold
  /\ UsedOK
  /\ FreshHolds(shown, fresh, assets, entries)
  /\ LastHolds(shown, last, assets, entries)

LEMMA TablesAre ==
  ASSUME NEW D, NEW R, NEW f
  PROVE  f \in Tables(D, R) <=> Maps(f, D, R)
<1>1. ASSUME f \in Tables(D, R) PROVE Maps(f, D, R)
  <2>1. PICK K \in SUBSET D : f \in [K -> R]
    BY <1>1 DEF Tables
  <2> QED
    BY <2>1 DEF Maps
<1>2. ASSUME Maps(f, D, R) PROVE f \in Tables(D, R)
  <2>1. DOMAIN f \in SUBSET D /\ f \in [DOMAIN f -> R]
    BY <1>2 DEF Maps
  <2> QED
    BY <2>1 DEF Tables
<1> QED
  BY <1>1, <1>2

LEMMA IInvTyped == IInv => TypeOK
<1> SUFFICES ASSUME IInv PROVE TypeOK
  OBVIOUS
<1>1. \A c \in Clients : CallOK(client[c])
  <2> SUFFICES ASSUME NEW c \in Clients PROVE CallOK(client[c])
    OBVIOUS
  <2> DEFINE call == client[c]
  <2>1. CallStands(call, shown)
    BY DEF IInv, CallsHold, CallHolds
  <2> HIDE DEF call
  <2>2. call \in CallSet /\ CommitHolds(call, shown)
    BY <2>1 DEF CallStands
  <2>3. call.token # NoToken => call.rows = RowsOf(call.token) /\ call.mode = "replace"
    BY <2>2 DEF CommitHolds, RowsIn, RowsOf
  <2>4. call.token \in DOMAIN shown \cup {NoToken}
    BY <2>2 DEF CommitHolds
  <2>5. /\ call.phase \in Phases /\ call.file \in FileKinds /\ call.from \in Nat
        /\ call.listed \in Listings /\ call.found \subseteq AssetIds /\ call.rows \in RowSets
        /\ call.mode \in {"replace", "skip"} /\ call.written \in Nat /\ call.replaced \in Nat
        /\ call.clean \in BOOLEAN /\ call.others \in Surroundings
    BY <2>2 DEF CallSet
  <2>6. call = [phase |-> call.phase, file |-> call.file, from |-> call.from,
                listed |-> call.listed, found |-> call.found, token |-> call.token,
                rows |-> call.rows, mode |-> call.mode, written |-> call.written,
                replaced |-> call.replaced, clean |-> call.clean, others |-> call.others]
    BY <2>2 DEF CallSet
  <2>7. call.file \in Files \cup {<<>>} \/ Maps(call.file, AssetIds, GridRow)
    BY <2>5, TablesAre DEF FileKinds
  <2>8. Maps(call.listed, AssetIds, States) /\ Maps(call.rows, AssetIds \cup 1 .. MaxRows, GridRow)
    BY <2>5, TablesAre DEF Listings, RowSets
  <2>9. CallOK(call)
    BY <2>3, <2>4, <2>5, <2>6, <2>7, <2>8, Zenon DEF CallOK, Phases, Surroundings
  <2> QED
    BY <2>9 DEF call
<1>2. Maps(assets, AssetIds, States) /\ IsFiniteSet(DOMAIN entries)
      /\ Maps(entries, Nat \ {0}, [id : DOMAIN assets, value : Values \cup {NoValue}])
  BY DEF IInv, WorldOK
<1>3. Maps(tokens, DOMAIN shown, {"live", "expired"}) /\ spent \subseteq DOMAIN shown
  BY DEF IInv, TokensHold
<1>4. fresh \subseteq DOMAIN shown /\ last \in DOMAIN shown \cup {NoToken}
  BY DEF IInv, FreshHolds, LastHolds
<1>5. client = [c \in Clients |-> client[c]] /\ UsedOK /\ shown \in Seq(Seq(ReportLine))
  BY DEF IInv, CallsHold, ShownHolds
<1> QED
  BY <1>1, <1>2, <1>3, <1>4, <1>5 DEF TypeOK, UsedOK

-----------------------------------------------------------------------------
(* Calls.                                                                  *)

\* A call whose file is all that it has.
LEMMA CallingStands ==
  ASSUME NEW phase \in {"idle", "assets", "grid"}, NEW file \in FileKinds, NEW sh,
         (phase = "assets") => (file \in Files),
         (phase = "grid") =>
           (file \in Tables(AssetIds, GridRow) /\ \A a \in DOMAIN file : file[a].id = a)
  PROVE  CallStands(Calling(phase, file), sh)
<1> DEFINE call == Calling(phase, file)
<1>1. /\ call.phase = phase /\ call.file = file /\ call.from = 0 /\ call.found = {}
      /\ call.token = NoToken
  BY DEF Calling
<1>2. <<>> \in Listings /\ <<>> \in RowSets
  <2>1. Maps(<<>>, AssetIds, States) /\ Maps(<<>>, AssetIds \cup 1 .. MaxRows, GridRow)
    BY DEF Maps
  <2> QED
    BY <2>1, TablesAre DEF Listings, RowSets
<1>3. call.others \in Surroundings
  BY DEF Calling, Surroundings, Idle
<1>4. call \in CallSet
  BY <1>2, <1>3 DEF Calling, CallSet, Phases, NoToken
<1> HIDE DEF call
<1>5. CommitHolds(call, sh)
  BY <1>1 DEF CommitHolds
<1>6. PhaseHolds(call)
  BY <1>1 DEF PhaseHolds
<1> QED
  BY <1>4, <1>5, <1>6 DEF CallStands, call

LEMMA IdleHolds ==
  ASSUME NEW as, NEW es, NEW sh
  PROVE  CallHolds(Idle, as, es, sh)
<1>1. CallStands(Idle, sh)
  BY CallingStands DEF Idle, FileKinds
<1>2. Idle.phase = "idle"
  BY DEF Idle, Calling
<1>3. CleanHolds(Idle, as, es)
  BY <1>2 DEF CleanHolds
<1> QED
  BY <1>1, <1>3 DEF CallHolds

\* A call that something disturbs.
LEMMA StaleStands ==
  ASSUME NEW call, NEW sh, CallStands(call, sh)
  PROVE  CallStands([call EXCEPT !.clean = FALSE], sh) /\ ([call EXCEPT !.clean = FALSE]).clean = FALSE
<1> DEFINE new == [call EXCEPT !.clean = FALSE]
<1>1. call \in CallSet /\ CommitHolds(call, sh) /\ PhaseHolds(call)
  BY DEF CallStands
<1>2. /\ new \in CallSet /\ new.phase = call.phase /\ new.file = call.file /\ new.from = call.from
      /\ new.listed = call.listed /\ new.found = call.found /\ new.token = call.token
      /\ new.rows = call.rows /\ new.mode = call.mode /\ new.clean = FALSE
  BY <1>1 DEF CallSet
<1> HIDE DEF new
<1>3. CommitHolds(new, sh)
  BY <1>1, <1>2 DEF CommitHolds
<1>4. PhaseHolds(new)
  BY <1>1, <1>2 DEF PhaseHolds
<1> QED
  BY <1>2, <1>3, <1>4 DEF CallStands, new

\* Reports on the screen stay as they are when another one is shown.
LEMMA CallOutlives ==
  ASSUME NEW sh \in Seq(Seq(ReportLine)), NEW report \in Seq(ReportLine), NEW as, NEW es,
         NEW call, CallHolds(call, as, es, sh)
  PROVE  CallHolds(call, as, es, Append(sh, report))
<1> DEFINE new == Append(sh, report)
<1>1. DOMAIN sh \subseteq DOMAIN new /\ \A t \in DOMAIN sh : new[t] = sh[t]
  OBVIOUS
<1>2. call \in CallSet /\ CommitHolds(call, sh) /\ PhaseHolds(call)
  BY DEF CallHolds, CallStands
<1> HIDE DEF new
<1>3. \A t \in DOMAIN sh : RowsIn(new, t) = RowsIn(sh, t)
  BY <1>1 DEF RowsIn
<1>4. CommitHolds(call, new)
  BY <1>1, <1>2, <1>3 DEF CommitHolds
<1> QED
  BY <1>2, <1>4 DEF CallHolds, CallStands, new

-----------------------------------------------------------------------------
(* Pages.                                                                  *)

\* The pages so far and the next one.
LEMMA FirstAndNext ==
  ASSUME NEW n \in Nat, WorldOK
  PROVE  /\ FirstAssets(assets, n) \cup AssetsAfter(n) = FirstAssets(assets, n + PageSize)
         /\ FirstEntries(entries, n) \cup EntriesAfter(n) = FirstEntries(entries, n + PageSize)
<1>1. IsFiniteSet(DOMAIN assets) /\ DOMAIN assets \in SUBSET Nat /\ IsFiniteSet(DOMAIN entries)
      /\ DOMAIN entries \in SUBSET Nat
  BY WorldFinite
<1>2. PageSize \in Nat \ {0}
  BY ConstantsAssumption
<1>3. ASSUME NEW k \in Nat PROVE (k <= n \/ (n < k /\ k <= n + PageSize)) <=> k <= n + PageSize
  BY <1>2
<1>4. ASSUME NEW a \in DOMAIN assets
      PROVE  a \in FirstAssets(assets, n) \cup AssetsAfter(n) <=> a \in FirstAssets(assets, n + PageSize)
  <2>1. UpTo(DOMAIN assets, a) \in 1 .. Cardinality(DOMAIN assets)
    BY <1>1, RanksAre
  <2>2. UpTo(DOMAIN assets, a) \in Nat
    BY <2>1
  <2>3. a \in AssetsAfter(n) <=> n < UpTo(DOMAIN assets, a) /\ UpTo(DOMAIN assets, a) <= n + PageSize
    BY DEF AssetsAfter, OnPage, UpTo
  <2> QED
    BY <1>3, <2>2, <2>3 DEF FirstAssets
<1>5. ASSUME NEW e \in DOMAIN entries
      PROVE  e \in FirstEntries(entries, n) \cup EntriesAfter(n) <=> e \in FirstEntries(entries, n + PageSize)
  <2>1. DownTo(DOMAIN entries, e) \in 1 .. Cardinality(DOMAIN entries)
    BY <1>1, RanksAre
  <2>2. DownTo(DOMAIN entries, e) \in Nat
    BY <2>1
  <2>3. e \in EntriesAfter(n) <=> n < DownTo(DOMAIN entries, e) /\ DownTo(DOMAIN entries, e) <= n + PageSize
    BY DEF EntriesAfter, OnPage, DownTo
  <2> QED
    BY <1>3, <2>2, <2>3 DEF FirstEntries
<1>6. FirstAssets(assets, n) \cup AssetsAfter(n) \subseteq DOMAIN assets
      /\ FirstAssets(assets, n + PageSize) \subseteq DOMAIN assets
  BY DEF FirstAssets, AssetsAfter
<1>7. FirstEntries(entries, n) \cup EntriesAfter(n) \subseteq DOMAIN entries
      /\ FirstEntries(entries, n + PageSize) \subseteq DOMAIN entries
  BY DEF FirstEntries, EntriesAfter
<1>8. FirstAssets(assets, n) \cup AssetsAfter(n) = FirstAssets(assets, n + PageSize)
  BY <1>4, <1>6
<1>9. FirstEntries(entries, n) \cup EntriesAfter(n) = FirstEntries(entries, n + PageSize)
  BY <1>5, <1>7
<1> QED
  BY <1>8, <1>9

\* Behind an empty page there is nothing.
LEMMA EmptyPage ==
  ASSUME NEW n \in Nat, WorldOK
  PROVE  /\ AssetsAfter(n) = {} => FirstAssets(assets, n) = DOMAIN assets
         /\ EntriesAfter(n) = {} => FirstEntries(entries, n) = DOMAIN entries
<1>1. IsFiniteSet(DOMAIN assets) /\ DOMAIN assets \in SUBSET Nat /\ IsFiniteSet(DOMAIN entries)
      /\ DOMAIN entries \in SUBSET Nat
  BY WorldFinite
<1>2. PageSize \in Nat \ {0}
  BY ConstantsAssumption
<1>3. n < n + 1 /\ n + 1 <= n + PageSize
  BY <1>2
<1>4. ASSUME AssetsAfter(n) = {}, NEW a \in DOMAIN assets PROVE UpTo(DOMAIN assets, a) <= n
  <2>1. UpTo(DOMAIN assets, a) \in 1 .. Cardinality(DOMAIN assets)
    BY <1>1, RanksAre
  <2>2. ASSUME n < UpTo(DOMAIN assets, a) PROVE FALSE
    <3>1. PICK m \in DOMAIN assets : UpTo(DOMAIN assets, m) = n + 1
      BY <1>1, <2>2, NextUp
    <3>2. m \in AssetsAfter(n)
      BY <1>3, <3>1 DEF AssetsAfter, OnPage, UpTo
    <3> QED
      BY <1>4, <3>2
  <2> QED
    BY <2>1, <2>2
<1>5. ASSUME EntriesAfter(n) = {}, NEW e \in DOMAIN entries PROVE DownTo(DOMAIN entries, e) <= n
  <2>1. DownTo(DOMAIN entries, e) \in 1 .. Cardinality(DOMAIN entries)
    BY <1>1, RanksAre
  <2>2. ASSUME n < DownTo(DOMAIN entries, e) PROVE FALSE
    <3>1. PICK m \in DOMAIN entries : DownTo(DOMAIN entries, m) = n + 1
      BY <1>1, <2>2, NextDown
    <3>2. m \in EntriesAfter(n)
      BY <1>3, <3>1 DEF EntriesAfter, OnPage, DownTo
    <3> QED
      BY <1>5, <3>2
  <2> QED
    BY <2>1, <2>2
<1> QED
  BY <1>4, <1>5 DEF FirstAssets, FirstEntries

\* A page with something on it begins before the end.
LEMMA NonEmptyPage ==
  ASSUME NEW n \in Nat, WorldOK
  PROVE  /\ AssetsAfter(n) # {} => n < Cardinality(DOMAIN assets)
         /\ EntriesAfter(n) # {} => n < Cardinality(DOMAIN entries)
<1>1. IsFiniteSet(DOMAIN assets) /\ DOMAIN assets \in SUBSET Nat /\ IsFiniteSet(DOMAIN entries)
      /\ DOMAIN entries \in SUBSET Nat
  BY WorldFinite
<1>2. ASSUME NEW a \in AssetsAfter(n) PROVE n < Cardinality(DOMAIN assets)
  <2>1. a \in DOMAIN assets /\ n < UpTo(DOMAIN assets, a)
    BY DEF AssetsAfter, OnPage, UpTo
  <2>2. UpTo(DOMAIN assets, a) \in 1 .. Cardinality(DOMAIN assets) /\ Cardinality(DOMAIN assets) \in Nat
    BY <1>1, <2>1, RanksAre, FS_CardinalityType
  <2> QED
    BY <2>1, <2>2
<1>3. ASSUME NEW e \in EntriesAfter(n) PROVE n < Cardinality(DOMAIN entries)
  <2>1. e \in DOMAIN entries /\ n < DownTo(DOMAIN entries, e)
    BY DEF EntriesAfter, OnPage, DownTo
  <2>2. DownTo(DOMAIN entries, e) \in 1 .. Cardinality(DOMAIN entries) /\ Cardinality(DOMAIN entries) \in Nat
    BY <1>1, <2>1, RanksAre, FS_CardinalityType
  <2> QED
    BY <2>1, <2>2
<1> QED
  BY <1>2, <1>3

\* Nothing lies before the first page.
LEMMA NoPage ==
  ASSUME WorldOK
  PROVE  FirstAssets(assets, 0) = {} /\ FirstEntries(entries, 0) = {}
<1>1. IsFiniteSet(DOMAIN assets) /\ DOMAIN assets \in SUBSET Nat /\ IsFiniteSet(DOMAIN entries)
      /\ DOMAIN entries \in SUBSET Nat
  BY WorldFinite
<1>2. ASSUME NEW a \in DOMAIN assets PROVE ~(UpTo(DOMAIN assets, a) <= 0)
  <2>1. UpTo(DOMAIN assets, a) \in 1 .. Cardinality(DOMAIN assets)
    BY <1>1, RanksAre
  <2> QED
    BY <2>1
<1>3. ASSUME NEW e \in DOMAIN entries PROVE ~(DownTo(DOMAIN entries, e) <= 0)
  <2>1. DownTo(DOMAIN entries, e) \in 1 .. Cardinality(DOMAIN entries)
    BY <1>1, RanksAre
  <2> QED
    BY <2>1
<1> QED
  BY <1>2, <1>3 DEF FirstAssets, FirstEntries

\* As many ids as entries can only be those of all entries.
LEMMA AllFound ==
  ASSUME WorldOK, NEW places \in SUBSET DOMAIN entries,
         Cardinality(IdsOf(entries, places)) >= Cardinality(DOMAIN entries)
  PROVE  places = DOMAIN entries
<1> DEFINE T == IdsOf(entries, places)
           f == [e \in places |-> entries[e].id]
<1>1. IsFiniteSet(DOMAIN entries)
  BY WorldFinite
<1>2. IsFiniteSet(places) /\ Cardinality(places) <= Cardinality(DOMAIN entries)
      /\ (Cardinality(DOMAIN entries) = Cardinality(places) => DOMAIN entries = places)
  BY <1>1, FS_Subset
<1>3. f \in Surjection(places, T)
  BY DEF IdsOf, Surjection
<1>4. IsFiniteSet(T) /\ Cardinality(T) <= Cardinality(places)
  <2> HIDE DEF T, f
  <2> QED
    BY <1>2, <1>3, FS_Surjection
<1>5. Cardinality(T) \in Nat /\ Cardinality(places) \in Nat /\ Cardinality(DOMAIN entries) \in Nat
  BY <1>1, <1>2, <1>4, FS_CardinalityType
<1>6. Cardinality(T) >= Cardinality(DOMAIN entries)
  OBVIOUS
<1> HIDE DEF T
<1> QED
  BY <1>2, <1>4, <1>5, <1>6

-----------------------------------------------------------------------------
(* Reports.                                                                *)

Applying == {"update", "create"}

\* When the report applies a row, and how.
LEMMA ActionIs ==
  ASSUME NEW row, row.id \in Nat \cup {NoId}, row.value \in Values \cup {Bad},
         NEW listed \in Listings, NEW found
  PROVE  /\ Action(row, listed, found) \in
              {"no id", "unknown", "bad amount", "closed", "update", "create"}
         /\ Action(row, listed, found) \in Applying =>
              /\ row.id \in AssetIds /\ row.value \in Values
              /\ row.id \in DOMAIN listed /\ listed[row.id] = "open"
         /\ Action(row, listed, found) = "update" => row.id \in found
         /\ Action(row, listed, found) = "create" => row.id \notin found
<1> DEFINE state == StateOf(listed, row.id)
           act == Action(row, listed, found)
<1>1. DOMAIN listed \subseteq AssetIds /\ \A a \in DOMAIN listed : listed[a] \in States
  BY TablesAre DEF Listings, Maps
<1>2. NoId \notin Nat /\ Bad \notin Values
  BY ConstantsAssumption
<1>3. row.id \in DOMAIN listed => state \in States /\ state = listed[row.id]
  BY <1>1 DEF StateOf
<1>4. row.id \notin DOMAIN listed => state = "unknown"
  BY DEF StateOf
<1>5. States = {"open", "closed"}
  BY DEF States
<1> HIDE DEF state, act
<1>6. CASE row.id = NoId
  <2>1. act = "no id"
    BY <1>6 DEF act, Action, state
  <2> QED
    BY <2>1 DEF act, Applying
<1>7. CASE row.id # NoId /\ state = "unknown"
  <2>1. act = "unknown"
    BY <1>7 DEF act, Action, state
  <2> QED
    BY <2>1 DEF act, Applying
<1>8. CASE row.id # NoId /\ state # "unknown" /\ row.value = Bad
  <2>1. act = "bad amount"
    BY <1>8 DEF act, Action, state
  <2> QED
    BY <2>1 DEF act, Applying
<1>9. CASE row.id # NoId /\ state = "closed" /\ row.value # Bad
  <2>1. act = "closed"
    BY <1>9 DEF act, Action, state
  <2> QED
    BY <2>1 DEF act, Applying
<1>10. CASE row.id # NoId /\ state \notin {"unknown", "closed"} /\ row.value # Bad
  <2>1. act = IF row.id \in found THEN "update" ELSE "create"
    BY <1>10 DEF act, Action, state
  <2>2. row.id \in DOMAIN listed /\ listed[row.id] = "open"
    BY <1>3, <1>4, <1>5, <1>10
  <2>3. row.id \in AssetIds /\ row.value \in Values
    BY <1>1, <1>10, <2>2
  <2> QED
    BY <2>1, <2>2, <2>3 DEF act
<1> QED
  BY <1>6, <1>7, <1>8, <1>9, <1>10

\* Only the id and the amount of a row matter to the report.
LEMMA ActionSame ==
  ASSUME NEW row, NEW line, row.id = line.id, row.value = line.value, NEW listed, NEW found
  PROVE  Action(row, listed, found) = Action(line, listed, found)
BY DEF Action

LEMMA LineIs ==
  ASSUME NEW id \in Nat \cup {NoId}, NEW value \in Values \cup {Bad},
         NEW act \in {"no id", "unknown", "bad amount", "closed", "update", "create"}
  PROVE  [id |-> id, value |-> value, action |-> act] \in ReportLine
BY DEF ReportLine

LEMMA ReportIs ==
  ASSUME NEW file \in Files, NEW listed \in Listings, NEW found
  PROVE  LET report == Report(file, listed, found) IN
         /\ report \in Seq(ReportLine) /\ DOMAIN report = DOMAIN file
         /\ \A i \in DOMAIN file :
              /\ report[i].id = file[i].id /\ report[i].value = file[i].value
              /\ report[i].action = Action(report[i], listed, found)
         /\ \A i \in Applied(report) : report[i].id \in AssetIds /\ report[i].value \in Values
         /\ ~Refused(report) => Applied(report) \subseteq 1 .. MaxRows
<1> DEFINE report == Report(file, listed, found)
<1>1. file \in Seq(Line)
  BY ConstantsAssumption
<1>2. \A i \in DOMAIN file : file[i].id \in Nat \cup {NoId} /\ file[i].value \in Values \cup {Bad}
  <2>1. \A i \in DOMAIN file : file[i] \in Line
    BY <1>1
  <2> QED
    BY <2>1 DEF Line
<1>3. report = [i \in 1 .. Len(file) |->
                  [id |-> file[i].id, value |-> file[i].value, action |-> Action(file[i], listed, found)]]
  BY <1>1 DEF Report
<1>4. DOMAIN file = 1 .. Len(file) /\ Len(file) \in Nat
  BY <1>1
<1> HIDE DEF report
<1>5. ASSUME NEW i \in DOMAIN file
      PROVE  /\ report[i].id = file[i].id /\ report[i].value = file[i].value
             /\ report[i].action = Action(file[i], listed, found)
             /\ report[i] \in ReportLine
  <2>1. report[i] = [id |-> file[i].id, value |-> file[i].value, action |-> Action(file[i], listed, found)]
    BY <1>3, <1>4
  <2>2. Action(file[i], listed, found) \in {"no id", "unknown", "bad amount", "closed", "update", "create"}
    BY <1>2, ActionIs
  <2>3. file[i].id \in Nat \cup {NoId} /\ file[i].value \in Values \cup {Bad}
    BY <1>2
  <2>4. report[i] \in ReportLine
    BY <2>1, <2>2, <2>3, LineIs
  <2>5. /\ report[i].id = file[i].id /\ report[i].value = file[i].value
        /\ report[i].action = Action(file[i], listed, found)
    BY <2>1
  <2> QED
    BY <2>4, <2>5
<1>6. report \in Seq(ReportLine) /\ DOMAIN report = DOMAIN file
  <2>1. report \in [1 .. Len(file) -> ReportLine]
    BY <1>3, <1>4, <1>5
  <2> QED
    BY <1>4, <2>1
<1>7. ASSUME NEW i \in DOMAIN file PROVE report[i].action = Action(report[i], listed, found)
  <2>1. report[i].id = file[i].id /\ report[i].value = file[i].value
    BY <1>5
  <2>2. Action(report[i], listed, found) = Action(file[i], listed, found)
    BY <2>1, ActionSame
  <2> QED
    BY <1>5, <2>2
<1>8. ASSUME NEW i \in Applied(report) PROVE report[i].id \in AssetIds /\ report[i].value \in Values
  <2>1. i \in DOMAIN file /\ report[i].action \in Applying
    BY <1>6 DEF Applied, Applying
  <2>2. Action(file[i], listed, found) \in Applying
    BY <1>5, <2>1
  <2>3. file[i].id \in AssetIds /\ file[i].value \in Values
    BY <1>2, <2>1, <2>2, ActionIs
  <2> QED
    BY <1>5, <2>1, <2>3
<1>9. ASSUME ~Refused(report), NEW i \in Applied(report) PROVE i \in 1 .. MaxRows
  <2>1. i \in Nat \ {0}
    BY <1>4, <1>6 DEF Applied
  <2>2. ~(i >= MaxRows) /\ MaxRows \in Nat
    BY <1>9, ConstantsAssumption DEF Refused
  <2> QED
    BY <2>1, <2>2
<1>10. ~Refused(report) => Applied(report) \subseteq 1 .. MaxRows
  BY <1>9
<1> QED
  BY <1>5, <1>6, <1>7, <1>8, <1>10 DEF report

\* A shown report's rows can be posted.
LEMMA RowsInTyped ==
  ASSUME NEW sh, ShownHolds(sh), NEW t \in DOMAIN sh
  PROVE  /\ RowsIn(sh, t) \in RowSets /\ DOMAIN RowsIn(sh, t) = Applied(sh[t])
         /\ \A i \in Applied(sh[t]) : /\ RowsIn(sh, t)[i].id = sh[t][i].id
                                      /\ RowsIn(sh, t)[i].value = sh[t][i].value
<1> DEFINE rows == RowsIn(sh, t)
<1>1. DOMAIN rows = Applied(sh[t])
  BY DEF RowsIn
<1>2. \A i \in Applied(sh[t]) : rows[i] = [id |-> sh[t][i].id, value |-> sh[t][i].value]
  BY DEF RowsIn
<1>3. \A i \in Applied(sh[t]) :
        i \in 1 .. MaxRows /\ sh[t][i].id \in AssetIds /\ sh[t][i].value \in Values
  BY DEF ShownHolds
<1>4. rows = [i \in DOMAIN rows |-> rows[i]]
  BY DEF RowsIn
<1> HIDE DEF rows
<1>5. \A i \in DOMAIN rows : rows[i] \in GridRow
  BY <1>1, <1>2, <1>3 DEF GridRow
<1>6. Maps(rows, AssetIds \cup 1 .. MaxRows, GridRow)
  BY <1>1, <1>3, <1>4, <1>5 DEF Maps
<1>7. rows \in RowSets
  BY <1>6, TablesAre DEF RowSets
<1> QED
  BY <1>1, <1>2, <1>7 DEF rows

-----------------------------------------------------------------------------
(* The invariant's parts, step by step.                                    *)

LEMMA RowsFinite ==
  ASSUME NEW rows, RowsOK(rows)
  PROVE  IsFiniteSet(DOMAIN rows)
<1>1. Len(StartAssets) + MaxEdits \in Nat /\ MaxRows \in Nat
  BY ConstantsAssumption
<1>2. IsFiniteSet(AssetIds) /\ IsFiniteSet(1 .. MaxRows)
  BY <1>1, FS_Interval DEF AssetIds
<1>3. IsFiniteSet(AssetIds \cup 1 .. MaxRows)
  BY <1>2, FS_Union
<1>4. DOMAIN rows \in SUBSET (AssetIds \cup 1 .. MaxRows)
  BY DEF RowsOK, Maps
<1> QED
  BY <1>3, <1>4, FS_Subset

\* What the rows of a call are.
LEMMA RowsAre ==
  ASSUME NEW call \in CallSet
  PROVE  RowsOK(call.rows)
<1>1. call.rows \in RowSets
  BY DEF CallSet
<1> QED
  BY <1>1, TablesAre DEF RowSets, RowsOK

LEMMA TokensForgotten ==
  ASSUME NEW sh, NEW t, NEW S \in {{}, {t}}, TokensHold(sh, tokens, spent),
         t \in DOMAIN sh
  PROVE  TokensHold(sh, Forgetting(t), spent \cup S)
<1> DEFINE new == Forgetting(t)
<1>1. DOMAIN tokens \subseteq DOMAIN sh /\ tokens \in [DOMAIN tokens -> {"live", "expired"}]
      /\ spent \subseteq DOMAIN sh /\ DOMAIN tokens \cap spent = {}
  BY DEF TokensHold, Maps
<1>2. DOMAIN new = DOMAIN tokens \ {t} /\ new \in [DOMAIN new -> {"live", "expired"}]
  BY <1>1 DEF Forgetting
<1> HIDE DEF new
<1>3. Maps(new, DOMAIN sh, {"live", "expired"})
  BY <1>1, <1>2 DEF Maps
<1>4. spent \cup S \subseteq DOMAIN sh /\ DOMAIN new \cap (spent \cup S) = {}
  BY <1>1, <1>2
<1> QED
  BY <1>3, <1>4 DEF TokensHold, new

LEMMA CallOf ==
  ASSUME IInv, NEW c \in Clients
  PROVE  /\ CallHolds(client[c], assets, entries, shown) /\ CallStands(client[c], shown)
         /\ client[c] \in CallSet /\ CommitHolds(client[c], shown) /\ PhaseHolds(client[c])
BY DEF IInv, CallsHold, CallHolds, CallStands

\* A step of one call that changes neither assets nor entries nor reports.
LEMMA Quietly ==
  ASSUME IInv, NEW c \in Clients, NEW call, CallHolds(call, assets, entries, shown),
         client' = [client EXCEPT ![c] = call],
         UNCHANGED <<assets, entries, shown, fresh, last>>,
         TokensHold(shown, tokens', spent'), UsedOK'
  PROVE  IInv'
<1>1. WorldOK' /\ ShownHolds(shown)' /\ FreshHolds(shown, fresh, assets, entries)'
      /\ LastHolds(shown, last, assets, entries)'
  <2>1. WorldOK'
    BY DEF IInv, WorldOK
  <2>2. ShownHolds(shown)'
    BY DEF IInv
  <2>3. FreshHolds(shown, fresh, assets, entries)' /\ LastHolds(shown, last, assets, entries)'
    BY DEF IInv
  <2> QED
    BY <2>1, <2>2, <2>3
<1>2. TokensHold(shown, tokens, spent)'
  BY DEF IInv
<1>3. CallsHold'
  <2>1. client = [d \in Clients |-> client[d]]
        /\ \A d \in Clients : CallHolds(client[d], assets, entries, shown)
    BY DEF IInv, CallsHold
  <2>2. DOMAIN client = Clients
    BY <2>1
  <2>3. client' = [d \in Clients |-> client'[d]]
    BY <2>2
  <2>4. \A d \in Clients : client'[d] = IF d = c THEN call ELSE client[d]
    BY <2>2
  <2>5. \A d \in Clients : CallHolds(client'[d], assets, entries, shown)
    BY <2>1, <2>4
  <2>6. \A d \in Clients : CallHolds(client'[d], assets', entries', shown')
    BY <2>5
  <2> QED
    BY <2>3, <2>6 DEF CallsHold
<1> QED
  BY <1>1, <1>2, <1>3 DEF IInv

\* A step that changes assets or entries.
LEMMA Loudly ==
  ASSUME IInv, NEW calls, \A c \in Clients : CallStands(calls[c], shown),
         SetAll(calls), UNCHANGED <<shown, tokens, spent>>,
         WorldOK', UsedOK',
         NEW t, Changed(t), LastHolds(shown, t, assets', entries')
  PROVE  IInv'
<1>1. ShownHolds(shown)' /\ TokensHold(shown, tokens, spent)'
  BY DEF IInv
<1>2. FreshHolds(shown, fresh, assets, entries)'
  BY DEF Changed, FreshHolds
<1>3. LastHolds(shown, last, assets, entries)'
  BY DEF Changed
<1>4. CallsHold'
  <2>1. client' = [c \in Clients |-> IF calls[c].phase = "idle" THEN Idle
                                     ELSE [calls[c] EXCEPT !.clean = FALSE]]
    BY DEF SetAll
  <2>2. client' = [c \in Clients |-> client'[c]]
    BY <2>1
  <2>3. ASSUME NEW c \in Clients PROVE CallHolds(client'[c], assets', entries', shown')
    <3>1. CASE calls[c].phase = "idle"
      <4>1. client'[c] = Idle
        BY <2>1, <3>1
      <4>2. CallHolds(Idle, assets', entries', shown')
        BY IdleHolds
      <4> QED
        BY <4>1, <4>2
    <3>2. CASE calls[c].phase # "idle"
      <4>1. client'[c] = [calls[c] EXCEPT !.clean = FALSE]
        BY <2>1, <3>2
      <4>2. CallStands(client'[c], shown) /\ client'[c].clean = FALSE
        BY <4>1, StaleStands
      <4>3. CallStands(client'[c], shown')
        BY <4>2
      <4> QED
        BY <4>2, <4>3 DEF CallHolds
    <3> QED
      BY <3>1, <3>2
  <2> QED
    BY <2>2, <2>3 DEF CallsHold
<1> QED
  BY <1>1, <1>2, <1>3, <1>4 DEF IInv

\* Nothing is asked of the entries when the last change was no batch of a report.
LEMMA NoneLasts ==
  ASSUME NEW sh, NEW as, NEW es
  PROVE  LastHolds(sh, NoToken, as, es)
BY DEF LastHolds

\* The batch of a report leaves its rows as the newest of the open assets.
LEMMA BatchLasts ==
  ASSUME WorldOK, ShownHolds(shown), NEW t \in DOMAIN shown,
         ~Rejects(RowsIn(shown, t))
  PROVE  LastHolds(shown, t, assets, Batch(RowsIn(shown, t), "replace"))
<1> DEFINE rows == RowsIn(shown, t)
           B == Batch(rows, "replace")
<1>1. /\ rows \in RowSets /\ DOMAIN rows = Applied(shown[t])
      /\ \A i \in Applied(shown[t]) : rows[i].id = shown[t][i].id /\ rows[i].value = shown[t][i].value
  BY RowsInTyped
<1>2. RowsOK(rows)
  BY <1>1, TablesAre DEF RowSets, RowsOK
<1>3. ~Duplicated(rows)
  BY DEF Rejects
<1> HIDE DEF rows, B
<1>4. ASSUME NEW i \in Applied(shown[t]),
             shown[t][i].id \in DOMAIN assets, assets[shown[t][i].id] = "open"
      PROVE  \E e \in PlacesOf(B, shown[t][i].id) :
               /\ B[e].value = shown[t][i].value
               /\ \A k \in PlacesOf(B, shown[t][i].id) : k <= e
  <2>1. i \in OfOpen(rows)
    BY <1>1, <1>4 DEF OfOpen, StateOf
  <2>2. i \in Writes(rows, "replace")
    BY <2>1 DEF Writes, Created, Replaced
  <2>3. /\ Top + i \in PlacesOf(B, rows[i].id) /\ B[Top + i] = rows[i]
        /\ \A e \in PlacesOf(B, rows[i].id) : e <= Top + i
    BY <1>2, <1>3, <2>2, BatchNewest DEF B
  <2> QED
    BY <1>1, <2>3
<1> QED
  BY <1>4 DEF LastHolds, rows, B

-----------------------------------------------------------------------------
(* The actions: calls.                                                     *)

\* The parts of IInv that a step keeps by leaving what they are about.
LEMMA Left ==
  ASSUME IInv
  PROVE  /\ UNCHANGED <<tokens, spent>> => TokensHold(shown, tokens', spent')
         /\ UNCHANGED used => UsedOK'
         /\ \A c, call : Begin(c, call) => UsedOK'
         /\ Fault => UsedOK'
<1>1. MaxCalls \in Nat /\ MaxEdits \in Nat /\ MaxFaults \in Nat
  BY ConstantsAssumption
<1>2. UsedOK /\ TokensHold(shown, tokens, spent)
  BY DEF IInv
<1>3. used \in [calls : 0 .. MaxCalls, edits : 0 .. MaxEdits, faults : 0 .. MaxFaults]
  BY <1>2 DEF UsedOK
<1>4. ASSUME NEW c, NEW call, Begin(c, call) PROVE UsedOK'
  <2>1. used.calls < MaxCalls /\ used' = [used EXCEPT !.calls = @ + 1]
    BY <1>4 DEF Begin
  <2>2. used.calls \in 0 .. MaxCalls /\ used.calls + 1 \in 0 .. MaxCalls
    BY <1>1, <1>3, <2>1
  <2> QED
    BY <1>3, <2>1, <2>2 DEF UsedOK
<1>5. ASSUME Fault PROVE UsedOK'
  <2>1. used.faults < MaxFaults /\ used' = [used EXCEPT !.faults = @ + 1]
    BY <1>5 DEF Fault
  <2>2. used.faults \in 0 .. MaxFaults /\ used.faults + 1 \in 0 .. MaxFaults
    BY <1>1, <1>3, <2>1
  <2> QED
    BY <1>3, <2>1, <2>2 DEF UsedOK
<1>6. UNCHANGED <<tokens, spent>> => TokensHold(shown, tokens', spent')
  BY <1>2
<1>7. UNCHANGED used => UsedOK'
  BY <1>2 DEF UsedOK
<1> QED
  BY <1>4, <1>5, <1>6, <1>7

LEMMA PreviewKeepsIInv ==
  ASSUME IInv, NEW c \in Clients, NEW f \in Files, Preview(c, f)
  PROVE  IInv'
<1> DEFINE call == Calling("assets", f)
<1>1. /\ Begin(c, call) /\ UNCHANGED tokens
  BY DEF Preview
<1>2. /\ client' = [client EXCEPT ![c] = call] /\ UNCHANGED <<assets, entries, shown, spent, fresh, last>>
  BY <1>1 DEF Begin, Set, world, history
<1>3. UsedOK' /\ TokensHold(shown, tokens', spent')
  BY <1>1, <1>2, Left
<1>4. CallStands(call, shown)
  <2>1. f \in FileKinds
    BY DEF FileKinds
  <2> QED
    BY <2>1, CallingStands
<1>5. call.phase = "assets" /\ call.from = 0 /\ call.listed = <<>>
  BY DEF Calling
<1>6. WorldOK
  BY DEF IInv
<1>7. DOMAIN call.listed = FirstAssets(assets, call.from)
  BY <1>5, <1>6, NoPage
<1> HIDE DEF call
<1>8. CleanHolds(call, assets, entries)
  BY <1>5, <1>7 DEF CleanHolds
<1>9. CallHolds(call, assets, entries, shown)
  BY <1>4, <1>8 DEF CallHolds
<1> QED
  BY <1>2, <1>3, <1>9, Quietly

\* A call that ends, with nothing else.
LEMMA EndsQuietly ==
  ASSUME IInv, NEW c \in Clients, client' = [client EXCEPT ![c] = Idle],
         UNCHANGED <<assets, entries, shown, fresh, last>>,
         TokensHold(shown, tokens', spent'), UsedOK'
  PROVE  IInv'
<1>1. CallHolds(Idle, assets, entries, shown)
  BY IdleHolds
<1> QED
  BY <1>1, Quietly

LEMMA CommitKeepsIInv ==
  ASSUME IInv, NEW c \in Clients, NEW t \in DOMAIN shown, Commit(c, t)
  PROVE  IInv'
<1>1. ShownHolds(shown) /\ TokensHold(shown, tokens, spent)
  BY DEF IInv
<1> DEFINE phase == IF Applied(shown[t]) = {} THEN "forget" ELSE "post"
           new == [Calling(phase, <<>>) EXCEPT !.token = t, !.rows = RowsOf(t)]
<1>2. CASE t \in DOMAIN tokens /\ tokens[t] = "live"
  <2>1. Begin(c, new) /\ UNCHANGED tokens
    BY <1>2 DEF Commit
  <2>2. client' = [client EXCEPT ![c] = new] /\ UNCHANGED <<assets, entries, shown, spent, fresh, last>>
    BY <2>1 DEF Begin, Set, world, history
  <2>3. UsedOK' /\ TokensHold(shown, tokens', spent')
    BY <2>1, <2>2, Left
  <2>4. RowsOf(t) = RowsIn(shown, t)
    BY DEF RowsOf, RowsIn
  <2>5. RowsIn(shown, t) \in RowSets
    BY <1>1, RowsInTyped
  <2>6. t \in Nat /\ t # NoToken
    BY <1>1 DEF ShownHolds, NoToken
  <2>7. <<>> \in FileKinds /\ <<>> \in Listings
    <3>1. Maps(<<>>, AssetIds, States)
      BY DEF Maps
    <3> QED
      BY <3>1, TablesAre DEF Listings, FileKinds
  <2>8. phase \in {"post", "forget"}
    OBVIOUS
  <2>9. /\ new \in CallSet /\ new.phase = phase /\ new.token = t /\ new.rows = RowsIn(shown, t)
        /\ new.mode = "replace" /\ new.from = 0
    <3> DEFINE blank == Calling(phase, <<>>)
    <3>1. blank.others \in Surroundings
      BY DEF Calling, Idle, Surroundings
    <3>2. <<>> \in RowSets
      <4>1. Maps(<<>>, AssetIds \cup 1 .. MaxRows, GridRow)
        BY DEF Maps
      <4> QED
        BY <4>1, TablesAre DEF RowSets
    <3> HIDE DEF phase
    <3>3. blank \in CallSet /\ blank.phase = phase /\ blank.mode = "replace" /\ blank.from = 0
      BY <2>7, <2>8, <3>1, <3>2 DEF CallSet, Calling, Phases, NoToken
    <3> HIDE DEF blank
    <3>4. new = [blank EXCEPT !.token = t, !.rows = RowsOf(t)]
      BY DEF blank
    <3> HIDE DEF new
    <3> QED
      BY <2>4, <2>5, <2>6, <3>3, <3>4 DEF CallSet
  <2> HIDE DEF phase, new
  <2>10. \A i \in DOMAIN shown[t] : shown[t][i].action # "bad amount"
    <3>1. Count(shown[t], {"bad amount"}) = 0
      BY DEF Commit
    <3>2. DOMAIN shown[t] = 1 .. Len(shown[t]) /\ Len(shown[t]) \in Nat
      BY <1>1 DEF ShownHolds
    <3>3. IsFiniteSet(DOMAIN shown[t])
      BY <3>2, FS_Interval
    <3> DEFINE bad == {i \in DOMAIN shown[t] : shown[t][i].action \in {"bad amount"}}
    <3>4. IsFiniteSet(bad) /\ Cardinality(bad) = 0
      BY <3>1, <3>3, FS_Subset DEF Count
    <3>5. bad = {}
      <4> HIDE DEF bad
      <4> QED
        BY <3>4, FS_EmptySet
    <3> QED
      BY <3>5
  <2>11. CommitHolds(new, shown)
    BY <2>9, <2>10 DEF CommitHolds
  <2>12. PhaseHolds(new)
    BY <2>6, <2>8, <2>9 DEF PhaseHolds
  <2>13. CleanHolds(new, assets, entries)
    BY <2>6, <2>8, <2>9 DEF CleanHolds
  <2>14. CallHolds(new, assets, entries, shown)
    BY <2>9, <2>11, <2>12, <2>13 DEF CallHolds, CallStands
  <2> QED
    BY <2>2, <2>3, <2>14, Quietly
<1>3. CASE ~(t \in DOMAIN tokens /\ tokens[t] = "live")
  <2>1. Begin(c, Idle) /\ tokens' = Forgetting(t)
    BY <1>3 DEF Commit
  <2>2. client' = [client EXCEPT ![c] = Idle] /\ UNCHANGED <<assets, entries, shown, spent, fresh, last>>
    BY <2>1 DEF Begin, Set, world, history
  <2>3. TokensHold(shown, Forgetting(t), spent \cup {})
    BY <1>1, TokensForgotten
  <2>4. spent \cup {} = spent
    OBVIOUS
  <2>5. TokensHold(shown, tokens', spent')
    BY <2>1, <2>2, <2>3, <2>4
  <2>6. UsedOK'
    BY <2>1, Left
  <2> QED
    BY <2>2, <2>5, <2>6, EndsQuietly
<1> QED
  BY <1>2, <1>3

LEMMA ForgetKeepsIInv ==
  ASSUME IInv, NEW c \in Clients, Forget(c)
  PROVE  IInv'
<1> DEFINE t == client[c].token
<1>1. /\ client[c].phase = "forget" /\ tokens' = Forgetting(t) /\ spent' = spent \cup {t}
      /\ client' = [client EXCEPT ![c] = Idle]
      /\ UNCHANGED <<assets, entries, shown, used, fresh, last>>
  BY DEF Forget, Set, world
<1>2. t \in DOMAIN shown
  BY <1>1, CallOf DEF PhaseHolds, CommitHolds
<1>3. TokensHold(shown, tokens, spent)
  BY DEF IInv
<1> HIDE DEF t
<1>4. TokensHold(shown, Forgetting(t), spent \cup {t})
  BY <1>2, <1>3, TokensForgotten
<1>5. TokensHold(shown, tokens', spent') /\ UsedOK'
  BY <1>1, <1>4, Left
<1> QED
  BY <1>1, <1>5, EndsQuietly

LEMMA CallFailsKeepsIInv ==
  ASSUME IInv, NEW c \in Clients, CallFails(c)
  PROVE  IInv'
<1>1. /\ Fault /\ client' = [client EXCEPT ![c] = Idle]
      /\ UNCHANGED <<assets, entries, shown, tokens, spent, fresh, last>>
  BY DEF CallFails, Set, world, history
<1>2. TokensHold(shown, tokens', spent') /\ UsedOK'
  BY <1>1, Left
<1> QED
  BY <1>1, <1>2, EndsQuietly

LEMMA LeaveGridKeepsIInv ==
  ASSUME IInv, NEW c \in Clients, LeaveGrid(c)
  PROVE  IInv'
<1>1. /\ client' = [client EXCEPT ![c] = Idle]
      /\ UNCHANGED <<assets, entries, shown, tokens, used, spent, fresh, last>>
  BY DEF LeaveGrid, Set, world, history
<1>2. TokensHold(shown, tokens', spent') /\ UsedOK'
  BY <1>1, Left
<1> QED
  BY <1>1, <1>2, EndsQuietly

\* A grid has rows for open assets.
LEMMA GridIs ==
  ASSUME WorldOK, NEW others \in OtherMonths
  PROVE  /\ QuickRows(others) = GridOf(assets, entries, others)
         /\ QuickRows(others) \in Tables(AssetIds, GridRow)
         /\ \A a \in DOMAIN QuickRows(others) : QuickRows(others)[a].id = a
<1> DEFINE open == {b \in AssetsAfter(0) : assets[b] = "open"}
           grid == QuickRows(others)
<1>1. QuickRows(others) = GridOf(assets, entries, others)
  <2> DEFINE rows == {b \in DOMAIN assets : assets[b] = "open" /\ OnPage(0, UpTo(DOMAIN assets, b))}
  <2>1. open = rows
    BY DEF AssetsAfter, UpTo
  <2>2. QuickRows(others) = [a \in open |-> [id |-> a, value |-> LatestValue(a, others)]]
    BY DEF QuickRows
  <2>3. GridOf(assets, entries, others) =
          [a \in rows |-> [id |-> a, value |-> LatestValue(a, others)]]
    BY Zenon DEF GridOf, LatestValue
  <2> HIDE DEF open, rows
  <2> QED
    BY <2>1, <2>2, <2>3, Zenon
<1>2. grid = [a \in open |-> [id |-> a, value |-> LatestValue(a, others)]]
  BY DEF QuickRows
<1>3. ASSUME NEW a PROVE LatestValue(a, others) \in Values \cup {NoValue}
  <2>1. /\ \A b \in DOMAIN others.later : others.later[b] \in Values \cup {NoValue}
        /\ \A b \in DOMAIN others.earlier : others.earlier[b] \in Values \cup {NoValue}
    BY ConstantsAssumption DEF Figures
  <2>2. Standing(entries, a, others) \in Values \cup {NoValue}
    <3>1. CASE PlacesOf(entries, a) = {}
      BY <2>1, <3>1 DEF Standing
    <3>2. CASE PlacesOf(entries, a) # {}
      <4>1. Standing(entries, a, others) = entries[Latest(PlacesOf(entries, a))].value
        BY <3>2 DEF Standing
      <4>2. Latest(PlacesOf(entries, a)) \in DOMAIN entries
        BY <3>2, PlacesAre DEF PlacesOf
      <4>3. \A e \in DOMAIN entries : entries[e].value \in Values \cup {NoValue}
        BY DEF WorldOK, Maps
      <4> QED
        BY <4>1, <4>2, <4>3
    <3> QED
      BY <3>1, <3>2
  <2> QED
    BY <2>1, <2>2 DEF LatestValue
<1>4. open \subseteq AssetIds
  BY DEF WorldOK, Maps, AssetsAfter
<1> HIDE DEF grid, open
<1>5. DOMAIN grid = open /\ \A a \in open : grid[a] = [id |-> a, value |-> LatestValue(a, others)]
  BY <1>2
<1>6. \A a \in open : grid[a] \in GridRow
  BY <1>3, <1>4, <1>5 DEF GridRow
<1>7. Maps(grid, AssetIds, GridRow)
  BY <1>2, <1>4, <1>5, <1>6 DEF Maps
<1>8. grid \in Tables(AssetIds, GridRow)
  BY <1>7, TablesAre
<1>9. \A a \in DOMAIN grid : grid[a].id = a
  BY <1>5
<1> QED
  BY <1>1, <1>8, <1>9 DEF grid

LEMMA OpenGridKeepsIInv ==
  ASSUME IInv, NEW c \in Clients, OpenGrid(c)
  PROVE  IInv'
<1>0. PICK others \in OtherMonths :
        Begin(c, [Calling("grid", QuickRows(others)) EXCEPT !.mode = "skip", !.others = others])
  BY DEF OpenGrid
<1> DEFINE grid == QuickRows(others)
           base == Calling("grid", grid)
           call == [base EXCEPT !.mode = "skip", !.others = others]
<1>1. Begin(c, call) /\ UNCHANGED tokens
  BY <1>0 DEF OpenGrid
<1>2. client' = [client EXCEPT ![c] = call] /\ UNCHANGED <<assets, entries, shown, spent, fresh, last>>
  BY <1>1 DEF Begin, Set, world, history
<1>3. UsedOK' /\ TokensHold(shown, tokens', spent')
  BY <1>1, <1>2, Left
<1>4. WorldOK
  BY DEF IInv
<1>5. /\ grid = GridOf(assets, entries, others) /\ grid \in Tables(AssetIds, GridRow)
      /\ \A a \in DOMAIN grid : grid[a].id = a
  BY <1>4, GridIs
<1> HIDE DEF grid
<1>6. CallStands(base, shown)
  <2>1. grid \in FileKinds
    BY <1>5 DEF FileKinds
  <2> QED
    BY <1>5, <2>1, CallingStands
<1>7. base \in CallSet /\ base.phase = "grid" /\ base.token = NoToken /\ base.file = grid
  BY <1>6 DEF CallStands, Calling
<1>8. base.from = 0 /\ base.clean = TRUE
  BY DEF Calling
<1> HIDE DEF base
<1>9. /\ call \in CallSet /\ call.phase = "grid" /\ call.token = NoToken /\ call.file = grid
      /\ call.from = 0 /\ call.others = others
  BY <1>7, <1>8 DEF CallSet, Surroundings
<1> HIDE DEF call
<1>10. CommitHolds(call, shown) /\ PhaseHolds(call)
  BY <1>5, <1>9 DEF CommitHolds, PhaseHolds
<1>11. CleanHolds(call, assets, entries)
  BY <1>5, <1>9 DEF CleanHolds
<1>12. CallHolds(call, assets, entries, shown)
  BY <1>9, <1>10, <1>11 DEF CallHolds, CallStands
<1> QED
  BY <1>2, <1>3, <1>12, Quietly

\* The rows that a grid sends.
Sent(grid, a, v, all) ==
  [b \in (IF all THEN DOMAIN grid ELSE {a}) |-> IF b = a THEN [id |-> a, value |-> v] ELSE grid[b]]

LEMMA SentIs ==
  ASSUME NEW grid \in Tables(AssetIds, GridRow), \A b \in DOMAIN grid : grid[b].id = b,
         NEW a \in DOMAIN grid, NEW v \in Values, NEW all \in BOOLEAN
  PROVE  /\ Sent(grid, a, v, all) \in RowSets
         /\ \A b \in DOMAIN Sent(grid, a, v, all) :
              /\ b \in DOMAIN grid /\ Sent(grid, a, v, all)[b].id = b
<1> DEFINE rows == Sent(grid, a, v, all)
           sent == IF all THEN DOMAIN grid ELSE {a}
<1>1. rows = [b \in sent |-> IF b = a THEN [id |-> a, value |-> v] ELSE grid[b]]
  BY DEF Sent
<1>2. sent \subseteq DOMAIN grid
  OBVIOUS
<1>3. DOMAIN grid \subseteq AssetIds /\ \A b \in DOMAIN grid : grid[b] \in GridRow
  BY TablesAre DEF Maps
<1>4. [id |-> a, value |-> v] \in GridRow
  BY <1>3 DEF GridRow
<1> HIDE DEF rows, sent
<1>5. DOMAIN rows = sent /\ \A b \in sent : rows[b] \in GridRow /\ rows[b].id = b
  <2>1. DOMAIN rows = sent
    BY <1>1
  <2>2. ASSUME NEW b \in sent PROVE rows[b] \in GridRow /\ rows[b].id = b
    <3>1. CASE b = a
      <4>1. rows[b] = [id |-> a, value |-> v]
        BY <1>1, <3>1
      <4> QED
        BY <1>4, <3>1, <4>1
    <3>2. CASE b # a
      <4>1. rows[b] = grid[b]
        BY <1>1, <3>2
      <4> QED
        BY <1>2, <1>3, <4>1
    <3> QED
      BY <3>1, <3>2
  <2> QED
    BY <2>1, <2>2
<1>6. rows \in [sent -> GridRow]
  BY <1>1, <1>5
<1>7. Maps(rows, AssetIds \cup 1 .. MaxRows, GridRow)
  BY <1>2, <1>3, <1>5, <1>6 DEF Maps
<1>8. rows \in RowSets
  BY <1>7, TablesAre DEF RowSets
<1>9. \A b \in DOMAIN rows : b \in DOMAIN grid /\ rows[b].id = b
  BY <1>2, <1>5
<1> QED
  BY <1>8, <1>9 DEF rows

LEMMA SendGridKeepsIInv ==
  ASSUME IInv, NEW c \in Clients, NEW mode \in {"skip", "replace"}, NEW all \in BOOLEAN,
         SendGrid(c, mode, all)
  PROVE  IInv'
<1> DEFINE old == client[c]
           grid == old.file
<1>1. /\ CallHolds(old, assets, entries, shown) /\ old \in CallSet
      /\ CommitHolds(old, shown) /\ PhaseHolds(old)
  BY CallOf
<1>2. PICK a \in DOMAIN grid : \E v \in Values :
        client' = [client EXCEPT ![c] = [old EXCEPT !.phase = "post", !.mode = mode,
                                                    !.rows = Sent(grid, a, v, all)]]
  BY DEF SendGrid, Set, Sent
<1>2a. PICK v \in Values :
        client' = [client EXCEPT ![c] = [old EXCEPT !.phase = "post", !.mode = mode,
                                                    !.rows = Sent(grid, a, v, all)]]
  BY <1>2
<1>3. old.phase = "grid" /\ UNCHANGED <<assets, entries, shown, tokens, used, spent, fresh, last>>
  BY DEF SendGrid, world, history
<1>4. /\ old.token = NoToken /\ old.from = 0 /\ grid \in Tables(AssetIds, GridRow)
      /\ \A b \in DOMAIN grid : grid[b].id = b
  BY <1>1, <1>3 DEF PhaseHolds
<1>5. /\ Sent(grid, a, v, all) \in RowSets
      /\ \A b \in DOMAIN Sent(grid, a, v, all) : b \in DOMAIN grid /\ Sent(grid, a, v, all)[b].id = b
  BY <1>4, SentIs
<1> DEFINE new == [old EXCEPT !.phase = "post", !.mode = mode, !.rows = Sent(grid, a, v, all)]
<1>6. client' = [client EXCEPT ![c] = new]
  BY <1>2a
<1>7. /\ new \in CallSet /\ new.phase = "post" /\ new.rows = Sent(grid, a, v, all)
      /\ new.token = NoToken /\ new.from = 0 /\ new.file = grid /\ new.clean = old.clean
      /\ new.others = old.others
  <2> HIDE DEF old
  <2> QED
    BY <1>1, <1>4, <1>5 DEF CallSet, Phases
<1> HIDE DEF new
<1>8. CommitHolds(new, shown) /\ PhaseHolds(new)
  BY <1>5, <1>7 DEF CommitHolds, PhaseHolds
<1>9. new.clean => CleanHolds(new, assets, entries)
  BY <1>1, <1>3, <1>4, <1>7 DEF CallHolds, CleanHolds
<1>10. CallHolds(new, assets, entries, shown)
  BY <1>7, <1>8, <1>9 DEF CallHolds, CallStands
<1>11. TokensHold(shown, tokens', spent') /\ UsedOK'
  BY <1>3, Left
<1> QED
  BY <1>3, <1>6, <1>10, <1>11, Quietly

\* What a call has listed with one more page.
Listed(c) ==
  [a \in DOMAIN client[c].listed \cup AssetsAfter(client[c].from) |->
     IF a \in AssetsAfter(client[c].from) THEN assets[a] ELSE client[c].listed[a]]

LEMMA ListedIs ==
  ASSUME IInv, NEW c \in Clients, client[c].phase = "assets"
  PROVE  /\ Listed(c) \in Listings
         /\ client[c].clean =>
              /\ DOMAIN Listed(c) = FirstAssets(assets, client[c].from + PageSize)
              /\ \A a \in DOMAIN Listed(c) : Listed(c)[a] = assets[a]
              /\ Cardinality(DOMAIN Listed(c)) >= Cardinality(DOMAIN assets)
                   \/ AssetsAfter(client[c].from) = {}
                 => Listed(c) = assets
<1> DEFINE call == client[c]
           chunk == AssetsAfter(call.from)
           all == Listed(c)
<1>1. call \in CallSet /\ CallHolds(call, assets, entries, shown)
  BY CallOf
<1>2. WorldOK
  BY DEF IInv
<1>3. DOMAIN assets \subseteq AssetIds /\ assets \in [DOMAIN assets -> States]
      /\ IsFiniteSet(DOMAIN assets)
  BY <1>2, WorldFinite DEF WorldOK, Maps
<1>4. call.from \in Nat /\ call.listed \in Listings
  BY <1>1 DEF CallSet
<1>5. DOMAIN call.listed \subseteq AssetIds /\ \A a \in DOMAIN call.listed : call.listed[a] \in States
  BY <1>4, TablesAre DEF Listings, Maps
<1>6. all = [a \in DOMAIN call.listed \cup chunk |-> IF a \in chunk THEN assets[a] ELSE call.listed[a]]
  BY DEF Listed
<1>7. chunk \subseteq DOMAIN assets
  BY DEF AssetsAfter
<1> HIDE DEF all, chunk
<1>8. all \in Listings
  <2>1. DOMAIN all = DOMAIN call.listed \cup chunk
    BY <1>6
  <2>2. \A a \in DOMAIN all : all[a] \in States
    BY <1>3, <1>5, <1>6, <1>7
  <2>3. all = [a \in DOMAIN all |-> all[a]]
    BY <1>6
  <2>4. Maps(all, AssetIds, States)
    BY <1>3, <1>5, <1>7, <2>1, <2>2, <2>3 DEF Maps
  <2> QED
    BY <2>4, TablesAre DEF Listings
<1>9. ASSUME call.clean
      PROVE  /\ DOMAIN all = FirstAssets(assets, call.from + PageSize)
             /\ \A a \in DOMAIN all : all[a] = assets[a]
             /\ Cardinality(DOMAIN all) >= Cardinality(DOMAIN assets) \/ chunk = {} => all = assets
  <2>1. /\ DOMAIN call.listed = FirstAssets(assets, call.from)
        /\ \A a \in DOMAIN call.listed : call.listed[a] = assets[a]
    BY <1>1, <1>9 DEF CallHolds, CleanHolds
  <2>2. DOMAIN all = FirstAssets(assets, call.from + PageSize)
    <3>1. DOMAIN all = FirstAssets(assets, call.from) \cup chunk
      BY <1>6, <2>1
    <3> QED
      BY <1>2, <1>4, <3>1, FirstAndNext DEF chunk
  <2>3. \A a \in DOMAIN all : all[a] = assets[a]
    BY <1>6, <2>1
  <2>4. DOMAIN all = DOMAIN assets => all = assets
    BY <1>3, <1>6, <2>3
  <2>5. DOMAIN all \in SUBSET DOMAIN assets
    BY <2>2 DEF FirstAssets
  <2>6. ASSUME Cardinality(DOMAIN all) >= Cardinality(DOMAIN assets) PROVE DOMAIN all = DOMAIN assets
    <3>1. /\ IsFiniteSet(DOMAIN all) /\ Cardinality(DOMAIN all) <= Cardinality(DOMAIN assets)
          /\ Cardinality(DOMAIN assets) = Cardinality(DOMAIN all) => DOMAIN assets = DOMAIN all
      BY <1>3, <2>5, FS_Subset
    <3>2. Cardinality(DOMAIN all) \in Nat /\ Cardinality(DOMAIN assets) \in Nat
      BY <1>3, <3>1, FS_CardinalityType
    <3> QED
      BY <2>6, <3>1, <3>2
  <2>7. ASSUME chunk = {} PROVE DOMAIN all = DOMAIN assets
    <3>1. FirstAssets(assets, call.from) = DOMAIN assets
      BY <1>2, <1>4, <2>7, EmptyPage DEF chunk
    <3> QED
      BY <1>6, <2>1, <2>7, <3>1
  <2> QED
    BY <2>2, <2>3, <2>4, <2>6, <2>7
<1> QED
  BY <1>8, <1>9 DEF all, chunk

LEMMA listAllAssetsKeepsIInv ==
  ASSUME IInv, NEW c \in Clients, listAllAssets(c)
  PROVE  IInv'
<1> DEFINE call == client[c]
           chunk == AssetsAfter(call.from)
           all == Listed(c)
           done == Cardinality(DOMAIN all) >= Cardinality(DOMAIN assets) \/ chunk = {}
           turned == [call EXCEPT !.phase = "entries", !.from = 0, !.listed = all]
           further == [call EXCEPT !.from = @ + PageSize, !.listed = all]
<1>1. /\ call.phase = "assets" /\ UNCHANGED <<assets, entries, shown, tokens, used, spent, fresh, last>>
      /\ client' = [client EXCEPT ![c] = IF done THEN turned ELSE further]
  BY DEF listAllAssets, Listed, Set, world, history
<1>2. /\ CallHolds(call, assets, entries, shown) /\ call \in CallSet
      /\ CommitHolds(call, shown) /\ PhaseHolds(call)
  BY CallOf
<1>3. /\ all \in Listings
      /\ call.clean =>
           /\ DOMAIN all = FirstAssets(assets, call.from + PageSize)
           /\ \A a \in DOMAIN all : all[a] = assets[a]
           /\ done => all = assets
  BY <1>1, ListedIs
<1>4. call.found = {} /\ call.token = NoToken /\ call.file \in Files /\ call.from \in Nat
      /\ PageSize \in Nat \ {0}
  BY <1>1, <1>2, ConstantsAssumption DEF PhaseHolds, CallSet
<1>5. WorldOK
  BY DEF IInv
<1>6. chunk # {} => call.from < Cardinality(DOMAIN assets)
  BY <1>4, <1>5, NonEmptyPage
<1>7. call.from + PageSize \in Nat /\ (call.from + PageSize) - PageSize = call.from
  BY <1>4
<1>8. /\ turned \in CallSet /\ turned.phase = "entries" /\ turned.from = 0 /\ turned.listed = all
      /\ turned.found = {} /\ turned.token = NoToken /\ turned.file \in Files /\ turned.clean = call.clean
  <2> HIDE DEF call, all
  <2> QED
    BY <1>2, <1>3, <1>4 DEF CallSet, Phases
<1>9. /\ further \in CallSet /\ further.phase = "assets" /\ further.from = call.from + PageSize
      /\ further.listed = all /\ further.found = {} /\ further.token = NoToken /\ further.file \in Files
      /\ further.clean = call.clean
  <2> HIDE DEF call, all
  <2> QED
    BY <1>1, <1>2, <1>3, <1>4, <1>7 DEF CallSet, Phases
<1> HIDE DEF call, chunk, all, turned, further
<1>10. CASE done
  <2>1. CommitHolds(turned, shown) /\ PhaseHolds(turned)
    BY <1>8 DEF CommitHolds, PhaseHolds
  <2>2. ASSUME turned.clean PROVE CleanHolds(turned, assets, entries)
    <3>1. turned.listed = assets
      BY <1>3, <1>8, <1>10, <2>2
    <3>2. turned.found = IdsOf(entries, FirstEntries(entries, turned.from))
      BY <1>5, <1>8, NoPage DEF IdsOf
    <3> QED
      BY <1>8, <3>1, <3>2 DEF CleanHolds
  <2>3. CallHolds(turned, assets, entries, shown)
    BY <1>8, <2>1, <2>2 DEF CallHolds, CallStands
  <2>4. TokensHold(shown, tokens', spent') /\ UsedOK'
    BY <1>1, Left
  <2>5. client' = [client EXCEPT ![c] = turned]
    BY <1>1, <1>10
  <2> QED
    BY <1>1, <2>3, <2>4, <2>5, Quietly
<1>11. CASE ~done
  <2>1. CommitHolds(further, shown) /\ PhaseHolds(further)
    BY <1>9 DEF CommitHolds, PhaseHolds
  <2>2. ASSUME further.clean PROVE CleanHolds(further, assets, entries)
    <3>1. DOMAIN further.listed = FirstAssets(assets, further.from)
          /\ \A a \in DOMAIN further.listed : further.listed[a] = assets[a]
      BY <1>3, <1>9, <2>2
    <3>2. further.from - PageSize < Cardinality(DOMAIN assets)
      BY <1>6, <1>7, <1>9, <1>11
    <3> QED
      BY <1>9, <3>1, <3>2 DEF CleanHolds
  <2>3. CallHolds(further, assets, entries, shown)
    BY <1>9, <2>1, <2>2 DEF CallHolds, CallStands
  <2>4. TokensHold(shown, tokens', spent') /\ UsedOK'
    BY <1>1, Left
  <2>5. client' = [client EXCEPT ![c] = further]
    BY <1>1, <1>11
  <2> QED
    BY <1>1, <2>3, <2>4, <2>5, Quietly
<1> QED
  BY <1>10, <1>11

\* What a call has found with one more page.
Found(c) == client[c].found \cup IdsOf(entries, EntriesAfter(client[c].from))

LEMMA FoundIs ==
  ASSUME IInv, NEW c \in Clients, client[c].phase = "entries"
  PROVE  /\ Found(c) \subseteq AssetIds
         /\ client[c].clean =>
              /\ Found(c) = IdsOf(entries, FirstEntries(entries, client[c].from + PageSize))
              /\ LastPage(EntriesAfter(client[c].from), Found(c)) =>
                   Found(c) = IdsOf(entries, DOMAIN entries)
<1> DEFINE call == client[c]
           chunk == EntriesAfter(call.from)
           found == Found(c)
           places == FirstEntries(entries, call.from + PageSize)
<1>1. call \in CallSet /\ CallHolds(call, assets, entries, shown)
  BY CallOf
<1>2. WorldOK
  BY DEF IInv
<1>3. call.from \in Nat /\ call.found \subseteq AssetIds
  BY <1>1 DEF CallSet
<1>4. chunk \subseteq DOMAIN entries
  BY DEF EntriesAfter
<1>5. \A e \in DOMAIN entries : entries[e].id \in AssetIds
  BY <1>2 DEF WorldOK, Maps
<1>6. found = call.found \cup IdsOf(entries, chunk)
  BY DEF Found
<1> HIDE DEF found
<1>7. found \subseteq AssetIds
  BY <1>3, <1>4, <1>5, <1>6 DEF IdsOf
<1>8. ASSUME call.clean
      PROVE  /\ found = IdsOf(entries, places)
             /\ LastPage(chunk, found) => found = IdsOf(entries, DOMAIN entries)
  <2>1. call.found = IdsOf(entries, FirstEntries(entries, call.from))
    BY <1>1, <1>8 DEF CallHolds, CleanHolds
  <2>2. FirstEntries(entries, call.from) \cup chunk = places
    BY <1>2, <1>3, FirstAndNext
  <2>3. found = IdsOf(entries, places)
    BY <1>6, <2>1, <2>2 DEF IdsOf
  <2>4. places \in SUBSET DOMAIN entries
    BY DEF FirstEntries
  <2>5. CASE chunk = {}
    <3>1. FirstEntries(entries, call.from) = DOMAIN entries
      BY <1>2, <1>3, <2>5, EmptyPage
    <3>2. places = DOMAIN entries
      BY <2>2, <2>5, <3>1
    <3> QED
      BY <2>3, <3>2
  <2>6. CASE Cardinality(found) >= Cardinality(DOMAIN entries)
    <3> HIDE DEF places
    <3>1. Cardinality(IdsOf(entries, places)) >= Cardinality(DOMAIN entries)
      BY <2>3, <2>6
    <3>2. places = DOMAIN entries
      BY <1>2, <2>4, <3>1, AllFound
    <3> QED
      BY <2>3, <3>2
  <2> QED
    BY <2>3, <2>5, <2>6 DEF LastPage
<1> QED
  BY <1>7, <1>8 DEF found

\* One more report.
LEMMA IssueKeeps ==
  ASSUME ShownHolds(shown), TokensHold(shown, tokens, spent),
         FreshHolds(shown, fresh, assets, entries), LastHolds(shown, last, assets, entries),
         NEW file \in Files, NEW listed \in Listings, NEW found, ~Refused(Report(file, listed, found)),
         NEW clean \in BOOLEAN,
         clean => listed = assets /\ found = IdsOf(entries, DOMAIN entries)
  PROVE  LET sh == Append(shown, Report(file, listed, found))
             token == Len(shown) + 1
         IN  /\ ShownHolds(sh)
             /\ TokensHold(sh, [t \in DOMAIN tokens \cup {token} |->
                                  IF t = token THEN "live" ELSE tokens[t]], spent)
             /\ FreshHolds(sh, IF clean THEN fresh \cup {token} ELSE fresh, assets, entries)
             /\ LastHolds(sh, last, assets, entries)
<1> DEFINE report == Report(file, listed, found)
           sh == Append(shown, report)
           token == Len(shown) + 1
           tk == [t \in DOMAIN tokens \cup {token} |-> IF t = token THEN "live" ELSE tokens[t]]
           fr == IF clean THEN fresh \cup {token} ELSE fresh
<1>1. /\ report \in Seq(ReportLine) /\ DOMAIN report = DOMAIN file
      /\ \A i \in DOMAIN file : report[i].action = Action(report[i], listed, found)
      /\ \A i \in Applied(report) :
           i \in 1 .. MaxRows /\ report[i].id \in AssetIds /\ report[i].value \in Values
  BY ReportIs
<1>2. shown \in Seq(Seq(ReportLine))
  BY DEF ShownHolds
<1> HIDE DEF report
<1>3. /\ sh \in Seq(Seq(ReportLine)) /\ DOMAIN sh = DOMAIN shown \cup {token}
      /\ token \notin DOMAIN shown /\ sh[token] = report
      /\ \A t \in DOMAIN shown : sh[t] = shown[t]
      /\ NoToken \notin DOMAIN sh
  BY <1>1, <1>2 DEF NoToken
<1> HIDE DEF sh, token
<1>4. ShownHolds(sh)
  <2>1. ASSUME NEW t \in DOMAIN sh, NEW i \in Applied(sh[t])
        PROVE  i \in 1 .. MaxRows /\ sh[t][i].id \in AssetIds /\ sh[t][i].value \in Values
    <3>1. CASE t = token
      BY <1>1, <1>3, <3>1
    <3>2. CASE t \in DOMAIN shown
      BY <1>3, <3>2 DEF ShownHolds
    <3> QED
      BY <1>3, <3>1, <3>2
  <2> QED
    BY <1>3, <2>1 DEF ShownHolds
<1>5. TokensHold(sh, tk, spent)
  <2>1. DOMAIN tokens \subseteq DOMAIN shown /\ tokens \in [DOMAIN tokens -> {"live", "expired"}]
        /\ spent \subseteq DOMAIN shown /\ DOMAIN tokens \cap spent = {}
    BY DEF TokensHold, Maps
  <2>2. DOMAIN tk = DOMAIN tokens \cup {token} /\ tk \in [DOMAIN tk -> {"live", "expired"}]
    BY <2>1
  <2> HIDE DEF tk
  <2>3. Maps(tk, DOMAIN sh, {"live", "expired"})
    BY <1>3, <2>1, <2>2 DEF Maps
  <2>4. spent \subseteq DOMAIN sh /\ DOMAIN tk \cap spent = {}
    BY <1>3, <2>1, <2>2
  <2> QED
    BY <2>3, <2>4 DEF TokensHold
<1>6. FreshHolds(sh, fr, assets, entries)
  <2>1. fresh \subseteq DOMAIN shown /\ fr \subseteq fresh \cup {token}
    BY DEF FreshHolds
  <2>2. ASSUME NEW t \in fr, NEW i \in DOMAIN sh[t]
        PROVE  sh[t][i].action = Action(sh[t][i], assets, IdsOf(entries, DOMAIN entries))
    <3>1. CASE t \in fresh
      <4>1. sh[t] = shown[t]
        BY <1>3, <2>1, <3>1
      <4> QED
        BY <3>1, <4>1 DEF FreshHolds
    <3>2. CASE t \notin fresh
      <4>1. t = token /\ clean
        BY <2>1, <3>2
      <4>2. listed = assets /\ found = IdsOf(entries, DOMAIN entries)
        BY <4>1
      <4>3. sh[t] = report /\ i \in DOMAIN file
        BY <1>1, <1>3, <4>1
      <4> QED
        BY <1>1, <4>2, <4>3
    <3> QED
      BY <3>1, <3>2
  <2> QED
    BY <1>3, <2>1, <2>2 DEF FreshHolds
<1>7. LastHolds(sh, last, assets, entries)
  <2>1. last \in DOMAIN shown \cup {NoToken}
    BY DEF LastHolds
  <2>2. CASE last = NoToken
    BY <2>2, NoneLasts
  <2>3. CASE last \in DOMAIN shown
    <3>1. sh[last] = shown[last] /\ last \in DOMAIN sh
      BY <1>3, <2>3
    <3> QED
      BY <3>1 DEF LastHolds
  <2> QED
    BY <2>1, <2>2, <2>3
<1> QED
  BY <1>4, <1>5, <1>6, <1>7 DEF sh, token, report

LEMMA monthEntriesKeepsIInv ==
  ASSUME IInv, NEW c \in Clients, monthEntries(c)
  PROVE  IInv'
<1> DEFINE call == client[c]
           chunk == EntriesAfter(call.from)
           found == Found(c)
<1>1. /\ call.phase = "entries" /\ UNCHANGED <<assets, entries, used, spent, last>>
      /\ LastPage(chunk, found) => Issue(c, found)
      /\ ~LastPage(chunk, found) =>
           /\ client' = [client EXCEPT ![c] = [call EXCEPT !.from = @ + PageSize, !.found = found]]
           /\ UNCHANGED <<shown, tokens, fresh>>
  BY DEF monthEntries, Found, Set, world
<1>2. /\ CallHolds(call, assets, entries, shown) /\ call \in CallSet
      /\ CommitHolds(call, shown) /\ PhaseHolds(call)
  BY CallOf
<1>3. /\ found \subseteq AssetIds
      /\ call.clean =>
           /\ found = IdsOf(entries, FirstEntries(entries, call.from + PageSize))
           /\ LastPage(chunk, found) => found = IdsOf(entries, DOMAIN entries)
  BY <1>1, FoundIs
<1>4. /\ call.token = NoToken /\ call.file \in Files /\ call.from \in Nat /\ call.listed \in Listings
      /\ call.clean \in BOOLEAN /\ PageSize \in Nat \ {0}
  BY <1>1, <1>2, ConstantsAssumption DEF PhaseHolds, CallSet
<1>5. WorldOK /\ ShownHolds(shown) /\ TokensHold(shown, tokens, spent) /\ CallsHold /\ UsedOK
      /\ FreshHolds(shown, fresh, assets, entries) /\ LastHolds(shown, last, assets, entries)
  BY DEF IInv
<1>6. call.clean => call.listed = assets
  BY <1>1, <1>2 DEF CallHolds, CleanHolds
<1>7. CASE ~LastPage(chunk, found)
  <2> DEFINE further == [call EXCEPT !.from = @ + PageSize, !.found = found]
  <2>1. call.from + PageSize \in Nat /\ (call.from + PageSize) - PageSize = call.from
    BY <1>4
  <2>2. /\ further \in CallSet /\ further.phase = "entries" /\ further.from = call.from + PageSize
        /\ further.listed = call.listed /\ further.found = found /\ further.token = NoToken
        /\ further.file \in Files /\ further.clean = call.clean
    <3> HIDE DEF call, found
    <3> QED
      BY <1>1, <1>2, <1>3, <1>4, <2>1 DEF CallSet
  <2>3. call.from < Cardinality(DOMAIN entries)
    <3>1. chunk # {}
      BY <1>7 DEF LastPage
    <3> QED
      BY <1>4, <1>5, <3>1, NonEmptyPage
  <2>4. client' = [client EXCEPT ![c] = further] /\ UNCHANGED <<shown, tokens, fresh>>
    BY <1>1, <1>7
  <2> HIDE DEF call, found, further
  <2>5. CommitHolds(further, shown) /\ PhaseHolds(further)
    BY <2>2 DEF CommitHolds, PhaseHolds
  <2>6. ASSUME further.clean PROVE CleanHolds(further, assets, entries)
    <3>1. further.listed = assets /\ further.found = IdsOf(entries, FirstEntries(entries, further.from))
      BY <1>3, <1>6, <2>2, <2>6
    <3>2. further.from - PageSize < Cardinality(DOMAIN entries)
      BY <2>1, <2>2, <2>3
    <3> QED
      BY <2>2, <3>1, <3>2 DEF CleanHolds
  <2>7. CallHolds(further, assets, entries, shown)
    BY <2>2, <2>5, <2>6 DEF CallHolds, CallStands
  <2>8. TokensHold(shown, tokens', spent') /\ UsedOK'
    BY <1>1, <2>4, Left
  <2> QED
    BY <1>1, <2>4, <2>7, <2>8, Quietly
<1>8. CASE LastPage(chunk, found)
  <2> DEFINE report == Report(call.file, call.listed, found)
             token == Len(shown) + 1
  <2>1. client' = [client EXCEPT ![c] = Idle]
    BY <1>1, <1>8 DEF Issue, Set
  <2>2. CASE Refused(report)
    <3>1. UNCHANGED <<shown, tokens, fresh>>
      BY <1>1, <1>8, <2>2 DEF Issue
    <3>2. TokensHold(shown, tokens', spent') /\ UsedOK'
      BY <1>1, <3>1, Left
    <3> QED
      BY <1>1, <2>1, <3>1, <3>2, EndsQuietly
  <2>3. CASE ~Refused(report)
    <3> DEFINE sh == Append(shown, report)
               tk == [t \in DOMAIN tokens \cup {token} |-> IF t = token THEN "live" ELSE tokens[t]]
               fr == IF call.clean THEN fresh \cup {token} ELSE fresh
    <3>1. shown' = sh /\ tokens' = tk /\ fresh' = fr
      BY <1>1, <1>8, <2>3 DEF Issue
    <3>2. call.clean => call.listed = assets /\ found = IdsOf(entries, DOMAIN entries)
      BY <1>3, <1>6, <1>8
    <3>3. /\ ShownHolds(sh) /\ TokensHold(sh, tk, spent) /\ FreshHolds(sh, fr, assets, entries)
          /\ LastHolds(sh, last, assets, entries)
      <4> HIDE DEF call, found
      <4> QED
        BY <1>4, <1>5, <2>3, <3>2, IssueKeeps
    <3>4. report \in Seq(ReportLine)
      BY <1>4, ReportIs
    <3> HIDE DEF report, sh, tk, fr
    <3>5. \A d \in Clients : CallHolds(client[d], assets, entries, sh)
      <4>1. shown \in Seq(Seq(ReportLine))
        BY <1>5 DEF ShownHolds
      <4>2. \A d \in Clients : CallHolds(client[d], assets, entries, shown)
        BY <1>5 DEF CallsHold
      <4> QED
        BY <3>4, <4>1, <4>2, CallOutlives DEF sh
    <3>6. CallHolds(Idle, assets, entries, sh)
      BY IdleHolds
    <3>7. CallsHold'
      <4>1. DOMAIN client = Clients
        BY <1>5 DEF CallsHold
      <4>2. client' = [d \in Clients |-> client'[d]]
            /\ \A d \in Clients : client'[d] = IF d = c THEN Idle ELSE client[d]
        BY <2>1, <4>1
      <4>3. \A d \in Clients : CallHolds(client'[d], assets, entries, sh)
        BY <3>5, <3>6, <4>2
      <4>4. \A d \in Clients : CallHolds(client'[d], assets', entries', shown')
        BY <1>1, <3>1, <4>3
      <4> QED
        BY <4>2, <4>4 DEF CallsHold
    <3>8. ShownHolds(shown') /\ TokensHold(shown', tokens', spent')
          /\ FreshHolds(shown', fresh', assets', entries') /\ LastHolds(shown', last', assets', entries')
      BY <1>1, <3>1, <3>3
    <3>9. WorldOK' /\ UsedOK'
      BY <1>1, <1>5 DEF WorldOK, UsedOK
    <3> QED
      BY <3>7, <3>8, <3>9 DEF IInv
  <2> QED
    BY <2>2, <2>3
<1> QED
  BY <1>7, <1>8

-----------------------------------------------------------------------------
(* The actions: batches, what others do, and what goes wrong.              *)

\* A call's batch leaves assets and entries with their types, and its rows.
LEMMA BatchOfCall ==
  ASSUME IInv, NEW c \in Clients, ~Rejects(client[c].rows),
         entries' = Batch(client[c].rows, client[c].mode), assets' = assets
  PROVE  WorldOK' /\ LastHolds(shown, client[c].token, assets', entries')
<1> DEFINE call == client[c]
           B == Batch(call.rows, call.mode)
<1>1. WorldOK /\ ShownHolds(shown)
  BY DEF IInv
<1>2. call \in CallSet /\ CommitHolds(call, shown)
  BY CallOf
<1>3. RowsOK(call.rows)
  BY <1>2, RowsAre
<1>4. /\ Maps(B, Nat \ {0}, [id : DOMAIN assets, value : Values \cup {NoValue}])
      /\ IsFiniteSet(DOMAIN B)
  BY <1>1, <1>3, BatchTyped
<1>5. WorldOK'
  <2>1. Maps(assets', AssetIds, States)
    BY <1>1 DEF WorldOK
  <2>2. Maps(entries', Nat \ {0}, [id : DOMAIN assets', value : Values \cup {NoValue}])
    BY <1>4
  <2>3. IsFiniteSet(DOMAIN entries')
    BY <1>4
  <2> QED
    BY <2>1, <2>2, <2>3 DEF WorldOK
<1>6. LastHolds(shown, call.token, assets, B)
  <2>1. CASE call.token = NoToken
    BY <2>1, NoneLasts
  <2>2. CASE call.token # NoToken
    <3>1. call.token \in DOMAIN shown /\ call.rows = RowsIn(shown, call.token) /\ call.mode = "replace"
      BY <1>2, <2>2 DEF CommitHolds
    <3>2. ~Rejects(RowsIn(shown, call.token))
      BY <3>1
    <3>3. LastHolds(shown, call.token, assets, Batch(RowsIn(shown, call.token), "replace"))
      BY <1>1, <3>1, <3>2, BatchLasts
    <3>4. B = Batch(RowsIn(shown, call.token), "replace")
      BY <3>1
    <3> QED
      BY <3>3, <3>4
  <2> QED
    BY <2>1, <2>2
<1> QED
  BY <1>5, <1>6

\* A client function with one call replaced.
LEMMA StandWith ==
  ASSUME IInv, NEW c \in Clients, NEW call, CallStands(call, shown)
  PROVE  \A d \in Clients : CallStands([client EXCEPT ![c] = call][d], shown)
<1>1. DOMAIN client = Clients /\ \A d \in Clients : CallStands(client[d], shown)
  BY DEF IInv, CallsHold, CallHolds
<1>2. \A d \in Clients : [client EXCEPT ![c] = call][d] = IF d = c THEN call ELSE client[d]
  BY <1>1
<1> QED
  BY <1>1, <1>2

LEMMA IdleStands == CallStands(Idle, shown)
BY IdleHolds DEF CallHolds

\* The call after a commit's batch.
Accept(c) ==
  [client[c] EXCEPT !.phase = "forget",
                    !.written = Cardinality(Created(client[c].rows)),
                    !.replaced = Cardinality(Replaced(client[c].rows, client[c].mode))]

LEMMA AcceptStands ==
  ASSUME IInv, NEW c \in Clients, client[c].phase = "post", client[c].token # NoToken
  PROVE  CallStands(Accept(c), shown)
<1> DEFINE call == client[c]
           new == Accept(c)
<1>1. call \in CallSet /\ CommitHolds(call, shown) /\ PhaseHolds(call)
  BY CallOf
<1>2. IsFiniteSet(DOMAIN call.rows)
  BY <1>1, RowsAre, RowsFinite
<1>3. Created(call.rows) \in SUBSET DOMAIN call.rows
      /\ Replaced(call.rows, call.mode) \in SUBSET DOMAIN call.rows
  BY DEF Created, Replaced, Recorded, OfOpen
<1>4. Cardinality(Created(call.rows)) \in Nat /\ Cardinality(Replaced(call.rows, call.mode)) \in Nat
  BY <1>2, <1>3, FS_Subset, FS_CardinalityType
<1>5. /\ new \in CallSet /\ new.phase = "forget" /\ new.token = call.token /\ new.rows = call.rows
      /\ new.mode = call.mode /\ new.from = call.from
  <2> HIDE DEF call
  <2>1. new = [call EXCEPT !.phase = "forget", !.written = Cardinality(Created(call.rows)),
                           !.replaced = Cardinality(Replaced(call.rows, call.mode))]
    BY DEF Accept, call
  <2> HIDE DEF new
  <2> QED
    BY <1>1, <1>4, <2>1 DEF CallSet, Phases
<1> HIDE DEF new, call
<1>6. CommitHolds(new, shown)
  BY <1>1, <1>5 DEF CommitHolds
<1>7. call.phase = "post" /\ call.token # NoToken
  BY DEF call
<1>8. PhaseHolds(new)
  BY <1>1, <1>5, <1>7 DEF PhaseHolds
<1> QED
  BY <1>5, <1>6, <1>8 DEF CallStands, new

\* What Post does, when the batch is accepted and when it is rejected.
LEMMA PostIs ==
  ASSUME NEW c, Post(c)
  PROVE  /\ client[c].phase = "post" /\ UNCHANGED <<assets, shown, tokens, used, spent>>
         /\ Rejects(client[c].rows) =>
              client' = [client EXCEPT ![c] = Idle] /\ UNCHANGED <<entries, fresh, last>>
         /\ ~Rejects(client[c].rows) =>
              /\ entries' = Batch(client[c].rows, client[c].mode)
              /\ Changed(client[c].token)
              /\ SetAll([client EXCEPT ![c] = IF client[c].token = NoToken THEN Idle ELSE Accept(c)])
BY DEF Post, Set, Accept

LEMMA PostKeepsIInv ==
  ASSUME IInv, NEW c \in Clients, Post(c)
  PROVE  IInv'
<1>1. UNCHANGED <<assets, shown, tokens, used, spent>> /\ client[c].phase = "post"
  BY PostIs
<1>2. TokensHold(shown, tokens', spent') /\ UsedOK'
  BY <1>1, Left
<1>3. CASE Rejects(client[c].rows)
  <2>1. client' = [client EXCEPT ![c] = Idle] /\ UNCHANGED <<entries, fresh, last>>
    BY <1>3, PostIs
  <2> QED
    BY <1>1, <1>2, <2>1, EndsQuietly
<1>4. CASE ~Rejects(client[c].rows)
  <2> DEFINE next == IF client[c].token = NoToken THEN Idle ELSE Accept(c)
             calls == [client EXCEPT ![c] = next]
             t == client[c].token
  <2>1. entries' = Batch(client[c].rows, client[c].mode) /\ Changed(t) /\ SetAll(calls)
    BY <1>4, PostIs
  <2>2. WorldOK' /\ LastHolds(shown, t, assets', entries')
    BY <1>1, <1>4, <2>1, BatchOfCall
  <2>3. CallStands(next, shown)
    BY <1>1, AcceptStands, IdleStands
  <2> HIDE DEF next
  <2>4. \A d \in Clients : CallStands(calls[d], shown)
    BY <2>3, StandWith
  <2> HIDE DEF calls, t
  <2> QED
    BY <1>1, <1>2, <2>1, <2>2, <2>4, Loudly
<1> QED
  BY <1>3, <1>4

LEMMA AnswerLostKeepsIInv ==
  ASSUME IInv, NEW c \in Clients, AnswerLost(c)
  PROVE  IInv'
<1> DEFINE calls == [client EXCEPT ![c] = Idle]
           t == client[c].token
<1>1. /\ ~Rejects(client[c].rows) /\ Fault /\ entries' = Batch(client[c].rows, client[c].mode)
      /\ Changed(t) /\ SetAll(calls) /\ UNCHANGED <<assets, shown, tokens, spent>>
  BY DEF AnswerLost
<1>2. UsedOK'
  BY <1>1, Left
<1>3. WorldOK' /\ LastHolds(shown, t, assets', entries')
  BY <1>1, BatchOfCall
<1>4. \A d \in Clients : CallStands(calls[d], shown)
  BY IdleStands, StandWith
<1> HIDE DEF calls, t
<1> QED
  BY <1>1, <1>2, <1>3, <1>4, Loudly

LEMMA EditKeepsIInv ==
  ASSUME IInv, NEW as, NEW es, Edit(as, es),
         Maps(as, AssetIds, States), IsFiniteSet(DOMAIN es),
         Maps(es, Nat \ {0}, [id : DOMAIN as, value : Values \cup {NoValue}])
  PROVE  IInv'
<1>1. /\ used.edits < MaxEdits /\ used' = [used EXCEPT !.edits = @ + 1]
      /\ assets' = as /\ entries' = es /\ Changed(NoToken) /\ SetAll(client)
      /\ UNCHANGED <<shown, tokens, spent>>
  BY DEF Edit
<1>2. UsedOK'
  <2>1. used \in [calls : 0 .. MaxCalls, edits : 0 .. MaxEdits, faults : 0 .. MaxFaults]
    BY DEF IInv, UsedOK
  <2>2. used.edits + 1 \in 0 .. MaxEdits
    BY <1>1, <2>1, ConstantsAssumption
  <2> QED
    BY <1>1, <2>1, <2>2 DEF UsedOK
<1>3. WorldOK'
  BY <1>1 DEF WorldOK
<1>4. LastHolds(shown, NoToken, assets', entries')
  BY NoneLasts
<1>5. \A d \in Clients : CallStands(client[d], shown)
  BY DEF IInv, CallsHold, CallHolds
<1> QED
  BY <1>1, <1>2, <1>3, <1>4, <1>5, Loudly

Entry(as) == [id : DOMAIN as, value : Values \cup {NoValue}]

LEMMA World ==
  ASSUME IInv
  PROVE  /\ WorldOK
         /\ DOMAIN assets \subseteq AssetIds /\ assets \in [DOMAIN assets -> States]
         /\ DOMAIN entries \subseteq Nat \ {0} /\ entries \in [DOMAIN entries -> Entry(assets)]
         /\ IsFiniteSet(DOMAIN entries)
BY DEF IInv, WorldOK, Maps, Entry

LEMMA CloseOrReopenKeepsIInv ==
  ASSUME IInv, NEW a \in DOMAIN assets, CloseOrReopen(a)
  PROVE  IInv'
<1> DEFINE as == [assets EXCEPT ![a] = IF @ = "open" THEN "closed" ELSE "open"]
<1>1. Edit(as, entries)
  BY DEF CloseOrReopen
<1>2. DOMAIN as = DOMAIN assets /\ as \in [DOMAIN assets -> States]
  BY World DEF States
<1> HIDE DEF as
<1>3. Maps(as, AssetIds, States)
  BY <1>2, World DEF Maps
<1>4. Maps(entries, Nat \ {0}, [id : DOMAIN as, value : Values \cup {NoValue}]) /\ IsFiniteSet(DOMAIN entries)
  BY <1>2, World DEF Maps, Entry
<1> QED
  BY <1>1, <1>3, <1>4, EditKeepsIInv

LEMMA DeleteAssetKeepsIInv ==
  ASSUME IInv, NEW a \in DOMAIN assets, DeleteAsset(a)
  PROVE  IInv'
<1> DEFINE as == Keeping(assets, DOMAIN assets \ {a})
           es == Keeping(entries, DOMAIN entries \ PlacesOf(entries, a))
<1>1. Edit(as, es)
  BY DEF DeleteAsset
<1>2. DOMAIN as = DOMAIN assets \ {a} /\ as \in [DOMAIN as -> States]
  BY World DEF Keeping
<1>3. /\ DOMAIN es = DOMAIN entries \ PlacesOf(entries, a)
      /\ \A e \in DOMAIN es : es[e] = entries[e]
      /\ es = [e \in DOMAIN es |-> es[e]]
  BY DEF Keeping
<1> HIDE DEF as, es
<1>4. \A e \in DOMAIN es : es[e] \in Entry(as)
  <2> SUFFICES ASSUME NEW e \in DOMAIN es PROVE es[e] \in Entry(as)
    OBVIOUS
  <2>1. e \in DOMAIN entries /\ entries[e].id # a /\ entries[e] \in Entry(assets)
    BY <1>3, World DEF PlacesOf
  <2>2. entries[e] \in Entry(as)
    BY <1>2, <2>1 DEF Entry
  <2> QED
    BY <1>3, <2>2
<1>5. Maps(as, AssetIds, States)
  BY <1>2, World DEF Maps
<1>6. Maps(es, Nat \ {0}, [id : DOMAIN as, value : Values \cup {NoValue}])
  BY <1>3, <1>4, World DEF Maps, Entry
<1>7. IsFiniteSet(DOMAIN es)
  BY <1>3, World, FS_Subset
<1> QED
  BY <1>1, <1>5, <1>6, <1>7, EditKeepsIInv

LEMMA CreateAssetKeepsIInv ==
  ASSUME IInv, CreateAsset
  PROVE  IInv'
<1> DEFINE new == Len(StartAssets) + used.edits + 1
           as == [a \in DOMAIN assets \cup {new} |-> IF a = new THEN "open" ELSE assets[a]]
<1>1. Edit(as, entries)
  BY DEF CreateAsset
<1>2. new \in AssetIds
  <2>1. used.edits < MaxEdits
    BY <1>1 DEF Edit
  <2>2. used.edits \in Nat
    BY ConstantsAssumption DEF IInv, UsedOK
  <2>3. Len(StartAssets) \in Nat /\ MaxEdits \in Nat
    BY ConstantsAssumption
  <2> QED
    BY <2>1, <2>2, <2>3 DEF AssetIds
<1> HIDE DEF new
<1>3. DOMAIN as = DOMAIN assets \cup {new} /\ as \in [DOMAIN as -> States]
  BY World DEF States
<1> HIDE DEF as
<1>4. Maps(as, AssetIds, States)
  BY <1>2, <1>3, World DEF Maps
<1>5. \A e \in DOMAIN entries : entries[e] \in Entry(as)
  BY <1>3, World DEF Entry
<1>6. Maps(entries, Nat \ {0}, [id : DOMAIN as, value : Values \cup {NoValue}]) /\ IsFiniteSet(DOMAIN entries)
  BY <1>5, World DEF Maps, Entry
<1> QED
  BY <1>1, <1>4, <1>6, EditKeepsIInv

LEMMA RecordOneKeepsIInv ==
  ASSUME IInv, NEW a \in DOMAIN assets, NEW v \in Values, RecordOne(a, v)
  PROVE  IInv'
<1> DEFINE row == [id |-> a, value |-> v]
           rows == <<row>>
           es == Batch(rows, "replace")
<1>1. Edit(assets, es)
  BY DEF RecordOne
<1>2. row \in GridRow
  BY World DEF GridRow
<1>3. RowsOK(rows)
  <2>1. MaxRows \in Nat \ {0}
    BY ConstantsAssumption
  <2>2. DOMAIN rows = {1} /\ rows[1] = row /\ rows = [i \in {1} |-> row]
    OBVIOUS
  <2> HIDE DEF row, rows
  <2>3. rows \in [DOMAIN rows -> GridRow]
    BY <1>2, <2>2
  <2> QED
    BY <2>1, <2>2, <2>3 DEF RowsOK, Maps
<1> HIDE DEF rows
<1>4. /\ Maps(es, Nat \ {0}, [id : DOMAIN assets, value : Values \cup {NoValue}])
      /\ IsFiniteSet(DOMAIN es)
  BY <1>3, World, BatchTyped
<1>5. Maps(assets, AssetIds, States)
  BY World DEF Maps
<1> HIDE DEF es
<1> QED
  BY <1>1, <1>4, <1>5, EditKeepsIInv

LEMMA DeleteEntryKeepsIInv ==
  ASSUME IInv, NEW e \in DOMAIN entries, DeleteEntry(e)
  PROVE  IInv'
<1> DEFINE es == Keeping(entries, DOMAIN entries \ {e})
<1>1. Edit(assets, es)
  BY DEF DeleteEntry
<1>2. DOMAIN es = DOMAIN entries \ {e} /\ es \in [DOMAIN es -> Entry(assets)]
  BY World DEF Keeping
<1> HIDE DEF es
<1>3. Maps(es, Nat \ {0}, [id : DOMAIN assets, value : Values \cup {NoValue}])
  BY <1>2, World DEF Maps, Entry
<1>4. IsFiniteSet(DOMAIN es)
  BY <1>2, World, FS_Subset
<1>5. Maps(assets, AssetIds, States)
  BY World DEF Maps
<1> QED
  BY <1>1, <1>3, <1>4, <1>5, EditKeepsIInv

\* A step that only concerns tokens.
LEMMA ExpireKeepsIInv ==
  ASSUME IInv, NEW t \in DOMAIN tokens, Expire(t)
  PROVE  IInv'
<1>1. /\ tokens' = [tokens EXCEPT ![t] = "expired"]
      /\ UNCHANGED <<assets, entries, shown, client, used, spent, fresh, last>>
  BY DEF Expire, world, history
<1>2. TokensHold(shown, tokens, spent)
  BY DEF IInv
<1>3. DOMAIN tokens' = DOMAIN tokens /\ tokens' \in [DOMAIN tokens -> {"live", "expired"}]
  BY <1>1, <1>2 DEF TokensHold, Maps
<1>4. TokensHold(shown', tokens', spent')
  BY <1>1, <1>2, <1>3 DEF TokensHold, Maps
<1>5. CallsHold'
  BY <1>1 DEF IInv, CallsHold
<1>6. WorldOK' /\ UsedOK'
  BY <1>1 DEF IInv, WorldOK, UsedOK
<1>7. ShownHolds(shown') /\ FreshHolds(shown', fresh', assets', entries')
      /\ LastHolds(shown', last', assets', entries')
  BY <1>1 DEF IInv
<1> QED
  BY <1>4, <1>5, <1>6, <1>7 DEF IInv

LEMMA RestartKeepsIInv ==
  ASSUME IInv, Restart
  PROVE  IInv'
<1>1. /\ Fault /\ tokens' = [t \in {} |-> "live"]
      /\ client' = [c \in Clients |-> IF client[c].phase = "grid" THEN client[c] ELSE Idle]
      /\ UNCHANGED <<assets, entries, shown, spent, fresh, last>>
  BY DEF Restart, world, history
<1>2. DOMAIN tokens' = {} /\ tokens' \in [{} -> {"live", "expired"}]
  BY <1>1
<1>3. TokensHold(shown', tokens', spent')
  BY <1>1, <1>2 DEF IInv, TokensHold, Maps
<1>4. UsedOK'
  BY <1>1, Left
<1>5. CallsHold'
  <2>1. client' = [c \in Clients |-> client'[c]]
    BY <1>1
  <2>2. ASSUME NEW c \in Clients PROVE CallHolds(client'[c], assets', entries', shown')
    <3>1. client'[c] = client[c] \/ client'[c] = Idle
      BY <1>1
    <3>2. CallHolds(client[c], assets, entries, shown) /\ CallHolds(Idle, assets, entries, shown)
      BY CallOf, IdleHolds
    <3> QED
      BY <1>1, <3>1, <3>2
  <2> QED
    BY <2>1, <2>2 DEF CallsHold
<1>6. WorldOK'
  BY <1>1 DEF IInv, WorldOK
<1>7. ShownHolds(shown') /\ FreshHolds(shown', fresh', assets', entries')
      /\ LastHolds(shown', last', assets', entries')
  BY <1>1 DEF IInv
<1> QED
  BY <1>3, <1>4, <1>5, <1>6, <1>7 DEF IInv

LEMMA InitIInv == Init => IInv
<1> SUFFICES ASSUME Init PROVE IInv
  OBVIOUS
<1>1. StartAssets \in Seq(States) /\ MaxEdits \in Nat
  BY ConstantsAssumption
<1>2. Maps(assets, AssetIds, States)
  <2>1. assets = StartAssets
    BY DEF Init
  <2>2. DOMAIN assets = 1 .. Len(StartAssets) /\ Len(StartAssets) \in Nat
        /\ assets \in [DOMAIN assets -> States]
    BY <1>1, <2>1
  <2> QED
    BY <1>1, <2>2 DEF Maps, AssetIds
<1>3. Maps(entries, Nat \ {0}, [id : DOMAIN assets, value : Values \cup {NoValue}])
      /\ IsFiniteSet(DOMAIN entries)
  <2> DEFINE Start == [id : DOMAIN assets, value : Values]
             E == [id : DOMAIN assets, value : Values \cup {NoValue}]
  <2>1. entries \in Seq(Start)
    BY ConstantsAssumption DEF Init
  <2>2. \A x \in Start : x \in E
    OBVIOUS
  <2> HIDE DEF Start, E
  <2>3. DOMAIN entries = 1 .. Len(entries) /\ Len(entries) \in Nat
        /\ entries \in [DOMAIN entries -> Start]
    BY <2>1
  <2>4. entries \in [DOMAIN entries -> E]
    BY <2>2, <2>3
  <2>5. IsFiniteSet(DOMAIN entries) /\ DOMAIN entries \subseteq Nat \ {0}
    <3> DEFINE n == Len(entries)
    <3>1. DOMAIN entries = 1 .. n /\ n \in Nat
      BY <2>3
    <3> HIDE DEF n
    <3>2. IsFiniteSet(1 .. n)
      BY <3>1, FS_Interval
    <3> QED
      BY <3>1, <3>2
  <2> QED
    BY <2>4, <2>5 DEF Maps, E
<1>4. shown = <<>> /\ DOMAIN shown = {} /\ spent = {} /\ fresh = {} /\ last = NoToken
  BY DEF Init
<1>5. ShownHolds(shown)
  BY <1>4 DEF ShownHolds
<1>6. TokensHold(shown, tokens, spent)
  <2>1. tokens = [t \in {} |-> "live"]
    BY DEF Init
  <2>2. DOMAIN tokens = {} /\ tokens \in [DOMAIN tokens -> {"live", "expired"}]
    BY <2>1
  <2> QED
    BY <1>4, <2>2 DEF TokensHold, Maps
<1>7. CallsHold
  <2>1. client = [c \in Clients |-> Idle]
    BY DEF Init
  <2>2. client = [c \in Clients |-> client[c]] /\ \A c \in Clients : client[c] = Idle
    BY <2>1
  <2>3. CallHolds(Idle, assets, entries, shown)
    BY IdleHolds
  <2> QED
    BY <2>2, <2>3 DEF CallsHold
<1>8. UsedOK
  BY ConstantsAssumption DEF Init, UsedOK
<1>9. FreshHolds(shown, fresh, assets, entries) /\ LastHolds(shown, last, assets, entries)
  BY <1>4, NoneLasts DEF FreshHolds
<1> QED
  BY <1>2, <1>3, <1>5, <1>6, <1>7, <1>8, <1>9 DEF IInv, WorldOK

LEMMA CallsKeepIInv ==
  ASSUME IInv, NEW c \in Clients, Calls(c)
  PROVE  IInv'
<1>1. CASE \E f \in Files : Preview(c, f)
  BY <1>1, PreviewKeepsIInv
<1>2. CASE \E t \in DOMAIN shown : Commit(c, t)
  BY <1>2, CommitKeepsIInv
<1>3. CASE OpenGrid(c)
  BY <1>3, OpenGridKeepsIInv
<1>4. CASE LeaveGrid(c)
  BY <1>4, LeaveGridKeepsIInv
<1>5. CASE SendGrid(c, "skip", TRUE) \/ \E all \in BOOLEAN : SendGrid(c, "replace", all)
  BY <1>5, SendGridKeepsIInv
<1>6. CASE listAllAssets(c)
  BY <1>6, listAllAssetsKeepsIInv
<1>7. CASE monthEntries(c)
  BY <1>7, monthEntriesKeepsIInv
<1>8. CASE Post(c)
  BY <1>8, PostKeepsIInv
<1>9. CASE Forget(c)
  BY <1>9, ForgetKeepsIInv
<1>10. CASE CallFails(c)
  BY <1>10, CallFailsKeepsIInv
<1>11. CASE AnswerLost(c)
  BY <1>11, AnswerLostKeepsIInv
<1> QED
  BY <1>1, <1>2, <1>3, <1>4, <1>5, <1>6, <1>7, <1>8, <1>9, <1>10, <1>11 DEF Calls

LEMMA OthersKeepIInv ==
  ASSUME IInv, Others
  PROVE  IInv'
<1>1. CASE \E a \in DOMAIN assets : CloseOrReopen(a)
  BY <1>1, CloseOrReopenKeepsIInv
<1>2. CASE \E a \in DOMAIN assets : DeleteAsset(a)
  BY <1>2, DeleteAssetKeepsIInv
<1>3. CASE \E a \in DOMAIN assets : \E v \in Values : RecordOne(a, v)
  BY <1>3, RecordOneKeepsIInv
<1>4. CASE \E e \in DOMAIN entries : DeleteEntry(e)
  BY <1>4, DeleteEntryKeepsIInv
<1>5. CASE CreateAsset
  BY <1>5, CreateAssetKeepsIInv
<1> QED
  BY <1>1, <1>2, <1>3, <1>4, <1>5 DEF Others

\* The invariant holds before and after every step.
LEMMA NextKeepsIInv == IInv /\ [Next]_vars => IInv'
<1> SUFFICES ASSUME IInv, [Next]_vars PROVE IInv'
  OBVIOUS
<1>1. CASE \E c \in Clients : Calls(c)
  BY <1>1, CallsKeepIInv
<1>2. CASE \E t \in DOMAIN tokens : Expire(t)
  BY <1>2, ExpireKeepsIInv
<1>3. CASE Others
  BY <1>3, OthersKeepIInv
<1>4. CASE Restart
  BY <1>4, RestartKeepsIInv
<1>5. CASE UNCHANGED vars
  <2>1. UNCHANGED <<assets, entries, shown, tokens, client, used, spent, fresh, last>>
    BY <1>5 DEF vars
  <2>2. WorldOK' /\ UsedOK' /\ CallsHold'
    BY <2>1 DEF IInv, WorldOK, UsedOK, CallsHold
  <2>3. ShownHolds(shown') /\ TokensHold(shown', tokens', spent')
        /\ FreshHolds(shown', fresh', assets', entries') /\ LastHolds(shown', last', assets', entries')
    BY <2>1 DEF IInv
  <2> QED
    BY <2>2, <2>3 DEF IInv
<1>6. CASE Quiet
  BY <1>5, <1>6 DEF Quiet
<1> QED
  BY <1>1, <1>2, <1>3, <1>4, <1>5, <1>6 DEF Next

(* The invariant holds in every state.                                     *)
THEOREM Invariant == Spec => []IInv
<1>1. Init => IInv
  BY InitIInv
<1>2. IInv /\ [Next]_vars => IInv'
  BY NextKeepsIInv
<1> QED
  BY <1>1, <1>2, PTL DEF Spec

(* The variables have their types, every entry has its asset, and a commit *)
(* posts the rows of its report: Importer's TypeOK.                        *)
THEOREM TypeCorrect == Spec => []TypeOK
<1>1. Spec => []IInv
  BY Invariant
<1>2. IInv => TypeOK
  BY IInvTyped
<1> QED
  BY <1>1, <1>2, PTL

-----------------------------------------------------------------------------
(* What a step does to a call.                                             *)

\* The phase of a call, and that it is no longer clean.
LEMMA StaleIs ==
  ASSUME NEW call \in CallSet
  PROVE  /\ ([call EXCEPT !.clean = FALSE]).phase = call.phase
         /\ ([call EXCEPT !.clean = FALSE]).written = call.written
         /\ ([call EXCEPT !.clean = FALSE]).replaced = call.replaced
         /\ ([call EXCEPT !.clean = FALSE]).from = call.from
         /\ ([call EXCEPT !.clean = FALSE]).clean = FALSE
BY DEF CallSet

LEMMA IdleIs == Idle.phase = "idle" /\ Idle.from = 0
BY DEF Idle, Calling

\* The others' calls when one moves.
Stays(c) ==
  \/ client'[c] = client[c]
  \/ client'[c] = Idle /\ client[c].phase = "idle"
  \/ client'[c] = [client[c] EXCEPT !.clean = FALSE]

LEMMA SetLeaves ==
  ASSUME IInv, NEW c \in Clients, NEW d \in Clients, d # c, NEW call, Set(d, call)
  PROVE  client'[c] = client[c]
<1>1. DOMAIN client = Clients
  BY DEF IInv, CallsHold
<1> QED
  BY <1>1 DEF Set

LEMMA SetAllLeaves ==
  ASSUME IInv, NEW c \in Clients, NEW calls, calls[c] = client[c], SetAll(calls)
  PROVE  Stays(c)
<1>1. client'[c] = IF calls[c].phase = "idle" THEN Idle ELSE [calls[c] EXCEPT !.clean = FALSE]
  BY DEF SetAll
<1>2. CASE client[c].phase = "idle"
  BY <1>1, <1>2 DEF Stays
<1>3. CASE client[c].phase # "idle"
  BY <1>1, <1>3 DEF Stays
<1> QED
  BY <1>2, <1>3

\* Another call's step.
LEMMA OtherCallLeaves ==
  ASSUME IInv, NEW c \in Clients, NEW d \in Clients, d # c, Calls(d)
  PROVE  Stays(c)
<1>1. ASSUME NEW call, Set(d, call) PROVE Stays(c)
  BY <1>1, SetLeaves DEF Stays
<1>2. ASSUME NEW call, Begin(d, call) PROVE Stays(c)
  BY <1>1, <1>2 DEF Begin
<1>3. ASSUME NEW call, SetAll([client EXCEPT ![d] = call]) PROVE Stays(c)
  <2> DEFINE calls == [client EXCEPT ![d] = call]
  <2>1. calls[c] = client[c]
    BY DEF IInv, CallsHold
  <2> HIDE DEF calls
  <2>2. SetAll(calls)
    BY <1>3 DEF calls
  <2> QED
    BY <2>1, <2>2, SetAllLeaves
<1>4. CASE \E f \in Files : Preview(d, f)
  BY <1>2, <1>4 DEF Preview
<1>5. CASE \E t \in DOMAIN shown : Commit(d, t)
  <2>1. PICK t \in DOMAIN shown : Commit(d, t)
    BY <1>5
  <2>2. CASE t \in DOMAIN tokens /\ tokens[t] = "live"
    BY <1>2, <2>1, <2>2 DEF Commit
  <2>3. CASE ~(t \in DOMAIN tokens /\ tokens[t] = "live")
    BY <1>2, <2>1, <2>3 DEF Commit
  <2> QED
    BY <2>2, <2>3
<1>6. CASE OpenGrid(d)
  BY <1>2, <1>6 DEF OpenGrid
<1>7. CASE LeaveGrid(d) \/ Forget(d) \/ CallFails(d)
  BY <1>1, <1>7 DEF LeaveGrid, Forget, CallFails
<1>8. CASE SendGrid(d, "skip", TRUE) \/ \E all \in BOOLEAN : SendGrid(d, "replace", all)
  BY <1>1, <1>8 DEF SendGrid
<1>9. CASE listAllAssets(d)
  BY <1>1, <1>9 DEF listAllAssets
<1>10. CASE monthEntries(d)
  BY <1>1, <1>10 DEF monthEntries, Issue
<1>11. CASE Post(d)
  <2>1. CASE Rejects(client[d].rows)
    BY <1>1, <1>11, <2>1 DEF Post
  <2>2. CASE ~Rejects(client[d].rows)
    BY <1>3, <1>11, <2>2, PostIs
  <2> QED
    BY <2>1, <2>2
<1>12. CASE AnswerLost(d)
  BY <1>3, <1>12 DEF AnswerLost
<1> QED
  BY <1>4, <1>5, <1>6, <1>7, <1>8, <1>9, <1>10, <1>11, <1>12 DEF Calls

LEMMA OthersLeave ==
  ASSUME IInv, NEW c \in Clients, Others
  PROVE  Stays(c)
<1>1. ASSUME NEW as, NEW es, Edit(as, es) PROVE Stays(c)
  BY <1>1, SetAllLeaves DEF Edit
<1>2. CASE \E a \in DOMAIN assets : CloseOrReopen(a)
  BY <1>1, <1>2 DEF CloseOrReopen
<1>3. CASE \E a \in DOMAIN assets : DeleteAsset(a)
  BY <1>1, <1>3 DEF DeleteAsset
<1>4. CASE \E a \in DOMAIN assets : \E v \in Values : RecordOne(a, v)
  BY <1>1, <1>4 DEF RecordOne
<1>5. CASE \E e \in DOMAIN entries : DeleteEntry(e)
  BY <1>1, <1>5 DEF DeleteEntry
<1>6. CASE CreateAsset
  BY <1>1, <1>6 DEF CreateAsset
<1> QED
  BY <1>2, <1>3, <1>4, <1>5, <1>6 DEF Others

\* A call moves by a step of its own, or ends with the process.
LEMMA Moves ==
  ASSUME IInv, [Next]_vars, NEW c \in Clients
  PROVE  \/ Calls(c)
         \/ Stays(c)
         \/ client'[c] = Idle /\ UNCHANGED <<assets, entries, shown>>
<1>1. CASE \E d \in Clients : Calls(d)
  BY <1>1, OtherCallLeaves
<1>2. CASE \E t \in DOMAIN tokens : Expire(t)
  BY <1>2 DEF Expire, Stays
<1>3. CASE Others
  BY <1>3, OthersLeave
<1>4. CASE Restart
  <2>1. client'[c] = client[c] \/ client'[c] = Idle
    BY <1>4 DEF Restart
  <2> QED
    BY <1>4, <2>1 DEF Restart, Stays, world
<1>5. CASE Quiet \/ UNCHANGED vars
  BY <1>5 DEF Quiet, vars, Stays
<1> QED
  BY <1>1, <1>2, <1>3, <1>4, <1>5 DEF Next

\* What a call of its own can do in the phase it is in.
LEMMA CallsFrom ==
  ASSUME NEW c, Calls(c)
  PROVE  /\ client[c].phase = "idle" =>
              \/ \E f \in Files : Preview(c, f)
              \/ \E t \in DOMAIN shown : Commit(c, t)
              \/ OpenGrid(c)
         /\ client[c].phase = "post" => Post(c) \/ CallFails(c) \/ AnswerLost(c)
         /\ client[c].phase = "entries" => monthEntries(c) \/ CallFails(c)
<1>1. ASSUME \E f \in Files : Preview(c, f) PROVE client[c].phase = "idle"
  BY <1>1 DEF Preview, Begin
<1>2. ASSUME \E t \in DOMAIN shown : Commit(c, t) PROVE client[c].phase = "idle"
  <2>1. PICK t \in DOMAIN shown : Commit(c, t)
    BY <1>2
  <2>2. CASE t \in DOMAIN tokens /\ tokens[t] = "live"
    BY <2>1, <2>2 DEF Commit, Begin
  <2>3. CASE ~(t \in DOMAIN tokens /\ tokens[t] = "live")
    BY <2>1, <2>3 DEF Commit, Begin
  <2> QED
    BY <2>2, <2>3
<1>3. ASSUME OpenGrid(c) PROVE client[c].phase = "idle"
  BY <1>3 DEF OpenGrid, Begin
<1>4. ASSUME LeaveGrid(c) \/ SendGrid(c, "skip", TRUE) \/ \E all \in BOOLEAN : SendGrid(c, "replace", all)
      PROVE  client[c].phase = "grid"
  BY <1>4 DEF LeaveGrid, SendGrid
<1>5. /\ listAllAssets(c) => client[c].phase = "assets"
      /\ monthEntries(c) => client[c].phase = "entries"
      /\ Post(c) => client[c].phase = "post"
      /\ Forget(c) => client[c].phase = "forget"
      /\ CallFails(c) => client[c].phase \in {"assets", "entries", "post"}
      /\ AnswerLost(c) => client[c].phase = "post"
  BY DEF listAllAssets, monthEntries, Post, Forget, CallFails, AnswerLost
<1> QED
  BY <1>1, <1>2, <1>3, <1>4, <1>5 DEF Calls

\* A call that was posting ends with its batch written, or with nothing changed.
LEMMA EndedHow ==
  ASSUME IInv, [Next]_vars, NEW c \in Clients, Ended(c)
  PROVE  \/ entries' = entries /\ client'[c].phase = "idle"
         \/ /\ ~Rejects(client[c].rows)
            /\ entries' = Batch(client[c].rows, client[c].mode)
            /\ client'[c].phase = "forget" =>
                 /\ client'[c].written = Cardinality(Created(client[c].rows))
                 /\ client'[c].replaced = Cardinality(Replaced(client[c].rows, client[c].mode))
<1>1. client[c].phase = "post" /\ client'[c].phase # "post"
  BY DEF Ended
<1>2. client[c] \in CallSet /\ DOMAIN client = Clients
  BY CallOf DEF IInv, CallsHold
<1>3. ~Stays(c)
  BY <1>1, <1>2, StaleIs DEF Stays
<1>4. CASE client'[c] = Idle /\ UNCHANGED <<assets, entries, shown>>
  BY <1>4, IdleIs
<1>5. CASE CallFails(c)
  <2>1. client'[c] = Idle /\ entries' = entries
    BY <1>2, <1>5 DEF CallFails, Set, world
  <2> QED
    BY <2>1, IdleIs
<1>6. CASE AnswerLost(c)
  <2> DEFINE calls == [client EXCEPT ![c] = Idle]
  <2>1. ~Rejects(client[c].rows) /\ entries' = Batch(client[c].rows, client[c].mode) /\ SetAll(calls)
    BY <1>6 DEF AnswerLost
  <2>2. calls[c] = Idle
    BY <1>2
  <2>3. client'[c] = Idle
    BY <2>1, <2>2, IdleIs DEF SetAll
  <2> QED
    BY <2>1, <2>3, IdleIs
<1>7. CASE Post(c)
  <2>1. CASE Rejects(client[c].rows)
    <3>1. client' = [client EXCEPT ![c] = Idle] /\ entries' = entries
      BY <1>7, <2>1, PostIs
    <3>2. client'[c] = Idle
      BY <1>2, <3>1
    <3> QED
      BY <3>1, <3>2, IdleIs
  <2>2. CASE ~Rejects(client[c].rows)
    <3> DEFINE new == IF client[c].token = NoToken THEN Idle ELSE Accept(c)
               calls == [client EXCEPT ![c] = new]
    <3>1. entries' = Batch(client[c].rows, client[c].mode) /\ SetAll(calls)
      BY <1>7, <2>2, PostIs
    <3>2. calls[c] = new
      BY <1>2
    <3>3. client'[c] = IF new.phase = "idle" THEN Idle ELSE [new EXCEPT !.clean = FALSE]
      <4> HIDE DEF new, calls
      <4>1. client'[c] = IF calls[c].phase = "idle" THEN Idle ELSE [calls[c] EXCEPT !.clean = FALSE]
        BY <3>1 DEF SetAll
      <4> QED
        BY <3>2, <4>1
    <3>4. CASE client[c].token = NoToken
      <4>1. client'[c] = Idle
        BY <3>3, <3>4, IdleIs
      <4> QED
        BY <2>2, <3>1, <4>1, IdleIs
    <3>5. CASE client[c].token # NoToken
      <4>1. new = Accept(c) /\ Accept(c) \in CallSet
        BY <1>1, <3>5, AcceptStands DEF CallStands
      <4>2. /\ Accept(c).phase = "forget"
            /\ Accept(c).written = Cardinality(Created(client[c].rows))
            /\ Accept(c).replaced = Cardinality(Replaced(client[c].rows, client[c].mode))
        <5> DEFINE call == client[c]
                   w == Cardinality(Created(client[c].rows))
                   r == Cardinality(Replaced(client[c].rows, client[c].mode))
        <5>1. call \in CallSet
          BY <1>2
        <5>2. Accept(c) = [call EXCEPT !.phase = "forget", !.written = w, !.replaced = r]
          BY DEF Accept
        <5> HIDE DEF call, w, r
        <5>3. Accept(c).phase = "forget" /\ Accept(c).written = w /\ Accept(c).replaced = r
          BY <5>1, <5>2 DEF CallSet
        <5> QED
          BY <5>3 DEF w, r
      <4>3. client'[c] = [Accept(c) EXCEPT !.clean = FALSE]
        BY <3>3, <4>1, <4>2
      <4>4. client'[c].written = Accept(c).written /\ client'[c].replaced = Accept(c).replaced
        BY <4>1, <4>3, StaleIs
      <4> QED
        BY <2>2, <3>1, <4>2, <4>4
    <3> QED
      BY <3>4, <3>5
  <2> QED
    BY <2>1, <2>2
<1>8. Calls(c) => Post(c) \/ CallFails(c) \/ AnswerLost(c)
  BY <1>1, CallsFrom
<1>9. Calls(c) \/ (client'[c] = Idle /\ UNCHANGED <<assets, entries, shown>>)
  BY <1>3, Moves
<1> QED
  BY <1>4, <1>5, <1>6, <1>7, <1>8, <1>9

-----------------------------------------------------------------------------
(* Commits.                                                                *)

\* A call that begins to post or to forget does so for a live token.
LEMMA CommitBegins ==
  ASSUME IInv, [Next]_vars, NEW c \in Clients,
         client[c].phase = "idle", client'[c].phase \in {"post", "forget"}
  PROVE  client'[c].token \in DOMAIN tokens \ spent /\ tokens[client'[c].token] = "live"
<1>1. client[c] \in CallSet /\ DOMAIN client = Clients
  BY CallOf DEF IInv, CallsHold
<1>2. ~Stays(c) /\ client'[c] # Idle
  BY <1>1, StaleIs, IdleIs DEF Stays
<1>3. Calls(c)
  BY <1>2, Moves
<1>4. \A call : Begin(c, call) => client'[c] = call
  BY <1>1 DEF Begin, Set
<1>5. ~ \E f \in Files : Preview(c, f)
  <2> SUFFICES ASSUME NEW f \in Files, Preview(c, f) PROVE FALSE
    OBVIOUS
  <2>1. client'[c] = Calling("assets", f)
    BY <1>4 DEF Preview
  <2>2. client'[c].phase = "assets"
    BY <2>1 DEF Calling
  <2> QED
    BY <2>2
<1>6. ~OpenGrid(c)
  <2> SUFFICES ASSUME OpenGrid(c) PROVE FALSE
    OBVIOUS
  <2>1. PICK others : client'[c] = [Calling("grid", QuickRows(others)) EXCEPT !.mode = "skip",
                                                                             !.others = others]
    BY <1>4 DEF OpenGrid
  <2>2. client'[c].phase = "grid"
    BY <2>1 DEF Calling
  <2> QED
    BY <2>2
<1>7. PICK t \in DOMAIN shown : Commit(c, t)
  BY <1>3, <1>5, <1>6, CallsFrom
<1>8. t \in DOMAIN tokens /\ tokens[t] = "live"
  BY <1>2, <1>4, <1>7 DEF Commit
<1>9. client'[c] = [Calling(IF Applied(shown[t]) = {} THEN "forget" ELSE "post", <<>>)
                      EXCEPT !.token = t, !.rows = RowsOf(t)]
  BY <1>4, <1>7, <1>8 DEF Commit
<1>10. client'[c].token = t
  BY <1>9 DEF Calling
<1>11. t \notin spent
  BY <1>8 DEF IInv, TokensHold
<1> QED
  BY <1>8, <1>10, <1>11

\* The rows of a commit are of a report on the screen.
LEMMA CommitRows ==
  ASSUME IInv, NEW c \in Clients, client[c].token # NoToken
  PROVE  /\ client[c].token \in DOMAIN shown /\ client[c].mode = "replace"
         /\ RowsOK(client[c].rows)
         /\ DOMAIN client[c].rows = Applied(shown[client[c].token])
         /\ \A i \in DOMAIN client[c].rows :
              /\ client[c].rows[i].id = shown[client[c].token][i].id
              /\ client[c].rows[i].value = shown[client[c].token][i].value
         /\ \A i \in DOMAIN shown[client[c].token] :
              shown[client[c].token][i].action # "bad amount"
<1>1. client[c] \in CallSet /\ CommitHolds(client[c], shown) /\ ShownHolds(shown)
  BY CallOf DEF IInv
<1> DEFINE call == client[c]
<1> HIDE DEF call
<1>2. /\ call.token \in DOMAIN shown /\ call.mode = "replace" /\ call.rows = RowsIn(shown, call.token)
      /\ \A i \in DOMAIN shown[call.token] : shown[call.token][i].action # "bad amount"
  BY <1>1 DEF CommitHolds, call
<1>3. RowsOK(call.rows)
  BY <1>1, RowsAre DEF call
<1>4. /\ DOMAIN call.rows = Applied(shown[call.token])
      /\ \A i \in Applied(shown[call.token]) :
           call.rows[i].id = shown[call.token][i].id /\ call.rows[i].value = shown[call.token][i].value
  <2> DEFINE t == call.token
  <2>1. t \in DOMAIN shown /\ ShownHolds(shown) /\ call.rows = RowsIn(shown, t)
    BY <1>1, <1>2
  <2> HIDE DEF t
  <2>2. /\ DOMAIN RowsIn(shown, t) = Applied(shown[t])
        /\ \A i \in Applied(shown[t]) : /\ RowsIn(shown, t)[i].id = shown[t][i].id
                                        /\ RowsIn(shown, t)[i].value = shown[t][i].value
    BY <2>1, RowsInTyped
  <2> QED
    BY <2>1, <2>2 DEF t
<1> QED
  BY <1>2, <1>3, <1>4 DEF call

\* Every row about an open asset is written when existing entries are replaced.
LEMMA OpenIsWritten ==
  ASSUME NEW rows, NEW i \in DOMAIN rows, rows[i].id \in DOMAIN assets, assets[rows[i].id] = "open"
  PROVE  i \in Writes(rows, "replace")
BY DEF Writes, Created, Replaced, OfOpen, StateOf

\* What a commit's batch does to the assets it names and to those it does not.
LEMMA CommitWrites ==
  ASSUME IInv, NEW c \in Clients, client[c].token # NoToken, ~Rejects(client[c].rows),
         entries' = Batch(client[c].rows, client[c].mode)
  PROVE  /\ \A i \in DOMAIN client[c].rows :
              /\ client[c].rows[i].id \in DOMAIN assets
              /\ assets[client[c].rows[i].id] = "open" =>
                   \E e \in PlacesOf(entries', client[c].rows[i].id) :
                     /\ entries'[e].value = client[c].rows[i].value
                     /\ \A k \in PlacesOf(entries', client[c].rows[i].id) : k <= e
         /\ \A a \in DOMAIN assets :
              assets[a] = "closed" \/ (\A i \in DOMAIN client[c].rows : client[c].rows[i].id # a) => Keeps(a)
<1> DEFINE rows == client[c].rows
           B == Batch(rows, "replace")
<1>1. RowsOK(rows) /\ client[c].mode = "replace"
  BY CommitRows
<1>2. ~Duplicated(rows) /\ \A i \in DOMAIN rows : StateOf(assets, rows[i].id) # "unknown"
  BY DEF Rejects
<1>3. WorldOK
  BY DEF IInv
<1>4. entries' = B
  BY <1>1
<1> HIDE DEF rows, B
<1>5. ASSUME NEW i \in DOMAIN rows
      PROVE  /\ rows[i].id \in DOMAIN assets
             /\ assets[rows[i].id] = "open" =>
                  \E e \in PlacesOf(B, rows[i].id) :
                    /\ B[e].value = rows[i].value
                    /\ \A k \in PlacesOf(B, rows[i].id) : k <= e
  <2>1. rows[i].id \in DOMAIN assets
    BY <1>2 DEF StateOf
  <2>2. ASSUME assets[rows[i].id] = "open"
        PROVE  \E e \in PlacesOf(B, rows[i].id) :
                 /\ B[e].value = rows[i].value
                 /\ \A k \in PlacesOf(B, rows[i].id) : k <= e
    <3>1. i \in Writes(rows, "replace")
      BY <2>1, <2>2, OpenIsWritten
    <3>2. /\ Top + i \in PlacesOf(B, rows[i].id) /\ B[Top + i] = rows[i]
          /\ \A e \in PlacesOf(B, rows[i].id) : e <= Top + i
      BY <1>1, <1>2, <1>3, <3>1, BatchNewest DEF B
    <3> QED
      BY <3>2
  <2> QED
    BY <2>1, <2>2
<1>6. ASSUME NEW a \in DOMAIN assets, assets[a] = "closed" \/ \A i \in DOMAIN rows : rows[i].id # a
      PROVE  Keeps(a)
  <2>1. ASSUME NEW i \in Writes(rows, "replace") PROVE rows[i].id # a
    <3>1. i \in DOMAIN rows /\ assets[rows[i].id] = "open"
      BY <1>1, <1>3, WritesAre
    <3> QED
      BY <1>6, <3>1
  <2>2. PlacesOf(B, a) = PlacesOf(entries, a) /\ ValuesOf(B, a) = ValuesOf(entries, a)
    BY <1>1, <1>3, <2>1, BatchSpares DEF B
  <2> QED
    BY <1>4, <2>2 DEF Keeps
<1> QED
  BY <1>4, <1>5, <1>6 DEF rows

(* A commit that begins after its token expired, after another commit of   *)
(* it succeeded, or after a restart posts nothing, and one whose batch     *)
(* changes anything writes all of its rows and nothing else: Importer's    *)
(* CommitWritesItsRows.                                                    *)
THEOREM CommitsWriteTheirRows == Spec => CommitWritesItsRows
<1> DEFINE Writing ==
      \A c \in Clients :
        /\ client[c].phase = "idle" /\ client'[c].phase \in {"post", "forget"} =>
             client'[c].token \in DOMAIN tokens \ spent /\ tokens[client'[c].token] = "live"
        /\ Ended(c) /\ client[c].token # NoToken /\ entries' # entries =>
             LET rows == client[c].rows IN
             /\ \A i \in DOMAIN rows :
                  /\ rows[i].id \in DOMAIN assets
                  /\ assets[rows[i].id] = "open" =>
                       \E e \in PlacesOf(entries', rows[i].id) :
                         /\ entries'[e].value = rows[i].value
                         /\ \A k \in PlacesOf(entries', rows[i].id) : k <= e
             /\ \A a \in DOMAIN assets :
                  assets[a] = "closed" \/ (\A i \in DOMAIN rows : rows[i].id # a) => Keeps(a)
<1>1. ASSUME IInv, [Next]_vars PROVE Writing
  <2>1. ASSUME NEW c \in Clients, Ended(c), client[c].token # NoToken, entries' # entries
        PROVE  ~Rejects(client[c].rows) /\ entries' = Batch(client[c].rows, client[c].mode)
    BY <1>1, <2>1, EndedHow
  <2>2. \A c \in Clients :
          client[c].phase = "idle" /\ client'[c].phase \in {"post", "forget"} =>
            client'[c].token \in DOMAIN tokens \ spent /\ tokens[client'[c].token] = "live"
    BY <1>1, CommitBegins
  <2>3. ASSUME NEW c \in Clients, Ended(c), client[c].token # NoToken, entries' # entries
        PROVE  /\ \A i \in DOMAIN client[c].rows :
                    /\ client[c].rows[i].id \in DOMAIN assets
                    /\ assets[client[c].rows[i].id] = "open" =>
                         \E e \in PlacesOf(entries', client[c].rows[i].id) :
                           /\ entries'[e].value = client[c].rows[i].value
                           /\ \A k \in PlacesOf(entries', client[c].rows[i].id) : k <= e
               /\ \A a \in DOMAIN assets :
                    assets[a] = "closed" \/ (\A i \in DOMAIN client[c].rows : client[c].rows[i].id # a)
                      => Keeps(a)
    BY <1>1, <2>1, <2>3, CommitWrites
  <2> QED
    BY <2>2, <2>3
<1>2. IInv /\ [Next]_vars => Writing
  BY <1>1
<1>3. CommitWritesItsRows <=> [][Writing]_vars
  BY DEF CommitWritesItsRows
<1> HIDE DEF Writing
<1> QED
  BY <1>2, <1>3, Invariant, PTL DEF Spec

-----------------------------------------------------------------------------
(* A commit does what was shown.                                           *)

\* The lines of a report by what is to become of them.
LinesFor(report, actions) == {i \in DOMAIN report : report[i].action \in actions}

LEMMA SeqIs ==
  ASSUME NEW R, NEW s \in Seq(R)
  PROVE  /\ Len(s) \in Nat /\ DOMAIN s = 1 .. Len(s)
         /\ \A i \in DOMAIN s : s[i] \in R
OBVIOUS

LEMMA IntervalIs ==
  ASSUME NEW n \in Nat
  PROVE  IsFiniteSet(1 .. n) /\ Cardinality(1 .. n) = n
<1>1. 1 \in Int /\ n \in Int
  OBVIOUS
<1>2. IsFiniteSet(1 .. n) /\ Cardinality(1 .. n) = IF 1 > n THEN 0 ELSE n - 1 + 1
  BY <1>1, FS_Interval
<1> QED
  BY <1>2

LEMMA SizesAdd ==
  ASSUME NEW S, IsFiniteSet(S), NEW T, IsFiniteSet(T), S \cap T = {}
  PROVE  IsFiniteSet(S \cup T) /\ Cardinality(S \cup T) = Cardinality(S) + Cardinality(T)
<1> DEFINE both == Cardinality(S \cap T)
<1>1. both = 0
  BY FS_EmptySet
<1>2. Cardinality(S) \in Nat /\ Cardinality(T) \in Nat
  BY FS_CardinalityType
<1>3. IsFiniteSet(S \cup T) /\ Cardinality(S \cup T) = Cardinality(S) + Cardinality(T) - both
  BY FS_Union
<1> HIDE DEF both
<1> QED
  BY <1>1, <1>2, <1>3

\* Without bad amounts, each line is created, updated or skipped.
LEMMA LinesAddUp ==
  ASSUME NEW report \in Seq(ReportLine), \A i \in DOMAIN report : report[i].action # "bad amount"
  PROVE  Count(report, {"create"}) + Count(report, {"update"}) + Skipped(report) = Len(report)
<1> DEFINE C == LinesFor(report, {"create"})
           U == LinesFor(report, {"update"})
           S == LinesFor(report, {"no id", "unknown", "closed"})
           n == Len(report)
<1>1. n \in Nat /\ DOMAIN report = 1 .. n
  BY SeqIs
<1>2. \A i \in DOMAIN report :
        report[i].action \in {"no id", "unknown", "bad amount", "closed", "update", "create"}
  <2> SUFFICES ASSUME NEW i \in DOMAIN report
               PROVE  report[i].action \in {"no id", "unknown", "bad amount", "closed", "update", "create"}
    OBVIOUS
  <2>1. report[i] \in ReportLine
    BY SeqIs
  <2> QED
    BY <2>1 DEF ReportLine
<1>3. (C \cup U) \cup S = 1 .. n
  BY <1>1, <1>2 DEF LinesFor
<1>4. C \cap U = {} /\ (C \cup U) \cap S = {}
  BY DEF LinesFor
<1>5. C \subseteq 1 .. n /\ U \subseteq 1 .. n /\ S \subseteq 1 .. n
  BY <1>3
<1>6. Cardinality(C) = Count(report, {"create"}) /\ Cardinality(U) = Count(report, {"update"})
      /\ Cardinality(S) = Skipped(report)
  BY DEF Count, Skipped, LinesFor
<1> HIDE DEF C, U, S, n
<1>7. IsFiniteSet(1 .. n) /\ Cardinality(1 .. n) = n
  BY <1>1, IntervalIs
<1>8. IsFiniteSet(C) /\ IsFiniteSet(U) /\ IsFiniteSet(S)
  BY <1>5, <1>7, FS_Subset
<1>9. /\ Cardinality(C) \in Nat /\ Cardinality(U) \in Nat /\ Cardinality(S) \in Nat
  BY <1>8, FS_CardinalityType
<1>10. IsFiniteSet(C \cup U) /\ Cardinality(C \cup U) = Cardinality(C) + Cardinality(U)
  BY <1>4, <1>8, SizesAdd
<1>11. Cardinality((C \cup U) \cup S) = Cardinality(C \cup U) + Cardinality(S)
  BY <1>4, <1>8, <1>10, SizesAdd
<1>12. Cardinality(C) + Cardinality(U) + Cardinality(S) = n
  BY <1>3, <1>7, <1>9, <1>10, <1>11
<1> QED
  BY <1>6, <1>12 DEF n

\* What the report says of a line it will apply is so when nothing has changed.
LEMMA FreshLine ==
  ASSUME IInv, NEW t \in fresh, NEW i \in Applied(shown[t])
  PROVE  /\ shown[t][i].id \in DOMAIN assets /\ assets[shown[t][i].id] = "open"
         /\ shown[t][i].action = "update" => PlacesOf(entries, shown[t][i].id) # {}
         /\ shown[t][i].action = "create" => PlacesOf(entries, shown[t][i].id) = {}
<1> DEFINE row == shown[t][i]
           found == IdsOf(entries, DOMAIN entries)
<1>1. t \in DOMAIN shown /\ i \in DOMAIN shown[t] /\ row.action \in Applying
  BY DEF IInv, FreshHolds, Applied, Applying
<1>2. row \in ReportLine
  BY <1>1 DEF IInv, ShownHolds
<1>3. row.id \in Nat \cup {NoId} /\ row.value \in Values \cup {Bad}
  BY <1>2 DEF ReportLine
<1>4. row.action = Action(row, assets, found)
  BY <1>1 DEF IInv, FreshHolds
<1>5. assets \in Listings
  BY TablesAre DEF IInv, WorldOK, Listings
<1> HIDE DEF row, found
<1> DEFINE act == Action(row, assets, found)
<1>x. /\ act \in {"no id", "unknown", "bad amount", "closed", "update", "create"}
      /\ act \in Applying =>
           /\ row.id \in AssetIds /\ row.value \in Values
           /\ row.id \in DOMAIN assets /\ assets[row.id] = "open"
      /\ act = "update" => row.id \in found
      /\ act = "create" => row.id \notin found
  BY <1>3, <1>5, ActionIs
<1> HIDE DEF act
<1>6. row.id \in DOMAIN assets /\ assets[row.id] = "open"
  BY <1>1, <1>4, <1>x DEF act
<1>7. row.action = "update" => row.id \in found
  BY <1>4, <1>x DEF act
<1>8. row.action = "create" => row.id \notin found
  BY <1>4, <1>x DEF act
<1>9. row.id \in found <=> PlacesOf(entries, row.id) # {}
  BY DEF found, IdsOf, PlacesOf
<1> QED
  BY <1>6, <1>7, <1>8, <1>9 DEF row

\* The rows of a fresh report are created and replaced as it says.
LEMMA FreshRows ==
  ASSUME IInv, NEW c \in Clients, client[c].token \in fresh
  PROVE  /\ Created(client[c].rows) = LinesFor(shown[client[c].token], {"create"})
         /\ Replaced(client[c].rows, client[c].mode) = LinesFor(shown[client[c].token], {"update"})
         /\ \A i \in DOMAIN client[c].rows : StateOf(assets, client[c].rows[i].id) # "unknown"
<1> DEFINE rows == client[c].rows
           t == client[c].token
<1>1. t \in DOMAIN shown /\ shown \in Seq(Seq(ReportLine))
  BY DEF IInv, FreshHolds, ShownHolds
<1>2. t # NoToken
  BY <1>1 DEF NoToken
<1>3. /\ DOMAIN rows = Applied(shown[t])
      /\ \A i \in DOMAIN rows : rows[i].id = shown[t][i].id
      /\ client[c].mode = "replace"
  BY <1>2, CommitRows
<1> HIDE DEF rows, t
<1>4. ASSUME NEW i \in DOMAIN rows
      PROVE  /\ StateOf(assets, rows[i].id) = "open"
             /\ shown[t][i].action \in {"update", "create"} /\ i \in DOMAIN shown[t]
             /\ shown[t][i].action = "update" => PlacesOf(entries, rows[i].id) # {}
             /\ shown[t][i].action = "create" => PlacesOf(entries, rows[i].id) = {}
  <2>1. t \in fresh /\ i \in Applied(shown[t])
    BY <1>3 DEF t
  <2>2. shown[t][i].action \in {"update", "create"} /\ i \in DOMAIN shown[t]
    BY <2>1 DEF Applied
  <2>3. /\ shown[t][i].id \in DOMAIN assets /\ assets[shown[t][i].id] = "open"
        /\ shown[t][i].action = "update" => PlacesOf(entries, shown[t][i].id) # {}
        /\ shown[t][i].action = "create" => PlacesOf(entries, shown[t][i].id) = {}
    BY <2>1, FreshLine
  <2> QED
    BY <1>3, <2>2, <2>3 DEF StateOf
<1>5. \A i \in LinesFor(shown[t], {"create"}) \cup LinesFor(shown[t], {"update"}) : i \in DOMAIN rows
  BY <1>3 DEF LinesFor, Applied
<1>6. OfOpen(rows) = DOMAIN rows
  BY <1>4 DEF OfOpen
<1>7. Recorded(rows) = LinesFor(shown[t], {"update"})
  <2>1. \A i \in DOMAIN rows : i \in Recorded(rows) <=> PlacesOf(entries, rows[i].id) # {}
    BY <1>6 DEF Recorded
  <2>2. Recorded(rows) \subseteq DOMAIN rows
    BY <1>6 DEF Recorded
  <2>3. \A i \in DOMAIN rows : i \in LinesFor(shown[t], {"update"}) <=> shown[t][i].action = "update"
    BY <1>4 DEF LinesFor
  <2> QED
    BY <1>4, <1>5, <2>1, <2>2, <2>3
<1>8. Created(rows) = LinesFor(shown[t], {"create"})
  <2>1. Created(rows) = DOMAIN rows \ LinesFor(shown[t], {"update"})
    BY <1>6, <1>7 DEF Created
  <2>2. \A i \in DOMAIN rows :
          i \in LinesFor(shown[t], {"create"}) <=> i \notin LinesFor(shown[t], {"update"})
    BY <1>4 DEF LinesFor
  <2> QED
    BY <1>5, <2>1, <2>2
<1>9. Replaced(rows, client[c].mode) = LinesFor(shown[t], {"update"})
  BY <1>3, <1>7 DEF Replaced
<1>10. \A i \in DOMAIN rows : StateOf(assets, rows[i].id) # "unknown"
  BY <1>4
<1> QED
  BY <1>8, <1>9, <1>10 DEF rows, t

(* A commit does what its report showed if nothing has changed since the   *)
(* preview began: Importer's CommitDoesWhatWasShown.                       *)
THEOREM CommitsDoWhatWasShown == Spec => CommitDoesWhatWasShown
<1> DEFINE AsShown ==
      \A c \in Clients : client[c].phase = "post" /\ client[c].token \in fresh =>
        LET report == shown[client[c].token]
            call   == client'[c]
        IN  /\ Accepted(c) =>
                 /\ call.written = Count(report, {"create"})
                 /\ call.replaced = Count(report, {"update"})
                 /\ call.written + call.replaced + Skipped(report) = Len(report)
            /\ Rejects(client[c].rows) =>
                 Cardinality(DOMAIN client[c].rows) > MaxEntries \/ Duplicated(client[c].rows)
<1>1. ASSUME IInv, [Next]_vars PROVE AsShown
  <2> SUFFICES ASSUME NEW c \in Clients, client[c].phase = "post", client[c].token \in fresh
               PROVE  LET report == shown[client[c].token]
                          call   == client'[c]
                      IN  /\ Accepted(c) =>
                               /\ call.written = Count(report, {"create"})
                               /\ call.replaced = Count(report, {"update"})
                               /\ call.written + call.replaced + Skipped(report) = Len(report)
                          /\ Rejects(client[c].rows) =>
                               \/ Cardinality(DOMAIN client[c].rows) > MaxEntries
                               \/ Duplicated(client[c].rows)
    OBVIOUS
  <2> DEFINE report == shown[client[c].token]
  <2>1. /\ Created(client[c].rows) = LinesFor(report, {"create"})
        /\ Replaced(client[c].rows, client[c].mode) = LinesFor(report, {"update"})
        /\ \A i \in DOMAIN client[c].rows : StateOf(assets, client[c].rows[i].id) # "unknown"
    BY <1>1, FreshRows
  <2>2. Rejects(client[c].rows) =>
          Cardinality(DOMAIN client[c].rows) > MaxEntries \/ Duplicated(client[c].rows)
    BY <2>1 DEF Rejects
  <2>3. client[c].token \in DOMAIN shown /\ shown \in Seq(Seq(ReportLine)) /\ client[c].token # NoToken
    BY <1>1 DEF IInv, FreshHolds, ShownHolds, NoToken
  <2>4. report \in Seq(ReportLine) /\ \A i \in DOMAIN report : report[i].action # "bad amount"
    <3>1. \A t \in DOMAIN shown : shown[t] \in Seq(ReportLine)
      BY <2>3, SeqIs
    <3>2. \A i \in DOMAIN report : report[i].action # "bad amount"
      BY <1>1, <2>3, CommitRows
    <3> QED
      BY <2>3, <3>1, <3>2
  <2> HIDE DEF report
  <2>5. Count(report, {"create"}) + Count(report, {"update"}) + Skipped(report) = Len(report)
    BY <2>4, LinesAddUp
  <2>6. ASSUME Accepted(c)
        PROVE  /\ client'[c].written = Count(report, {"create"})
               /\ client'[c].replaced = Count(report, {"update"})
    <3>1. Ended(c) /\ client'[c].phase = "forget"
      BY <2>6 DEF Accepted, Ended
    <3>2. /\ client'[c].written = Cardinality(Created(client[c].rows))
          /\ client'[c].replaced = Cardinality(Replaced(client[c].rows, client[c].mode))
      BY <1>1, <3>1, EndedHow
    <3> QED
      BY <2>1, <3>2 DEF LinesFor, Count
  <2> QED
    BY <2>2, <2>5, <2>6 DEF report
<1>2. IInv /\ [Next]_vars => AsShown
  BY <1>1
<1>3. CommitDoesWhatWasShown <=> [][AsShown]_vars
  BY DEF CommitDoesWhatWasShown
<1> HIDE DEF AsShown
<1> QED
  BY <1>2, <1>3, Invariant, PTL DEF Spec

-----------------------------------------------------------------------------
(* Repeated commits and grids.                                             *)

\* A batch that writes the value an asset has leaves it as it is.
LEMMA BatchLeaves ==
  ASSUME NEW rows, NEW mode, WorldOK, RowsOK(rows), ~Duplicated(rows), NEW a,
         \A i \in Writes(rows, mode) : rows[i].id = a =>
           i \in Replaced(rows, mode) /\ entries[Latest(PlacesOf(entries, a))].value = rows[i].value,
         entries' = Batch(rows, mode)
  PROVE  Keeps(a)
<1>1. CASE \A i \in Writes(rows, mode) : rows[i].id # a
  <2>1. /\ PlacesOf(Batch(rows, mode), a) = PlacesOf(entries, a)
        /\ ValuesOf(Batch(rows, mode), a) = ValuesOf(entries, a)
    BY <1>1, BatchSpares
  <2> QED
    BY <2>1 DEF Keeps
<1>2. CASE \E i \in Writes(rows, mode) : rows[i].id = a
  <2>1. PICK i \in Writes(rows, mode) : rows[i].id = a
    BY <1>2
  <2>2. i \in Replaced(rows, mode) /\ entries[Latest(PlacesOf(entries, a))].value = rows[i].value
    BY <2>1
  <2>3. a = rows[i].id
    BY <2>1
  <2>4. /\ Cardinality(PlacesOf(Batch(rows, mode), a)) = Cardinality(PlacesOf(entries, a))
        /\ ValuesOf(Batch(rows, mode), a) = ValuesOf(entries, a)
    BY <2>2, <2>3, SameValueKeeps
  <2> QED
    BY <2>4 DEF Keeps
<1> QED
  BY <1>1, <1>2

\* The value of an asset's newest entry.
LEMMA NewestIs ==
  ASSUME WorldOK, NEW a, NEW e \in PlacesOf(entries, a), \A k \in PlacesOf(entries, a) : k <= e
  PROVE  Latest(PlacesOf(entries, a)) = e
<1> DEFINE P == PlacesOf(entries, a)
<1>1. P \in SUBSET Nat /\ IsFiniteSet(P) /\ e \in P /\ \A k \in P : k <= e
  BY PlacesAre
<1> HIDE DEF P
<1>2. Latest(P) = e
  BY <1>1, LatestIsOnly
<1> QED
  BY <1>2 DEF P

\* What is posted a second time is there.
LEMMA RepeatedRow ==
  ASSUME IInv, NEW c \in Clients, client[c].token # NoToken, last = client[c].token,
         NEW i \in OfOpen(client[c].rows)
  PROVE  /\ i \in Recorded(client[c].rows)
         /\ entries[Latest(PlacesOf(entries, client[c].rows[i].id))].value = client[c].rows[i].value
<1> DEFINE rows == client[c].rows
           t == client[c].token
<1>1. /\ t \in DOMAIN shown /\ DOMAIN rows = Applied(shown[t])
      /\ \A j \in DOMAIN rows : rows[j].id = shown[t][j].id /\ rows[j].value = shown[t][j].value
  BY CommitRows
<1>2. LastHolds(shown, t, assets, entries) /\ WorldOK /\ t # NoToken
  BY DEF IInv
<1> HIDE DEF rows, t
<1>3. i \in OfOpen(rows)
  BY DEF rows
<1>4. i \in DOMAIN rows /\ rows[i].id \in DOMAIN assets /\ assets[rows[i].id] = "open"
  BY <1>3 DEF OfOpen, StateOf
<1>5. PICK e \in PlacesOf(entries, rows[i].id) :
        /\ entries[e].value = rows[i].value
        /\ \A k \in PlacesOf(entries, rows[i].id) : k <= e
  BY <1>1, <1>2, <1>4 DEF LastHolds
<1>6. Latest(PlacesOf(entries, rows[i].id)) = e
  BY <1>2, <1>5, NewestIs
<1>7. i \in Recorded(rows)
  BY <1>3, <1>5 DEF Recorded
<1> QED
  BY <1>5, <1>6, <1>7 DEF rows

(* Posting a report again, with no other change in between, creates        *)
(* nothing and leaves every asset's values: Importer's RepeatIsHarmless.   *)
THEOREM RepeatsAreHarmless == Spec => RepeatIsHarmless
<1> DEFINE Harmless ==
      \A c \in Clients : Repeats(c) =>
        (\A a \in DOMAIN assets : Keeps(a)) /\ (Accepted(c) => client'[c].written = 0)
<1>1. ASSUME IInv, [Next]_vars PROVE Harmless
  <2> SUFFICES ASSUME NEW c \in Clients, Repeats(c)
               PROVE  (\A a \in DOMAIN assets : Keeps(a)) /\ (Accepted(c) => client'[c].written = 0)
    OBVIOUS
  <2>1. Ended(c) /\ client[c].token # NoToken /\ last = client[c].token
    BY DEF Repeats
  <2>2. CASE entries' = entries /\ client'[c].phase = "idle"
    <3>1. \A a \in DOMAIN assets : Keeps(a)
      BY <2>2 DEF Keeps
    <3>2. ~Accepted(c)
      BY <2>2 DEF Accepted
    <3> QED
      BY <3>1, <3>2
  <2>3. CASE /\ ~Rejects(client[c].rows)
             /\ entries' = Batch(client[c].rows, client[c].mode)
             /\ client'[c].phase = "forget" =>
                  /\ client'[c].written = Cardinality(Created(client[c].rows))
                  /\ client'[c].replaced = Cardinality(Replaced(client[c].rows, client[c].mode))
    <3> DEFINE rows == client[c].rows
               mode == client[c].mode
    <3>1. WorldOK /\ RowsOK(rows) /\ mode = "replace" /\ ~Duplicated(rows)
      BY <1>1, <2>1, <2>3, CommitRows DEF IInv, Rejects
    <3>2. \A i \in OfOpen(rows) :
            /\ i \in Recorded(rows)
            /\ entries[Latest(PlacesOf(entries, rows[i].id))].value = rows[i].value
      BY <1>1, <2>1, RepeatedRow
    <3>3. entries' = Batch(rows, mode)
      BY <2>3
    <3>4. Accepted(c) => client'[c].written = Cardinality(Created(rows))
      BY <2>3 DEF Accepted
    <3> HIDE DEF rows, mode
    <3>5. Created(rows) = {}
      BY <3>2 DEF Created
    <3>6. \A i \in Writes(rows, mode) : i \in OfOpen(rows) /\ i \in Replaced(rows, mode)
      BY <3>1, <3>5 DEF Writes, Replaced, Recorded
    <3>7. ASSUME NEW a \in DOMAIN assets PROVE Keeps(a)
      <4>1. \A i \in Writes(rows, mode) : rows[i].id = a =>
              i \in Replaced(rows, mode) /\ entries[Latest(PlacesOf(entries, a))].value = rows[i].value
        BY <3>2, <3>6
      <4> QED
        BY <3>1, <3>3, <4>1, BatchLeaves
    <3>8. Cardinality(Created(rows)) = 0
      BY <3>5, FS_EmptySet
    <3> QED
      BY <3>4, <3>7, <3>8
  <2> QED
    BY <1>1, <2>1, <2>2, <2>3, EndedHow
<1>2. IInv /\ [Next]_vars => Harmless
  BY <1>1
<1>3. RepeatIsHarmless <=> [][Harmless]_vars
  BY DEF RepeatIsHarmless
<1> HIDE DEF Harmless
<1> QED
  BY <1>2, <1>3, Invariant, PTL DEF Spec

\* What a grid that nothing disturbed was filled with.
LEMMA GridShows ==
  ASSUME IInv, NEW c \in Clients, client[c].phase = "post", client[c].token = NoToken, client[c].clean,
         NEW i \in DOMAIN client[c].rows, i \notin DOMAIN client[c].others.later
  PROVE  client[c].file[i].value = Standing(entries, i, client[c].others)
<1>1. CleanHolds(client[c], assets, entries) /\ PhaseHolds(client[c])
  BY CallOf DEF CallHolds
<1>2. client[c].file = GridOf(assets, entries, client[c].others) /\ i \in DOMAIN client[c].file
  BY <1>1 DEF CleanHolds, PhaseHolds
<1> QED
  BY <1>2 DEF GridOf

\* What a row leaves that was sent as the grid showed it, of an asset without
\* figures of a later month.
LEMMA LeftStands ==
  ASSUME NEW rows, NEW mode, WorldOK, RowsOK(rows), ~Duplicated(rows), NEW a, NEW others,
         entries' = Batch(rows, mode),
         \A i \in Writes(rows, mode) : rows[i].id = a =>
           rows[i].value = Standing(entries, a, others)
  PROVE  Standing(entries', a, others) = Standing(entries, a, others)
<1> DEFINE B == Batch(rows, mode)
<1>1. CASE \A i \in Writes(rows, mode) : rows[i].id # a
  <2>1. PlacesOf(B, a) = PlacesOf(entries, a) /\ \A e \in PlacesOf(entries, a) : B[e] = entries[e]
    BY <1>1, BatchSpares
  <2> HIDE DEF B
  <2>2. CASE PlacesOf(entries, a) = {}
    BY <2>1, <2>2, Zenon DEF Standing, B
  <2>3. CASE PlacesOf(entries, a) # {}
    <3>1. Latest(PlacesOf(entries, a)) \in PlacesOf(entries, a)
      BY <2>3, PlacesAre
    <3>2. B[Latest(PlacesOf(B, a))] = entries[Latest(PlacesOf(entries, a))]
      BY <2>1, <3>1, Zenon
    <3>3. /\ Standing(B, a, others) = B[Latest(PlacesOf(B, a))].value
          /\ Standing(entries, a, others) = entries[Latest(PlacesOf(entries, a))].value
      BY <2>1, <2>3 DEF Standing
    <3> QED
      BY <3>2, <3>3, Zenon DEF B
  <2> QED
    BY <2>2, <2>3
<1>2. ASSUME NEW i \in Writes(rows, mode), rows[i].id = a
      PROVE  Standing(entries', a, others) = Standing(entries, a, others)
  <2>1. /\ Top + i \in PlacesOf(B, a) /\ B[Top + i] = rows[i]
        /\ \A e \in PlacesOf(B, a) : e <= Top + i
    <3>1. /\ Top + i \in PlacesOf(B, rows[i].id) /\ B[Top + i] = rows[i]
          /\ \A e \in PlacesOf(B, rows[i].id) : e <= Top + i
      BY BatchNewest
    <3> HIDE DEF B
    <3> QED
      BY <1>2, <3>1, Zenon
  <2>2. PlacesOf(B, a) \in SUBSET Nat /\ IsFiniteSet(PlacesOf(B, a))
    <3>1. Maps(B, Nat \ {0}, [id : DOMAIN assets, value : Values \cup {NoValue}]) /\ IsFiniteSet(DOMAIN B)
      BY BatchTyped
    <3> HIDE DEF B
    <3>2. PlacesOf(B, a) \in SUBSET DOMAIN B /\ DOMAIN B \in SUBSET Nat
      BY <3>1 DEF PlacesOf, Maps
    <3> QED
      BY <3>1, <3>2, FS_Subset
  <2> HIDE DEF B
  <2>3. Latest(PlacesOf(B, a)) = Top + i
    BY <2>1, <2>2, LatestIsOnly
  <2>4. Standing(B, a, others) = B[Latest(PlacesOf(B, a))].value
    BY <2>1 DEF Standing
  <2>5. Standing(B, a, others) = rows[i].value
    BY <2>1, <2>3, <2>4, Zenon
  <2> QED
    BY <1>2, <2>5, Zenon DEF B
<1> QED
  BY <1>1, <1>2

(* A grid sent while nothing else changes keeps what was not typed, but of *)
(* assets with figures of a later month: Importer's GridKeepsTheRest.      *)
THEOREM GridsKeepTheRest == Spec => GridKeepsTheRest
<1> DEFINE Rest ==
      \A c \in Clients : Ended(c) /\ client[c].clean /\ client[c].token = NoToken =>
        LET others == client[c].others
            left   == {a \in DOMAIN assets : ~Typed(c, a) /\ a \notin DOMAIN others.later}
        IN  \A a \in DOMAIN assets :
              /\ PlacesOf(entries, a) # {} /\ (client[c].mode = "skip" \/ a \in left) => Keeps(a)
              /\ a \in left => Standing(entries', a, others) = Standing(entries, a, others)
<1>1. ASSUME IInv, [Next]_vars PROVE Rest
  <2> SUFFICES ASSUME NEW c \in Clients, Ended(c), client[c].clean, client[c].token = NoToken,
                      NEW a \in DOMAIN assets
               PROVE  LET others == client[c].others
                          kept   == ~Typed(c, a) /\ a \notin DOMAIN others.later
                      IN  /\ PlacesOf(entries, a) # {} /\ (client[c].mode = "skip" \/ kept) => Keeps(a)
                          /\ kept => Standing(entries', a, others) = Standing(entries, a, others)
    OBVIOUS
  <2> DEFINE others == client[c].others
             kept == ~Typed(c, a) /\ a \notin DOMAIN others.later
  <2>1. CASE entries' = entries
    BY <2>1, Zenon DEF Keeps
  <2>2. CASE ~Rejects(client[c].rows) /\ entries' = Batch(client[c].rows, client[c].mode)
    <3> DEFINE rows == client[c].rows
               mode == client[c].mode
    <3>1. client[c] \in CallSet /\ PhaseHolds(client[c]) /\ client[c].phase = "post"
      BY <1>1, CallOf DEF Ended
    <3>2. WorldOK /\ RowsOK(rows) /\ ~Duplicated(rows) /\ mode \in {"skip", "replace"}
      BY <1>1, <2>2, <3>1, RowsAre DEF IInv, Rejects, CallSet
    <3>3. entries' = Batch(rows, mode)
      BY <2>2
    <3>4. ASSUME kept, NEW i \in DOMAIN rows, rows[i].id = a
          PROVE  rows[i].value = Standing(entries, a, others)
      <4>1. i = a
        BY <3>1, <3>4 DEF PhaseHolds
      <4>2. rows[i].value = client[c].file[a].value
        BY <3>4 DEF Typed
      <4>3. client[c].file[i].value = Standing(entries, i, others)
        BY <1>1, <3>1, <3>4, <4>1, GridShows
      <4> QED
        BY <4>1, <4>2, <4>3, Zenon
    <3> HIDE DEF rows, mode, kept, others
    <3>5. \A i \in Writes(rows, mode) : i \in DOMAIN rows
      BY <3>2, WritesAre
    <3>6. kept => Standing(entries', a, others) = Standing(entries, a, others)
      BY <3>2, <3>3, <3>4, <3>5, LeftStands
    <3>7. ASSUME PlacesOf(entries, a) # {}, mode = "skip" \/ kept PROVE Keeps(a)
      <4>1. ASSUME NEW i \in Writes(rows, mode), rows[i].id = a
            PROVE  i \in Replaced(rows, mode) /\ entries[Latest(PlacesOf(entries, a))].value = rows[i].value
        <5>1. i \in Recorded(rows)
          BY <3>7, <4>1 DEF Writes, Created, Replaced, Recorded
        <5>2. i \in Replaced(rows, mode)
          BY <4>1, <5>1 DEF Writes, Created
        <5>3. kept
          BY <3>7, <5>2 DEF Replaced
        <5>4. rows[i].value = Standing(entries, a, others)
          BY <3>4, <3>5, <4>1, <5>3
        <5>5. Standing(entries, a, others) = entries[Latest(PlacesOf(entries, a))].value
          BY <3>7 DEF Standing
        <5> QED
          BY <5>2, <5>4, <5>5
      <4>2. \A i \in Writes(rows, mode) : rows[i].id = a =>
              i \in Replaced(rows, mode) /\ entries[Latest(PlacesOf(entries, a))].value = rows[i].value
        BY <4>1
      <4> QED
        BY <3>2, <3>3, <4>2, BatchLeaves
    <3> QED
      BY <3>6, <3>7 DEF kept, others, mode
  <2> QED
    BY <1>1, <2>1, <2>2, EndedHow
<1>2. IInv /\ [Next]_vars => Rest
  BY <1>1
<1>3. GridKeepsTheRest <=> [][Rest]_vars
  BY DEF GridKeepsTheRest
<1> HIDE DEF Rest
<1> QED
  BY <1>2, <1>3, Invariant, PTL DEF Spec

-----------------------------------------------------------------------------
(* Previews.                                                               *)

\* What the report says of a row when it has read everything.
ExactAction(row) ==
  IF row.id = NoId THEN "no id"
  ELSE IF row.id \notin DOMAIN assets THEN "unknown"
  ELSE IF row.value = Bad THEN "bad amount"
  ELSE IF assets[row.id] = "closed" THEN "closed"
  ELSE IF \E e \in DOMAIN entries : entries[e].id = row.id THEN "update"
  ELSE "create"

LEMMA ActionExact ==
  ASSUME WorldOK, NEW row
  PROVE  Action(row, assets, IdsOf(entries, DOMAIN entries)) = ExactAction(row)
<1> DEFINE state == StateOf(assets, row.id)
           found == IdsOf(entries, DOMAIN entries)
           act == Action(row, assets, found)
           exact == ExactAction(row)
<1>1. \A a \in DOMAIN assets : assets[a] \in {"open", "closed"}
  BY DEF WorldOK, Maps, States
<1>2. row.id \in found <=> \E e \in DOMAIN entries : entries[e].id = row.id
  BY DEF IdsOf
<1>3. row.id \in DOMAIN assets => state = assets[row.id] /\ state \in {"open", "closed"}
  BY <1>1 DEF StateOf
<1>4. row.id \notin DOMAIN assets => state = "unknown"
  BY DEF StateOf
<1> HIDE DEF state, found, act, exact
<1>5. CASE row.id = NoId
  <2>1. act = "no id"
    BY <1>5 DEF act, Action, state
  <2>2. exact = "no id"
    BY <1>5 DEF exact, ExactAction
  <2> QED
    BY <2>1, <2>2 DEF act, exact, found
<1>6. CASE row.id # NoId /\ row.id \notin DOMAIN assets
  <2>1. act = "unknown"
    BY <1>4, <1>6 DEF act, Action, state
  <2>2. exact = "unknown"
    BY <1>6 DEF exact, ExactAction
  <2> QED
    BY <2>1, <2>2 DEF act, exact, found
<1>7. CASE row.id # NoId /\ row.id \in DOMAIN assets /\ row.value = Bad
  <2>1. act = "bad amount"
    BY <1>3, <1>7 DEF act, Action, state
  <2>2. exact = "bad amount"
    BY <1>7 DEF exact, ExactAction
  <2> QED
    BY <2>1, <2>2 DEF act, exact, found
<1>8. CASE row.id # NoId /\ row.id \in DOMAIN assets /\ row.value # Bad /\ assets[row.id] = "closed"
  <2>1. act = "closed"
    BY <1>3, <1>8 DEF act, Action, state
  <2>2. exact = "closed"
    BY <1>8 DEF exact, ExactAction
  <2> QED
    BY <2>1, <2>2 DEF act, exact, found
<1>9. CASE row.id # NoId /\ row.id \in DOMAIN assets /\ row.value # Bad /\ assets[row.id] # "closed"
  <2>0. state \notin {"unknown", "closed"}
    BY <1>3, <1>9
  <2>1. act = IF row.id \in found THEN "update" ELSE "create"
    BY <1>9, <2>0 DEF act, Action, state
  <2>2. exact = IF \E e \in DOMAIN entries : entries[e].id = row.id THEN "update" ELSE "create"
    BY <1>9 DEF exact, ExactAction
  <2> QED
    BY <1>2, <2>1, <2>2 DEF act, exact, found
<1> QED
  BY <1>5, <1>6, <1>7, <1>8, <1>9

LEMMA ReportExact ==
  ASSUME WorldOK, NEW file
  PROVE  Report(file, assets, IdsOf(entries, DOMAIN entries)) = Exact(file)
<1> DEFINE found == IdsOf(entries, DOMAIN entries)
<1>1. \A i \in DOMAIN file : Action(file[i], assets, found) = ExactAction(file[i])
  BY ActionExact
<1> HIDE DEF found
<1>2. Report(file, assets, found) =
        [i \in DOMAIN file |-> [id |-> file[i].id, value |-> file[i].value, action |-> ExactAction(file[i])]]
  BY <1>1 DEF Report
<1>3. Exact(file) =
        [i \in DOMAIN file |-> [id |-> file[i].id, value |-> file[i].value, action |-> ExactAction(file[i])]]
  BY DEF Exact, ExactAction
<1> QED
  BY <1>2, <1>3 DEF found

\* A report that appears is of all there is, if nothing changed while it was read.
LEMMA ReportAppears ==
  ASSUME IInv, [Next]_vars, NEW c \in Clients, client[c].phase = "entries", client[c].clean,
         client'[c].phase = "idle", shown' # shown
  PROVE  shown'[Len(shown')] = Exact(client[c].file)
<1> DEFINE call == client[c]
           chunk == EntriesAfter(call.from)
           found == Found(c)
           report == Report(call.file, call.listed, found)
<1>1. /\ CallHolds(call, assets, entries, shown) /\ call \in CallSet /\ PhaseHolds(call)
  BY CallOf
<1>2. Calls(c)
  <2>1. ~Stays(c)
    <3>1. client'[c].phase # client[c].phase
      OBVIOUS
    <3> QED
      BY <1>1, <3>1, StaleIs DEF Stays
  <2> QED
    BY <2>1, Moves
<1>3. monthEntries(c)
  <2>1. monthEntries(c) \/ CallFails(c)
    BY <1>2, CallsFrom
  <2>2. CallFails(c) => shown' = shown
    BY DEF CallFails
  <2> QED
    BY <2>1, <2>2
<1>4. /\ LastPage(chunk, found) => Issue(c, found)
      /\ ~LastPage(chunk, found) => UNCHANGED shown
  BY <1>3 DEF monthEntries, Found
<1>5. LastPage(chunk, found) /\ Issue(c, found)
  BY <1>4
<1>6. shown' = Append(shown, report)
  BY <1>5 DEF Issue
<1>7. call.listed = assets
  BY <1>1 DEF CallHolds, CleanHolds
<1>8. found = IdsOf(entries, DOMAIN entries)
  BY <1>5, FoundIs
<1>9. report = Exact(call.file)
  BY <1>7, <1>8, ReportExact DEF IInv
<1>10. report \in Seq(ReportLine) /\ shown \in Seq(Seq(ReportLine))
  <2>1. call.file \in Files /\ call.listed \in Listings
    BY <1>1 DEF PhaseHolds, CallSet
  <2> HIDE DEF call, found
  <2>2. report \in Seq(ReportLine)
    BY <2>1, ReportIs
  <2> QED
    BY <2>2 DEF IInv, ShownHolds
<1> HIDE DEF report
<1>11. shown'[Len(shown')] = report
  BY <1>6, <1>10
<1> QED
  BY <1>9, <1>11

\* After a change of assets or entries no call is both clean and under way.
LEMMA SetAllSoils ==
  ASSUME NEW c \in Clients, NEW calls, calls[c] \in CallSet, SetAll(calls)
  PROVE  ~client'[c].clean \/ client'[c].from = 0
<1>1. client'[c] = IF calls[c].phase = "idle" THEN Idle ELSE [calls[c] EXCEPT !.clean = FALSE]
  BY DEF SetAll
<1>2. CASE calls[c].phase = "idle"
  BY <1>1, <1>2, IdleIs
<1>3. CASE calls[c].phase # "idle"
  <2>1. client'[c] = [calls[c] EXCEPT !.clean = FALSE]
    BY <1>1, <1>3
  <2> QED
    BY <2>1, StaleIs
<1> QED
  BY <1>2, <1>3

LEMMA WorldStays ==
  ASSUME IInv, [Next]_vars, NEW c \in Clients, client'[c].clean, client'[c].from > 0
  PROVE  UNCHANGED <<assets, entries>>
<1>0. client'[c].clean /\ client'[c].from # 0
  <2>1. ~(0 > 0)
    OBVIOUS
  <2> QED
    BY <2>1
<1>1. ASSUME NEW calls, calls[c] \in CallSet, SetAll(calls) PROVE FALSE
  BY <1>0, <1>1, SetAllSoils
<1>2. client[c] \in CallSet /\ DOMAIN client = Clients
  BY CallOf DEF IInv, CallsHold
<1>3. ASSUME NEW as, NEW es, Edit(as, es) PROVE FALSE
  BY <1>1, <1>2, <1>3 DEF Edit
<1>4. ~Others
  <2>1. ~ \E a \in DOMAIN assets : CloseOrReopen(a)
    BY <1>3 DEF CloseOrReopen
  <2>2. ~ \E a \in DOMAIN assets : DeleteAsset(a)
    BY <1>3 DEF DeleteAsset
  <2>3. ~ \E a \in DOMAIN assets : \E v \in Values : RecordOne(a, v)
    BY <1>3 DEF RecordOne
  <2>4. ~ \E e \in DOMAIN entries : DeleteEntry(e)
    BY <1>3 DEF DeleteEntry
  <2>5. ~CreateAsset
    BY <1>3 DEF CreateAsset
  <2> QED
    BY <2>1, <2>2, <2>3, <2>4, <2>5 DEF Others
<1>5. ASSUME NEW d \in Clients, NEW call \in CallSet, SetAll([client EXCEPT ![d] = call]) PROVE FALSE
  <2> DEFINE calls == [client EXCEPT ![d] = call]
  <2>1. calls[c] \in CallSet
    BY <1>2
  <2> HIDE DEF calls
  <2>2. SetAll(calls)
    BY <1>5 DEF calls
  <2> QED
    BY <1>1, <2>1, <2>2
<1>6. Idle \in CallSet
  BY IdleStands DEF CallStands
<1>7. ASSUME NEW d \in Clients, Post(d) PROVE UNCHANGED <<assets, entries>>
  <2>1. CASE Rejects(client[d].rows)
    BY <1>7, <2>1, PostIs
  <2>2. CASE ~Rejects(client[d].rows)
    <3> DEFINE new == IF client[d].token = NoToken THEN Idle ELSE Accept(d)
    <3>1. SetAll([client EXCEPT ![d] = new])
      BY <1>7, <2>2, PostIs
    <3>2. new \in CallSet
      <4>1. client[d].token # NoToken => Accept(d) \in CallSet
        BY <1>7, PostIs, AcceptStands DEF CallStands
      <4> QED
        BY <1>6, <4>1
    <3> HIDE DEF new
    <3> QED
      BY <1>5, <3>1, <3>2
  <2> QED
    BY <2>1, <2>2
<1>8. ASSUME NEW d \in Clients PROVE ~AnswerLost(d)
  BY <1>5, <1>6 DEF AnswerLost
<1>9. ASSUME NEW d \in Clients, Calls(d) PROVE UNCHANGED <<assets, entries>>
  <2>1. CASE \E f \in Files : Preview(d, f)
    BY <2>1 DEF Preview, Begin, world
  <2>2. CASE \E t \in DOMAIN shown : Commit(d, t)
    BY <2>2 DEF Commit, Begin, world
  <2>3. CASE OpenGrid(d)
    BY <2>3 DEF OpenGrid, Begin, world
  <2>4. CASE LeaveGrid(d) \/ Forget(d) \/ CallFails(d)
    BY <2>4 DEF LeaveGrid, Forget, CallFails, world
  <2>5. CASE SendGrid(d, "skip", TRUE) \/ \E all \in BOOLEAN : SendGrid(d, "replace", all)
    BY <2>5 DEF SendGrid, world
  <2>6. CASE listAllAssets(d)
    BY <2>6 DEF listAllAssets, world
  <2>7. CASE monthEntries(d)
    BY <2>7 DEF monthEntries, world
  <2> QED
    BY <1>7, <1>8, <1>9, <2>1, <2>2, <2>3, <2>4, <2>5, <2>6, <2>7 DEF Calls
<1>10. CASE \E t \in DOMAIN tokens : Expire(t)
  BY <1>10 DEF Expire, world
<1>11. CASE Restart \/ Quiet \/ UNCHANGED vars
  BY <1>11 DEF Restart, Quiet, vars, world
<1> QED
  BY <1>4, <1>9, <1>10, <1>11 DEF Next

\* How far a call has read that nothing disturbed.
LEMMA PagesEnd ==
  ASSUME NEW call, NEW as, NEW es, CleanHolds(call, as, es), PhaseHolds(call), call.from > 0
  PROVE  call.from - PageSize
           < Cardinality(IF call.phase = "assets" THEN DOMAIN as ELSE DOMAIN es)
<1>1. call.from # 0
  <2>1. ~(0 > 0)
    OBVIOUS
  <2> QED
    BY <2>1
<1>2. call.phase \in {"assets", "entries"}
  BY <1>1 DEF PhaseHolds
<1>3. CASE call.phase = "assets"
  BY <1>3 DEF CleanHolds
<1>4. CASE call.phase = "entries"
  BY <1>4 DEF CleanHolds
<1> QED
  BY <1>2, <1>3, <1>4

(* A preview that nothing disturbs reports exactly what the database says, *)
(* and asks at most for the first empty page: Importer's PreviewIsExact.   *)
THEOREM PreviewsAreExact == Spec => PreviewIsExact
<1> DEFINE Reads ==
      \A c \in Clients :
        /\ /\ client[c].phase = "entries" /\ client[c].clean
           /\ client'[c].phase = "idle" /\ shown' # shown
           => shown'[Len(shown')] = Exact(client[c].file)
        /\ client'[c].clean /\ client'[c].from > 0 =>
             client'[c].from - PageSize
               < Cardinality(IF client'[c].phase = "assets" THEN DOMAIN assets ELSE DOMAIN entries)
<1>1. ASSUME IInv, IInv', [Next]_vars PROVE Reads
  <2>1. ASSUME NEW c \in Clients, client'[c].clean, client'[c].from > 0
        PROVE  client'[c].from - PageSize
                 < Cardinality(IF client'[c].phase = "assets" THEN DOMAIN assets ELSE DOMAIN entries)
    <3>1. assets' = assets /\ entries' = entries
      BY <1>1, <2>1, WorldStays
    <3>2. CallHolds(client'[c], assets', entries', shown')
      BY <1>1 DEF IInv, CallsHold
    <3>3. CleanHolds(client'[c], assets, entries) /\ PhaseHolds(client'[c])
      BY <2>1, <3>1, <3>2 DEF CallHolds, CallStands
    <3> QED
      BY <2>1, <3>3, PagesEnd
  <2>2. ASSUME NEW c \in Clients, client[c].phase = "entries", client[c].clean,
               client'[c].phase = "idle", shown' # shown
        PROVE  shown'[Len(shown')] = Exact(client[c].file)
    BY <1>1, <2>2, ReportAppears
  <2> QED
    BY <2>1, <2>2
<1>2. IInv /\ [Next]_vars => Reads
  BY <1>1, NextKeepsIInv
<1>3. PreviewIsExact <=> [][Reads]_vars
  BY DEF PreviewIsExact
<1> HIDE DEF Reads
<1> QED
  BY <1>2, <1>3, Invariant, PTL DEF Spec
=============================================================================
