--------------------------- MODULE LedgerPromise ----------------------------
(***************************************************************************)
(* What the ledger promises its users (docs/api.md, "Assets" and "Log      *)
(* entries"): every asset has at most one entry in a month, the rows of a  *)
(* posted month appear together and for open assets only, an entry moves   *)
(* only to a place that is free, and an asset leaves without history.      *)
(***************************************************************************)
CONSTANTS Months, Values

VARIABLES
  open,    \* the assets that take entries
  closed,  \* the closed ones
  entry    \* the value of each asset in each month that has one

vars == <<open, closed, entry>>

Assets == open \cup closed
HasHistory(a) == \E k \in DOMAIN entry : k[1] = a
\* f, and g where f has nothing.
Over(f, g) == [k \in DOMAIN f \cup DOMAIN g |-> IF k \in DOMAIN f THEN f[k] ELSE g[k]]
Dropping(K) == [k \in DOMAIN entry \ K |-> entry[k]]

Init ==
  /\ open \cap closed = {}
  /\ \A k \in DOMAIN entry : k[1] \in Assets /\ k[2] \in Months /\ entry[k] \in Values

\* One month's values for some open assets.
Record(m, A) ==
  /\ A \subseteq open
  /\ \E v \in [A \X {m} -> Values] : entry' = Over(v, entry)
  /\ UNCHANGED <<open, closed>>

\* An entry gets another value, month or asset.
Amend(k, to, v) ==
  /\ k \in DOMAIN entry
  /\ to = k \/ to \notin DOMAIN entry
  /\ entry' = Over([place \in {to} |-> v], Dropping({k}))
  /\ UNCHANGED <<open, closed>>

Remove(k) ==
  /\ k \in DOMAIN entry
  /\ entry' = Dropping({k})
  /\ UNCHANGED <<open, closed>>

\* The first part of a forced delete.
Clear(a) ==
  /\ entry' = Dropping({k \in DOMAIN entry : k[1] = a})
  /\ UNCHANGED <<open, closed>>

Add ==
  /\ \E a \in open' : a \notin Assets /\ open' = open \cup {a}
  /\ UNCHANGED <<closed, entry>>

Close(a) ==
  /\ open' = open \ {a} /\ closed' = closed \cup {a}
  /\ UNCHANGED entry

Reopen(a) ==
  /\ open' = open \cup {a} /\ closed' = closed \ {a}
  /\ UNCHANGED entry

Discard(a) ==
  /\ ~HasHistory(a)
  /\ open' = open \ {a} /\ closed' = closed \ {a}
  /\ UNCHANGED entry

Next ==
  \/ \E m \in Months : \E A \in SUBSET open : Record(m, A)
  \/ \E k \in DOMAIN entry : Remove(k) \/ \E to \in Assets \X Months, v \in Values : Amend(k, to, v)
  \/ \E a \in Assets : Clear(a) \/ Close(a) \/ Reopen(a) \/ Discard(a)
  \/ Add

Spec == Init /\ [][Next]_vars
=============================================================================
