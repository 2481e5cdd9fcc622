------------------------------ MODULE MCLedger ------------------------------
(* Instances of Ledger for TLC.                                            *)
EXTENDS Ledger, TLC

CONSTANTS c1, c2

MCNames == {"cash", "funds", "bonds"}
MCMonths == {"may", "june"}
MCValues == {"low", "high"}

\* Two classes; an asset of the first with an entry and a payment, another
\* with an entry.
MCStartDb ==
  [class   |-> << [name |-> "cash"], [name |-> "funds"] >>,
   asset   |-> << [class |-> 1, name |-> "cash", closed |-> FALSE],
                  [class |-> 1, name |-> "funds", closed |-> FALSE] >>,
   log     |-> << [asset |-> 1, month |-> "may", value |-> "low"],
                  [asset |-> 2, month |-> "may", value |-> "low"] >>,
   payment |-> << [asset |-> 1, value |-> "low"] >>]

Post(t, row) == [op |-> "create", table |-> t, row |-> row]
Patch(t, id, set) == [op |-> "patch", table |-> t, id |-> id, set |-> set]
Close(id, closed) == [op |-> "setClosed", table |-> "asset", id |-> id, set |-> [closed |-> closed]]
Del(t, id, force) == [op |-> "delete", table |-> t, id |-> id, force |-> force]
Batch(m, replace, rows) ==
  [op |-> "batch", table |-> "log", month |-> m, replace |-> replace, rows |-> rows]
Line(a, v, p) == [asset |-> a, value |-> v, payment |-> p]

\* The same month posted twice at once, in opposite orders, and another one.
Batches ==
  {Batch("may", TRUE, << Line(1, "high", TRUE), Line(2, "high", FALSE) >>),
   Batch("may", TRUE, << Line(2, "low", FALSE), Line(1, "low", FALSE) >>),
   Batch("june", FALSE, << Line(1, "high", TRUE) >>)}

LogRequests == {Patch("log", 1, [month |-> "june"]), Patch("log", 2, [asset |-> 1, value |-> "high"]),
                Del("log", 2, FALSE)}

AssetRequests == {Patch("asset", 1, [class |-> 2]), Close(1, TRUE), Close(1, FALSE),
                  Del("asset", 1, FALSE), Del("asset", 1, TRUE)}

ClassRequests == {Post("class", [name |-> "bonds"]), Patch("class", 2, [name |-> "bonds"]),
                  Del("class", 2, FALSE),
                  Post("asset", [class |-> 2, name |-> "cash", closed |-> FALSE])}

\* The delete of a payment is left out: it runs the statements of an entry's.
PaymentRequests == {Post("payment", [asset |-> 2, value |-> "low"]), Patch("payment", 1, [asset |-> 2])}

HistoryRequests == Batches \cup LogRequests \cup AssetRequests \cup PaymentRequests
AllRequests == HistoryRequests \cup ClassRequests
=============================================================================
