---------------------------- MODULE MCStatistics ----------------------------
(* Instances of Statistics for TLC: November to March of two years, where  *)
(* February is the current month.                                          *)
EXTENDS Statistics, TLC

CONSTANTS bank, broker, pension

MCAssets == {bank, broker, pension}
MCClasses == {"cash", "funds"}
MCClassOf == [a \in MCAssets |-> IF a = bank THEN "cash" ELSE "funds"]
\* Assets of different classes may share a name.
MCNameOf == [a \in MCAssets |-> IF a = broker THEN "shares" ELSE "savings"]
November == 22
December == 23
January == 24
February == 25
March == 26
MCMonths == November .. March

Start == [deposit |-> 4, value |-> 4]
Gain == [deposit |-> 4, value |-> 6]
Loss == [deposit |-> 6, value |-> -3]
Nothing == [deposit |-> 0, value |-> 0]
MCEntries == {Gain, Loss, Nothing}

\* A bank account with a gap and a broker that joins later; an asset with
\* entries in three of the four months; an asset with an entry in the future.
MCStartLogs ==
  {(<<bank, November, 1>> :> Start) @@ (<<broker, December, 1>> :> Start)
     @@ (<<bank, January, 1>> :> Gain),
   (<<broker, November, 1>> :> Start) @@ (<<broker, December, 1>> :> Gain)
     @@ (<<broker, February, 1>> :> Loss),
   (<<bank, January, 1>> :> Start) @@ (<<pension, December, 1>> :> Gain)
     @@ (<<pension, March, 1>> :> Loss)}

MCPlaces == {bank, broker} \X {November} \X {1}
            \cup {<<broker, January, 1>>, <<bank, January, 2>>, <<pension, December, 1>>}
\* A payment and its reversal, a cost and a payment.
MCReceipts ==
  {<<bank, December, 1>>, <<bank, December, -1>>, <<broker, January, -1>>, <<broker, February, 1>>}

Ask(asset, class, from, to, mode) ==
  [asset |-> asset, class |-> class, from |-> from, to |-> to, mode |-> mode]

\* Everything; ranges; a class; an asset; each closed mode.
MCRequests ==
  {Whole,
   Ask(NoScope, NoScope, December, NoMonth, "active"),
   Ask(NoScope, "funds", January, NoMonth, "all"),
   Ask(NoScope, NoScope, December, January, "merged"),
   Ask(NoScope, NoScope, November, March, "merged"),
   Ask(broker, NoScope, January, NoMonth, "merged")}

OneRequest == {Whole}
=============================================================================
