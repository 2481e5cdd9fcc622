----------------------------- MODULE MCImporter -----------------------------
(* An instance of Importer for TLC: three assets on two pages.             *)
EXTENDS Importer, TLC

CONSTANTS ann, ben

MCClients == {ann, ben}
MCSymmetry == Permutations(MCClients)

MCStartAssets ==
  <<"open", "closed", "open">>

Row(id, value) == [id |-> id, value |-> value]

\* Two entries of one asset, as overlapping batches leave them.
MCStartEntries == {<<Row(1, "old"), Row(1, "new")>>}

\* An asset has older or newer figures than the month's, or none in the month.
MCOtherMonths ==
  LET both == [a \in 1 .. 2 |-> "old"] IN
  {[earlier |-> both, later |-> <<>>], [earlier |-> <<>>, later |-> both]}

\* A file with a row of each kind; one that names an asset twice; one with a
\* bad amount.
MCFiles ==
  {<<Row(NoId, "new"), Row(1, "new"), Row(2, "new"), Row(3, "new"), Row(9, "new")>>,
   <<Row(1, "new"), Row(1, "old")>>,
   <<Row(3, Bad), Row(1, "new")>>}
=============================================================================
