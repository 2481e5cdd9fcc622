------------------------------ MODULE MCServing ------------------------------
(***************************************************************************)
(* A small instance of Serving: two browsers, the pages of Pages with the  *)
(* most steps of each kind, one newer build, one fault.  The pages of the  *)
(* run ask for no series: those are reads like the ones before them.       *)
(***************************************************************************)
EXTENDS Serving, TLC

P == INSTANCE Pages WITH Metrics <- <<>>
Charted == INSTANCE Pages WITH Metrics <- <<"value", "twrr">>

CONSTANTS b1, b2
MCAsks ==
  (b1 :> {P!AssetPage, P!OverviewPage("asset"), P!UiLogs, P!Readyz}) @@
  (b2 :> {P!ManagePage, P!PaymentQuick, P!TargetForm, P!ApiWrite("settings")})

\* The theorems of ServingProofs hold for all the pages, not only for these.
ASSUME PagesAssumption == \A q \in Charted!Everything : IsRequest(q)

Config(mode, readOnly, autoMigrate) ==
  [mode |-> mode, readOnly |-> readOnly, autoMigrate |-> autoMigrate]

MCConfigs ==
  {Config("bundled", FALSE, TRUE), Config("api", TRUE, TRUE),
   Config("api", FALSE, FALSE), Config("frontend", FALSE, FALSE)}

MCOther == [t \in Tables |-> IF t = "settings" THEN 1 ELSE 0]
=============================================================================
