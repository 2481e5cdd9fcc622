---------------------------- MODULE MCMigrations ----------------------------
(* Instances of Migrations for TLC.                                        *)
EXTENDS Migrations, TLC

CONSTANTS r1, r2

Op(op, t, f) == [op |-> op, table |-> t, feature |-> f]
Drop(t) == Op("drop", t, Table)
Create(t) == Op("create", t, Table)

MCTables == {"asset_classes", "asset_list", "asset_log", "settings", "payments"}
MCFeatures == {Table, Wide, "closed", "utf8mb4", "asset_epoch", "metadata"}

\* The files of migrations/: 0001_base to 0006_v2_migration.
Shipped ==
  << << Drop("asset_classes"), Create("asset_classes"),
        Drop("asset_list"), Create("asset_list"),
        Drop("asset_log"), Create("asset_log"),
        Drop("settings"), Create("settings") >>,
     << Op("column", "asset_list", "closed") >>,
     << Op("modify", "asset_classes", "utf8mb4"), Op("modify", "asset_list", "utf8mb4"),
        Op("modify", "asset_log", "utf8mb4"), Op("modify", "settings", "utf8mb4") >>,
     << Drop("payments"), Create("payments") >>,
     << Op("modify", "settings", Wide) >>,
     << Op("index", "asset_log", "asset_epoch"), Op("index", "payments", "asset_epoch"),
        Op("column", "settings", "metadata") >> >>

\* The shipped files are of the kind the theorems of MigrationsProofs are about.
ASSUME ShippedAssumption == Files = Shipped => SafeFiles

\* Files of the same kinds without ADD COLUMN: every statement of theirs can be
\* executed again.
Rerunnable ==
  << << Drop("settings"), Create("settings"), Op("modify", "settings", Wide) >>,
     << Drop("payments"), Create("payments"), Op("index", "payments", "asset_epoch") >>,
     << Op("modify", "payments", "utf8mb4"), Create("asset_log") >> >>

\* A rolling upgrade: r2 runs the previous release.
ShippedBuild == r1 :> 6 @@ r2 :> 5
RerunnableBuild == r1 :> 3 @@ r2 :> 3
SingleBuild == r1 :> 6
=============================================================================
