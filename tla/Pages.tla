-------------------------------- MODULE Pages --------------------------------
(***************************************************************************)
(* What each request to the frontend asks of the data API, in the order    *)
(* its handler does (internal/web, internal/views).  A handler runs in one *)
(* goroutine and asks for one thing at a time.  The answers' contents,     *)
(* paging beyond the first page and the page's markup are left out; the    *)
(* projections card of /manage, which reads the server's own cache, is in  *)
(* Settings, the date checks of the forms in Dates.                        *)
(***************************************************************************)
EXTENDS Sequences

CONSTANT Metrics   \* the series a page of charts asks for, in order

\* The steps of a handler.  A page needs the answer to a "must" and ends with
\* an error without it; a "may" degrades to an empty card; "unless" ends the
\* page with a redirect when it is answered; "settings" reads the frontend's
\* settings cache; "write" is the write a form makes through the API, "own" one
\* that goes to the process's own storage.
Must(u) == [op |-> "must", url |-> u]
May(u) == [op |-> "may", url |-> u]
Unless(u) == [op |-> "unless", url |-> u]
SettingsRead == [op |-> "settings", url |-> "settings"]
Write(t) == [op |-> "write", url |-> t]
OwnWrite(t) == [op |-> "own", url |-> t]

Request(path, post, steps) == [path |-> path, post |-> post, steps |-> steps]
Web(steps) == Request("web", FALSE, steps)
Feed(steps) == Request("ui", FALSE, steps)
Form(steps) == Request("web", TRUE, steps)

-----------------------------------------------------------------------------
\* Parts that several pages share.  A scope is the asset or the class the page
\* is limited to, by its path or by the cookie that remembers it, or "none".

Series == [i \in DOMAIN Metrics |-> May(Metrics[i])]

\* RenderPage: every page of HTML reads all settings.
Rendered == <<SettingsRead>>

AllAssets == "assets"   \* one URL in the pages and in the picker, so that they share it

ScopePicker(scope) ==
  (IF scope = "none" THEN <<>> ELSE <<May(scope)>>) \o <<May(AllAssets), May("classes")>>

\* The analysis half of an asset's or a class's page runs after the settings.
AssetPageVars == <<May("overview")>> \o Series \o <<May("income")>>

-----------------------------------------------------------------------------
\* The pages of internal/views.

\* A remembered scope that still exists sends the visitor to its own page.
OverviewPage(remembered) ==
  Web((IF remembered = "none" THEN <<>> ELSE <<Unless(remembered)>>)
      \o <<Must("overview")>> \o Series \o ScopePicker("none") \o Rendered)

BreakdownPage(scope) == Web(<<Must("breakdown")>> \o ScopePicker(scope) \o Rendered)

AnalyticsPage(scope) ==
  Web(<<Must("analytics"), May("decomposition")>> \o ScopePicker(scope) \o Rendered)

ProjectionsPage(scope) ==
  Web(<<Must("projections"), May("value")>> \o ScopePicker(scope) \o Rendered)

-----------------------------------------------------------------------------
\* The pages of internal/web.

LedgerPage == Web(<<Must("logs"), Must("payments"), May(AllAssets)>> \o Rendered)

AssetPage ==
  Web(<<Must("asset"), May("class"), May("payments")>> \o ScopePicker("asset")
      \o Rendered \o AssetPageVars)

ClassPage ==
  Web(<<Must("class"), May("payments"), May(AllAssets)>> \o ScopePicker("class")
      \o Rendered \o AssetPageVars \o <<May("breakdown")>>)

\* The feeds that page the tables live under /api/ui/ and share no answers.
UiLogs == Feed(<<Must("logs"), May(AllAssets)>>)
UiPayments == Feed(<<Must("payments"), May(AllAssets)>>)

\* Two reads of the settings: the displayed rows, and RenderPage.
ManagePage == Web(<<Must(AllAssets), Must("classes"), May("system"), SettingsRead>> \o Rendered)

ImportPage == Web(<<Must("latest")>> \o Rendered)

CsvPreview == Form(<<Must(AllAssets), Must("month")>> \o Rendered)

-----------------------------------------------------------------------------
\* The forms.  All but the quick grid answer with a redirect.

CsvCommit == Form(<<Write("data")>>)
ManageForm == Form(<<Write("data")>>)
PaymentQuick == Form(<<Must("asset"), Write("data")>>)
ImportQuick == Form(<<Write("data")>> \o Rendered)
TargetForm == Form(<<OwnWrite("settings")>>)

-----------------------------------------------------------------------------
\* Calls of the API itself.

ApiGet(u) == Request("api", FALSE, <<Must(u)>>)
ApiWrite(t) == Request("api", TRUE, <<Write(t)>>)
\* The probe of an orchestrator.
Readyz == Request("probe", FALSE, <<Must("readyz")>>)

-----------------------------------------------------------------------------
Scopes == {"none", "asset", "class"}

\* Everything a client may ask for.
Everything ==
  {OverviewPage(s) : s \in Scopes} \cup {BreakdownPage(s) : s \in Scopes}
  \cup {AnalyticsPage(s) : s \in Scopes} \cup {ProjectionsPage(s) : s \in Scopes}
  \cup {LedgerPage, AssetPage, ClassPage, UiLogs, UiPayments, ManagePage, ImportPage}
  \cup {CsvPreview, CsvCommit, ManageForm, PaymentQuick, ImportQuick, TargetForm}
  \cup {ApiGet("logs"), ApiWrite("data"), ApiWrite("settings"), Readyz}
=============================================================================
