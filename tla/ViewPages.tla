------------------------------ MODULE ViewPages ------------------------------
(***************************************************************************)
(* The pages of the console that only show something, and the session they *)
(* are shown in: the statistics (under their own names), the request log,  *)
(* the page of one request, the tabs with their login and their theme, the *)
(* cost of a response, and what is told of a request.  One of them is      *)
(* looked at, chosen at the start; the others stay as they begin.          *)
(***************************************************************************)
EXTENDS StatsPage, Integers

CONSTANTS
  PAGE_SIZE, SortKey, CreatedAt, MaxTotal, MaxRowLoads, MaxChanges,   \* LogsPage
  Request, MaxDetailLoads,                                            \* DetailPage
  Tab, Password, Page, Polling,                                       \* ConsoleSession
  MaxOps, MaxFailures, MaxRestarts,
  MaxThemeOps,                                                        \* ThemeTabs
  Answer, Tariff, MaxAnswers,                                         \* UsageCost
  Channel, TypeOf, Outcome, MaxRequests, MaxTime                      \* RequestViews

VARIABLES
  page,
  total, rows, rowsLoading, refreshing, rowsId, rowsOut, options, rowsSignedOut, changes, shrunk,
  requestId, detail, error, detailLoading, detailId, detailOut, logged, detailSignedOut,
  password, cookie, tabs, calls, ops, failures, restarts,
  stored, scheme, theme, class, listening, due, notified, events, crossed, themeOps,
  tariff, row, charge, stats, owed, requests,
  now, call, log, sums, counted

logsVars    == <<total, rows, rowsLoading, refreshing, rowsId, rowsOut, options, rowsSignedOut,
                 changes, shrunk>>
detailVars  == <<requestId, detail, error, detailLoading, detailId, detailOut, logged,
                 detailSignedOut>>
sessionVars == <<password, cookie, tabs, calls, ops, failures, restarts>>
themeVars   == <<stored, scheme, theme, class, listening, due, notified, events, crossed, themeOps>>
costVars    == <<tariff, row, charge, stats, owed, requests>>
requestVars == <<now, call, log, sums, counted>>

Logs == INSTANCE LogsPage WITH
  MaxLoads <- MaxRowLoads,
  shown <- rows, loading <- rowsLoading, loadId <- rowsId, out <- rowsOut,
  signedOut <- rowsSignedOut

Detail == INSTANCE DetailPage WITH
  MaxLoads <- MaxDetailLoads,
  loading <- detailLoading, loadId <- detailId, out <- detailOut, signedOut <- detailSignedOut

Session == INSTANCE ConsoleSession

Themes == INSTANCE ThemeTabs WITH MaxOps <- MaxThemeOps, ops <- themeOps

Cost == INSTANCE UsageCost WITH MaxRequests <- MaxAnswers

Views == INSTANCE RequestViews WITH UsageMetricRows <- Cost!UsageMetricRows, stats <- sums

ASSUME PagesAssumption ==
  /\ PAGE_SIZE \in Nat \ {0} /\ MaxTotal \in Nat
  /\ CreatedAt \in SortKey /\ Page # {}
  /\ None \notin Themes!Theme

(* None is not an answer that the statistics show. *)
ASSUME ShownAssumption == None \notin [id : Nat, query : Filter, got : [Part -> Nat]]

ASSUME TimesAssumption == None \notin Nat /\ MaxTime \in Nat /\ MaxRequests \in Nat

ASSUME TruncationAssumption == None \notin {"stream duration timeout", "body too large"}

Type  == {"openai", "anthropic"}
Count == {"input", "output", "total", "create", "read", "cached"}
IsUsage(u) == u = [f \in Count |-> u[f]] /\ \A f \in Count : u[f] \in Nat

(* What the observer makes of a response: counts, of the provider's cache.   *)
ASSUME OutcomeAssumption ==
  /\ \A c \in Channel : TypeOf[c] \in Type
  /\ DOMAIN Outcome = Type
  /\ \A type \in Type : \A o \in Outcome[type] :
       /\ o.status \in 200..599 /\ o.truncated \in BOOLEAN
       /\ IsUsage(o.usage) /\ (type = "anthropic" => o.usage.cached = 0)

(* What the parser makes of a body; the counts of one that was understood    *)
(* are those the upstream said (usage.go:65-200).                            *)
ASSUME AnswerAssumption ==
  /\ MaxAnswers \in Nat
  /\ \A a \in Answer :
       /\ a.type \in Type /\ IsUsage(a.usage)
       /\ a.said # None => \A f \in DOMAIN a.said : a.usage[f] = a.said[f]
       /\ IF a.type = "openai"
          THEN /\ a.usage.create = 0 /\ a.usage.read = 0
               /\ a.said # None => a.usage.total = a.usage.input + a.usage.output
          ELSE /\ a.usage.cached = 0
               /\ a.said # None =>
                    a.usage.total = a.usage.input + a.usage.output + a.usage.create + a.usage.read

ASSUME TariffAssumption ==
  None \notin Tariff /\ \A t \in Tariff : \A p \in Cost!PricedPart : t[p] \in Nat \cup {None}

(***************************************************************************)
(* One page at a time.                                                     *)
(***************************************************************************)
(* Nobody at the console: it is off, and nothing is out. *)
SignedOff ==
  /\ password = None /\ cookie = None
  /\ tabs = [t \in Tab |-> [Session!Fresh(CHOOSE p \in Page : TRUE) EXCEPT
                              !.session = Session!Session(FALSE, FALSE)]]
  /\ calls = {} /\ ops = 0 /\ failures = 0 /\ restarts = 0

(* The figures of the monitor and the texts are pages of MCViews. *)
PagesInit ==
  /\ page \in {"stats", "logs", "detail", "session", "theme", "cost", "requests", "figures", "text"}
  /\ Init /\ (page # "stats" => filter = CHOOSE f \in Filter : TRUE)
  /\ Logs!Init /\ (page # "logs" => total = 0)
  /\ Detail!Init /\ (page # "detail" => requestId = CHOOSE r \in Request : TRUE)
  /\ IF page = "session" THEN Session!Init ELSE SignedOff
  /\ Themes!Init /\ (page # "theme" => stored = None /\ scheme = "light")
  /\ Cost!Init /\ (page # "cost" => tariff = None)
  /\ Views!Init

PagesNext ==
  \/ /\ page = "stats" /\ Next
     /\ UNCHANGED <<page, logsVars, detailVars, sessionVars, themeVars, costVars, requestVars>>
  \/ /\ page = "logs" /\ Logs!Next
     /\ UNCHANGED <<page, vars, detailVars, sessionVars, themeVars, costVars, requestVars>>
  \/ /\ page = "detail" /\ Detail!Next
     /\ UNCHANGED <<page, vars, logsVars, sessionVars, themeVars, costVars, requestVars>>
  \/ /\ page = "session" /\ Session!Next
     /\ UNCHANGED <<page, vars, logsVars, detailVars, themeVars, costVars, requestVars>>
  \/ /\ page = "theme" /\ Themes!Next
     /\ UNCHANGED <<page, vars, logsVars, detailVars, sessionVars, costVars, requestVars>>
  \/ /\ page = "cost" /\ Cost!Next
     /\ UNCHANGED <<page, vars, logsVars, detailVars, sessionVars, themeVars, requestVars>>
  \/ /\ page = "requests" /\ Views!Next
     /\ UNCHANGED <<page, vars, logsVars, detailVars, sessionVars, themeVars, costVars>>

pagesVars == <<page, vars, logsVars, detailVars, sessionVars, themeVars, costVars, requestVars>>

PagesSpec == PagesInit /\ [][PagesNext]_pagesVars

(***************************************************************************)
(* Properties.                                                             *)
(***************************************************************************)
(* The rows shown are those of the newest load or stay as they are           *)
(* (use-dashboard-data.ts).                                                  *)
LogsShowLatest == Logs!ShowsLatest

(* The rows of the log begin within the requests there are; the page of a    *)
(* request shows the one its address names; buttons held back, of the log,   *)
(* the login and the logout, have an answer to come; tabs agree on the       *)
(* theme and every document has its class; and the log, the page and the     *)
(* badges tell the same of a request.                                        *)
PagesConsistent ==
  /\ Logs!TypeOK /\ Logs!PageWithinTotal
  /\ Detail!TypeOK /\ Detail!DetailOfAddress
  /\ Session!TypeOK
  /\ Themes!TypeOK /\ Themes!ClassFollowsTheme /\ Themes!TabsAgree
  /\ Views!TypeOK /\ Views!TimesAddUp /\ Views!ListAgreesWithPage /\ Views!BadgesTell

(* What a response cost: the counts kept of a body that was understood are   *)
(* the upstream's, the page of a request and the cards of the usage page add *)
(* up, and the key pays what is shown (usage.go, pricing.go, handler.go,     *)
(* utils.ts).  Cards and requests agree while no prompt was cached by        *)
(* OpenAI: see CachedPromptsPriced for the rest.                             *)
CostsAgree ==
  /\ Cost!TypeOK /\ Cost!RowIsWhatWasSaid
  /\ Cost!FormulasAddUp /\ Cost!ChargedAsShown /\ Cost!CardsAddUp

(* The usage page shows what its requests cost, prompts cached by OpenAI at  *)
(* the price of reading the cache (i18n/locales/en.ts:225).                  *)
CachedPromptsPriced == Cost!CachedPromptsPriced

(* A tab comes to the login once the server refuses its cookie, whatever     *)
(* other tabs do, if answers to its page's loads come before the next load;  *)
(* and the first page never waits for ever (App.tsx).                        *)
SessionSettles == Session!StaleSessionEnds /\ Session!LoadingEnds
=============================================================================
