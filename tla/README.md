# A verification project for the LLM relay gateway

The program is a Go gateway for LLM APIs. A client sends a request for a model;
the gateway authenticates it, chooses the upstream channels that can serve the
model, tries them in order, relays the first acceptable answer while it copies
it for the log, and keeps its configuration, keys, request log and statistics in
a SQL database. A console, a React application under `src/web/dashboard/`, edits
the configuration and shows the log, the statistics and the costs. What is hard
in the gateway is what runs at the same time inside one process and what happens
between two database calls; what is hard in the console is what the user does
while calls are out, and that it works out again, in another language, what the
gateway does.

Paths of Go files are relative to `src/internal/`, those of TypeScript files to
`src/web/dashboard/src/features/dashboard/` unless they say otherwise.

## Inventory

| Component | State | Operations | What makes it correct |
|---|---|---|---|
| Gateway proxy handler (`gateway/handler.go`, `failover.go`) | per request: candidates, position, attempts, first-byte timer, upstream context, whether a response was started | `handleProxy`, `forwardOnce`, the timer's callback, the client's disconnection | one response per request; candidates tried in order within their tries; every request answered; the timer does no harm once headers are there |
| Response relay and observer (`handler.go` `streamResponse`, `idleReader`; `observer/observer.go`) | the reader's chunk, a channel of one chunk, a pipe, the captured copy | read, tee, send, receive, write, observe, close, idle timeout | the client gets the body without a gap; the copy agrees with what was sent; a silent upstream does not hold the request; no goroutine is left over |
| Log task coordinator (`logtasks/logtasks.go`) | map from request to its last task, wait group, counter | `Track`, `TrackRequestWrite`, `WaitForRequest`, `Wait` | writes of a request in order; waiters and drains not told too early; the map does not leak |
| Request log (`consolestore/store.go`, `handler.go` `recordRequest`, `recordResponse`) | rows of `console_requests` | INSERT, UPDATE, `Cleanup` | UPDATE after INSERT; the cleanup keeps the newest rows |
| Statistics rollup (`statsstore/rollup.go`) | buckets of five minutes with a watermark | `RollupTick` | every completed row counted once, none lost, sums right across restarts |
| Config store and console mutations (`configstore/store.go`, `consoleapi/api.go`, `repo/provider.go`, `repo/alias.go`) | two tables, a cached snapshot, a loaded flag, a single flight | `EnsureLoaded`, `Refresh`, create, edit, switch, delete | requests routed by what is in the tables; one load at a cold start; nobody left waiting |
| Routing (`routing/`) | none: functions of a snapshot | alias targets, channels of a model, fallback options, the list of models | order by priority, aliases resolved, disabled channels skipped |
| Keys and quota (`gateway/auth.go`, `repo/apikey.go`) | quota and usage of a key | lookup, check, charge, the console's changes | a key pays what is shown; a quota is what was typed; what is charged beyond it is bounded by what was under way |
| Settings (`gateway/settings.go`, `gateway/failover.go`, `repo/settings.go`) | a settings row, a cached copy | read, save | a save changes what was edited and nothing else |
| Usage and pricing (`providers/usage.go`, `pricing/`, `catalog/`) | the catalog's prices | usage of a body, buckets, cost | counts are the upstream's; four places price the same tokens alike |
| Scheduler and shutdown (`server/`, `src/cmd/server/main.go`) | tickers, a stop channel | add, run, stop, drain | the drain waits for what it started |
| Stream conversion (`responsesconv/`, `sse/`) | state of one event stream: what is held back of a tag, the open item, buffered calls | an upstream's chunks to events of the other format; an answer in one go | items begun are ended, once and in order; no cut of the upstream's shows; streamed or not, the response is the same |
| Console session (`App.tsx`, `session-shell.tsx`, `nav-bar.tsx`, `consoleauth/`) | session, error, pending buttons of a tab; the browser's cookie; the server's password | load, login, logout, navigate, any call refused | an ended session ends in the login; the first page never waits for ever |
| Providers page and form (`components/providers-page.tsx`) | the list, a stack of dialogs, the form, spinners per row, calls out | load, create, edit, sync models, delete, switch, test one or all, export, import | shows what the server has; saves the channel it shows; keeps what was not touched |
| Routes page (`components/routes-page.tsx`) | aliases, targets of a draft, failover form, route map | load, create, edit, switch, delete, test an alias; save the policy | targets name models of their channels; the map is the gateway's |
| Keys, models, settings pages | lists, drafts, saves per row | every call of `api.ts` for them | stored is what was typed; a list patched with answers is the server's |
| Statistics hooks, log, detail (`hooks/`, `logs-page.tsx`, `detail-page.tsx`) | what is shown, number of the newest load, filters, page, sort | load on a filter, a timer, a button, an address | the newest load wins; what is shown belongs to the filter or address |
| Figures (`dashboard-page.tsx`, `usage-page.tsx`, `request-log-table.tsx`, `detail-view.tsx`, `bucket-table.tsx`, `utils/channel-health.ts`, `utils.ts`) | none: functions of what was loaded | rows, badges, trend, health, sparklines, cards, tables, formulas, readable text | each request once; figures add up; the places that tell of a request agree; text is what was said |
| Theme (`src/components/theme-provider.tsx`) | theme, system scheme, storage, one class per document | set, key, storage event, change of scheme | the class follows the theme; tabs agree |
| Token estimate, transport, CORS, health, configuration, migrations, router, widgets, translations | none or set at boot | pure functions, I/O, layout | — |

**How they interact.** `ServeHTTP` makes sure the configuration is loaded, takes
a snapshot, reads key and policy and enters the candidate loop. When an upstream
answers, `forwardOnce` hands the body to `streamResponse`; the INSERT of the log
row goes to the log coordinator, the UPDATE waits for the INSERT and the
observer, and then charges the key. The scheduler runs `Cleanup` every ten
minutes and `RollupTick` every three, on the same tables. The console changes
configuration tables and asks the store to refresh. Shutdown stops HTTP, then
the scheduler, then waits for the log coordinator.

In the console one page is mounted at a time. A page calls the API through
`api.ts`, which turns a 401 into a sign-out of the tab; it keeps its own copy of
what the server has and either loads it again after a change or patches it with
the answer. Tabs share the cookie and the stored theme and nothing else.

**What is hard.** Three goroutines and a timer per response; a client that can
leave at any step; a timer whose `Stop` comes too late; entries of a map deleted
while the next one is linked; time stamps taken before the commit they stand
for; three-query cleanups beside inserts; refreshes that overlap; errors that
are dropped on purpose. In the console: loads that overtake each other, dialogs
closed and opened again while their save is out, answers that patch a list that
was loaded meanwhile, forms filled from one row and saved to another, numbers
that go through text and back. The hazards in `PROJECT.json` name the lines.

## Modules

| Module | Models | Correspondence |
|---|---|---|
| `GatewayProxy` | one inbound request | `pc` is the handler's place, `idx`/`try`/`attempted`/`wroteResponse` are the variables of the loop, `timer` and `ctx` those of `forwardOnce`; `TimerExpires` and `TimerCancels` are the two moments of `time.AfterFunc`, `written` what was started on the `ResponseWriter` |
| `ProxyPromise` | what such a request is promised | abstract: open, answering, closed or dropped, and a budget of upstream calls |
| `ResponseRelay` | one body on its way | one record per goroutine (`reader`, `obs`, `relay`) with its place and the chunk in its hands; `slot` is the buffered channel; bytes are counted, not represented |
| `StreamConvert` | the conversion of a stream (`stream.go`, `thinktag.go`) beside that of an answer in one go (`response.go`) | `st` is `streamState` with the parser's buffer in it, a text is a sequence of symbols; the upstream's chunks come in every cut, the client (external) puts the response together from the events; `SourceEnds` is every way in which `ConvertStream` returns |
| `LogTasks` | the coordinator | `stage` walks through each critical section and each deferred function; `last` is the map; `before`, `owed` are history |
| `RequestLog` | the rows and their writers | one action per database call, each of which may fail; `Restart` keeps only the table |
| `KeyQuota` | the requests of a key from the check to the charge, composed with `RequestLog` | extends `RequestLog`; `key` holds the rows of `console_api_keys`, `stage` the place of a request's handler and of the goroutine that records it, `due` the priced charge before its UPDATE; `top`, `peak` are history; quota and usage are read by one query; a charge is any amount up to `MaxCost`, `UsageCost` has how it is calculated |
| `Gateway` | the loop and the account of the keys, one of them at work | extends `GatewayProxy`, with `KeyQuota` as `Account` |
| `StatsRollup` | the rollup, composed with `RequestLog` | extends `RequestLog`; `ReadCursor`, `SelectRows`, `Persist` are the two queries and the transaction; `Commit` is `SaveResponse` seen together with the cursor |
| `ConfigStore` | tables, console handlers and the snapshot cache | a provider row is its enabled flag; a snapshot is the set of changes it reflects (the two queries fill it one after the other); `flight` is the singleflight call, `store` and `mark` are the two atomic stores |
| `LatestLoad` | what a view of numbered loads promises | abstract: only the newest load's answer is shown, or things stay as they are |
| `StatsPage` | `use-dashboard-stats.ts`, `use-usage-stats.ts` | `loadId` is `loadIdRef`, a load is one or two calls, the data a version that grows; implements `LatestLoad` |
| `LogsPage` | `use-dashboard-data.ts` with the log page | offset, sort, `rowsId`; the total moves with arrivals and the cleanup |
| `DetailPage` | the page of a request | the address may change while its detail is loaded |
| `ConsoleSession` | `App.tsx`, login, logout, the timers of the hooks, `consoleauth` | the tabs of a browser, one cookie, a server that restarts with another password or none; a page that is mounted asks, a timer's load replaces the one that is out, and the calls of pages that were left still count |
| `ProvidersPage` | the providers page and the API's handlers | `stack` holds the open dialogs, `childRef`/`childTimer` the ref that guards the form; one record per call that is out |
| `ProviderForm` | the form and the row it saves | every field with its way from the row through text and payload back to the row |
| `RoutesPage` | aliases on the routes page | draft targets, the list patched by answers |
| `FailoverForm` | the policy on the routes page | rules typed in part, parsed and stored |
| `RouteMap` | the route map beside `routing/` and `failover.go` | the console's operators and the gateway's, under the names of their functions |
| `KeysPage`, `ModelsPage`, `SettingsPage` | these pages and their handlers | drafts as the text typed; conversions (USD and micro-USD, seconds and milliseconds, blank and null) are modelled by what they do |
| `MonitorFigures` | figures of the monitor and the trend of the usage page | the log, the rollup and the formulas over them, with requests in progress and rows pruned |
| `RequestViews` | row of the log, page of a request, latency and cache cards, bucket tables | a request from its arrival through headers, chunks and end to its sums; the two pages have their own formulas and are compared |
| `UsageParsing` | the usage of a body | an upstream's events, each with the counts it tells, folded as `usage.go` does |
| `UsageCost` | what a response costs in its four places | prices in tenths of a micro-USD per token, so that sums are exact |
| `ReadableText` | text of a recorded stream | events of three formats; JSON values are records |
| `ThemeTabs` | the theme of two tabs | storage events are queues |
| `OrderedLists` | sorted sets, lists that rows are left out of, lists without repetition (`dedupe`) | functions of the places of a list, since the provers cannot reason about folds and recursion |
| `Console` | the pages that change something, one of them mounted | eight instances; the properties of the console and the assumptions on its constants |
| `ViewPages` | the pages that only show something, one of them looked at | extends `StatsPage`; an instance each of log, detail, session, theme, cost and request views; their properties and the assumptions on the constants |
| `MCViews` | the same with the figures and the texts | the two instances that sum up and recur, beside `ViewPages`, and the constants |
| `MC…` | — | the constants of the runs; `ConfigStore` needs none and is run as it is |
| `…Proofs` | — | the theorems about the module they extend |

`Console` and `ViewPages` compose the console's modules as the application does:
one page is mounted, chosen at the start; the variables of the others rest.
`MCConsole` gives `Console` its constants: small tables, drafts and bounds.
`MCResponseRelay` does the same with the relay and the conversion, whose pipe
the relay reads in place of the body: `CloseReader` is its `CloseBody`.
`Gateway` has the loop of one request and the quotas of keys, of which a
behaviour shows one while the other rests; `MCGateway` is its instance.
`LogTasks` opens up one step of `RequestLog` (`InsertEnded`), as `ResponseRelay`
opens up `RelayEnds` of `GatewayProxy`. Definitions next to a modelled one whose
name says what is wrong with them (`TriesLeftOffByOne`, `LoadFailsAlone`, …) are
plausible mistakes; `PROJECT.json` lists which property catches which.

What is abstracted: header contents, bodies, JSON, SQL text, layout, wording.
Routes are model values that stand for the key channel, model,
URL. A status is one of a few representatives. Times are ticks.

## Runs

| Run | Instance | Shows |
|---|---|---|
| `gateway` | four routes (plain, converting, refusing, malformed URL), five candidate lists with duplicates and fallbacks, nine policies, among them a negative `retryAttempts` and no fallbacks, statuses 200, 404, 500; two requests of one key or the administrator, quotas 0, 1, 2 or none, charges up to 2, one restart | `OneAnswer`, `SilentOnlyAfterRefusal`, `RoutesTriedInOrder`, `SingleShot`; the loop implements `ProxyPromise`; timed requests get to an answer; `OverspendBounded`: a key is charged less than its highest quota and what its requests under way at one time may cost |
| `gateway_exhausted` | the same | finding: an empty 200 after the last candidate |
| `relay` | bodies of 0 to 7 bytes, reads of 4, observer reads of 2, a capture limit of 4; conversions of texts of up to four pieces, two calls | no gap, record and client agree; `NobodyHeld`: stalls end, the observer delivers; `ConversionFaithful` |
| `relay_leak` | the same | finding: the idle reader's goroutine can stay blocked |
| `logtasks` | three writes of one request, a waiter on it, a drain | order, honest waiters and drains, no leak, every linked write is carried out |
| `rollup` | three requests, two buckets, batches of two, a cap of one, one restart | counted once, buckets add up, nothing skipped but what is excused, newest rows kept |
| `rollup_late` | the same | finding: a late commit is never counted |
| `config` | two console calls of any kinds on two channels, two requests of a cold start | one load at boot, nobody stranded, answered changes routed, edits keep the flag |
| `console` | eight instances, one per module of a page that changes something (bounds below) | `OneAtATime`, `SpinnersBacked`, `QuietMeansFresh`, `SendsWhatItShows`, `MapIsTheGateways`, `FormsFaithful` |
| `keys_quota` | the same | finding: a quota is not stored as typed |
| `views` | nine instances: statistics, log, detail, session, theme, figures, request views, readable text, cost | `SettledShowsFilter`, `ShowsLatest` (the statistics implement `LatestLoad`, so what they show never goes back), `LogsShowLatest`, `PagesConsistent`, `CostsAgree`, `FiguresAddUp`, `SessionSettles` |
| `usage_cost` | the same | finding: cached prompts of OpenAI at full price in the statistics |

The properties of `console` and `views` are conjunctions of the properties which
the pages' modules state, each guarded by the page it is about. What they say:

- `QuietMeansFresh`: with nothing out, a page shows what the server has. Excused
  (history variable `excused`) are a load that crossed a write, two saves of a
  key that did, an answer that was lost, an import that stopped half
  way and a load the server answered with its defaults; without the excuse TLC
  finds the property violated. Three fields are not the server's even then, for the
  answer to a plain save does not tell the page what it changed: the enabled flag
  of an alias (`routes-page.tsx:687`, `api.go:516`) and the quota and the models of
  a key (`keys-page.tsx:280`, `308`, `api.go:421`, `430`). They are not left out:
  the history variable `told` keeps what the page was last told of each row, and
  the property says that the row shows exactly that, so that the stale rows are in
  the property and not hidden by it.
- `SpinnersBacked`, `OneAtATime`: a row or button that is held back has a call
  out, so it comes back; and it is held back while its call is out. The second
  includes the type invariants of the pages.
- `SendsWhatItShows`: the channel saved is the one in the form, a target names a
  model of its channel, stored rules and prices are complete.
- `FormsFaithful` (action property): a save changes only what was edited, the
  form shows it when opened again, the upstream's models are added once, a child
  dialog does not take the form with it. Two things the code gets wrong are part of
  it: every save of a channel drops the contexts and prices of its models
  (`providers-page.tsx:247-257`, `~ModelDetails` in `UntouchedFieldsKept`), and a
  credential that was cleared is the stored one still (`api.go:329` against
  `en.ts:401`, in `ShowsWhatWasSaved`).
- `MapIsTheGateways`: nothing shown in use is left out by the gateway; nothing
  tried is hidden while there is room; listed models have routes; covered routes
  stay covered; aliases without a badge work; and where the channels' names sort
  alike in both places (`NamesSortAlike`, true of the run's) the order shown is the
  order tried.
- `PagesConsistent`: rows begin within the total; the detail is of the address;
  a button held back by login or logout has its call out; tabs agree on the
  theme and documents have its class; the log and the page of a request, each
  with its own formulas, and the badges tell the same of it; its times add up.
- `FiguresAddUp`: each request is in one slot, health and trend agree on it, the
  figures are those of the log once the rollup has caught up (while rows are
  neither counted nor pruned each figure is held to its own rows only); an average lies
  between what it is the average of, and the tables enclose the cards; the text
  read out of a stream is what was said.
- `SettledShowsFilter`: once the newest load was answered, the parts shown are of
  the filter that is set. After a newest load that failed those of the filter
  before stand, which the property excuses (`failed`).
- `CostsAgree`: the counts recorded of a body that was understood are the
  upstream's; the formulas add up to the total where no more was cached than sent;
  the key is charged what is shown, to the micro-USD; the cards add up, and make
  what the requests cost while no prompt was cached by OpenAI. Of a record cut off
  nothing is compared with the upstream.
- `SessionSettles` (liveness): a tab that loads its session gets to a page or to an
  error; and a tab left at a polling page with a cookie that is refused comes to the
  login, *if* of the loads its timer goes on to begin an answer comes, time and
  again, before the next load. That is a premise of the property and not a fairness
  of the specification, since nothing in the code sees to it: the timer does not
  wait for the call that is out, and the 401 of a load that is not the newest is
  dropped (`use-dashboard-stats.ts:44`, `:64-69`). Without the premise TLC finds the
  property violated, and without the timer's fairness too.

Those of the conversion in `relay`:

- `ConversionFaithful`: whatever comes and wherever it ends, the client gets events
  in the order it waits for, one item open at a time, each told in pieces that add
  up to it, and an end. At any time the client has what was sent, told apart as the
  splitter for whole texts does it, but for what may become a tag; a stream that
  ended well becomes the response which the same answer becomes in one go.

**Why the bounds are enough.** Retries and fallbacks show all their cases with
one retry, two initial routes and lists that repeat a route; a third pass
through the loop meets no new branch. The sizes of `relay` keep the proportions
of the code: a read fills the observer's buffer twice and the limit is a whole
number of observer reads, which is where `CaptureLimit` is met exactly; seven
bytes are two reads, so a chunk can be in each of the three hands. The tags of
the conversion are `<>` and `</>`: they share a beginning, as the real ones do,
and have one that is not a tag; four pieces of the two tags, their beginnings and
a letter give a tag within what looked like one, empty and unclosed reasoning,
and two changes of kind, and chunks of every length cut each of them everywhere. Of
three writes of a request the first may be done, and its map entry deleted or
kept, before the second or the third is linked; longer chains, writes of other
requests and tasks without one are covered by the theorems. Two
requests of a key are both let in by one balance, or the second after the first's
charge; a charge leaves something of the quota, uses it up exactly or overshoots
it. Three rows fill a batch of two and leave one,
the three ticks of the clock fall into two buckets, and one
restart may fall between any two steps. Two console calls overlap in every way;
a third would only repeat a pair, since a stored snapshot marks all others that
are under way. Two requests are a leader and a sharer, or a leader and a late
comer. The theorems remove these bounds for most of the invariants.

The console's bounds, all in `MCConsole` and `MCViews`:

| Module | Bounds |
|---|---|
| `ProvidersPage` | two channels, two operations with calls, three calls out, revisions modulo 2 |
| `ProviderForm` | two edits a form, two rows of models, one save, two models offered |
| `RoutesPage` | two targets, two edits, three operations, two calls out |
| `FailoverForm` | one rule, two edits, two operations, two calls out |
| `RouteMap` | three channels, two names, the changes of one channel, alias or policy from every initial table |
| `KeysPage` | one edit, two operations, two calls out |
| `ModelsPage` | two edits, two operations, two calls out |
| `SettingsPage` | two fields, two edits, three operations, two calls out |
| `StatsPage` | two parts, two filters, two loads, two versions of the data |
| `LogsPage` | pages of two rows, at most four requests, three loads, one change of the table |
| `DetailPage` | two requests, three loads |
| `ConsoleSession` | two tabs, two passwords, two pages of which one polls, two operations, one failure, one restart; any number of polls |
| `ThemeTabs` | two tabs, four changes |
| `MonitorFigures` | lists of two rows, three requests, three ticks of time, hours of two ticks, one row pruned |
| `RequestViews` | two requests, two channels, two ticks of time, three or four outcomes by type of upstream |
| `ReadableText` | streams of three events |
| `UsageCost`, `UsageParsing` | bodies of two events, prompts of 1 or 3, answers of 2, 0 or 3 of the cache, two tariffs (one without cache prices), two requests |

An operation here is one that sends a call; opening, closing and typing are free
or bounded by the edits. What can go wrong on a page needs two calls that cross,
or a call and a dialog opened again: two operations make every pair, and the
first load is out beside them. Three loads are an old one, a newer one and the
one that counts; of the statistics two are checked, since the theorems about them
hold for any number. Four requests are two pages, so that the last page can vanish.
Prompts smaller than, equal to and larger than what was cached are the cases of
`BucketsForUsage`. A second save of a form only starts from another row, and
rows of every form are initial.

**View.** `console` identifies states that differ only in what is overwritten
before it is read: the draft of a closed dialog, results nobody can see. It is
used with invariants and action properties about what is kept only.

**Symmetry** is used where only invariants and action properties are checked and
where values of a set play the same part: requests in `rollup`; console calls,
requests and channels in `config`.

**Fairness.** `GatewayProxy`: the handler's own steps and the runtime's timers;
nothing of upstreams, of clients or of a body being read. So
`TimedRequestsAnswered` is about the timer alone; the quotas beside it are
checked for safety only. `ResponseRelay`: the three
goroutines and the idle timer, and that a read pending when the body is closed
returns, which `net/http` guarantees; the upstream need never produce a byte and
the client need never leave. `LogTasks`: goroutines run, a call begun is carried
through, and a write ends, since the database driver returns; nobody has to call.
`ConsoleSession`: a call of the shell (session, login, logout) is answered or
fails, which the browser and the server's timeouts see to, and pages that poll do
poll, by `setInterval`; no user has to do anything, and nothing is assumed of how
long a page's call takes. So a tab on a page that does not poll may show an ended
session for as long as nobody uses it, and one that polls for as long as every
answer takes more than five seconds: of both `StaleSessionEnds` says nothing.
The others are checked for safety only. In `ConfigStore` the part of liveness
that the code itself decides, that no request waits on a flight nobody leads, is
the invariant `FlightLed`.

**Deadlock** is checked on the runs of the gateway. Where a system may have
finished, `Done` stutters and says exactly when. The `rollup` instance never ends:
its ticks go on. The console's runs switch it off: a user may stop, and a page
that was signed out does nothing more.

## Findings

Each is a run that violates a property which states a comment of the code or a
text of the console.

1. *Exhausted candidates answer with an empty 200* (`gateway_exhausted`,
   `handler.go:251`). An attempt given up for its status returns a non-zero
   status without having written; the loop takes it for a written response and
   skips the 502. `SilentOnlyAfterRefusal` bounds the damage: network errors and
   timeouts alone always end in a response, and so does every streaming request.
2. *The idle reader can leak its goroutine* (`relay_leak`, `handler.go:801`). Its
   channel holds one result; a handler that leaves with that one unread leaves
   the next send blocked.
3. *A response that commits late is never counted* (`rollup_late`,
   `rollup.go:139`): its time is taken before its UPDATE, and the cursor may pass
   in between.
4. *A quota typed in USD is stored as micro-USD, a fraction as zero* (`keys_quota`,
   `api.go:424`; the field is "Cost quota (USD)", `en.ts:684`). A quota of zero
   is used up at once.
5. *The statistics price an OpenAI prompt's cached part as if it were new*
   (`usage_cost`, `rollup.go:203`; `pricing.go:33-35` and `en.ts:225` say
   otherwise). The page of the request and the key's charge have it right.

## Disagreements without a run

In the gateway:
- The first-byte timer can cut a body that has begun, since the result of `Stop`
  is ignored (`handler.go:414`); `StreamOutlivesFirstByteTimer` of `GatewayProxy`
  states the opposite and TLC finds it violated.
- A capture that ends exactly at its limit is not marked as truncated
  (`observer.go:128`), which full reads of 4096 bytes always do at 5 MiB:
  `TruncationRecorded` of `ResponseRelay`.
- The switch of a provider is answered without a refresh (`api.go:289`, against
  `store.go:195-196`): `TogglesRouted` of `ConfigStore`.
- `maxFallbackAttempts` is only compared with zero (`handler.go:279`), it caps
  nothing; the fallback mode "disabled" still tries every channel of the model
  (`handler.go:282`); a converted body is read to its end with no timer running
  (`responsesconv/transform.go:61`); the retention cap keeps one row more than it
  says, and all that share the cutoff's time (`store.go:307-320`); the cleanup may
  prune rows no tick has counted; the comment at `rollup.go:166-168` speaks of
  delete and insert where the code adds; `MAX(a, b)` at `rollup.go:362` is not a
  Postgres expression. Two refreshes that overlap may leave the older snapshot in
  place until the next change (`store.go:197-205`): that is the excuse `raced` in
  `AnsweredChangesRouted`, and without it TLC finds the property violated.
- A point of the usage trend wider than five minutes shows its last five minutes
  only: the rows are grouped by the raw slot and overwrite each other
  (`queries_rollup.go:238-275`; the comment at 213-218 says they add up).
- A response that names no model is not charged (`handler.go:641`), though its
  page prices it; a failed save of the row does not keep the key from being
  charged, nor the other way round. The charge is cut to whole micro-USD for each
  request, and prices are those of the moment in each of the places.
- Of an OpenAI stream that reports its usage twice without a total the first
  total is kept; a truncated capture loses the usage at its end.
- `parseListFilter` ignores the `range` that the monitor sends, so its trend and
  health are of the newest 500 requests of all time. Requests in progress count
  as failures there, against "Red = all failed" of the health's description.

- What the log and the cards do not know: a request's times begin when the
  upstream's headers arrived (`handler.go:473`), so waiting for them is in no
  figure; requests the gateway ends itself and attempts it gives up leave no row;
  the row of a GET has no response and stays in progress (`handler.go:486`), which
  the trend counts as a failure.
- `recordRequest` (`handler.go:535-548`) never writes `failover_from`,
  `original_route_prefix` or `retry_attempt`, and records the URL before a
  conversion: the badges for failover, retry and conversion
  (`request-log-table.tsx:99-106`, `134-144`) and the card of the failovers
  never show any. The reason stored for a cut off body is "size_limit", the
  console looks for two others (`request-log-table.tsx:123-127`).
- Misses of the cache are what is left after hits and creations (`api.go:769`),
  so a request that had both is taken off twice, against `en.ts:143`:
  `MissesCounted` of `RequestViews`. Prompts cached by OpenAI are no hits there.
- The average first token is divided by all completed requests, those without
  one too, and the average first chunk is the same figure (`api.go:783-786`). A
  time that is null is shown as "0 ms" (`utils.ts:26`).

- A streamed answer with a reasoning before its content is told with both as text
  (`stream.go:358-363`), where in one go the reasoning is dropped; the comment
  speaks of upstreams whose content is empty. `SameWithReasoning` of
  `StreamConvert`. A refusal is dropped if streamed, a call without a name only if
  not.
- A body that breaks off, and one with a line of more than 4096 bytes
  (`sse/blockreader.go:44`), ends in a `response.completed` like any other
  (`stream.go:488-491`). A stream that names no time has `created_at` 0, against
  the comment at `stream.go:175`. Chunks after `[DONE]` would be converted still
  (`finalized` is not looked at). The converter does not notice
  that nobody reads its pipe; it goes on until the body ends or is cancelled with
  the request.

In the console:
- A credential removed in the form stays in force: null is taken for not sent
  (`api.go:329`, against `en.ts:401`). A change of the type keeps an old header
  (`en.ts:416`). Editing a channel drops the context and prices of its models.
  A creation under a name that exists overwrites it.
- A deletion that fails says nothing, though the comment says the dialog will.
- An export has no routing visibility; an import ignores it and enables all.
- The switch of an alias shows its old state until the next load (`api.go:516`
  answers without the alias); editing an alias enables it again.
- Three handlers of the routes page do not sign out on a 401 (save, test).
- The settings page's range check never refuses (`settings-page.tsx:65`): the
  limits come under other names. Timeouts that cannot be read are answered with
  the defaults, and the page shows them as stored.
- The route map lists disabled targets of an alias, cuts fallbacks at
  `maxFallbackAttempts`, takes the last of two rules for a model where the
  gateway takes the first, shows a model's routes where the gateway refuses an
  alias without usable target, and sorts by locale where Go compares bytes.
  `MapIsTheGateways` compares routes in use, one rule per model, and their order
  only where the names sort alike.
- Metadata of a model is sent as PATCH, which the API refuses; model names with
  a slash do not get through its path either. The result of a test may be that
  of the model tested before.
- A second save of a key's models or quota starts from the old values, since the
  answer has only the name.
- A timer that starts loads faster than they end keeps the statistics from ever
  being shown again, and a tab whose session ended from coming to the login
  (`use-dashboard-stats.ts:39`, `:44`, `:64-69`).
- The readable text of a stream with CRLF line ends is empty.
- A 401 of a page that was left ends a session begun meanwhile; a failed first
  call is final until the page is loaded again.
- Two tabs that change the theme at once can end with each other's theme; the
  history variable `crossed` of `ThemeTabs` marks these runs.

## Proofs

Every theorem holds for all values of the constants that satisfy the named
assumptions, which TLC evaluates on each run.

- **`GatewayProofs`**, of the loop — `TypeCorrect`, `AnsweredOnce`, `SilenceExplained`,
  `LeavesOnce`, `TriedInOrder`, `ProxyImplementsPromise`. The invariant adds `Position`: inside an attempt the index is within the list,
  and the loop only believes in a response if an attempt was refused for its
  status, which needs an enabled policy and a request that is not a stream. `Once`
  adds for the single shot that a named channel is the only candidate, that an
  attempt on it given up for its status is the end with nothing written (the empty
  200 of handler.go:251-258), and that after a disabled policy's attempt nothing is
  left to try.
  `Progress` follows the tries: the candidates before the current one have had
  all of theirs, the current one those it has counted, the later ones none; a
  route's tries are those of its places in the list. `Within` bounds the calls by
  the tries of the candidates passed, which maps the loop to `ProxyPromise`.
  `CandidateAssumption` says that the candidate list built by a fold is a
  sequence of routes; it holds of every value and is assumed because the prover
  cannot do induction over folds.
- **`GatewayProofs`**, of the keys — `QuotaKept`, `AccountTyped`. What a key has used is not
  inductive: `Covered` adds what the requests under way may still cost, and says
  that used + `MaxCost` · under way < highest quota + `MaxCost` · peak. A request
  is only let in below the quota, so it starts covered; a charge takes the place
  of its request, which `Handled` shows by tying the steps of the log to requests
  that were let in. Products of variables are handled by a lemma on multiples.
  `AccountAssumption` says what quotas, keys and the largest charge may be.
- **`ResponseRelayProofs`** — `NoGap`, `LogNeverBehind`, `EndIsComplete`,
  `CaptureIsExact`, `TypeCorrect`. `NothingLost` counts the bytes between
  upstream and client, `Teed` those between upstream and observer; their
  difference is what the log is ahead by. `EndSeen` follows the end of the body
  through the three hands.
- **`LogTasksProofs`** — `WritesSerialized`, `MapNeverLeaks`, `WaitersServed`,
  `DrainHonest`, `CounterExact`, `TypeCorrect`. `Serialized` is not inductive
  since a task waits only for its predecessor; `Predecessors` says that what was
  linked before a task is its predecessor, or was linked before that one, or has
  ended, and `Entries` that a missing map entry means all tasks of its key ended.
- **`StatsRollupProofs`** — `NeverCountedTwice`, `OnlyExcusedSkipped`,
  `SavedAfterInsert`, `CountsAddUp`, `CleanupKeepsNewest`, `TypeCorrect`. The heart is that a counted row lies at or
  before the cursor and a selected batch beyond it, in the transaction that
  raises the cursor; maxima of sets of times are handled by a lemma from the
  well-foundedness of the naturals. `CountsAddUp` rests on the bucket of a
  completed request being fixed and on a batch being disjoint from what is counted.
  `CleanupKeepsNewest` on `Enough`: the rows the cutoff was taken from are still
  there when the `DELETE` runs, and keep their times.
- **`ViewPagesProofs`**, of pages that number their loads — `SettledShows`,
  `ShownNeverOlder`, `StatsImplementsLatest`, `StatsTyped` of the statistics, for any
  parts, filters and bounds. The
  invariant says that ids of loads are unique and at most `loadId`, that the
  newest load, while it is out, was asked for the filter that is set, and that
  what is shown is older than what is out; `None` has to differ from every answer.
  `LogsImplementLatest` and `LogsHold` follow the log in the same way; that the
  rows begin within the total needs of every answer, on its way or shown, that
  its offset is a page's and its rows those of the table it was read from.
  `DetailHolds` says of every load that is out for which address it was sent,
  and that a load which is not the newest does not end the loading.
- **`ViewPagesProofs`**, of all that is shown — `PagesHold`, which is
  `PagesConsistent` of `ViewPages`, for any requests, tabs, passwords, channels and
  responses. Of the session, a tab has one call of a kind out, and one of each page
  it has mounted (`OneOfAKind`; `MountedApart` carries it through the mounting of
  another), and its buttons are held back exactly while theirs is (`ButtonsHeld`);
  loading the tab again drops the calls with the flags. `TabsAgree` speaks of tabs without an event to come and is
  not inductive: `TabsCatchUp` adds that the last event on its way to a tab is what
  is stored, which `LastHeard` carries through a queue that grows or is read, and
  `ClassApplied` that an effect is due wherever the class is not the theme's.
  `ViewsInv` says what a row of the log holds at every stage of its request: times
  in order, as far as they are known, and counts as the observer leaves them for the
  type of its channel. From that the two pages' formulas are compared by cases;
  `Quotient` and `HitRates` are the facts about whole division they need.
  `OutcomeAssumption` says of the responses only that their counts are whole and
  that Anthropic's leave the count of OpenAI's cached prompts at 0.
- **`ViewPagesProofs`**, of the costs — `CostsHold`, which is `CostsAgree`, for any
  prices and any answers that `AnswerAssumption` allows. `RowAnswered` says that a row is that of an answer, in the
  statistics or not, `ChargedToday` that its charge is one the prices of now explain,
  and `OwedInSums` that the sums of the
  statistics are what is owed as long as no prompt was cached by OpenAI
  (`CachedPromptsPriced` is a finding). `Buckets` shows that the tokens of a usage fall
  into the priced parts, none twice; `Rounded` and `NearIs` bound what rounding to
  a micro-USD can add in each place, so `LinesCost` and `PartsCost` may compare sums
  that were rounded before and after. `AnswerAssumption` says what the parser makes
  of a body: the counts the upstream told, a total that is their sum. That part is
  assumed by the theorem, which only says that a row keeps it; it is model-checked,
  since the run's answers are what `UsageParsing` parses of the bodies it generates,
  which recurs.
- **`ConfigStoreProofs`** — `ChangesReachRouting`, `NobodyStranded`,
  `BootLoadsOnce`, `ReadyHasConfig`, `EditsUndoNothing`, `TypeCorrect`. `Fresh` says what the snapshots under
  construction reflect: one that no other store overtook has, as far as it has
  read, everything answered by now. `Boot` says that once a request has stored a
  snapshot no other is on its way to one, which rests on `FlightLed`. `ReadHolds` says that a channel
  which no other call has touched since an edit read it is still what the edit
  read, and in the place it was read from; so the edit writes back what is there.
- **`ConsoleProofs`** — `SpinnersAreBacked`, `SendsShown` and `FormsKeepFaith`, of
  `Console`, for any tables, drafts and bounds. `ProvidersInv` says what each call of the providers
  page is out for and ties the flags to it: a channel is marked exactly while one
  call for its switch, the change or the reload after it, is out; a save and a
  deletion likewise; and the row that fills the form is the one it will save.
  `RoutesInv` and `KeysInv` say that the id in a spinner belongs to a call that is
  out, which an answer takes away together with the call.
  `TargetsInv` follows targets through drafts, calls, table and list, and
  `FailoverInv` rules through being shown, edited in part, parsed and stored: none
  pairs a channel with a model of another, none that is stored is incomplete or
  names a fallback twice. `ModelsInv` says that unless two tests crossed, every
  test that is out is of the model in the dialog, and which metadata may be on its
  way. The theorems rest on lemmas about `OrderedLists`: `Ascending` numbers a
  finite set without gaps, so that `Picked` gives a list of elements of the old one.
  `FormsKeepFaith` has an invariant per page. `FormInv` says, field by field, that
  what the edit form of a provider shows and was not edited reads back as the
  stored column; the step that saves it goes through `Payload`, the defaults of the
  API and `InputRow`, and `FormReopened` goes the same way back. Models that are
  added from the upstream are those picked by `Ascending` from the ones not in the
  form. `PolicyInv` and `SettingsInv` cannot follow the form alone: a load that is
  out answers with what the server held when it was served, and a save sends the
  fields it was pressed with. So they say that one call is out while the page says
  so, that unless a save of another session is excused what an answer carries is
  what the server holds, and that form and server agree on the fields that were
  not edited; from which the text of each timeout rounds back to the stored
  milliseconds. `DialogsInv` says that while a dialog lies above the form its guard
  is up and no timer is going to let it down.
  The assumptions on the constants of `Console` say what the server may hold when a
  page is opened, which its handlers see to: targets on models that are offered,
  complete rules, metadata it accepts, rows with the values their columns can have
  (the types of `FormAssumption`), whole milliseconds; and a policy whose codes are
  408 and 429 or fewer, the default, which no form of the console adds to.
- **`ConsoleQuietProofs`** — `QuietShowsServer`, of the same module: when no call of
  a page is out, its list or form is the server's. The page learns of the server
  by answers only, and they come in any order, so its invariant speaks of the calls
  that are out. `ListFresh`, of the providers: the list is the table, or a call is
  out whose answer reloads it, and a list that is on its way was read from the
  table as it is unless another reload follows. `AliasesInv` and `KeysListed`, of
  lists that answers patch: each row shown is its row in the table, but for a
  deletion, a rename or a reload that has been served and not answered; a row that
  is missing has its creation out; an answer that is out still tells the truth when
  it comes, since two saves of a row, or a load and a write, that are out together
  are excused (`excused`, set where they cross); and a row that is being created
  cannot be named by the page before its answer is there (`IsOldKey`). `FlagsTold`
  and `LimitsTold` say the same of the fields no answer tells: a row has the flag,
  or the quota and models, that the page was last told (`told`), or the answer that
  tells it is under way. What is
  shown is in order and holds what the table holds, and by `DescendingOnce` there
  is one such list. `KeysAssumption` says which keys the server may begin with:
  numbered from 1, with whole quotas.
  `OneOfEachIsOut` proves `OneAtATime` from the same invariants: each of them has,
  for every flag of its page, that a call of the kind is out exactly while the flag
  is up, and then only one, which `OneCounted` turns into a count. For the types it
  adds what the actions read and nothing showed before: `ListTyped`, that every call
  of the providers page names a channel, that what it answers is a table, and that
  the dialogs hold channels and are open once each (`OnceStep`, since closing picks
  the others in their order); `PolicyBounded`, that the policies in every call have
  attempts the server accepts, which the form clamps; `ModelsNamed`, `KeysNamed` and
  `RoutesNamed`, that what a dialog or a spinner names is a row; `FeedbackFading`,
  that a message shown has a timer to clear it. `TablesAssumption` and
  `MapAssumption` say that what the server begins with are tables, with types the
  map knows and aliases with a target.
- **`ConsoleQuietProofs`**, of the route map — `RouteMapIsTheGateways`, which is
  `MapIsTheGateways`, for any channels, aliases, models and policies. The invariant
  is only that the tables keep their types (`MapInv`); the proof is about the lists
  that two translations of one routing compute from them. `PickedPlaces` says that
  what is picked from a list keeps its order and that no other list does
  (`PickedOnce`), `DistinctBegins` that dropping repetitions leaves a front in which
  nothing is twice, `JoinedElements` what lists put together hold. From them
  `DirectRoutes`, `AliasRoutes`, `AnyRoutes` and `CustomLists` compare the two sides
  source by source, as pairs of channel and upstream model; `TriedList` and
  `ShownList` put the sources together, as the gateway tries them and as the map
  shows them; `ChannelsInOrder` and `FirstAndOthers` carry the order over, which
  holds only where locale and bytes sort the names alike. `MapAssumption` says that
  both orders are strict: names are unique, and two that `localeCompare` cannot
  tell apart are left out.

**Only model-checked**: liveness under fairness (`TimedRequestsAnswered`,
`NobodyHeld`, `EveryWriteLands`, `SessionSettles`), since fairness and `ENABLED`
are out of the prover's reach; what folds and recursive definitions compute for
every input, since its provers cannot instantiate induction over data: the
conversion, whose splitter is recursive, so `ConversionFaithful` cannot be stated
for the prover, and `FiguresAddUp`, which compares sums over sets of rows and texts
put together by recursion. The type invariants of the proved modules, `CountExact`
of `LogTasks` and `SaveAfterInsert` of `RequestLog` are not checked by a run of
their own: the theorems state them.

## Not modelled

- The conversion of a request (`responsesconv/request.go`, `content.go`), the
  splitting of bytes into event blocks (`sse/`) and token estimates: functions of
  one text. Of a response's conversion refusals, annotations and ids.
- The gateway's cache of policy and timeouts: only their changes by the console
  are modelled. Of a key its digest, how it is shown and the patterns of its
  models: a request it may not make is refused, for whatever reason.
- Scheduler and shutdown: one loop per job and one ordered stop; the drain they
  end in is `DrainComplete` of `LogTasks`.
- SQL dialects, migrations, CORS, health probes, configuration, header copying:
  no state that steps of the system share. Ambiguous commits are modelled as
  answers that are lost in the console, not between gateway and database.
- Fetching and parsing the price table; the upstream's list of models.
- Layout: charts, translations, number and date formats, columns that are shown or
  hidden, cards that show what the API sends as it is.
- Two pages at a time: they share no state but the server's and the session.

## Plan

Done, in this order: `GatewayProxy` with `ProxyPromise`; `ResponseRelay`;
`LogTasks`; `RequestLog`, `StatsRollup` and `KeyQuota`; `ConfigStore`; the pages of the
console that change something; `RouteMap` with the resolver; statistics with
`LatestLoad`, log, detail and session; figures, text, usage and cost; what is
told of a request; the conversion of streams.

Left:
`Shutdown` over `LogTasks`: what is accepted before the stop is drained or the
deadline says so.
