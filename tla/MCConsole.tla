------------------------------ MODULE MCConsole ------------------------------
(***************************************************************************)
(* Console on small instances of its pages.                                *)
(***************************************************************************)
EXTENDS Console, TLC

CONSTANTS a, b, c, m, n, x, k1, k2

MCMaxOps ==
  [p \in {"providers", "routes", "failover", "keys", "models", "settings"} |->
     IF p \in {"routes", "settings"} THEN 3 ELSE 2]
MCMaxCalls ==
  [p \in {"providers", "routes", "failover", "keys", "models", "settings"} |->
     IF p = "providers" THEN 3 ELSE 2]
MCMaxEdits ==
  [p \in {"form", "routes", "failover", "keys", "models", "settings"} |->
     IF p = "keys" THEN 1 ELSE 2]

(***************************************************************************)
(* The providers page, and the form it edits a channel with.               *)
(***************************************************************************)
MCChannel == {a, b}

MCChannelTables ==
  {[ch \in {a, b} |-> IF ch = a THEN [enabled |-> TRUE, rev |-> 0] ELSE second] :
     second \in {None, [enabled |-> FALSE, rev |-> 0]}}

MCModel      == {m, n}
MCCredential == {k1, k2}

PlainChannel ==
  [type |-> "openai", targetBaseUrl |-> "url", systemPrompt |-> None,
   models |-> <<m>>, context |-> FALSE, priority |-> "0", visibility |-> "direct",
   mode |-> "native", extra |-> None, auth |-> None, enabled |-> TRUE]

FullChannel(type, mode) ==
  [PlainChannel EXCEPT !.type = type, !.mode = mode, !.extra = "vendor",
     !.auth = [header |-> "x-api-key", value |-> k1], !.systemPrompt = "prompt",
     !.visibility = "explicit_only", !.enabled = FALSE, !.context = TRUE]

Tables(rows, second) == {[ch \in {a, b} |-> IF ch = a THEN row ELSE second] : row \in rows}

MCChannelRows ==
  Tables({[PlainChannel EXCEPT !.mode = None], FullChannel("openai", "disabled")}, None) \cup
  Tables({[FullChannel("anthropic", None) EXCEPT !.models = <<>>]}, PlainChannel)

(***************************************************************************)
(* The routes page: its map, the aliases and the failover policy.          *)
(***************************************************************************)
MCRoutedChannel == {a, b, c}
MCRoutedName    == {m, n, x}
MCRank          == (a :> 1) @@ (b :> 2) @@ (c :> 3)

MapChannel(type, direct, priority, listed) ==
  [enabled |-> TRUE, type |-> type, direct |-> direct, priority |-> priority, models |-> listed]

MCRoutedChannels ==
  {(a :> MapChannel("openai", d, p, <<m, n>>)) @@ (b :> MapChannel("openai", TRUE, 1, <<m>>))
     @@ (c :> MapChannel(t, TRUE, 0, <<n, m>>)) :
     d \in BOOLEAN, p \in {0, 2}, t \in {"openai", "anthropic"}}

To(channel, model) == [provider |-> channel, model |-> model]
Alias(targets) == [enabled |-> TRUE, visible |-> TRUE, targets |-> targets]

MCRoutedAliases ==
  {(x :> Alias(s)) @@ (m :> o) @@ (n :> None) :
     s \in {<<To(a, n), To(c, m)>>, <<To(b, n), To(a, m)>>},
     o \in {None, Alias(<<To(c, n), To(a, m)>>)}}

Rule(model, fallbacks) == [model |-> model, fallbacks |-> fallbacks]
Then(channel, name) == [provider |-> channel, name |-> name]

MapRules ==
  {<<>>, <<Rule(m, <<Then(None, x), Then(c, m)>>)>>,
   <<Rule(n, <<Then(b, n), Then(a, n)>>), Rule(m, <<Then(None, x)>>), Rule(m, <<Then(c, m)>>)>>}

MCPolicies ==
  {[enabled |-> TRUE, mode |-> mode, max |-> max, custom |-> rules] :
     mode \in {"same_model", "any_model"}, max \in {1, 6}, rules \in MapRules}
  \cup {[enabled |-> TRUE, mode |-> "disabled", max |-> 2, custom |-> rules] : rules \in MapRules}
  \cup {[enabled |-> FALSE, mode |-> "any_model", max |-> 2, custom |-> <<>>],
        [enabled |-> TRUE, mode |-> "any_model", max |-> 0, custom |-> <<>>]}

MCOffers == [ch \in {a, b} |-> IF ch = a THEN {m} ELSE {n}]

MCAliasTables ==
  {[i \in {1, 2, 3} |-> IF i = 1 THEN [enabled |-> FALSE, targets |-> <<To(a, m)>>] ELSE None]}

MCRuleName  == {m}
MCFallbacks == {<<>>, <<a, b, a>>}
MCRetryText == {0, 9, Blank}

ServedPolicy ==
  [enabled |-> TRUE, mode |-> "same_model", attempts |-> 1, custom |-> <<>>, codes |-> {408, 429}]

MCInitialPolicies ==
  {ServedPolicy,
   [enabled |-> FALSE, mode |-> "any_model", attempts |-> 3,
    custom |-> <<[model |-> m, fallbacks |-> <<a>>]>>, codes |-> {408}],
   [enabled |-> TRUE, mode |-> "disabled", attempts |-> 1, custom |-> <<>>, codes |-> {}]}

(***************************************************************************)
(* The keys, the models and the settings page.                             *)
(***************************************************************************)
MCKeyName   == {a, b}
MCKeyModel  == {m}
MCQuotaText == {Blank, 500000, 2000000}

MCInitialKeys ==
  {[i \in {1, 2, 3} |-> IF i <= 2 THEN [name |-> a, quota |-> None, models |-> {}] ELSE None]}

MCMetadataText == {Blank, 1, -2}

Priced == [p \in {"input", "output", "cacheRead", "cacheWrite"} |->
             IF p \in {"input", "output"} THEN 3 ELSE None]

MCServedModels ==
  {[model \in {m, n} |-> IF model = m THEN [context |-> 2, pricing |-> Priced, override |-> None]
                         ELSE [context |-> None, pricing |-> None,
                               override |-> [context |-> 4, pricing |-> None]]]}

MCField       == {a, b}
MCTimeoutText == {Blank, 0, 3, -4}
MCDefaults    == [field \in {a, b} |-> IF field = a THEN 30 ELSE 300]

MCInitialTimeouts == {MCDefaults, [field \in {a, b} |-> IF field = a THEN 1 ELSE 0]}

(***************************************************************************)
(* What a closed dialog still holds is overwritten before it is read, and  *)
(* some results are never read: states that differ in nothing else are one.*)
(***************************************************************************)
ProvidersView ==
  <<channels, providers, pageError, signedOut, testingAll, stack, pending, toggling, testing,
    childRef, childTimer, calls, ops, excused, tester.loading,
    IF Providers!Open("test") THEN tester.of ELSE None,
    IF Providers!Open("delete") THEN deleting ELSE None,
    IF Providers!Open("config") THEN <<transfer.mode, transfer.entries, transfer.valid>> ELSE <<>>,
    IF Providers!Open("form") \/ (\E i \in DOMAIN calls : calls[i].kind = "detail")
      THEN editor ELSE None>>

FormView ==
  <<stored, saves, asked, dialog.open,
    IF dialog.open THEN <<dialog, form, edited, edits>> ELSE <<>>,
    IF sync.open THEN sync ELSE None>>

RoutesView ==
  <<Routes!server, Routes!rows, dialog.open, IF dialog.open THEN dialog ELSE <<>>, flags, calls,
    signedOut, ops, edits, told, excused>>

ModelsView ==
  <<served, models, loading, saving, test, edit.open, IF edit.open THEN edit ELSE <<>>,
    calls, signedOut, ops, edits, crossed>>

View ==
  <<page,
    CASE page = "providers" -> ProvidersView
      [] page = "form"      -> FormView
      [] page = "map"       -> Map!vars
      [] page = "routes"    -> RoutesView
      [] page = "failover"  -> Failover!vars
      [] page = "keys"      -> Keys!vars
      [] page = "models"    -> ModelsView
      [] page = "settings"  -> Settings!vars>>

=============================================================================
