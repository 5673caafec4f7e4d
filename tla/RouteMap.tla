------------------------------ MODULE RouteMap ------------------------------
(***************************************************************************)
(* Which upstream routes serve a model.  Two parts of the program answer   *)
(* the question from the same configuration, each with code of its own:    *)
(* the route map of the console (buildRouteMapEntries in routes-page.tsx)  *)
(* and the gateway (internal/routing and buildFailoverCandidates).  Both   *)
(* are translated here and compared after every change of the              *)
(* configuration.  A reference to a channel by its uuid is the channel; a  *)
(* fallback "channel:model" is a record.                                   *)
(***************************************************************************)
EXTENDS Integers, Sequences, FiniteSets, Functions, OrderedLists

CONSTANTS
  Channel,        \* channel names
  Name,           \* what a request can ask for: models and aliases
  None,
  LocaleRank,     \* channel names in the order of localeCompare
  ByteRank,       \* and in the order of their bytes
  Policies,       \* the failover policies an administrator saves
  InitialChannels,
  InitialAliases

VARIABLES
  channels,  \* None or [enabled, type, direct, priority, models]
  aliases,   \* None or [enabled, visible, targets]
  policy     \* [enabled, mode, max, custom]

vars == <<channels, aliases, policy>>

Type == {"openai", "anthropic"}

(* Lists, defined for the proofs as in OrderedLists: the elements that pass a  *)
(* test, the first n, the lists of a list one after the other, and whether a   *)
(* list begins with another.                                                   *)
Where(s, Test(_)) == Picked(s, {i \in DOMAIN s : Test(s[i])})
First(n, s) == SubSeq(s, 1, IF n < Len(s) THEN n ELSE Len(s))
Joined(ss) ==
  LET at    == UNION {{<<i, j>> : j \in DOMAIN ss[i]} : i \in DOMAIN ss}
      place == Ordered(at, LAMBDA p, q : p[1] < q[1] \/ (p[1] = q[1] /\ p[2] < q[2]))
  IN [k \in DOMAIN place |-> ss[place[k][1]][place[k][2]]]
Begins(s, t) == Len(t) <= Len(s) /\ \A i \in DOMAIN t : s[i] = t[i]

Init ==
  /\ channels \in InitialChannels
  /\ aliases \in InitialAliases
  /\ policy \in Policies

Exists(c)  == channels[c] # None
Enabled(c) == Exists(c) /\ channels[c].enabled
Direct(c)  == Enabled(c) /\ channels[c].direct
Lists(c, m) == m \in Range(channels[c].models)

Sorted(rank) ==
  Ordered({c \in Channel : Exists(c)},
    LAMBDA c, d : \/ channels[c].priority > channels[d].priority
                  \/ channels[c].priority = channels[d].priority /\ rank[c] < rank[d])

(***************************************************************************)
(* The console.  A route is a channel, its type and the upstream model.    *)
(***************************************************************************)
Route(c, m) == [provider |-> c, type |-> channels[c].type, model |-> m]

SortProvidersAscending ==
  Ordered({c \in Channel : Exists(c)},
    LAMBDA c, d : \/ channels[c].priority < channels[d].priority
                  \/ channels[c].priority = channels[d].priority /\ LocaleRank[c] < LocaleRank[d])

SortProvidersByRoutingPriority == Sorted(LocaleRank)

GetModelRoutes(m, t) ==
  LET fits == Where(SortProvidersByRoutingPriority,
                        LAMBDA c : Direct(c) /\ channels[c].type = t /\ Lists(c, m))
  IN [i \in DOMAIN fits |-> Route(fits[i], m)]

(* A target whose channel is gone is shown as an OpenAI one. *)
GetAliasRoutes(a) ==
  LET targets == aliases[a].targets
  IN [i \in DOMAIN targets |->
        IF Exists(targets[i].provider) THEN Route(targets[i].provider, targets[i].model)
        ELSE [provider |-> targets[i].provider, type |-> "openai", model |-> targets[i].model]]

OfType(routes, t) == Where(routes, LAMBDA r : r.type = t)

IsAliasRoutable(a) ==
  /\ aliases[a] # None /\ aliases[a].enabled
  /\ \E target \in Range(aliases[a].targets) : Enabled(target.provider)

(* A fallback is the name of an alias (provider None) or channel:model. *)
ResolveFallbackTarget(f, t) ==
  IF f.provider = None
  THEN IF IsAliasRoutable(f.name) THEN OfType(GetAliasRoutes(f.name), t) ELSE <<>>
  ELSE IF Enabled(f.provider) /\ channels[f.provider].type = t /\ Lists(f.provider, f.name)
       THEN <<Route(f.provider, f.name)>> ELSE <<>>

AnyModelRoutes(t) ==
  LET from == Where(SortProvidersByRoutingPriority, Direct)
      each == [i \in DOMAIN from |->
                 [j \in DOMAIN channels[from[i]].models |-> Route(from[i], channels[from[i]].models[j])]]
  IN OfType(Joined(each), t)

MatchedAlias(m, t) == IsAliasRoutable(m) /\ OfType(GetAliasRoutes(m), t) # <<>>

ServedDirectly(m, t) == \E c \in Channel : Direct(c) /\ channels[c].type = t /\ Lists(c, m)

IsRequestModel(m, t) == ServedDirectly(m, t) \/ MatchedAlias(m, t)

PrimaryRoutes(m, t) ==
  IF MatchedAlias(m, t) THEN OfType(GetAliasRoutes(m), t)
  ELSE First(1, GetModelRoutes(m, t))

(* A later rule for the same model replaces an earlier one. *)
CustomFallbacksByModel(m) ==
  LET rules == Where(policy.custom, LAMBDA rule : rule.model = m)
  IN IF rules = <<>> THEN <<>> ELSE rules[Len(rules)].fallbacks

CustomRoutes(m, t) ==
  LET to == CustomFallbacksByModel(m)
  IN Joined([i \in DOMAIN to |-> ResolveFallbackTarget(to[i], t)])

SitePolicyRoutes(m, t) ==
  CASE policy.mode = "any_model"  -> AnyModelRoutes(t)
    [] policy.mode = "same_model" -> IF MatchedAlias(m, t) THEN PrimaryRoutes(m, t) ELSE GetModelRoutes(m, t)
    [] policy.mode = "disabled"   -> <<>>

FallbackRoutes(m, t) ==
  LET seen == Range(PrimaryRoutes(m, t))
      all  == IF policy.enabled THEN CustomRoutes(m, t) \o SitePolicyRoutes(m, t) ELSE <<>>
      new  == Where(Distinct(all), LAMBDA r : r \notin seen)
  IN First(policy.max, new)

ShownRoutes(m, t) == PrimaryRoutes(m, t) \o FallbackRoutes(m, t)

(* The map calls a name of an alias and of a model an override, and lists    *)
(* the channels of the model as covered.                                     *)
HiddenRoutes(m, t) == IF MatchedAlias(m, t) THEN GetModelRoutes(m, t) ELSE <<>>

(* The badge beside an alias: the first complaint about any of its targets.  *)
AliasStatus(a) ==
  LET targets == Range(aliases[a].targets)
  IN CASE \E target \in targets : ~Exists(target.provider)             -> "provider_missing"
       [] \E target \in targets : ~Lists(target.provider, target.model) -> "model_removed"
       [] \E target \in targets : ~Enabled(target.provider)             -> "provider_disabled"
       [] OTHER                                                          -> None

(***************************************************************************)
(* The gateway.  A route carries the model it asks for only when it comes  *)
(* from an alias or a fallback; otherwise the request's own goes out.      *)
(***************************************************************************)

FindRoutesByModel(m, t) ==
  LET fits == Where(Sorted(ByteRank),
                        LAMBDA c : Direct(c) /\ channels[c].type = t /\ Lists(c, m))
  IN [i \in DOMAIN fits |-> [channel |-> fits[i], resolved |-> None]]

ResolveExplicitTargets(targets, t) ==
  LET usable == Where(targets, LAMBDA x : Enabled(x.provider) /\ channels[x.provider].type = t)
  IN [i \in DOMAIN usable |-> [channel |-> usable[i].provider, resolved |-> usable[i].model]]

IsAlias(m) == aliases[m] # None /\ aliases[m].enabled   \* the snapshot holds no other

ResolveRoutesByModel(m, t) ==
  IF IsAlias(m) THEN Distinct(ResolveExplicitTargets(aliases[m].targets, t))
                ELSE FindRoutesByModel(m, t)

ResolveFallback(f, t) ==
  IF f.provider = None
  THEN IF IsAlias(f.name) THEN ResolveExplicitTargets(aliases[f.name].targets, t) ELSE <<>>
  ELSE IF Enabled(f.provider) /\ channels[f.provider].type = t /\ Lists(f.provider, f.name)
       THEN <<[channel |-> f.provider, resolved |-> f.name]>> ELSE <<>>

(* The first rule for the model counts. *)
CustomFallbackModels(m) ==
  LET rules == Where(policy.custom, LAMBDA rule : rule.model = m)
  IN IF rules = <<>> THEN <<>> ELSE Head(rules).fallbacks

ResolveRoutesForFallbackModels(m, t) ==
  LET to == CustomFallbackModels(m)
  IN Distinct(Joined([i \in DOMAIN to |-> ResolveFallback(to[i], t)]))

ResolveRoutesForAnyModelFallback(t) ==
  LET from == Where(Sorted(ByteRank), LAMBDA c : Direct(c) /\ channels[c].type = t)
      each == [i \in DOMAIN from |->
                 [j \in DOMAIN channels[from[i]].models |->
                    [channel |-> from[i], resolved |-> channels[from[i]].models[j]]]]
  IN Joined(each)

(* A request without an initial route is refused before any failover. *)
BuildFailoverCandidates(m, t) ==
  LET initial == ResolveRoutesByModel(m, t)
      site == CASE policy.mode = "any_model"  -> ResolveRoutesForAnyModelFallback(t)
                [] policy.mode = "same_model" -> initial
                [] policy.mode = "disabled"   -> <<>>
  IN IF initial = <<>> \/ ~policy.enabled \/ policy.max <= 0 THEN initial
     ELSE Distinct(initial \o ResolveRoutesForFallbackModels(m, t) \o site)

(* The routes as the upstreams see them. *)
Asked(r, m) == <<r.channel, IF r.resolved = None THEN m ELSE r.resolved>>

TriedRoutes(m, t) ==
  LET tried == BuildFailoverCandidates(m, t)
  IN Distinct([i \in DOMAIN tried |-> Asked(tried[i], m)])

(* The names that GET /v1/models lists. *)
FirstAliasType(a) ==
  LET usable == Where(aliases[a].targets,
                          LAMBDA x : Enabled(x.provider) /\ Lists(x.provider, x.model))
  IN IF usable = <<>> THEN None ELSE channels[Head(usable).provider].type

IsListedModel(m, t) ==
  \/ ServedDirectly(m, t)
  \/ IsAlias(m) /\ aliases[m].visible /\ FirstAliasType(m) = t

(***************************************************************************)
(* The administrator changes the configuration; page and gateway load it.  *)
(***************************************************************************)
SwitchChannel(c) ==
  /\ Exists(c)
  /\ channels' = [channels EXCEPT ![c].enabled = ~@]
  /\ UNCHANGED <<aliases, policy>>

(* Aliases keep the targets that name the channel. *)
DeleteChannel(c) ==
  /\ Exists(c)
  /\ channels' = [channels EXCEPT ![c] = None]
  /\ UNCHANGED <<aliases, policy>>

SwitchAlias(a) ==
  /\ aliases[a] # None
  /\ aliases' = [aliases EXCEPT ![a].enabled = ~@]
  /\ UNCHANGED <<channels, policy>>

SavePolicy ==
  /\ policy' \in Policies
  /\ UNCHANGED <<channels, aliases>>

Next ==
  \/ \E c \in Channel : SwitchChannel(c) \/ DeleteChannel(c)
  \/ \E a \in Name : SwitchAlias(a)
  \/ SavePolicy

Spec == Init /\ [][Next]_vars

(***************************************************************************)
(* Properties.                                                             *)
(***************************************************************************)
TypeOK ==
  /\ \A c \in Channel : Exists(c) => channels[c].type \in Type
  /\ \A a \in Name : aliases[a] # None => aliases[a].targets # <<>>
  /\ policy \in Policies

(* The map leaves the gateway's precedence of aliases where no target of an  *)
(* enabled alias is usable: it shows channels, the gateway refuses.          *)
Refused(m, t) == IsAlias(m) /\ ResolveRoutesByModel(m, t) = <<>>

(* Channel names that localeCompare and the order of bytes sort alike.       *)
NamesSortAlike ==
  \A c, d \in Channel : LocaleRank[c] < LocaleRank[d] <=> ByteRank[c] < ByteRank[d]

OneRule(m) == Len(Where(policy.custom, LAMBDA rule : rule.model = m)) <= 1

Comparable(m, t) == IsRequestModel(m, t) /\ ~Refused(m, t)

(* The shown routes whose channel is in use, as the upstreams see them. *)
InUse(routes) ==
  LET used == Where(routes, LAMBDA r : Enabled(r.provider))
  IN Distinct([i \in DOMAIN used |-> <<used[i].provider, used[i].model>>])

(* The first route the map shows in use for a model is the one that the      *)
(* gateway tries first, whatever the failover policy.                        *)
FirstShownIsFirstTried ==
  \A m \in Name, t \in Type : Comparable(m, t) =>
    LET shown == InUse(PrimaryRoutes(m, t))
    IN shown # <<>> /\ Head(shown) = Head(TriedRoutes(m, t))

(* Every route the map shows in use, the fallbacks included, is one that the *)
(* gateway will try for the model.                                           *)
ShownRoutesAreTried ==
  \A m \in Name, t \in Type :
    Comparable(m, t) /\ OneRule(m) =>
      Range(InUse(ShownRoutes(m, t))) \subseteq Range(TriedRoutes(m, t))

(* With a site-wide fallback in force and room for all of it, the map hides  *)
(* no route that the gateway tries.                                          *)
TriedRoutesAreShown ==
  \A m \in Name, t \in Type :
    /\ Comparable(m, t) /\ OneRule(m) /\ policy.enabled /\ policy.mode # "disabled"
    /\ Len(FallbackRoutes(m, t)) < policy.max
    => Range(TriedRoutes(m, t)) \subseteq Range(InUse(ShownRoutes(m, t)))

(* Without a rule of its own, a model that falls back to its other channels  *)
(* is tried in the order shown; the map may stop early, the gateway goes on. *)
SameModelInOrder ==
  \A m \in Name, t \in Type :
    Comparable(m, t) /\ policy.mode = "same_model" /\ CustomFallbacksByModel(m) = <<>> =>
      Begins(TriedRoutes(m, t), InUse(ShownRoutes(m, t)))

(* The routes shown as covered by an alias are out of the gateway's reach:   *)
(* without failover it tries none of them that is not a target as well.      *)
CoveredRoutesAreCovered ==
  \A m \in Name, t \in Type :
    Comparable(m, t) /\ ~policy.enabled =>
      Range(TriedRoutes(m, t)) \cap Range(InUse(HiddenRoutes(m, t)))
        \subseteq Range(InUse(PrimaryRoutes(m, t)))

(* An alias that is switched on and has no badge works: each of its targets  *)
(* is tried for requests of the target's type.                               *)
UnmarkedAliasesWork ==
  \A a \in Name :
    aliases[a] # None /\ aliases[a].enabled /\ AliasStatus(a) = None =>
      \A target \in Range(aliases[a].targets) :
        <<target.provider, target.model>> \in Range(TriedRoutes(a, channels[target.provider].type))

(* An entry of the map has a route, a model that clients are told of has an  *)
(* entry, and the gateway has a route for it unless an alias without usable  *)
(* target shadows it.                                                        *)
ListedModelsAreMapped ==
  \A m \in Name, t \in Type :
    /\ IsRequestModel(m, t) => PrimaryRoutes(m, t) # <<>>
    /\ IsListedModel(m, t) =>
         /\ IsRequestModel(m, t)
         /\ TriedRoutes(m, t) # <<>> \/ Refused(m, t)
=============================================================================
