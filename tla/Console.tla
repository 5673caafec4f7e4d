------------------------------- MODULE Console -------------------------------
(***************************************************************************)
(* The pages of the console that change something.  One of them is mounted *)
(* at a time and shares no state with the others: the page is chosen at    *)
(* the start, and the variables of the others stay at None.                *)
(***************************************************************************)
EXTENDS Integers, Sequences, FiniteSets

CONSTANTS
  None, Blank, Null,
  MaxOps, MaxCalls, MaxEdits,                        \* bounds, by page
  ListedChannel, MaxRev, ChannelTables,              \* ProvidersPage
  Channel, Model, Credential, MaxRows, MaxSaves, MaxAsked, ChannelRows,   \* ProviderForm
  RoutedChannel, RoutedName, LocaleRank, ByteRank, Policies, RoutedChannels, RoutedAliases,
                                                     \* RouteMap
  AliasId, Offers, MaxTargets, AliasTables,          \* RoutesPage
  RuleName, Fallbacks, RetryText, MaxRules, InitialPolicies,              \* FailoverForm
  KeyId, KeyName, KeyModel, MicroUSDPerUSD, QuotaText, InitialKeys,       \* KeysPage
  ListedModel, MetadataText, ServedModels,           \* ModelsPage
  Field, TimeoutText, Defaults, InitialTimeouts      \* SettingsPage

ASSUME ChannelsAssumption == IsFiniteSet(ListedChannel) /\ None \notin ListedChannel

(* Channels by name, each with a revision or missing. *)
ChannelTable == [ListedChannel -> {None} \cup [enabled : BOOLEAN, rev : 0..MaxRev]]

ASSUME TablesAssumption ==
  /\ ChannelTables \subseteq ChannelTable /\ MaxRev \in Nat \ {0}
  /\ MaxOps["providers"] \in Nat /\ MaxCalls["providers"] \in Nat \ {0}

VARIABLES
  page,
  channels, providers, pageError, stack, editor, pending, toggling, testing,
  testingAll, tested, tester, deleting, transfer, childRef, childTimer,
  calls, signedOut, ops, excused, stored, dialog, form, edited, edits,
  saves, sync, asked, aliases, policy, table, lastId, flags, togglingId,
  deletingId, tests, served, feedback, keys, error, newKey, visible,
  creating, saving, told, models, loading, test, edit, crossed, settings

common     == <<page, calls, signedOut, ops, excused>>
formVars   == <<saves, sync, asked>>
editVars   == <<form, edited>>
tableVars  == <<table, lastId>>
routeVars  == <<togglingId, deletingId, tests>>
modelVars  == <<models, test, edit, crossed>>
keyVars    == <<keys, error, newKey, visible, creating>>
listVars   == <<providers, pageError, stack, editor, pending, toggling, testing,
                testingAll, tested, tester, deleting, transfer, childRef, childTimer>>

NoCalls  == calls = None /\ signedOut = None /\ ops = None /\ excused = None
NoForm   == saves = None /\ sync = None /\ asked = None
NoEdit   == form = None /\ edited = None
NoTable  == table = None /\ lastId = None
NoRoutes == togglingId = None /\ deletingId = None /\ tests = None
NoModels == models = None /\ test = None /\ edit = None /\ crossed = None
NoKeys   == /\ keys = None /\ error = None /\ newKey = None /\ visible = None
            /\ creating = None
NoList   == /\ providers = None /\ pageError = None /\ stack = None /\ editor = None
            /\ pending = None /\ toggling = None /\ testing = None /\ testingAll = None
            /\ tested = None /\ tester = None /\ deleting = None /\ transfer = None
            /\ childRef = None /\ childTimer = None

(***************************************************************************)
(* The pages.                                                              *)
(***************************************************************************)
Providers == INSTANCE ProvidersPage WITH
  Channel <- ListedChannel, InitialTable <- ChannelTables,
  MaxOps <- MaxOps["providers"], MaxCalls <- MaxCalls["providers"]

(* The form the providers page edits a channel with. *)
Form == INSTANCE ProviderForm WITH
  InitialTable <- ChannelRows, MaxEdits <- MaxEdits["form"]

Map == INSTANCE RouteMap WITH
  Channel <- RoutedChannel, Name <- RoutedName,
  InitialChannels <- RoutedChannels, InitialAliases <- RoutedAliases

Routes == INSTANCE RoutesPage WITH
  Id <- AliasId, InitialAliases <- AliasTables,
  MaxEdits <- MaxEdits["routes"], MaxOps <- MaxOps["routes"], MaxCalls <- MaxCalls["routes"]

Failover == INSTANCE FailoverForm WITH
  Name <- RuleName, Texts <- RetryText,
  MaxEdits <- MaxEdits["failover"], MaxOps <- MaxOps["failover"], MaxCalls <- MaxCalls["failover"]

Keys == INSTANCE KeysPage WITH
  Id <- KeyId, Name <- KeyName, Model <- KeyModel, Typed <- QuotaText,
  MaxEdits <- MaxEdits["keys"], MaxOps <- MaxOps["keys"], MaxCalls <- MaxCalls["keys"]

Models == INSTANCE ModelsPage WITH
  Model <- ListedModel, Typed <- MetadataText,
  MaxEdits <- MaxEdits["models"], MaxOps <- MaxOps["models"], MaxCalls <- MaxCalls["models"]

Settings == INSTANCE SettingsPage WITH
  Typed <- TimeoutText,
  MaxEdits <- MaxEdits["settings"], MaxOps <- MaxOps["settings"], MaxCalls <- MaxCalls["settings"]

(* What the server may hold when a page is opened: targets that pair a       *)
(* channel with a model of it, rules that are complete, and metadata that is *)
(* numbers or nothing.                                                       *)
IsSequence(s) == s \in Seq({s[k] : k \in DOMAIN s})
IsTarget(t) ==
  /\ t \in Routes!Draft
  /\ t.model # Blank => t.provider # Blank /\ t.model \in Offers[t.provider]
AreTargets(targets) == IsSequence(targets) /\ \A k \in DOMAIN targets : IsTarget(targets[k])
(* The channels of the map, its aliases, which have a target, and the        *)
(* policies: a fallback names an alias, or a model of a channel.             *)
MappedChannel == [enabled : BOOLEAN, type : Map!Type, direct : BOOLEAN, priority : Int,
                  models : Seq(RoutedName)]
MappedAlias   == [enabled : BOOLEAN, visible : BOOLEAN,
                  targets : Seq([provider : RoutedChannel, model : RoutedName])]
MappedPolicy  ==
  [enabled : BOOLEAN, mode : {"any_model", "same_model", "disabled"}, max : Int,
   custom : Seq([model : RoutedName,
                 fallbacks : Seq([provider : RoutedChannel \cup {None}, name : RoutedName])])]

AreMapped(t) == \A c \in RoutedChannel : t[c] # None => t[c] \in MappedChannel
AreTargeted(t) == \A a \in RoutedName : t[a] # None =>
  t[a] \in MappedAlias /\ t[a].targets # <<>>

(* The names of channels sort strictly, in either order.                     *)
IsRank(rank) == \A c, d \in RoutedChannel :
  rank[c] \in Int /\ (rank[c] = rank[d] => c = d)

ASSUME MapAssumption ==
  /\ IsFiniteSet(RoutedChannel) /\ IsRank(LocaleRank) /\ IsRank(ByteRank)
  /\ None \notin RoutedChannel \cup RoutedName \cup Map!Type
  /\ None \notin MappedChannel \cup MappedAlias
  /\ None \notin {"provider_missing", "model_removed", "provider_disabled"}
  /\ \A t \in RoutedChannels : DOMAIN t = RoutedChannel /\ AreMapped(t)
  /\ \A t \in RoutedAliases : DOMAIN t = RoutedName /\ AreTargeted(t)
  /\ Policies \subseteq MappedPolicy

StoredAliases == [enabled : BOOLEAN, targets : Seq(Routes!Draft)]
ListedAliases == [id : AliasId, enabled : BOOLEAN, targets : Seq(Routes!Draft)]

(* The ids of the aliases that are stored are among the first so many.       *)
ASSUME AliasesAssumption ==
  /\ AliasId \subseteq Int /\ IsFiniteSet(AliasId)
  /\ None \notin StoredAliases /\ None \notin Seq(ListedAliases)
  /\ \A t \in AliasTables :
       /\ DOMAIN t = AliasId
       /\ \A id \in AliasId : t[id] # None =>
            /\ t[id] \in StoredAliases /\ AreTargets(t[id].targets)
            /\ id <= Cardinality({i \in AliasId : t[i] # None})

StoredKeys == [name : KeyName \cup {Blank}, quota : Int \cup {None}, models : SUBSET KeyModel]
ListedKeys == [id : KeyId, name : KeyName \cup {Blank}, quota : Int \cup {None},
               models : SUBSET KeyModel]

(* Keys are numbered as they are created, those that are stored first.       *)
ASSUME KeysAssumption ==
  /\ IsFiniteSet(KeyId) /\ KeyId = 1..Cardinality(KeyId)
  /\ None \notin StoredKeys /\ None \notin Seq(ListedKeys)
  /\ MicroUSDPerUSD \in Nat \ {0} /\ QuotaText \subseteq Int \cup {Blank}
  /\ \A t \in InitialKeys :
       /\ t = [id \in KeyId |-> t[id]]
       /\ \A id \in KeyId : t[id] # None =>
            t[id] \in StoredKeys /\ id <= Cardinality({i \in KeyId : t[i] # None})

(* A row of the table of channels, and the values that are no text.          *)
IsRow(r) ==
  /\ r = [type |-> r.type, targetBaseUrl |-> r.targetBaseUrl, systemPrompt |-> r.systemPrompt,
          models |-> r.models, context |-> r.context, priority |-> r.priority,
          visibility |-> r.visibility, mode |-> r.mode, extra |-> r.extra, auth |-> r.auth,
          enabled |-> r.enabled]
  /\ r.type \in Form!Type /\ r.targetBaseUrl \in {Blank, "url"}
  /\ r.systemPrompt \in {None, "prompt"} /\ r.models \in Seq(Model \cup {Blank})
  /\ r.priority \in {"0", "1"} /\ r.visibility \in Form!Visibility
  /\ r.mode \in Form!Mode \cup {None} /\ r.extra \in {None, "vendor"}
  /\ r.auth # None => r.auth.header \in Form!Header /\ r.auth.value \in Credential

ASSUME FormAssumption ==
  /\ IsFiniteSet(Model) /\ MaxAsked \in Nat
  /\ Blank \notin {"0", "1", "prompt", "vendor", "mode", "broken", "fraction", "word"}
  /\ None \notin {Blank, Null, "prompt", "vendor"} \cup Form!Mode \cup Form!Header
  /\ \A h \in Form!Header \cup {None}, v \in Credential :
       [header |-> h, value |-> v] \notin {None, Null}
  /\ \A t \in ChannelRows :
       t = [n \in Channel |-> t[n]] /\ \A n \in Channel : t[n] # None => IsRow(t[n])

AreRules(rules) ==
  /\ IsSequence(rules)
  /\ \A k \in DOMAIN rules :
       DOMAIN rules[k] = {"model", "fallbacks"} /\ IsSequence(rules[k].fallbacks)

(* A policy has rules that are records, the codes a save knows, and values   *)
(* the form can show.                                                        *)
AreRecords(rules) ==
  \A k \in DOMAIN rules : rules[k] = [model |-> rules[k].model, fallbacks |-> rules[k].fallbacks]
IsPolicy(p) ==
  /\ DOMAIN p = {"enabled", "mode", "attempts", "custom", "codes"}
  /\ p.codes \subseteq {408, 429} /\ AreRecords(p.custom)

ASSUME PoliciesAssumption ==
  /\ \A f \in Fallbacks : IsSequence(f)
  /\ \A p \in InitialPolicies :
       /\ IsPolicy(p) /\ AreRules(p.custom) /\ Failover!CompleteRules(p.custom)
       /\ p.attempts \in 0..5 /\ p.mode \in Failover!Mode

IsMetadata(x) ==
  /\ x.context \in Int \cup {None}
  /\ x.pricing # None => \A p \in Models!Price : x.pricing[p] \in Int \cup {None}

ASSUME MetadataAssumption ==
  /\ None \notin Int /\ MetadataText \subseteq Int \cup {Blank}
  /\ \A list \in ServedModels : \A x \in DOMAIN list :
       IsMetadata(list[x]) /\ (list[x].override # None => IsMetadata(list[x].override))

ASSUME TimeoutsAssumption ==
  /\ Defaults \in [Field -> Int] /\ InitialTimeouts \subseteq [Field -> Int]
  /\ TimeoutText \subseteq Int \cup {Blank}

(***************************************************************************)
(* One page at a time.                                                     *)
(***************************************************************************)
Init ==
  \/ /\ page = "providers" /\ Providers!Init
     /\ NoForm /\ NoEdit /\ NoTable /\ NoRoutes /\ NoModels /\ NoKeys
     /\ stored = None /\ dialog = None /\ edits = None /\ aliases = None /\ policy = None
     /\ flags = None /\ served = None /\ feedback = None /\ saving = None /\ loading = None
     /\ settings = None /\ told = None
  \/ /\ page = "form" /\ Form!Init
     /\ NoCalls /\ NoTable /\ NoRoutes /\ NoModels /\ NoKeys /\ NoList
     /\ channels = None /\ aliases = None /\ policy = None /\ flags = None /\ served = None
     /\ feedback = None /\ saving = None /\ loading = None /\ settings = None /\ told = None
  \/ /\ page = "map" /\ Map!Init
     /\ NoCalls /\ NoForm /\ NoEdit /\ NoTable /\ NoRoutes /\ NoModels /\ NoKeys /\ NoList
     /\ stored = None /\ dialog = None /\ edits = None /\ flags = None /\ served = None
     /\ feedback = None /\ saving = None /\ loading = None /\ settings = None /\ told = None
  \/ /\ page = "routes" /\ Routes!Init
     /\ NoForm /\ NoEdit /\ NoModels /\ NoKeys /\ NoList
     /\ channels = None /\ stored = None /\ policy = None /\ served = None
     /\ feedback = None /\ saving = None /\ loading = None /\ settings = None
  \/ /\ page = "failover" /\ Failover!Init
     /\ NoForm /\ NoTable /\ NoRoutes /\ NoModels /\ NoKeys /\ NoList
     /\ channels = None /\ stored = None /\ dialog = None /\ aliases = None
     /\ saving = None /\ loading = None /\ settings = None /\ told = None
  \/ /\ page = "keys" /\ Keys!Init
     /\ NoForm /\ NoEdit /\ NoRoutes /\ NoModels /\ NoList
     /\ channels = None /\ stored = None /\ aliases = None /\ policy = None
     /\ flags = None /\ served = None /\ feedback = None /\ loading = None /\ settings = None
  \/ /\ page = "models" /\ Models!Init
     /\ NoForm /\ NoEdit /\ NoTable /\ NoRoutes /\ NoKeys /\ NoList
     /\ excused = None /\ channels = None /\ stored = None /\ dialog = None /\ aliases = None
     /\ policy = None /\ flags = None /\ feedback = None /\ settings = None /\ told = None
  \/ /\ page = "settings" /\ Settings!Init
     /\ NoForm /\ NoTable /\ NoRoutes /\ NoModels /\ NoKeys /\ NoList
     /\ channels = None /\ dialog = None /\ aliases = None /\ policy = None
     /\ flags = None /\ served = None /\ told = None

Next ==
  \/ /\ page = "providers" /\ Providers!Next
     /\ UNCHANGED <<page, formVars, editVars, tableVars, routeVars, modelVars, keyVars, stored,
          dialog, edits, aliases, policy, flags, served, feedback, saving, loading, settings, told>>
  \/ /\ page = "form" /\ Form!Next
     /\ UNCHANGED <<common, tableVars, routeVars, modelVars, keyVars, listVars, channels,
          aliases, policy, flags, served, feedback, saving, loading, settings, told>>
  \/ /\ page = "map" /\ Map!Next
     /\ UNCHANGED <<common, formVars, editVars, tableVars, routeVars, modelVars, keyVars, listVars,
          stored, dialog, edits, flags, served, feedback, saving, loading, settings, told>>
  \/ /\ page = "routes" /\ Routes!Next
     /\ UNCHANGED <<page, formVars, editVars, modelVars, keyVars, listVars, channels, stored,
          policy, served, feedback, saving, loading, settings>>
  \/ /\ page = "failover" /\ Failover!Next
     /\ UNCHANGED <<page, formVars, tableVars, routeVars, modelVars, keyVars, listVars, channels,
          stored, dialog, aliases, saving, loading, settings, told>>
  \/ /\ page = "keys" /\ Keys!Next
     /\ UNCHANGED <<page, formVars, editVars, routeVars, modelVars, listVars, channels, stored,
          aliases, policy, flags, served, feedback, loading, settings>>
  \/ /\ page = "models" /\ Models!Next
     /\ UNCHANGED <<page, excused, formVars, editVars, tableVars, routeVars, keyVars, listVars,
          channels, stored, dialog, aliases, policy, flags, feedback, settings, told>>
  \/ /\ page = "settings" /\ Settings!Next
     /\ UNCHANGED <<page, formVars, tableVars, routeVars, modelVars, keyVars, listVars, channels,
          dialog, aliases, policy, flags, served, told>>

vars == <<common, formVars, editVars, tableVars, routeVars, modelVars, keyVars, listVars,
          channels, stored, dialog, edits, aliases, policy, flags, served, feedback, saving,
          loading, settings, told>>

Spec == Init /\ [][Next]_vars

(***************************************************************************)
(* Properties.                                                             *)
(***************************************************************************)
(* The state of a page has its types; forms stay well formed, lists show     *)
(* nothing twice, and while a page is up one load, save or create of it is   *)
(* out exactly as long as it says so.                                        *)
TypeOK ==
  /\ page = "providers" => Providers!TypeOK
  /\ page = "form"      => Form!TypeOK
  /\ page = "map"       => Map!TypeOK
  /\ page = "routes"    => Routes!TypeOK
  /\ page = "failover"  => Failover!TypeOK
  /\ page = "keys"      => Keys!TypeOK
  /\ page = "models"    => Models!TypeOK
  /\ page = "settings"  => Settings!TypeOK

(* One save, one deletion and one load of the providers and the routes page  *)
(* are out at most, also when a dialog is closed and opened again while the  *)
(* first answer is missing; and every page keeps its types.                  *)
OneAtATime ==
  /\ TypeOK
  /\ page = "providers" => Providers!OneAtATime
  /\ page = "routes"    => Routes!OneAtATime

(* No switch, button or spinner of a row waits for ever: it has an answer to *)
(* come, whatever other rows do, and a channel's switch is never out twice.  *)
SpinnersBacked ==
  /\ page = "providers" => Providers!TogglingExact /\ Providers!SpinnersBacked
  /\ page = "routes"    => Routes!SpinnersBacked
  /\ page = "keys"      => Keys!SpinnersBacked

(* When nothing is out, a page shows what the server has, though lists are   *)
(* patched with answers and forms are filled from them.  Excused are loads   *)
(* and writes that crossed, lost answers, an import that failed half way,    *)
(* and a load the server answered with its defaults, which it could not      *)
(* read.  What no answer tells a page stays as it was last told, after one   *)
(* plain call that succeeds too, and the property says of which fields: the  *)
(* enabled flag of an alias that was switched, the quota of a key, and its   *)
(* models.                                                                   *)
QuietMeansFresh ==
  /\ page = "providers" => Providers!QuietMeansFresh
  /\ page = "routes"    => Routes!QuietMeansFresh
  /\ page = "failover"  => Failover!QuietMeansFresh
  /\ page = "keys"      => Keys!QuietMeansFresh
  /\ page = "settings"  => Settings!QuietMeansFresh

(* What a page sends is about what it shows and can be used: the channel     *)
(* saved is the one whose data fills the form, a target names a model of its *)
(* channel, a stored rule is complete, metadata makes a window and prices,   *)
(* and a test result is of the model it stands under, unless a test was      *)
(* started while another was out.                                            *)
SendsWhatItShows ==
  /\ page = "providers" => Providers!SavesWhatItShows
  /\ page = "routes"    => Routes!PairsOffered
  /\ page = "failover"  => Failover!StoredRulesComplete
  /\ page = "models"    => Models!SentMetadataUsable /\ Models!ResultOfModel

(* A save changes nothing the user left alone and shows what was typed when  *)
(* the form is opened again, with two exceptions of the channel form that    *)
(* the property pins: every save drops the contexts and prices of the        *)
(* channel's models, and a credential that was cleared stays in force.       *)
(* Models of the upstream are added once; and the form stays open when a     *)
(* dialog above it is closed.  For the policy and the timeouts, saves that   *)
(* crossed a load or lost an answer are excused.                             *)
FormsFaithful ==
  [][/\ page = "form" => Form!UntouchedFieldsKept /\ Form!ShowsWhatWasSaved /\ Form!SyncAddsOnce
     /\ page = "failover"  => Failover!UneditedPolicyKept
     /\ page = "settings"  => Settings!UneditedTimeoutsKept
     /\ page = "providers" => Providers!FormSurvivesChildren]_vars

(* The route map of the console is the gateway's: the routes in use are      *)
(* tried, none is hidden that is tried while there is room for it, models    *)
(* told to clients have routes, covered routes stay covered, an alias        *)
(* without a badge works, and where names sort alike in both places the      *)
(* first route in use is the first tried and the order shown the order tried.*)
MapIsTheGateways ==
  page = "map" =>
    /\ Map!ShownRoutesAreTried /\ Map!TriedRoutesAreShown
    /\ Map!ListedModelsAreMapped /\ Map!CoveredRoutesAreCovered /\ Map!UnmarkedAliasesWork
    /\ Map!NamesSortAlike => Map!FirstShownIsFirstTried /\ Map!SameModelInOrder

(* The quota stored for a key is what was typed in USD                       *)
(* (i18n/locales/en.ts:684).                                                 *)
QuotaAsTyped == [][page = "keys" => Keys!QuotaAsTyped]_vars
=============================================================================
