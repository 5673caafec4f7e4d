---------------------------- MODULE ProviderForm ----------------------------
(***************************************************************************)
(* The channel dialog of the console (dashboard/components/                *)
(* providers-page.tsx) together with what the console API does with the    *)
(* payload it sends (consoleapi/api.go, repo/provider.go): a stored        *)
(* channel becomes a form, the form is edited, its models are completed    *)
(* from the upstream's list, and the form becomes a stored channel again.  *)
(* Text is taken up to surrounding white space, which the code trims;      *)
(* Blank is the text that is empty after that.                             *)
(***************************************************************************)
EXTENDS Integers, Sequences, FiniteSets, Functions, OrderedLists

CONSTANTS
  Channel,     \* channel names
  Model,       \* model identifiers
  Credential,  \* credentials a user may type
  Blank,       \* the empty text
  None,        \* a column that is null, a property that is absent
  Null,        \* null sent on purpose
  MaxEdits,    \* edits of one opened form, requests of the upstream's
               \* models included (bound)
  MaxRows,     \* model rows of the form (bound)
  MaxSaves,    \* submissions that reach the server (bound)
  MaxAsked,    \* requests of the upstream's models out at a time (bound)
  InitialTable \* the tables of channels considered at the start

VARIABLES
  stored,   \* the console_providers table: a row or None for every name
  dialog,   \* the dialog: open, its mode, the channel it edits, its error
  form,     \* formState
  edited,   \* history: the fields changed since the form was filled
  edits, saves,
  sync,     \* the dialog that lists the upstream's models
  asked     \* the upstream list calls still out, each with the models it knew

vars == <<stored, dialog, form, edited, edits, saves, sync, asked>>

Type       == {"anthropic", "openai"}
Header     == {"x-api-key", "authorization"}
Mode       == {"native", "chat_compat", "disabled"}
Visibility == {"direct", "explicit_only"}

Stored(n) == stored[n] # None

(***************************************************************************)
(* The form of a channel.                                                  *)
(***************************************************************************)
DefaultHeader(type) == IF type = "anthropic" THEN "x-api-key" ELSE "authorization"

(* The row as the API returns it: responsesMode is read out of the extra     *)
(* fields, where it defaults to native.                                      *)
Info(n) ==
  [channelName |-> n, row |-> stored[n],
   responsesMode |-> IF stored[n].mode = None THEN "native" ELSE stored[n].mode]

EmptyForm ==
  [channelName |-> Blank, type |-> "anthropic", targetBaseUrl |-> Blank,
   priority |-> "0", visibility |-> "direct", systemPrompt |-> Blank,
   authHeader |-> "auto", responsesMode |-> "native",
   apiKey |-> Blank, apiKeyDirty |-> FALSE, clearAuth |-> FALSE,
   extra |-> Blank, models |-> <<Blank>>]

Text(v) == IF v = None THEN Blank ELSE v

ShownHeader(row) ==
  IF row.auth = None \/ row.auth.header = DefaultHeader(row.type)
  THEN "auto" ELSE row.auth.header

CreateFormState(info) ==
  [channelName |-> info.channelName,
   type |-> info.row.type,
   targetBaseUrl |-> info.row.targetBaseUrl,
   priority |-> info.row.priority,
   visibility |-> info.row.visibility,
   systemPrompt |-> Text(info.row.systemPrompt),
   authHeader |-> ShownHeader(info.row),
   responsesMode |-> info.responsesMode,
   apiKey |-> IF info.row.auth = None THEN Blank ELSE info.row.auth.value,
   apiKeyDirty |-> FALSE, clearAuth |-> FALSE,
   extra |-> Text(info.row.extra),
   models |-> IF info.row.models = <<>> THEN <<Blank>> ELSE info.row.models]

(***************************************************************************)
(* The payload of a form.  An Extra Fields text is Blank, a JSON object    *)
(* ("vendor"), an object that only names responsesMode ("mode"), or no     *)
(* JSON object at all ("broken"), on which the submission stops.  A        *)
(* priority is a numeral, a numeral the API cannot take ("fraction"), or   *)
(* no number ("word": NaN, which JSON renders as null).                    *)
(***************************************************************************)
Named(models) == Picked(models, {i \in DOMAIN models : models[i] # Blank})

Priority(text) == IF text \in {Blank, "word"} THEN "0" ELSE text

(* auth: None leaves the property out, Null sends null. *)
Credentials(f) ==
  IF f.apiKey = Blank THEN Null
  ELSE [header |-> IF f.authHeader = "auto" THEN None ELSE f.authHeader,
        value |-> f.apiKey]

PayloadAuth(f, mode) ==
  IF f.clearAuth THEN Null
  ELSE IF mode = "create" THEN IF f.apiKey = Blank THEN None ELSE Credentials(f)
  ELSE IF f.apiKeyDirty THEN Credentials(f) ELSE None

BuildPayload(f, mode) ==
  [channelName |-> f.channelName, type |-> f.type,
   targetBaseUrl |-> f.targetBaseUrl,
   systemPrompt |-> IF f.systemPrompt = Blank THEN None ELSE f.systemPrompt,
   models |-> Named(f.models), priority |-> Priority(f.priority),
   visibility |-> f.visibility,
   responsesMode |-> IF f.type = "openai" THEN f.responsesMode ELSE None,
   extra |-> f.extra,
   auth |-> PayloadAuth(f, mode)]

Parses(f) == f.extra # "broken"

(***************************************************************************)
(* The API.  A payload whose auth is missing or null decodes to the same   *)
(* nil; an update then keeps the stored credential.                        *)
(***************************************************************************)
Accepted(p, mode) ==
  /\ p.priority # "fraction"
  /\ mode = "create" => p.channelName # Blank

InputAuth(p) ==
  IF p.auth \in {None, Null} THEN None
  ELSE [header |-> IF p.auth.header = None THEN DefaultHeader(p.type) ELSE p.auth.header,
        value |-> p.auth.value]

InputMode(p) ==
  IF p.responsesMode # None THEN p.responsesMode
  ELSE IF p.extra = "mode" THEN "chat_compat" ELSE None

InputRow(p, enabled, auth) ==
  [type |-> p.type, targetBaseUrl |-> p.targetBaseUrl,
   systemPrompt |-> p.systemPrompt, models |-> p.models, context |-> FALSE,
   priority |-> p.priority, visibility |-> p.visibility,
   mode |-> InputMode(p),
   extra |-> IF p.extra \in {Blank, "mode"} THEN None ELSE p.extra,
   auth |-> auth, enabled |-> enabled]

Upserted(p) == [stored EXCEPT ![p.channelName] = InputRow(p, TRUE, InputAuth(p))]

NextName(n, p) == IF p.channelName = Blank THEN n ELSE p.channelName

KeptAuth(n, p) == IF p.auth \in {None, Null} THEN stored[n].auth ELSE InputAuth(p)

CanUpdate(n, p) ==
  /\ Stored(n)
  /\ NextName(n, p) # n => ~Stored(NextName(n, p))

Updated(n, p) ==
  [[stored EXCEPT ![n] = None]
     EXCEPT ![NextName(n, p)] = InputRow(p, stored[n].enabled, KeptAuth(n, p))]

(***************************************************************************)
(* Opening, editing, cancelling.                                           *)
(***************************************************************************)
NoSync == [open |-> FALSE, loading |-> FALSE, error |-> FALSE,
           models |-> {}, selected |-> {}]

Init ==
  /\ stored \in InitialTable
  /\ dialog = [open |-> FALSE, mode |-> "create", of |-> None, error |-> FALSE]
  /\ form = EmptyForm
  /\ edited = {} /\ edits = 0 /\ saves = 0
  /\ sync = NoSync /\ asked = <<>>

Show(mode, n, f) ==
  /\ dialog' = [open |-> TRUE, mode |-> mode, of |-> n, error |-> FALSE]
  /\ form' = f
  /\ edited' = {} /\ edits' = 0

OpenCreateDialog ==
  /\ ~dialog.open /\ saves < MaxSaves
  /\ Show("create", None, EmptyForm)
  /\ UNCHANGED <<stored, saves, sync, asked>>

(* The dialog of a stored channel, once its detail has come.  When the       *)
(* detail cannot be had, the form keeps the values of the table row, which   *)
(* are the same ones here, under an error.                                   *)
OpenEditDialog(n) ==
  /\ ~dialog.open /\ saves < MaxSaves /\ Stored(n)
  /\ Show("edit", n, CreateFormState(Info(n)))
  /\ UNCHANGED <<stored, saves, sync, asked>>

OnTop == dialog.open /\ ~sync.open

Change(f, fields) ==
  /\ OnTop /\ edits < MaxEdits
  /\ form' = f /\ edited' = edited \cup fields /\ edits' = edits + 1
  /\ UNCHANGED <<stored, dialog, saves, sync, asked>>

EditName == \E n \in Channel \cup {Blank} :
  Change([form EXCEPT !.channelName = n], {"channelName"})

EditType == \E type \in Type :
  Change([form EXCEPT !.type = type], {"type"})

EditUrl == \E url \in {Blank, "url"} :
  Change([form EXCEPT !.targetBaseUrl = url], {"targetBaseUrl"})

EditResponsesMode == \E mode \in Mode :
  /\ form.type = "openai"
  /\ Change([form EXCEPT !.responsesMode = mode], {"responsesMode"})

EditPriority == \E text \in {Blank, "1", "fraction", "word"} :
  Change([form EXCEPT !.priority = text], {"priority"})

EditVisibility == \E v \in Visibility :
  Change([form EXCEPT !.visibility = v], {"visibility"})

EditSystemPrompt == \E text \in {Blank, "prompt"} :
  Change([form EXCEPT !.systemPrompt = text], {"systemPrompt"})

EditExtra == \E text \in {Blank, "vendor", "mode", "broken"} :
  Change([form EXCEPT !.extra = text], {"extra"})

(* Choosing an auth method counts as touching the credential. *)
EditAuthHeader == \E h \in Header \cup {"auto"} :
  Change([form EXCEPT !.authHeader = h, !.apiKeyDirty = TRUE, !.clearAuth = FALSE],
         {"auth"})

EditCredential == \E k \in Credential \cup {Blank} :
  Change([form EXCEPT !.apiKey = k, !.apiKeyDirty = TRUE, !.clearAuth = FALSE],
         {"auth"})

ClearAuth ==
  /\ dialog.mode = "edit"
  /\ Change([form EXCEPT !.apiKey = Blank, !.apiKeyDirty = TRUE, !.clearAuth = TRUE],
            {"auth"})

UpdateModelRow == \E i \in DOMAIN form.models, m \in Model \cup {Blank} :
  Change([form EXCEPT !.models[i] = m], {"models"})

AddModelRow ==
  /\ Len(form.models) < MaxRows
  /\ Change([form EXCEPT !.models = Append(@, Blank)], {"models"})

RemovedRow(i) ==
  IF Len(form.models) > 1 THEN WithoutAt(form.models, i) ELSE <<Blank>>

RemoveModelRow == \E i \in DOMAIN form.models :
  Change([form EXCEPT !.models = RemovedRow(i)], {"models"})

Cancel ==
  /\ OnTop
  /\ dialog' = [dialog EXCEPT !.open = FALSE]
  /\ UNCHANGED <<stored, form, edited, edits, saves, sync, asked>>

(***************************************************************************)
(* The upstream's models.                                                  *)
(***************************************************************************)
Known == Range(Named(form.models))

(* The list is asked for with the form's credential, or by the form's        *)
(* channel name when it has none; without either the dialog shows an error.  *)
OpenSyncDialog ==
  /\ OnTop /\ form.targetBaseUrl # Blank
  /\ edits < MaxEdits /\ Len(asked) < MaxAsked /\ edits' = edits + 1
  /\ LET sent == form.apiKey # Blank \/ form.channelName # Blank IN
       /\ sync' = [NoSync EXCEPT !.open = TRUE, !.loading = sent, !.error = ~sent]
       /\ asked' = IF sent
                   THEN Append(asked, [known |-> Known,
                                       found |-> form.apiKey # Blank \/ Stored(form.channelName)])
                   ELSE asked
  /\ UNCHANGED <<stored, dialog, form, edited, saves>>

(* Answers come in any order, also after the dialog that asked was closed. *)
SyncAnswer == \E i \in DOMAIN asked :
  /\ asked' = WithoutAt(asked, i)
  /\ \/ /\ asked[i].found
        /\ \E models \in SUBSET Model :
             sync' = [sync EXCEPT !.loading = FALSE, !.models = models,
                                  !.selected = models \ asked[i].known]
     \/ sync' = [sync EXCEPT !.loading = FALSE, !.error = TRUE]
  /\ UNCHANGED <<stored, dialog, form, edited, edits, saves>>

Listed == sync.open /\ ~sync.loading /\ ~sync.error

Select ==
  /\ Listed
  /\ \/ \E m \in sync.models :
          \/ sync' = [sync EXCEPT !.selected = @ \cup {m}]
          \/ sync' = [sync EXCEPT !.selected = @ \ {m}]
     \/ sync' = [sync EXCEPT !.selected = sync.models]
     \/ sync' = [sync EXCEPT !.selected = {}]
  /\ UNCHANGED <<stored, dialog, form, edited, edits, saves, asked>>

ToAddSelected == sync.selected
ToAdd         == sync.selected \ Known

(* Blank rows give way to the models added. *)
HandleSyncConfirm ==
  /\ sync.open /\ ~sync.loading /\ sync.selected # {}
  /\ sync' = [sync EXCEPT !.open = FALSE]
  /\ IF ToAdd = {} THEN UNCHANGED <<form, edited>>
     ELSE /\ form' = [form EXCEPT !.models = Named(@) \o Listing(ToAdd)]
          /\ edited' = edited \cup {"models"}
  /\ UNCHANGED <<stored, dialog, edits, saves, asked>>

CloseSync ==
  /\ sync.open
  /\ sync' = [sync EXCEPT !.open = FALSE]
  /\ UNCHANGED <<stored, dialog, form, edited, edits, saves, asked>>

(***************************************************************************)
(* Saving.                                                                 *)
(***************************************************************************)
Payload == BuildPayload(form, dialog.mode)

Succeeds ==
  /\ Accepted(Payload, dialog.mode)
  /\ dialog.mode = "edit" => CanUpdate(dialog.of, Payload)

Applied == IF dialog.mode = "create" THEN Upserted(Payload) ELSE Updated(dialog.of, Payload)

(* The submission is stopped by the form, refused by the API, carried out,   *)
(* or carried out without the page hearing of it.                            *)
HandleSubmit ==
  /\ OnTop /\ saves < MaxSaves
  /\ saves' = saves + 1
  /\ \/ /\ ~(Parses(form) /\ Succeeds)
        /\ dialog' = [dialog EXCEPT !.error = TRUE]
        /\ UNCHANGED stored
     \/ /\ Parses(form) /\ Succeeds
        /\ stored' = Applied
        /\ \/ dialog' = [dialog EXCEPT !.open = FALSE, !.error = FALSE]
           \/ dialog' = [dialog EXCEPT !.error = TRUE]
  /\ UNCHANGED <<form, edited, edits, sync, asked>>

Edit == \/ EditName \/ EditType \/ EditUrl \/ EditResponsesMode \/ EditPriority
        \/ EditVisibility \/ EditSystemPrompt \/ EditExtra \/ EditAuthHeader
        \/ EditCredential \/ ClearAuth \/ UpdateModelRow \/ AddModelRow
        \/ RemoveModelRow

Next ==
  \/ OpenCreateDialog
  \/ \E n \in Channel : OpenEditDialog(n)
  \/ Edit
  \/ Cancel
  \/ OpenSyncDialog \/ SyncAnswer \/ Select \/ HandleSyncConfirm \/ CloseSync
  \/ HandleSubmit

Spec == Init /\ [][Next]_vars

(***************************************************************************)
(* Properties.                                                             *)
(***************************************************************************)
FormType ==
  [channelName : Channel \cup {Blank}, type : Type, targetBaseUrl : {Blank, "url"},
   priority : {Blank, "0", "1", "fraction", "word"}, visibility : Visibility,
   systemPrompt : {Blank, "prompt"}, authHeader : Header \cup {"auto"},
   responsesMode : Mode, apiKey : Credential \cup {Blank},
   apiKeyDirty : BOOLEAN, clearAuth : BOOLEAN,
   extra : {Blank, "vendor", "mode", "broken"}, models : Seq(Model \cup {Blank})]

(* The form is well formed and always has a model row to type in, although   *)
(* rows are removed one by one and replaced by the upstream's list.          *)
TypeOK ==
  /\ form \in FormType /\ form.models # <<>>
  /\ dialog \in [open : BOOLEAN, mode : {"create", "edit"},
                 of : Channel \cup {None}, error : BOOLEAN]
  /\ sync.selected \subseteq Model /\ sync.models \subseteq Model
  /\ Len(asked) <= MaxAsked

(* A save is a submission that changed the table through the edit dialog. *)
Saves == saves' = saves + 1 /\ stored' # stored /\ dialog.mode = "edit"

SavedName == NextName(dialog.of, Payload)

(* What is compared of two rows under each field of the form: channels of    *)
(* type openai without a responses mode behave as native ones, the others    *)
(* have no use for it.                                                       *)
Column(row, field) ==
  CASE field = "models"        -> Named(row.models)
    [] field = "responsesMode" -> IF row.type # "openai" THEN None
                                  ELSE IF row.mode = None THEN "native" ELSE row.mode
    [] field = "auth"          -> row.auth
    [] field = "type"          -> row.type
    [] field = "targetBaseUrl" -> row.targetBaseUrl
    [] field = "priority"      -> row.priority
    [] field = "visibility"    -> row.visibility
    [] field = "systemPrompt"  -> row.systemPrompt
    [] field = "extra"         -> row.extra
    [] field = "enabled"       -> row.enabled

Columns == {"models", "responsesMode", "auth", "type", "targetBaseUrl", "priority",
            "visibility", "systemPrompt", "extra", "enabled"}

(* What the models keep beside their names: context lengths and prices.      *)
ModelDetails(row) == row.context

(* A column of the row whose field the user did not touch keeps its stored   *)
(* value across a save, through form and payload and back, the credential    *)
(* and a disabled channel's state included.  (Changing the type or the extra *)
(* fields may change the responses mode as well.)  Of the models that is     *)
(* true of their names only: every save drops their contexts and prices,     *)
(* touched or not, and this says so.                                         *)
UntouchedFieldsKept ==
  Saves =>
    /\ \A field \in Columns \ edited :
         \/ field = "responsesMode" /\ edited \cap {"type", "extra"} # {}
         \/ Column(stored'[SavedName], field) = Column(stored[dialog.of], field)
    /\ ~ModelDetails(stored'[SavedName])

(* What was typed is what the dialog shows when the channel is opened again, *)
(* whichever fields were changed together; but a credential that was cleared *)
(* or blanked is there again, the stored one kept as it was, though the form *)
(* says it is removed on save (i18n/locales/en.ts:401).                      *)
Reopened == CreateFormState([channelName |-> SavedName, row |-> stored'[SavedName],
                             responsesMode |-> IF stored'[SavedName].mode = None THEN "native"
                                               ELSE stored'[SavedName].mode])

ShowsWhatWasSaved ==
  Saves =>
    /\ \A field \in {"type", "targetBaseUrl", "visibility", "systemPrompt"} :
         Reopened[field] = form[field]
    /\ Named(Reopened.models) = Named(form.models)
    /\ form.type = "openai" => Reopened.responsesMode = form.responsesMode
    /\ form.extra \in {Blank, "vendor"} => Reopened.extra = form.extra
    /\ form.apiKey # Blank =>
         /\ Reopened.apiKey = form.apiKey
         /\ form.apiKeyDirty => Reopened.authHeader = IF form.authHeader = DefaultHeader(form.type)
                                                    THEN "auto" ELSE form.authHeader
    /\ form.apiKey = Blank => stored'[SavedName].auth = stored[dialog.of].auth
    /\ Reopened.priority = Priority(form.priority)

(* Adding the upstream's models keeps every model of the form and adds none  *)
(* twice, also when the answer that filled the list came from an earlier     *)
(* dialog and the form has changed since.                                    *)
SyncAddsOnce ==
  form.models # form'.models /\ sync.open /\ dialog.open =>
    LET added == Len(form'.models) - Len(Named(form.models))
    IN /\ SubSeq(form'.models, 1, Len(Named(form.models))) = Named(form.models)
       /\ added = Cardinality(Range(form'.models) \ Known)
=============================================================================
