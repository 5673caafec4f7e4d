------------------------------ MODULE KeysPage ------------------------------
(***************************************************************************)
(* The keys page of the console (dashboard/components/keys-page.tsx) and   *)
(* the calls behind it (handleKeys and handleKeyDetail in                  *)
(* internal/consoleapi/api.go, internal/repo/apikey.go).  One of the       *)
(* page's dialogs is open at a time, for each is modal; a save may be out  *)
(* for a dialog that was closed or opened again for another key since.     *)
(* Money is counted in micro-USD.  Left out: copying a key, which changes  *)
(* only the clipboard, and the messages shown.                             *)
(***************************************************************************)
EXTENDS Integers, Sequences, FiniteSets, OrderedLists

CONSTANTS
  Id,              \* ids of keys, 1..n in the order they are created (bound)
  Name, Model,
  None, Blank,     \* nothing; an empty text
  Typed,           \* the quotas the user types: Blank or micro-USD
  MicroUSDPerUSD,
  MaxEdits, MaxOps, MaxCalls,  \* bounds
  InitialKeys

VARIABLES
  table,      \* the server's keys: None or [name, quota, models]
  lastId,     \* the last id the server gave
  keys,       \* the list shown, None while there is none
  error,      \* whether an error is shown
  dialog,     \* None or the open dialog: [op, id, draft]
  newKey,     \* newKeyName and newKeyQuotaDraft
  visible,    \* whether the dialog of a new key's text is open
  creating,
  saving,     \* renamingId, savingModelsId, savingQuotaId, deletingId
  calls,      \* the calls that are out
  signedOut,
  ops, edits,
  told,       \* history: the quota and models of each key as the page was last told them
  excused     \* history: see QuietMeansFresh

server == <<table, lastId>>
page == <<keys, error, dialog, newKey, visible, creating, saving>>
vars == <<server, page, calls, signedOut, ops, edits, told, excused>>

Edited == {"rename", "models", "quota"}
Writes == Edited \cup {"create", "delete"}

Call(kind, id, val) ==
  [kind |-> kind, id |-> id, val |-> val, at |-> "sent", rows |-> None]

Init ==
  /\ table \in InitialKeys /\ lastId = Cardinality({i \in Id : table[i] # None})
  /\ keys = None /\ error = FALSE /\ dialog = None
  /\ newKey = [name |-> Blank, quota |-> Blank] /\ visible = FALSE
  /\ creating = FALSE /\ saving = [op \in Edited \cup {"delete"} |-> None]
  /\ calls = <<Call("load", None, None)>>
  /\ signedOut = FALSE /\ ops = 0 /\ edits = 0
  /\ told = [i \in Id |-> None] /\ excused = FALSE

(***************************************************************************)
(* The user.  Without a list, an error hides the rest of the page.         *)
(***************************************************************************)
Shown == ~signedOut /\ ~(error /\ keys = None)
Plain == Shown /\ dialog = None /\ ~visible
Row(id) == keys # None /\ \E k \in DOMAIN keys : keys[k].id = id
RowOf(id) == keys[CHOOSE k \in DOMAIN keys : keys[k].id = id]

Crosses(kind, id) ==
  \E i \in DOMAIN calls :
    \/ kind = "load" /\ calls[i].kind \in Writes
    \/ kind \in Writes /\ calls[i].kind = "load"
    \/ kind \in Edited /\ calls[i].kind \in Edited /\ calls[i].id = id

Operate(kind, id, val) ==
  /\ ops < MaxOps /\ Len(calls) < MaxCalls
  /\ ops' = ops + 1
  /\ calls' = Append(calls, Call(kind, id, val))
  /\ excused' = (excused \/ Crosses(kind, id))
  /\ UNCHANGED <<server, signedOut, edits, told>>

Quietly == UNCHANGED <<server, calls, signedOut, ops, told, excused>>

Edit ==
  /\ Shown /\ ~visible /\ edits < MaxEdits /\ edits' = edits + 1
  /\ Quietly /\ UNCHANGED <<keys, error, visible, creating, saving>>

LoadKeys ==
  /\ Plain /\ Operate("load", None, None)
  /\ UNCHANGED page

Open(op, id, draft) == dialog' = [op |-> op, id |-> id, draft |-> draft]

OpenDialog(op, id) ==
  /\ Plain /\ Row(id) /\ op \in {"rename", "quota"}
  /\ Open(op, id, IF op = "rename" THEN RowOf(id).name
                  ELSE IF RowOf(id).quota = None THEN Blank ELSE RowOf(id).quota)
  /\ Quietly /\ UNCHANGED <<keys, error, newKey, visible, creating, saving, edits>>

OpenCreate ==
  /\ Plain /\ Open("create", None, None)
  /\ Quietly /\ UNCHANGED <<keys, error, newKey, visible, creating, saving, edits>>

(* The models of the channels are loaded each time the dialog opens; any     *)
(* model may be typed too.                                                   *)
OpenModelsDialog(id) ==
  /\ Plain /\ Row(id)
  /\ Open("models", id, RowOf(id).models)
  /\ Operate("catalog", None, None)
  /\ UNCHANGED <<keys, error, newKey, visible, creating, saving>>

Close ==
  /\ Shown /\ dialog # None /\ ~visible
  /\ dialog' = None
  /\ Quietly /\ UNCHANGED <<keys, error, newKey, visible, creating, saving, edits>>

CloseVisible ==
  /\ Shown /\ visible
  /\ visible' = FALSE
  /\ Quietly /\ UNCHANGED <<keys, error, dialog, newKey, creating, saving, edits>>

EditNewKey(name, quota) ==
  /\ dialog # None /\ dialog.op = "create" /\ newKey # [name |-> name, quota |-> quota]
  /\ newKey' = [name |-> name, quota |-> quota]
  /\ Edit /\ UNCHANGED dialog

EditDraft(op, text) ==
  /\ dialog # None /\ dialog.op = op /\ dialog.draft # text
  /\ dialog' = [dialog EXCEPT !.draft = text]
  /\ Edit /\ UNCHANGED newKey

EditRename(name) == EditDraft("rename", name)
EditQuota(quota) == EditDraft("quota", quota)

EditModels(models) == EditDraft("models", models)

AddModelRestriction(m) == EditModels(dialog.draft \cup {m})
RemoveModel(m)         == EditModels(dialog.draft \ {m})

CostQuota(text) == IF text = Blank THEN None ELSE text
Valid(op, draft) ==
  CASE op = "rename" -> draft # Blank
    [] op = "quota"  -> draft # Blank => draft >= 0
    [] op = "models" -> TRUE
Payload(op, draft) == IF op = "quota" THEN CostQuota(draft) ELSE draft

Refused == error' = TRUE /\ Quietly
           /\ UNCHANGED <<keys, dialog, newKey, visible, creating, saving, edits>>

CanCreate == Shown /\ ~visible /\ dialog # None /\ dialog.op = "create" /\ ~creating

HandleCreate ==
  /\ CanCreate
  /\ IF newKey.name = Blank \/ ~Valid("quota", newKey.quota)
     THEN ~error /\ Refused
     ELSE /\ creating' = TRUE
          /\ Operate("create", None, [name |-> newKey.name, quota |-> CostQuota(newKey.quota)])
          /\ UNCHANGED <<keys, error, dialog, newKey, visible, saving>>

HandleSave(op) ==
  /\ Shown /\ ~visible /\ dialog # None /\ dialog.op = op /\ saving[op] # dialog.id
  /\ IF ~Valid(op, dialog.draft)
     THEN ~error /\ Refused
     ELSE /\ saving' = [saving EXCEPT ![op] = dialog.id]
          /\ Operate(op, dialog.id, Payload(op, dialog.draft))
          /\ UNCHANGED <<keys, error, dialog, newKey, visible, creating>>

HandleRename == HandleSave("rename")
HandleSaveModels == HandleSave("models")
HandleSaveQuota == HandleSave("quota")

HandleDelete(id) ==
  /\ Plain /\ Row(id) /\ saving["delete"] # id
  /\ saving' = [saving EXCEPT !["delete"] = id]
  /\ Operate("delete", id, None)
  /\ UNCHANGED <<keys, error, dialog, newKey, visible, creating>>

(***************************************************************************)
(* The server.  A quota is sent in USD and decoded into an integer that is *)
(* stored as micro-USD; a fraction is no integer, the error is dropped and *)
(* a zero is left.                                                         *)
(***************************************************************************)
Decoded(q) ==
  IF q = None THEN None
  ELSE IF q % MicroUSDPerUSD = 0 THEN q \div MicroUSDPerUSD ELSE 0

ListOf(t) ==
  LET ids == Descending({i \in Id : t[i] # None})
  IN [k \in DOMAIN ids |-> [id |-> ids[k], name |-> t[ids[k]].name,
                            quota |-> t[ids[k]].quota, models |-> t[ids[k]].models]]

Limits(row) == [quota |-> row.quota, models |-> row.models]

Settled(i, how, val) == calls' = [calls EXCEPT ![i].at = how, ![i].val = val]

ServeRead(i) ==
  /\ calls[i].kind \in {"load", "catalog"}
  /\ IF calls[i].kind = "load"
     THEN calls' = [calls EXCEPT ![i].at = "ok", ![i].rows = ListOf(table)]
          /\ told' = [id \in Id |-> IF table[id] = None THEN None ELSE Limits(table[id])]
     ELSE Settled(i, "ok", None) /\ UNCHANGED told
  /\ UNCHANGED <<server, excused>>

Stored(id, row) == table' = [table EXCEPT ![id] = row] /\ UNCHANGED lastId

(* An edit is answered with the id and the name of the key: the page is not  *)
(* told of the quota or the models it saved.                                 *)
ServeWrite(i) ==
  LET k == calls[i]
      new == lastId + 1 IN
  /\ k.kind \in Writes
  /\ IF k.kind = "create" THEN new \in Id ELSE table[k.id] # None
  /\ CASE k.kind = "create" ->
            /\ lastId' = new
            /\ table' = [table EXCEPT ![new] = [name |-> k.val.name, quota |-> Decoded(k.val.quota), models |-> {}]]
       [] k.kind = "rename" -> Stored(k.id, [table[k.id] EXCEPT !.name = k.val])
       [] k.kind = "models" -> Stored(k.id, [table[k.id] EXCEPT !.models = k.val])
       [] k.kind = "quota"  -> Stored(k.id, [table[k.id] EXCEPT !.quota = Decoded(k.val)])
       [] k.kind = "delete" -> Stored(k.id, None)
  /\ told' = IF k.kind = "create" THEN [told EXCEPT ![new] = Limits(table'[new])] ELSE told
  /\ \/ /\ CASE k.kind = "create" ->
                  calls' = [calls EXCEPT ![i].at = "ok", ![i].id = new, ![i].rows = table'[new]]
             [] k.kind = "delete" -> Settled(i, "ok", None)
             [] OTHER -> Settled(i, "ok", table'[k.id].name)
        /\ UNCHANGED excused
     \/ Settled(i, "error", None) /\ excused' = TRUE   \* the answer is lost

Fail(i) ==
  /\ \E how \in {"error", "unauthorized"} : Settled(i, how, None)
  /\ UNCHANGED <<server, told, excused>>

Serve(i) ==
  /\ calls[i].at = "sent" /\ ~signedOut
  /\ ServeRead(i) \/ ServeWrite(i) \/ Fail(i)
  /\ UNCHANGED <<page, signedOut, ops, edits>>

(***************************************************************************)
(* Answers.  A save that ends closes its dialog, whichever key the dialog  *)
(* shows by then.                                                          *)
(***************************************************************************)
Answered(i, kinds) ==
  /\ calls[i].kind \in kinds /\ calls[i].at # "sent" /\ ~signedOut
  /\ calls' = WithoutAt(calls, i)
  /\ signedOut' = (calls[i].at = "unauthorized")
  /\ UNCHANGED <<server, ops, edits, told, excused>>

Succeeded(i) == calls[i].at = "ok"
Without(op) == dialog' = IF dialog # None /\ dialog.op = op THEN None ELSE dialog
Failed(i) == error' = IF calls[i].at = "error" THEN TRUE ELSE error

LoadAnswered(i) ==
  /\ Answered(i, {"load"})
  /\ IF Succeeded(i) THEN keys' = calls[i].rows /\ error' = FALSE ELSE Failed(i) /\ UNCHANGED keys
  /\ UNCHANGED <<dialog, newKey, visible, creating, saving>>

CatalogAnswered(i) ==
  /\ Answered(i, {"catalog"})
  /\ Failed(i)
  /\ UNCHANGED <<keys, dialog, newKey, visible, creating, saving>>

Record(i) ==
  [id |-> calls[i].id, name |-> calls[i].rows.name,
   quota |-> calls[i].rows.quota, models |-> calls[i].rows.models]
Known == IF keys = None THEN <<>> ELSE keys

WithCreated(i) == <<Record(i)>> \o Known

CreateAnswered(i) ==
  /\ Answered(i, {"create"})
  /\ creating' = FALSE
  /\ IF Succeeded(i)
     THEN /\ keys' = WithCreated(i)
          /\ visible' = TRUE /\ Without("create")
          /\ newKey' = [name |-> Blank, quota |-> Blank] /\ error' = FALSE
     ELSE Failed(i) /\ UNCHANGED <<keys, visible, dialog, newKey>>
  /\ UNCHANGED saving

Renamed(i) ==
  [k \in DOMAIN Known |-> IF Known[k].id = calls[i].id
                          THEN [Known[k] EXCEPT !.name = calls[i].val] ELSE Known[k]]

SaveEnds(op) == saving' = [saving EXCEPT ![op] = None]

SaveAnswered(i, op) ==
  /\ Answered(i, {op})
  /\ IF Succeeded(i)
     THEN keys' = Renamed(i) /\ Without(op) /\ error' = FALSE
     ELSE Failed(i) /\ UNCHANGED <<keys, dialog>>
  /\ SaveEnds(op)
  /\ UNCHANGED <<newKey, visible, creating>>

RenameAnswered(i) == SaveAnswered(i, "rename")
ModelsAnswered(i) == SaveAnswered(i, "models")
QuotaAnswered(i) == SaveAnswered(i, "quota")

Removed(id) == Picked(Known, {k \in DOMAIN Known : Known[k].id # id})

DeleteAnswered(i) ==
  /\ Answered(i, {"delete"})
  /\ IF Succeeded(i)
     THEN keys' = Removed(calls[i].id) /\ error' = FALSE
     ELSE Failed(i) /\ UNCHANGED keys
  /\ SaveEnds("delete")
  /\ UNCHANGED <<dialog, newKey, visible, creating>>

Next ==
  \/ LoadKeys \/ OpenCreate \/ Close \/ CloseVisible \/ HandleCreate
  \/ \E id \in Id : OpenModelsDialog(id) \/ HandleDelete(id)
                    \/ \E op \in Edited : OpenDialog(op, id)
  \/ \E n \in Name \cup {Blank}, q \in Typed : EditNewKey(n, q)
  \/ \E n \in Name \cup {Blank} : EditRename(n)
  \/ \E q \in Typed : EditQuota(q)
  \/ \E m \in Model : AddModelRestriction(m) \/ RemoveModel(m)
  \/ HandleRename \/ HandleSaveModels \/ HandleSaveQuota
  \/ \E i \in DOMAIN calls : Serve(i) \/ LoadAnswered(i) \/ CatalogAnswered(i)
                             \/ CreateAnswered(i) \/ DeleteAnswered(i)
                             \/ RenameAnswered(i) \/ ModelsAnswered(i) \/ QuotaAnswered(i)

Spec == Init /\ [][Next]_vars

(***************************************************************************)
(* Properties.                                                             *)
(***************************************************************************)
Out(kind) == {i \in DOMAIN calls : calls[i].kind = kind}

(* The state has its types, no key is shown twice unless a load and a write  *)
(* crossed, and while the page is up one create is out exactly while it says *)
(* so.                                                                       *)
TypeOK ==
  /\ lastId \in 0..Cardinality(Id) /\ error \in BOOLEAN /\ visible \in BOOLEAN
  /\ \A op \in DOMAIN saving : saving[op] \in Id \cup {None}
  /\ keys # None /\ ~excused => \A j, k \in DOMAIN keys : keys[j].id = keys[k].id => j = k
  /\ ~signedOut => Cardinality(Out("create")) = IF creating THEN 1 ELSE 0

(* A key said to be saving or deleting has that call out, so that its button *)
(* is enabled again.                                                         *)
SpinnersBacked ==
  ~signedOut => \A op \in DOMAIN saving :
    saving[op] # None => \E i \in Out(op) : calls[i].id = saving[op]

(* When nothing is out, the list shows the server's keys, newest first, each *)
(* with its name, and with the quota and models the page was last told: those *)
(* of its last load, or of the key's creation.  They are therefore the old   *)
(* ones after a plain save of a quota or of models that succeeded, for it is *)
(* answered with the name alone.  Excused are a load and a write that        *)
(* crossed, two saves of a key that did (each answers with the name it       *)
(* found) and a lost answer.                                                 *)
Told(row) == [row EXCEPT !.quota = told[row.id].quota, !.models = told[row.id].models]

QuietMeansFresh ==
  calls = <<>> /\ keys # None /\ ~signedOut /\ ~excused =>
    LET stored == ListOf(table) IN keys = [k \in DOMAIN stored |-> Told(stored[k])]

(* The quota stored for a key is what was typed in USD, and a key without a  *)
(* typed quota has none (i18n/locales/en.ts:684).                            *)
QuotaAsTyped ==
  \A i \in DOMAIN calls :
    calls[i].kind = "quota" /\ table[calls[i].id] # None /\ table' # table
    /\ calls[i].at = "sent" /\ Len(calls') = Len(calls) /\ calls'[i].at = "ok"
    => table'[calls[i].id].quota = calls[i].val
=============================================================================
