----------------------------- MODULE RoutesPage -----------------------------
(***************************************************************************)
(* The routes page of the console (dashboard/components/routes-page.tsx):  *)
(* the aliases and their dialog.  The page patches its list from the       *)
(* answers of its writes and loads everything again only on Refresh.  The  *)
(* failover form of the page is the subject of FailoverForm, its map that  *)
(* of RouteMap; names, notes and visibility of aliases are left out.       *)
(***************************************************************************)
EXTENDS Integers, Sequences, FiniteSets, Functions, OrderedLists

CONSTANTS
  Id,             \* ids of aliases, 1..n (bound)
  Offers,         \* the channels, each with the models it lists
  None, Blank,    \* nothing; an empty text
  MaxTargets, MaxEdits, MaxOps, MaxCalls,  \* bounds
  InitialAliases

VARIABLES
  table,      \* the server's aliases: None or [enabled, targets]
  lastId,     \* the last id the server gave
  aliases,    \* the list shown, None while there is none
  dialog,     \* dialogOpen, editTarget and the targets of the draft
  flags,      \* loading, submitting
  togglingId,
  deletingId,
  tests,      \* testResults: "none", "loading" or "done"
  calls,      \* the calls that are out
  signedOut,
  ops, edits,
  told,       \* history: the enabled flag of each alias as the page was last told it
  excused     \* history: see QuietMeansFresh

server == <<table, lastId>>
rows == <<aliases, togglingId, deletingId, tests>>
vars == <<server, rows, dialog, flags, calls, signedOut, ops, edits, told, excused>>

Channels == DOMAIN Offers
Draft == [provider : Channels \cup {Blank}, model : (UNION {Offers[c] : c \in Channels}) \cup {Blank}]
EmptyTarget == [provider |-> Blank, model |-> Blank]

Call(kind, id, val) ==
  [kind |-> kind, id |-> id, val |-> val, at |-> "sent", rows |-> None]

Init ==
  /\ table \in InitialAliases /\ lastId = Cardinality({i \in Id : table[i] # None})
  /\ aliases = None
  /\ dialog = [open |-> FALSE, of |-> None, targets |-> <<>>]
  /\ flags = {"loading"}
  /\ togglingId = None /\ deletingId = None
  /\ tests = [i \in Id |-> "none"]
  /\ calls = <<Call("load", None, None)>>
  /\ signedOut = FALSE /\ ops = 0 /\ edits = 0
  /\ told = [i \in Id |-> None] /\ excused = FALSE

(***************************************************************************)
(* Calls.                                                                  *)
(***************************************************************************)
Writes == {"create", "update", "toggle", "delete"}

Crosses(kind) ==
  \E i \in DOMAIN calls : IF kind = "load" THEN calls[i].kind \in Writes
                                           ELSE kind \in Writes /\ calls[i].kind = "load"

Operate(kind, id, val) ==
  /\ ~signedOut /\ ops < MaxOps /\ Len(calls) < MaxCalls
  /\ ops' = ops + 1
  /\ calls' = Append(calls, Call(kind, id, val))
  /\ excused' = (excused \/ Crosses(kind))
  /\ UNCHANGED <<server, signedOut, edits, told>>

Quietly == ~signedOut /\ UNCHANGED <<server, calls, signedOut, ops, told, excused>>

Edit == ~signedOut /\ edits < MaxEdits /\ edits' = edits + 1
        /\ UNCHANGED <<server, rows, calls, signedOut, ops, told, excused>>

(***************************************************************************)
(* The server.  An update enables the alias: the page sends no flag.  A     *)
(* switch is answered without the alias, so that the page is not told of it. *)
(***************************************************************************)
ListOf(t) ==
  LET ids == Ascending({i \in Id : t[i] # None})
  IN [k \in DOMAIN ids |-> [id |-> ids[k], enabled |-> t[ids[k]].enabled, targets |-> t[ids[k]].targets]]

Settled(i, how) == calls' = [calls EXCEPT ![i].at = how]

ServeRead(i) ==
  /\ calls[i].kind = "load" /\ calls[i].at = "sent"
  /\ calls' = [calls EXCEPT ![i].at = "ok", ![i].rows = ListOf(table)]
  /\ told' = [id \in Id |-> IF table[id] = None THEN None ELSE table[id].enabled]
  /\ UNCHANGED <<server, excused>>

Stored(id, row) == table' = [table EXCEPT ![id] = row] /\ UNCHANGED lastId

ServeWrite(i) ==
  LET k == calls[i]
      new == lastId + 1 IN
  /\ k.kind \in Writes /\ k.at = "sent"
  /\ IF k.kind = "create" THEN new \in Id ELSE table[k.id] # None
  /\ CASE k.kind = "create" -> lastId' = new
                               /\ table' = [table EXCEPT ![new] = [enabled |-> TRUE, targets |-> k.val]]
       [] k.kind = "update" -> Stored(k.id, [enabled |-> TRUE, targets |-> k.val])
       [] k.kind = "toggle" -> Stored(k.id, [table[k.id] EXCEPT !.enabled = k.val])
       [] k.kind = "delete" -> Stored(k.id, None)
  /\ told' = CASE k.kind = "create" -> [told EXCEPT ![new] = TRUE]
               [] k.kind = "update" -> [told EXCEPT ![k.id] = TRUE]
               [] OTHER -> told
  /\ \/ /\ calls' = [calls EXCEPT ![i].at = "ok",
                                  ![i].id = IF k.kind = "create" THEN new ELSE k.id]
        /\ UNCHANGED excused
     \/ Settled(i, "error") /\ excused' = TRUE   \* carried out, the answer is lost

Fail(i) ==
  /\ calls[i].at = "sent"
  /\ \E how \in {"error", "unauthorized"} : Settled(i, how)
  /\ UNCHANGED <<server, told, excused>>

(* A test ends in a result whatever the upstream says. *)
ServeTest(i) ==
  /\ calls[i].kind = "test" /\ calls[i].at = "sent"
  /\ Settled(i, "ok")
  /\ UNCHANGED <<server, told, excused>>

Serve(i) ==
  /\ ~signedOut
  /\ ServeRead(i) \/ ServeWrite(i) \/ ServeTest(i) \/ Fail(i)
  /\ UNCHANGED <<rows, dialog, flags, signedOut, ops, edits>>

(***************************************************************************)
(* Aliases.  A modal dialog keeps the page's buttons away.                 *)
(***************************************************************************)
Row(id) == aliases # None /\ \E k \in DOMAIN aliases : aliases[k].id = id
RowOf(id) == aliases[CHOOSE k \in DOMAIN aliases : aliases[k].id = id]
Plain == ~dialog.open

Load ==
  /\ Plain /\ "loading" \notin flags
  /\ flags' = flags \cup {"loading"}
  /\ Operate("load", None, None)
  /\ UNCHANGED <<rows, dialog>>

OpenCreate ==
  /\ Plain
  /\ dialog' = [open |-> TRUE, of |-> None, targets |-> <<EmptyTarget>>]
  /\ Quietly /\ UNCHANGED <<rows, flags, edits>>

OpenEdit(id) ==
  /\ Plain /\ Row(id)
  /\ dialog' = [open |-> TRUE, of |-> id, targets |-> RowOf(id).targets]
  /\ Quietly /\ UNCHANGED <<rows, flags, edits>>

(* Escape closes the dialog while its save is out; Cancel does not. *)
CloseDialog ==
  /\ dialog.open
  /\ dialog' = [dialog EXCEPT !.open = FALSE]
  /\ Quietly /\ UNCHANGED <<rows, flags, edits>>

EditTarget(targets) ==
  /\ dialog.open
  /\ dialog' = [dialog EXCEPT !.targets = targets]
  /\ Edit /\ UNCHANGED flags

AddTarget == Len(dialog.targets) < MaxTargets /\ EditTarget(Append(dialog.targets, EmptyTarget))

RemoveTarget(k) ==
  /\ Len(dialog.targets) > 1
  /\ EditTarget(WithoutAt(dialog.targets, k))

ProviderChosen(target, c) == [provider |-> c, model |-> Blank]

(* The channels come with the first load that succeeds. *)
ChooseProvider(k, c) ==
  /\ aliases # None
  /\ EditTarget([dialog.targets EXCEPT ![k] = ProviderChosen(@, c)])

ChooseModel(k, m) ==
  /\ dialog.targets[k].provider # Blank /\ m \in Offers[dialog.targets[k].provider]
  /\ EditTarget([dialog.targets EXCEPT ![k].model = m])

AliasForm ==
  \/ AddTarget
  \/ \E k \in DOMAIN dialog.targets :
       \/ RemoveTarget(k)
       \/ \E c \in Channels : ChooseProvider(k, c)
       \/ \E m \in UNION {Offers[c] : c \in Channels} : ChooseModel(k, m)

Complete == dialog.targets # <<>>
            /\ \A t \in Range(dialog.targets) : t.provider # Blank /\ t.model # Blank

CanSubmit    == "submitting" \notin flags

(* An incomplete draft is answered with a message. *)
HandleSubmit ==
  /\ dialog.open /\ CanSubmit /\ Complete
  /\ flags' = flags \cup {"submitting"}
  /\ Operate(IF dialog.of = None THEN "create" ELSE "update", dialog.of, dialog.targets)
  /\ UNCHANGED <<rows, dialog>>

HandleToggle(id) ==
  /\ Plain /\ Row(id) /\ togglingId # id
  /\ togglingId' = id
  /\ Operate("toggle", id, ~RowOf(id).enabled)
  /\ UNCHANGED <<aliases, deletingId, tests, dialog, flags>>

HandleDelete(id) ==
  /\ Plain /\ Row(id) /\ deletingId # id
  /\ deletingId' = id
  /\ Operate("delete", id, None)
  /\ UNCHANGED <<aliases, togglingId, tests, dialog, flags>>

HandleTest(id) ==
  /\ Plain /\ Row(id) /\ tests[id] # "loading"
  /\ tests' = [tests EXCEPT ![id] = "loading"]
  /\ Operate("test", id, None)
  /\ UNCHANGED <<aliases, togglingId, deletingId, dialog, flags>>

(***************************************************************************)
(* Answers.                                                                *)
(***************************************************************************)
Answered(i, kinds) == calls[i].kind \in kinds /\ calls[i].at # "sent" /\ ~signedOut
Failed(i) == calls[i].at # "ok"
Done(i) == calls' = WithoutAt(calls, i) /\ UNCHANGED <<server, ops, edits, told, excused>>
MaySignOut(i) == signedOut' = (calls[i].at = "unauthorized")

LoadAnswered(i) ==
  /\ Answered(i, {"load"}) /\ Done(i) /\ MaySignOut(i)
  /\ flags' = flags \ {"loading"}
  /\ aliases' = IF Failed(i) THEN aliases ELSE calls[i].rows
  /\ UNCHANGED <<togglingId, deletingId, tests, dialog>>

Replaced(row)  == [k \in DOMAIN aliases |-> IF aliases[k].id = row.id THEN row ELSE aliases[k]]

(* Not even an expired session signs out here: the dialog shows the message. *)
SubmitAnswered(i) ==
  /\ Answered(i, {"create", "update"}) /\ Done(i)
  /\ flags' = flags \ {"submitting"}
  /\ IF Failed(i) THEN UNCHANGED <<aliases, dialog>>
     ELSE LET row == [id |-> calls[i].id, enabled |-> TRUE, targets |-> calls[i].val] IN
          /\ dialog' = [dialog EXCEPT !.open = FALSE]
          /\ aliases' = IF aliases = None THEN IF calls[i].kind = "create" THEN <<row>> ELSE None
                        ELSE IF calls[i].kind = "create" THEN Append(aliases, row) ELSE Replaced(row)
  /\ UNCHANGED <<togglingId, deletingId, tests, signedOut>>

ToggleEndsOnSuccess(i) == IF Failed(i) THEN togglingId ELSE None
ToggleEnds(i) == None

(* The answer names no alias, so that no row of the list is replaced. *)
ToggleAnswered(i) ==
  /\ Answered(i, {"toggle"}) /\ Done(i) /\ MaySignOut(i)
  /\ togglingId' = ToggleEnds(i)
  /\ UNCHANGED <<aliases, deletingId, tests, dialog, flags>>

KeptAll(id) == aliases
Removed(id) == Picked(aliases, {k \in DOMAIN aliases : aliases[k].id # id})

DeleteAnswered(i) ==
  /\ Answered(i, {"delete"}) /\ Done(i) /\ MaySignOut(i)
  /\ deletingId' = None
  /\ IF Failed(i) THEN UNCHANGED <<aliases, tests>>
     ELSE /\ aliases' = IF aliases = None THEN None ELSE Removed(calls[i].id)
          /\ tests' = [tests EXCEPT ![calls[i].id] = "none"]
  /\ UNCHANGED <<togglingId, dialog, flags>>

TestAnswered(i) ==
  /\ Answered(i, {"test"}) /\ Done(i)
  /\ tests' = [tests EXCEPT ![calls[i].id] = "done"]
  /\ UNCHANGED <<aliases, togglingId, deletingId, dialog, flags, signedOut>>

Answer(i) ==
  \/ LoadAnswered(i) \/ SubmitAnswered(i) \/ ToggleAnswered(i)
  \/ DeleteAnswered(i) \/ TestAnswered(i)

User ==
  \/ Load \/ OpenCreate \/ CloseDialog \/ HandleSubmit
  \/ \E id \in Id : OpenEdit(id) \/ HandleToggle(id) \/ HandleDelete(id) \/ HandleTest(id)
  \/ dialog.open /\ AliasForm

Next == User \/ \E i \in DOMAIN calls : Serve(i) \/ Answer(i)

Spec == Init /\ [][Next]_vars

(***************************************************************************)
(* Properties.                                                             *)
(***************************************************************************)
Out(kinds, id) == {i \in DOMAIN calls : calls[i].kind \in kinds /\ id \in {None, calls[i].id}}

TypeOK ==
  /\ aliases # None => \A k \in DOMAIN aliases :
       aliases[k] \in [id : Id, enabled : BOOLEAN, targets : Seq(Draft)]
  /\ Range(dialog.targets) \subseteq Draft
  /\ flags \subseteq {"loading", "submitting"}
  /\ aliases # None /\ ~excused => \A j, k \in DOMAIN aliases : aliases[j].id = aliases[k].id => j = k
  /\ {togglingId, deletingId} \subseteq Id \cup {None}

(* One load and one submission are out at most, also when the dialog is      *)
(* closed under its submission and opened for another alias; and each button *)
(* is held back exactly as long.                                             *)
OneAtATime ==
  ~signedOut =>
    /\ Cardinality(Out({"load"}, None)) = IF "loading" \in flags THEN 1 ELSE 0
    /\ Cardinality(Out({"create", "update"}, None)) = IF "submitting" \in flags THEN 1 ELSE 0

(* A row never stays disabled: its spinner has an answer to come, though the *)
(* one id kept for all rows is overwritten and reset by any of them.         *)
SpinnersBacked ==
  ~signedOut =>
    /\ togglingId # None => Out({"toggle"}, togglingId) # {}
    /\ deletingId # None => Out({"delete"}, deletingId) # {}
    /\ \A id \in Id : tests[id] = "loading" => Out({"test"}, id) # {}

(* Nothing is out: the list has the server's aliases with their targets,     *)
(* though only single rows are patched, and each with the enabled flag the   *)
(* page was last told: that of its last load, or on after a save.  The flag  *)
(* is therefore the server's old one after a plain switch that succeeded,    *)
(* whose answer reaches no row.  Excused are a load that crossed a write and *)
(* a write whose answer was lost.                                            *)
Told(row) == [row EXCEPT !.enabled = told[row.id]]

QuietMeansFresh ==
  calls = <<>> /\ aliases # None /\ ~signedOut /\ ~excused =>
    Range(aliases) = {Told(row) : row \in Range(ListOf(table))}

(* No target, drafted or stored, pairs a channel with another's model.       *)
Paired(targets) ==
  \A t \in Range(targets) : t.model # Blank => t.provider # Blank /\ t.model \in Offers[t.provider]

PairsOffered == Paired(dialog.targets) /\ \A id \in Id : table[id] # None => Paired(table[id].targets)
=============================================================================
