----------------------------- MODULE ModelsPage -----------------------------
(***************************************************************************)
(* The models page of the console (dashboard/components/models-page.tsx):  *)
(* the list, the test of a model and the form of its metadata, with the    *)
(* calls behind them (handleModels and handleModelMetadata in              *)
(* internal/consoleapi/api.go).  A text that is a number is the number of  *)
(* halves it says, so that one that is no integer exists.                  *)
(***************************************************************************)
EXTENDS Integers, Sequences, FiniteSets, OrderedLists

CONSTANTS
  Model,       \* channel and id
  None, Blank, \* nothing; an empty text
  Typed,       \* what the user types: Blank or halves
  MaxEdits, MaxOps, MaxCalls,  \* bounds
  ServedModels \* what the server may list: records of context, pricing and override

VARIABLES
  served,     \* the server's list
  models,     \* openaiModels and anthropicModels, None while there are none
  loading, saving,
  test,       \* the test dialog: [open, model, result, loading]
  edit,       \* the form: [open, model, draft, error]
  calls,      \* the calls that are out
  signedOut,
  ops, edits,
  crossed     \* history: a test was started while another was out

view == <<models, loading, saving, test, edit>>
vars == <<served, view, calls, signedOut, ops, edits, crossed>>

Price == {"input", "output", "cacheRead", "cacheWrite"}
EmptyDraft == [x \in Price \cup {"context"} |-> Blank]

Call(kind, model, val) == [kind |-> kind, model |-> model, val |-> val, at |-> "sent"]

Init ==
  /\ served \in ServedModels
  /\ models = None /\ loading = TRUE /\ saving = FALSE
  /\ test = [open |-> FALSE, model |-> None, result |-> None, loading |-> FALSE]
  /\ edit = [open |-> FALSE, model |-> None, draft |-> EmptyDraft, error |-> FALSE]
  /\ calls = <<Call("load", None, None)>>
  /\ signedOut = FALSE /\ ops = 0 /\ edits = 0 /\ crossed = FALSE

(***************************************************************************)
(* The form.  It starts from the values in effect, the override's first.   *)
(***************************************************************************)
First(x, y) == IF x # None THEN x ELSE y
NumberToDraft(n) == IF n = None THEN Blank ELSE n

CreateMetadataDraft(m) ==
  LET over == m.override
      pricing == IF over # None /\ over.pricing # None THEN over.pricing ELSE m.pricing
  IN [x \in Price \cup {"context"} |->
        IF x = "context" THEN NumberToDraft(First(IF over = None THEN None ELSE over.context, m.context))
        ELSE IF pricing = None THEN Blank ELSE NumberToDraft(pricing[x])]

ParsedNumber(text) == IF text = Blank THEN None ELSE text
ValidContext(text) == text # Blank => text % 2 = 0 /\ text >= 2
ValidPrices(draft) ==
  /\ \A x \in Price : draft[x] # Blank => draft[x] >= 0
  /\ (\E x \in Price : draft[x] # Blank) => draft["input"] # Blank /\ draft["output"] # Blank

Parses(draft) == ValidContext(draft["context"]) /\ ValidPrices(draft)

BuildPricing(draft) ==
  IF \A x \in Price : draft[x] = Blank THEN None ELSE [x \in Price |-> ParsedNumber(draft[x])]
Metadata(draft) == [context |-> ParsedNumber(draft["context"]), pricing |-> BuildPricing(draft)]

(***************************************************************************)
(* The user.  A modal dialog keeps the page's buttons away.                *)
(***************************************************************************)
Plain == ~signedOut /\ ~test.open /\ ~edit.open

Operate(kind, model, val) ==
  /\ ~signedOut /\ ops < MaxOps /\ Len(calls) < MaxCalls
  /\ ops' = ops + 1
  /\ calls' = Append(calls, Call(kind, model, val))
  /\ crossed' = (crossed \/ (kind = "test" /\ \E i \in DOMAIN calls : calls[i].kind = "test"))
  /\ UNCHANGED <<served, signedOut, edits>>

Quietly == ~signedOut /\ UNCHANGED <<served, models, loading, saving, calls, signedOut, ops, crossed>>

LoadModels ==
  /\ Plain /\ ~loading
  /\ loading' = TRUE
  /\ Operate("load", None, None) /\ UNCHANGED <<models, saving, test, edit>>

ResultCleared == None

OpenTestDialog(m) ==
  /\ Plain /\ models # None /\ m \in DOMAIN models
  /\ test' = [open |-> TRUE, model |-> m, result |-> ResultCleared, loading |-> TRUE]
  /\ Operate("test", m, None) /\ UNCHANGED <<models, loading, saving, edit>>

CanRetest == test.open /\ test.result # None /\ ~test.loading

HandleRetest ==
  /\ CanRetest
  /\ test' = [test EXCEPT !.result = None, !.loading = TRUE]
  /\ Operate("test", test.model, None) /\ UNCHANGED <<models, loading, saving, edit>>

CloseTest ==
  /\ test.open /\ Quietly
  /\ test' = [test EXCEPT !.open = FALSE] /\ UNCHANGED <<edit, edits>>

OpenEditDialog(m) ==
  /\ Plain /\ models # None /\ m \in DOMAIN models
  /\ edit' = [open |-> TRUE, model |-> m, draft |-> CreateMetadataDraft(models[m]), error |-> FALSE]
  /\ Quietly /\ UNCHANGED <<test, edits>>

EditDraft(x, text) ==
  /\ edit.open /\ edits < MaxEdits /\ edit.draft[x] # text
  /\ edit' = [edit EXCEPT !.draft[x] = text] /\ edits' = edits + 1
  /\ Quietly /\ UNCHANGED test

CloseEdit ==
  /\ edit.open /\ Quietly
  /\ edit' = [edit EXCEPT !.open = FALSE] /\ UNCHANGED <<test, edits>>

CanSave == edit.open /\ edit.model # None /\ ~saving

HandleSaveMetadata ==
  /\ CanSave
  /\ IF Parses(edit.draft)
     THEN /\ saving' = TRUE
          /\ Operate("save", edit.model, Metadata(edit.draft))
          /\ UNCHANGED <<models, loading, test, edit>>
     ELSE /\ ~edit.error /\ edit' = [edit EXCEPT !.error = TRUE]
          /\ Quietly /\ UNCHANGED <<test, edits>>

(***************************************************************************)
(* The server.  The save is sent as a PATCH and only a PUT is accepted, so *)
(* it is always refused.                                                   *)
(***************************************************************************)
Settled(i, how, val) == calls' = [calls EXCEPT ![i].at = how, ![i].val = val]

Serve(i) ==
  /\ calls[i].at = "sent" /\ ~signedOut
  /\ \/ calls[i].kind = "load" /\ Settled(i, "ok", served)
     \/ calls[i].kind = "test" /\ Settled(i, "ok", calls[i].model)
     \/ \E how \in {"error", "unauthorized"} : Settled(i, how, None)
  /\ UNCHANGED <<served, view, signedOut, ops, edits, crossed>>

(***************************************************************************)
(* Answers.  A test that fails shows its error as the result, even one     *)
(* that is not authorized.                                                 *)
(***************************************************************************)
Answered(i, kind) ==
  /\ calls[i].kind = kind /\ calls[i].at # "sent" /\ ~signedOut
  /\ calls' = WithoutAt(calls, i)
  /\ signedOut' = (kind # "test" /\ calls[i].at = "unauthorized")
  /\ UNCHANGED <<served, ops, edits, crossed>>

LoadAnswered(i) ==
  /\ Answered(i, "load")
  /\ loading' = FALSE
  /\ IF calls[i].at = "ok" THEN models' = calls[i].val ELSE UNCHANGED models
  /\ UNCHANGED <<saving, test, edit>>

TestAnswered(i) ==
  /\ Answered(i, "test")
  /\ test' = [test EXCEPT !.result = calls[i].model, !.loading = FALSE]
  /\ UNCHANGED <<models, loading, saving, edit>>

SaveAnswered(i) ==
  /\ Answered(i, "save")
  /\ saving' = FALSE
  /\ edit' = IF calls[i].at = "error" THEN [edit EXCEPT !.error = TRUE] ELSE edit
  /\ UNCHANGED <<models, loading, test>>

Next ==
  \/ LoadModels \/ HandleRetest \/ CloseTest \/ CloseEdit \/ HandleSaveMetadata
  \/ \E m \in Model : OpenTestDialog(m) \/ OpenEditDialog(m)
  \/ \E x \in Price \cup {"context"}, text \in Typed : EditDraft(x, text)
  \/ \E i \in DOMAIN calls : Serve(i) \/ LoadAnswered(i) \/ TestAnswered(i) \/ SaveAnswered(i)

Spec == Init /\ [][Next]_vars

(***************************************************************************)
(* Properties.                                                             *)
(***************************************************************************)
Out(kind) == {i \in DOMAIN calls : calls[i].kind = kind}

(* The state has its types; while the page is up a load is out exactly while *)
(* it says so, a save likewise, and a test that runs is out.                 *)
TypeOK ==
  /\ models \in ServedModels \cup {None}
  /\ edit.open => edit.model \in Model
  /\ test.open => test.model \in Model
  /\ ~signedOut => /\ Cardinality(Out("load")) = IF loading THEN 1 ELSE 0
                   /\ Cardinality(Out("save")) = IF saving THEN 1 ELSE 0
                   /\ test.loading => Out("test") # {}

(* The test dialog shows the result of the model it names, unless a test was *)
(* opened while another was out: the last answer wins, whosever it is.       *)
ResultOfModel == test.result # None /\ ~crossed => test.result = test.model

(* Whatever was loaded and typed, the metadata sent can be used: a window of *)
(* one token or more, and prices that are complete or left to the catalog.   *)
SentMetadataUsable ==
  \A i \in Out("save") : calls[i].at = "sent" =>
    LET sent == calls[i].val IN
    /\ sent.context # None => sent.context \in {2 * k : k \in 1..sent.context}
    /\ sent.pricing # None =>
         /\ sent.pricing["input"] # None /\ sent.pricing["output"] # None
         /\ \A x \in Price : sent.pricing[x] # None => sent.pricing[x] >= 0
=============================================================================
