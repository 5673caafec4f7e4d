---------------------------- MODULE ProvidersPage ---------------------------
(***************************************************************************)
(* The channels page of the console (dashboard/components/                 *)
(* providers-page.tsx): its list, its dialogs and its calls of the console *)
(* API.  The page is one thread; between the sending of a call and the     *)
(* continuation of its answer everything else may happen, and calls are    *)
(* carried out and answered in any order.  What a channel holds is a       *)
(* revision; how a form becomes a channel is the subject of ProviderForm.  *)
(***************************************************************************)
EXTENDS Integers, Sequences, FiniteSets, Functions, OrderedLists

CONSTANTS
  Channel,   \* channel names
  None,      \* no channel, no list, no result
  MaxOps,    \* user operations that send calls (bound)
  MaxCalls,  \* calls out at a time (bound)
  MaxRev,    \* revisions of a channel (bound)
  InitialTable

VARIABLES
  channels,   \* the server's table: None or [enabled, rev]
  providers,  \* the list shown, None while there is none
  pageError,  \* the page shows a load error instead of the list
  stack,      \* the open dialogs, the topmost last
  editor,     \* dialogMode, activeProvider and whose data formState holds
  pending,    \* submitPending and deletePending
  toggling,   \* togglingChannels
  testing,    \* testingChannels
  testingAll,
  tested,     \* the channels testResults has a result for
  tester,     \* the test dialog: its channel, whose result it shows, loading
  deleting,   \* deleteDialogProvider
  transfer,   \* the import/export dialog
  childRef,   \* childDialogOpenRef, and the timer that clears it
  childTimer,
  calls,      \* the calls that are out, in the order of sending
  signedOut,  \* onUnauthorized was called: the page is gone
  ops,
  excused     \* history: the list may differ from the table (see QuietMeansFresh)

pageVars  == <<providers, pageError, testingAll, signedOut>>
dialogVars == <<stack, editor, tester, deleting, transfer, childRef, childTimer>>
flagVars  == <<pending, toggling, testing, tested>>
vars == <<channels, pageVars, dialogVars, flagVars, calls, ops, excused>>

Children == {"sync", "test", "delete", "config"}

Open(d)  == d \in Range(stack)
OnTop(d) == stack # <<>> /\ stack[Len(stack)] = d
ButFor(s, d) == Picked(s, {i \in DOMAIN s : s[i] # d})
Without(d) == ButFor(stack, d)
Shown == providers # None /\ ~pageError /\ ~signedOut
Row(c) == Shown /\ providers[c] # None
Plain == Shown /\ stack = <<>>    \* a modal dialog keeps the page's buttons away

Init ==
  /\ channels \in InitialTable
  /\ providers = None /\ pageError = FALSE
  /\ stack = <<>>
  /\ editor = [mode |-> "create", of |-> None, form |-> None]
  /\ pending = {} /\ toggling = {} /\ testing = {} /\ tested = {} /\ testingAll = FALSE
  /\ tester = [of |-> None, result |-> None, loading |-> FALSE]
  /\ deleting = None
  /\ transfer = [mode |-> "export", entries |-> <<>>, valid |-> TRUE, error |-> FALSE]
  /\ childRef = FALSE /\ childTimer = FALSE
  /\ calls = <<[kind |-> "list", ch |-> None, then |-> "shown", val |-> None,
                at |-> "sent", ans |-> None]>>
  /\ signedOut = FALSE /\ ops = 0 /\ excused = FALSE

(***************************************************************************)
(* Calls.  A user's operation sends calls while the page is signed in.     *)
(***************************************************************************)
Call(kind, c, then, val) ==
  [kind |-> kind, ch |-> c, then |-> then, val |-> val, at |-> "sent", ans |-> None]

ListOut(s) == \E i \in DOMAIN s : s[i].kind = "list"

Operate(new) ==
  /\ ~signedOut /\ ops < MaxOps /\ Len(calls) + Len(new) <= MaxCalls
  /\ ops' = ops + 1
  /\ calls' = calls \o new
  /\ UNCHANGED <<channels, pageVars, excused>>

(* A reload that starts while another is out: the answers may cross. *)
Reload(rest, c, then) ==
  /\ calls' = Append(rest, Call("list", c, then, None))
  /\ excused' = (excused \/ ListOut(rest))

Quietly == ~signedOut /\ UNCHANGED <<channels, pageVars, calls, ops, excused>>

(***************************************************************************)
(* The server.                                                             *)
(***************************************************************************)
Exists(c) == channels[c] # None

Bumped(c) == IF Exists(c) THEN (channels[c].rev + 1) % MaxRev ELSE 0

(* A creation is an upsert: it overwrites and enables what is there. *)
After(k) ==
  CASE k.kind = "toggle" -> [channels EXCEPT ![k.ch].enabled = k.val]
    [] k.kind = "update" -> [channels EXCEPT ![k.ch].rev = Bumped(k.ch)]
    [] k.kind = "create" -> [channels EXCEPT ![k.ch] = [enabled |-> TRUE, rev |-> Bumped(k.ch)]]
    [] k.kind = "delete" -> [channels EXCEPT ![k.ch] = None]

Writes == {"toggle", "update", "create", "delete"}
NeedsRow == {"toggle", "update", "delete", "detail", "test"}

Served(i, how, ans) == calls' = [calls EXCEPT ![i].at = how, ![i].ans = ans]

Serve(i) ==
  LET k == calls[i] IN
  /\ k.at = "sent" /\ ~signedOut
  /\ \/ /\ k.kind \in NeedsRow => Exists(k.ch)
        /\ channels' = IF k.kind \in Writes THEN After(k) ELSE channels
        /\ \/ Served(i, "ok", IF k.kind = "list" THEN channels ELSE None) /\ UNCHANGED excused
           \/ /\ k.kind \in Writes   \* carried out, but the answer is lost
              /\ Served(i, "error", None)
              /\ excused' = (excused \/ k.kind # "toggle")
     \/ \E how \in {"error", "unauthorized"} : Served(i, how, None) /\ UNCHANGED <<channels, excused>>
  /\ UNCHANGED <<pageVars, dialogVars, flagVars, ops>>

(***************************************************************************)
(* Dialogs.  The ref follows the child dialogs and is cleared by a timer   *)
(* after the last of them closed.  Closing the child above the form may    *)
(* raise a request to close the form in the same tick.                     *)
(***************************************************************************)

Opened(d) ==
  /\ stack' = IF Open(d) THEN stack ELSE Append(stack, d)
  /\ IF d \in Children THEN childRef' = TRUE /\ childTimer' = FALSE
                       ELSE UNCHANGED <<childRef, childTimer>>

ChildOpenIn(s) == Range(s) \cap Children # {}

Closed(s) ==
  /\ stack' = s
  /\ UNCHANGED childRef
  /\ childTimer' = (childTimer \/ (ChildOpenIn(stack) /\ ~ChildOpenIn(s)))

Dismissed(s) == IF childRef THEN s ELSE ButFor(s, "form")

CloseChild(d) ==
  /\ d \in Children /\ OnTop(d) /\ Shown
  /\ \/ Closed(Without(d))
     \/ Open("form") /\ Closed(Dismissed(Without(d)))
  /\ Quietly /\ UNCHANGED <<editor, tester, deleting, transfer, flagVars>>

(* Escape or a click outside go through the guard, Cancel does not. *)
CloseForm ==
  /\ OnTop("form") /\ Shown
  /\ Closed(Without("form")) \/ Closed(Dismissed(stack))
  /\ Quietly /\ UNCHANGED <<editor, tester, deleting, transfer, flagVars>>

ChildTimerFires ==
  /\ childTimer /\ ~signedOut
  /\ childTimer' = FALSE /\ childRef' = FALSE
  /\ UNCHANGED <<channels, pageVars, stack, editor, tester, deleting, transfer,
                 flagVars, calls, ops, excused>>

(***************************************************************************)
(* The editor.                                                             *)
(***************************************************************************)
OpenCreateDialog ==
  /\ Plain
  /\ editor' = [mode |-> "create", of |-> None, form |-> None]
  /\ Opened("form")
  /\ Quietly /\ UNCHANGED <<tester, deleting, transfer, flagVars>>

(* The dialog itself opens when the detail has come. *)
OpenEditDialog(c) ==
  /\ Plain /\ Row(c)
  /\ editor' = [mode |-> "edit", of |-> c, form |-> c]
  /\ Operate(<<Call("detail", c, "open", None)>>)
  /\ UNCHANGED <<stack, tester, deleting, transfer, childRef, childTimer, flagVars>>

OpenSyncDialog ==
  /\ OnTop("form") /\ Shown
  /\ Opened("sync")
  /\ Quietly /\ UNCHANGED <<editor, tester, deleting, transfer, flagVars>>

CanSubmitAgain == TRUE
CanSubmit      == "submit" \notin pending

(* A creation names a channel of the user's choice; a form in edit mode      *)
(* writes the active channel, a form without one only reloads.               *)
HandleSubmit ==
  /\ OnTop("form") /\ Shown /\ CanSubmit
  /\ pending' = pending \cup {"submit"}
  /\ IF editor.mode = "create"
     THEN \E c \in Channel : Operate(<<Call("create", c, "submit", None)>>)
     ELSE Operate(<<Call("update", editor.of, "submit", None)>>)
  /\ UNCHANGED <<dialogVars, toggling, testing, tested>>

OpenDeleteDialog(c) ==
  /\ Plain /\ Row(c)
  /\ deleting' = c
  /\ Opened("delete")
  /\ Quietly /\ UNCHANGED <<editor, tester, transfer, flagVars>>

CanDelete == "delete" \notin pending /\ deleting # None

HandleDeleteProvider ==
  /\ OnTop("delete") /\ Shown /\ CanDelete
  /\ pending' = pending \cup {"delete"}
  /\ Operate(<<Call("delete", deleting, "delete", None)>>)
  /\ UNCHANGED <<dialogVars, toggling, testing, tested>>

ToggleSingleProvider(c) ==
  /\ Plain /\ Row(c) /\ c \notin toggling
  /\ toggling' = toggling \cup {c}
  /\ Operate(<<Call("toggle", c, "reload", ~providers[c].enabled)>>)
  /\ UNCHANGED <<dialogVars, pending, testing, tested>>

(***************************************************************************)
(* Tests.                                                                  *)
(***************************************************************************)
OpenTestDialog(c) ==
  /\ Plain /\ Row(c) /\ c \notin testing
  /\ tester' = [tester EXCEPT !.of = c, !.result = None]
  /\ Opened("test")
  /\ Quietly /\ UNCHANGED <<editor, deleting, transfer, flagVars>>

CanTest == ~tester.loading /\ tester.of # None

HandleTestDialogTest ==
  /\ OnTop("test") /\ Shown /\ CanTest
  /\ tester' = [tester EXCEPT !.loading = TRUE]
  /\ testing' = testing \cup {tester.of}
  /\ Operate(<<Call("test", tester.of, "dialog", None)>>)
  /\ UNCHANGED <<stack, editor, deleting, transfer, childRef, childTimer, pending, toggling, tested>>

Listed == {c \in Channel : providers[c] # None}

TestAllProviders ==
  /\ Plain /\ ~testingAll /\ Listed # {}
  /\ testing' = testing \cup Listed
  /\ LET new == Listing({Call("test", c, "all", None) : c \in Listed})
     IN /\ ~signedOut /\ ops < MaxOps /\ Len(calls) + Len(new) <= MaxCalls
        /\ ops' = ops + 1 /\ calls' = calls \o new
  /\ testingAll' = TRUE /\ tested' = {}
  /\ UNCHANGED <<channels, providers, pageError, signedOut, dialogVars, pending, toggling, excused>>

(***************************************************************************)
(* Import and export.  A text holds the channels an earlier export named,  *)
(* or is not a configuration.                                              *)
(***************************************************************************)
OpenExport ==
  /\ Plain
  /\ transfer' = [mode |-> "export", entries |-> Listing(Listed), valid |-> TRUE, error |-> FALSE]
  /\ Opened("config")
  /\ Quietly /\ UNCHANGED <<editor, tester, deleting, flagVars>>

OpenImport ==
  /\ Plain
  /\ transfer' = [mode |-> "import", entries |-> <<>>, valid |-> TRUE, error |-> FALSE]
  /\ Opened("config")
  /\ Quietly /\ UNCHANGED <<editor, tester, deleting, flagVars>>

EditConfigJson ==
  /\ OnTop("config") /\ Shown /\ transfer.mode = "import"
  /\ \/ \E s \in {Listing(S) : S \in SUBSET Channel} :
          transfer' = [transfer EXCEPT !.entries = s, !.valid = TRUE]
     \/ transfer' = [transfer EXCEPT !.entries = <<>>, !.valid = FALSE]
  /\ Quietly /\ UNCHANGED <<stack, editor, tester, deleting, childRef, childTimer, flagVars>>

(* The button stays enabled while an import runs. *)
HandleImport ==
  /\ OnTop("config") /\ Shown /\ transfer.mode = "import"
  /\ \/ /\ ~transfer.valid
        /\ transfer' = [transfer EXCEPT !.error = TRUE]
        /\ Quietly
     \/ /\ transfer.valid /\ transfer.entries # <<>>
        /\ transfer' = [transfer EXCEPT !.error = FALSE]
        /\ Operate(<<Call("create", Head(transfer.entries), "import", Tail(transfer.entries))>>)
  /\ UNCHANGED <<stack, editor, tester, deleting, childRef, childTimer, flagVars>>

(***************************************************************************)
(* Answers.                                                                *)
(***************************************************************************)
Rest(i) == WithoutAt(calls, i)

Answered(i, kind) == calls[i].kind = kind /\ calls[i].at # "sent" /\ ~signedOut
Failed(i) == calls[i].at \in {"error", "unauthorized"}
Expired(i) == calls[i].at = "unauthorized"

(* loadProviders never fails towards its caller: what follows it happens     *)
(* whether or not the list could be had.                                     *)
ListAnswered(i) ==
  /\ Answered(i, "list")
  /\ calls' = Rest(i)
  /\ IF Failed(i)
     THEN /\ signedOut' = Expired(i)
          /\ pageError' = (pageError \/ ~Expired(i))
          /\ UNCHANGED providers
     ELSE providers' = calls[i].ans /\ pageError' = FALSE /\ UNCHANGED signedOut
  /\ LET then == calls[i].then IN
       /\ toggling' = IF then = "toggle" THEN toggling \ {calls[i].ch} ELSE toggling
       /\ pending' = pending \ {then}
       /\ CASE then = "submit" -> Closed(Without("form"))
            [] then = "import" -> Closed(Without("config"))
            [] OTHER -> UNCHANGED <<stack, childRef, childTimer>>
  /\ UNCHANGED <<channels, testing, tested, testingAll, editor, tester, deleting,
                 transfer, ops, excused>>

FormFilledFor(c) == [editor EXCEPT !.form = c]
FilledFor(c)     == [editor EXCEPT !.of = c, !.form = c]

DetailAnswered(i) ==
  /\ Answered(i, "detail")
  /\ calls' = Rest(i)
  /\ signedOut' = Expired(i)
  /\ editor' = IF Failed(i) THEN editor ELSE FilledFor(calls[i].ch)
  /\ IF Expired(i) THEN UNCHANGED <<stack, childRef, childTimer>> ELSE Opened("form")
  /\ UNCHANGED <<channels, providers, pageError, testingAll, tester, deleting, transfer,
                 flagVars, ops, excused>>

(* Whether the switch succeeded or not, the list is loaded again. *)
ToggleAnswered(i) ==
  /\ Answered(i, "toggle")
  /\ Reload(Rest(i), calls[i].ch, "toggle")
  /\ UNCHANGED <<channels, pageVars, dialogVars, flagVars, ops>>

SubmitDone(i) == calls' = Rest(i) /\ UNCHANGED excused

SubmitAnswered(i) ==
  /\ Answered(i, "update") \/ Answered(i, "create")
  /\ calls[i].then = "submit"
  /\ IF Failed(i) THEN pending' = pending \ {"submit"} /\ SubmitDone(i)
                  ELSE Reload(Rest(i), None, "submit") /\ UNCHANGED pending
  /\ UNCHANGED <<channels, pageVars, dialogVars, toggling, testing, tested, ops>>

(* A failure leaves the dialog as it was and says nothing. *)
DeleteAnswered(i) ==
  /\ Answered(i, "delete")
  /\ IF Failed(i)
     THEN /\ calls' = Rest(i) /\ pending' = pending \ {"delete"}
          /\ UNCHANGED <<stack, childRef, childTimer, deleting, excused>>
     ELSE /\ Closed(Without("delete")) /\ deleting' = None
          /\ Reload(Rest(i), None, "delete") /\ UNCHANGED pending
  /\ UNCHANGED <<channels, pageVars, editor, tester, transfer, toggling, testing, tested, ops>>

(* The entries are created one by one; a failure stops the import where it   *)
(* is, and what was created before it is not loaded.                         *)
ImportAnswered(i) ==
  /\ Answered(i, "create") /\ calls[i].then = "import"
  /\ LET rest == calls[i].val IN
     IF Failed(i)
     THEN /\ transfer' = [transfer EXCEPT !.error = TRUE]
          /\ calls' = Rest(i) /\ excused' = TRUE
     ELSE /\ UNCHANGED transfer
          /\ IF rest = <<>> THEN Reload(Rest(i), None, "import")
             ELSE /\ calls' = Append(Rest(i), Call("create", Head(rest), "import", Tail(rest)))
                  /\ UNCHANGED excused
  /\ UNCHANGED <<channels, pageVars, stack, editor, tester, deleting, childRef,
                 childTimer, flagVars, ops>>

TestsLeft(i)  == \E j \in DOMAIN calls \ {i} : calls[j].then = "all"

(* The dialog shows the result of any test started from a dialog. *)
TestAnswered(i) ==
  /\ Answered(i, "test")
  /\ calls' = Rest(i)
  /\ testing' = testing \ {calls[i].ch} /\ tested' = tested \cup {calls[i].ch}
  /\ IF calls[i].then = "dialog"
     THEN tester' = [tester EXCEPT !.result = calls[i].ch, !.loading = FALSE]
          /\ UNCHANGED testingAll
     ELSE testingAll' = TestsLeft(i)
          /\ UNCHANGED tester
  /\ UNCHANGED <<channels, providers, pageError, signedOut, stack, editor, deleting,
                 transfer, childRef, childTimer, pending, toggling, ops, excused>>

Answer(i) == \/ ListAnswered(i) \/ DetailAnswered(i) \/ ToggleAnswered(i)
             \/ SubmitAnswered(i) \/ DeleteAnswered(i) \/ ImportAnswered(i) \/ TestAnswered(i)

User ==
  \/ \E d \in Children : CloseChild(d)
  \/ CloseForm
  \/ OpenCreateDialog \/ OpenSyncDialog \/ HandleSubmit \/ HandleDeleteProvider
  \/ HandleTestDialogTest \/ TestAllProviders
  \/ OpenExport \/ OpenImport \/ EditConfigJson \/ HandleImport
  \/ \E c \in Channel : \/ OpenEditDialog(c) \/ OpenDeleteDialog(c)
                        \/ ToggleSingleProvider(c) \/ OpenTestDialog(c)

Respond == \E i \in DOMAIN calls : Serve(i) \/ Answer(i)

Next == User \/ Respond \/ ChildTimerFires

Spec == Init /\ [][Next]_vars

(***************************************************************************)
(* Properties.                                                             *)
(***************************************************************************)
Out(kind, c, then) == {i \in DOMAIN calls : calls[i].kind = kind /\ calls[i].ch = c /\ calls[i].then = then}

TypeOK ==
  /\ providers \in {None} \cup [Channel -> {None} \cup [enabled : BOOLEAN, rev : 0..MaxRev]]
  /\ Range(stack) \subseteq Children \cup {"form"}
  /\ \A j, k \in DOMAIN stack : stack[j] = stack[k] => j = k
  /\ editor \in [mode : {"create", "edit"}, of : Channel \cup {None}, form : Channel \cup {None}]
  /\ pending \subseteq {"submit", "delete"}
  /\ toggling \cup testing \cup tested \subseteq Channel
  /\ Len(calls) <= MaxCalls /\ ops \in 0..MaxOps

(* A row's switch is disabled exactly while its change, or the reload after  *)
(* it, is out, and it is never out twice: whatever other rows do meanwhile.  *)
TogglingExact ==
  ~signedOut => \A c \in Channel :
    Cardinality(Out("toggle", c, "reload") \cup Out("list", c, "toggle")) =
      IF c \in toggling THEN 1 ELSE 0

(* One save and one deletion are out at most, also when a dialog is closed,  *)
(* opened again and confirmed while the first answer is still missing.       *)
OneAtATime ==
  ~signedOut =>
    /\ Cardinality({i \in DOMAIN calls : calls[i].then = "submit"}) =
         IF "submit" \in pending THEN 1 ELSE 0
    /\ Cardinality({i \in DOMAIN calls : calls[i].then = "delete"}) =
         IF "delete" \in pending THEN 1 ELSE 0

(* The channel that a save writes is the one whose data fills the form, also *)
(* when a detail arrives late, over another channel or over a new form.      *)
SavesWhatItShows ==
  /\ editor.form = editor.of
  /\ editor.mode = "edit" => editor.of # None

(* When no call is out, the list shows the server's table.  Excused are: two *)
(* reloads that crossed, a write whose answer was lost (a switch excepted:   *)
(* its failure reloads), and an import that stopped half way.                    *)
QuietMeansFresh ==
  calls = <<>> /\ Shown /\ ~excused => providers = channels

(* Closing a dialog above the channel form never closes the form with it,    *)
(* whatever request the closing raises for it.                               *)
FormSurvivesChildren ==
  \A d \in Children :
    OnTop(d) /\ Open("form") /\ stack' # stack /\ calls' = calls => "form" \in Range(stack')

(* Every other spinner waits for an answer that is still out, so that none   *)
(* spins for ever: those of the rows, of the test of all channels and of the *)
(* test dialog.                                                              *)
SpinnersBacked ==
  ~signedOut =>
    /\ \A c \in testing : Out("test", c, "dialog") \cup Out("test", c, "all") # {}
    /\ testingAll <=> \E i \in DOMAIN calls : calls[i].then = "all"
    /\ tester.loading => \E i \in DOMAIN calls : calls[i].then = "dialog"
=============================================================================
