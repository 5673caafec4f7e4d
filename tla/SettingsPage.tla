---------------------------- MODULE SettingsPage ----------------------------
(***************************************************************************)
(* The settings page of the console (dashboard/components/                 *)
(* settings-page.tsx): the gateway's timeouts, stored in milliseconds and  *)
(* edited as texts in seconds, and the calls behind it (handleTimeouts in  *)
(* internal/consoleapi/api.go).  A text that is a number is the number of  *)
(* half milliseconds it says: enough to tell how it is rounded.            *)
(***************************************************************************)
EXTENDS Integers, Sequences, FiniteSets, OrderedLists

CONSTANTS
  Field,       \* the timeouts
  None, Blank, \* nothing; a text that is no number
  Typed,       \* what the user types: Blank or half milliseconds
  Defaults,    \* codeDefaultTimeouts
  MaxEdits, MaxOps, MaxCalls,  \* bounds
  InitialTimeouts

VARIABLES
  stored,     \* the server's timeouts
  settings,   \* the timeouts shown, None while there are none
  form,       \* their texts
  edited,     \* history: the fields edited since the form was filled
  loading, saving,
  feedback,   \* the message after a save, and the timers that clear it
  calls,      \* the calls that are out
  signedOut,
  ops, edits,
  excused     \* history: see QuietMeansFresh and UneditedTimeoutsKept

view == <<settings, form, edited, loading, saving, feedback>>
vars == <<stored, view, calls, signedOut, ops, edits, excused>>

(* Numbers are shown with three decimals of a second and read with Math.round. *)
SecondsText(ms) == 2 * ms
Round(text) == (text + 1) \div 2

ToForm(timeouts) == [x \in Field |-> SecondsText(timeouts[x])]

(* The range is not checked: the limits come as min and max, the page reads  *)
(* minMs and maxMs, and no comparison with undefined holds.                  *)
Parses(text) == text # Blank

Call(kind, val) == [kind |-> kind, val |-> val, at |-> "sent"]

Init ==
  /\ stored \in InitialTimeouts
  /\ settings = None /\ form = ToForm(Defaults) /\ edited = {}
  /\ loading = TRUE /\ saving = FALSE
  /\ feedback = [shown |-> FALSE, timers |-> 0]
  /\ calls = <<Call("load", None)>>
  /\ signedOut = FALSE /\ ops = 0 /\ edits = 0 /\ excused = FALSE

(***************************************************************************)
(* The user.  The fields stay enabled while a save is out.                 *)
(***************************************************************************)
FieldsShown == IF settings = None THEN {} ELSE Field

EditField(x, text) ==
  /\ x \in FieldsShown /\ ~signedOut /\ edits < MaxEdits /\ form[x] # text
  /\ form' = [form EXCEPT ![x] = text] /\ edited' = edited \cup {x}
  /\ edits' = edits + 1
  /\ UNCHANGED <<stored, settings, loading, saving, feedback, calls, signedOut, ops, excused>>

Operate(kind, val) ==
  /\ ~signedOut /\ ops < MaxOps /\ Len(calls) < MaxCalls
  /\ ops' = ops + 1
  /\ calls' = Append(calls, Call(kind, val))
  /\ excused' = (excused \/ \E i \in DOMAIN calls : calls[i].kind # kind)
  /\ UNCHANGED <<stored, settings, form, edited, feedback, signedOut, edits>>

LoadSettings ==
  /\ ~loading
  /\ loading' = TRUE
  /\ Operate("load", None) /\ UNCHANGED saving

CanSubmit == settings # None /\ ~saving

(* A form that does not parse is answered with a message. *)
HandleSave ==
  /\ CanSubmit
  /\ \A x \in Field : Parses(form[x])
  /\ saving' = TRUE
  /\ Operate("save", [timeouts |-> [x \in Field |-> Round(form[x])], edited |-> edited])
  /\ UNCHANGED loading

(***************************************************************************)
(* The server.  It stores what it is sent.  Timeouts that cannot be read   *)
(* are answered with the defaults.                                         *)
(***************************************************************************)
Settled(i, how, val) == calls' = [calls EXCEPT ![i].at = how, ![i].val = val]

ServeLoad(i) ==
  /\ calls[i].kind = "load"
  /\ \/ Settled(i, "ok", stored) /\ UNCHANGED excused
     \/ Settled(i, "ok", Defaults) /\ excused' = (excused \/ stored # Defaults)
  /\ UNCHANGED stored

ServeSave(i) ==
  /\ calls[i].kind = "save"
  /\ stored' = calls[i].val.timeouts
  /\ \/ Settled(i, "ok", calls[i].val) /\ UNCHANGED excused
     \/ Settled(i, "error", calls[i].val) /\ excused' = TRUE   \* the answer is lost

Fail(i) ==
  /\ \E how \in {"error", "unauthorized"} : Settled(i, how, calls[i].val)
  /\ UNCHANGED <<stored, excused>>

Serve(i) ==
  /\ calls[i].at = "sent" /\ ~signedOut
  /\ ServeLoad(i) \/ ServeSave(i) \/ Fail(i)
  /\ UNCHANGED <<view, signedOut, ops, edits>>

(***************************************************************************)
(* Answers.                                                                *)
(***************************************************************************)
Answered(i, kind) ==
  /\ calls[i].kind = kind /\ calls[i].at # "sent" /\ ~signedOut
  /\ calls' = WithoutAt(calls, i)
  /\ signedOut' = (calls[i].at = "unauthorized")
  /\ UNCHANGED <<stored, ops, edits, excused>>

FilledFrom(timeouts) == settings' = timeouts /\ form' = ToForm(timeouts) /\ edited' = {}

LoadAnswered(i) ==
  /\ Answered(i, "load")
  /\ loading' = FALSE
  /\ IF calls[i].at = "ok" THEN FilledFrom(calls[i].val) ELSE UNCHANGED <<settings, form, edited>>
  /\ UNCHANGED <<saving, feedback>>

SaveAnswered(i) ==
  /\ Answered(i, "save")
  /\ saving' = FALSE
  /\ IF calls[i].at = "ok"
     THEN /\ FilledFrom(calls[i].val.timeouts)
          /\ feedback' = [shown |-> TRUE, timers |-> feedback.timers + 1]
     ELSE UNCHANGED <<settings, form, edited, feedback>>
  /\ UNCHANGED loading

FeedbackFades ==
  /\ feedback.timers > 0 /\ ~signedOut
  /\ feedback' = [shown |-> FALSE, timers |-> feedback.timers - 1]
  /\ UNCHANGED <<stored, settings, form, edited, loading, saving, calls, signedOut, ops, edits, excused>>

Next ==
  \/ \E x \in Field, text \in Typed : EditField(x, text)
  \/ LoadSettings \/ HandleSave \/ FeedbackFades
  \/ \E i \in DOMAIN calls : Serve(i) \/ LoadAnswered(i) \/ SaveAnswered(i)

Spec == Init /\ [][Next]_vars

(***************************************************************************)
(* Properties.                                                             *)
(***************************************************************************)
Out(kind) == {i \in DOMAIN calls : calls[i].kind = kind}

TypeOK ==
  /\ stored \in [Field -> Int] /\ settings \in [Field -> Int] \cup {None}
  /\ edited \subseteq Field
  /\ feedback.shown => feedback.timers > 0
  /\ ~signedOut => /\ Cardinality(Out("load")) = IF loading THEN 1 ELSE 0
                   /\ Cardinality(Out("save")) = IF saving THEN 1 ELSE 0

(* When nothing is out, the timeouts shown are those stored, and a form that *)
(* was not touched says the same.  Excused are a load and a save that        *)
(* crossed, a lost answer, and a load answered with the defaults.            *)
QuietMeansFresh ==
  calls = <<>> /\ settings # None /\ ~signedOut /\ ~excused =>
    settings = stored /\ (edited = {} => form = ToForm(stored))

(* A save leaves the timeouts whose text the user left alone exactly as they *)
(* are stored, through seconds and back, whatever was loaded or saved        *)
(* before.                                                                   *)
UneditedTimeoutsKept ==
  \A i \in DOMAIN calls :
    calls[i].kind = "save" /\ calls[i].at = "sent" /\ stored' # stored /\ ~excused'
    => \A x \in Field \ calls[i].val.edited : stored'[x] = stored[x]
=============================================================================
