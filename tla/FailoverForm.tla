---------------------------- MODULE FailoverForm ----------------------------
(***************************************************************************)
(* The failover policy on the routes page (dashboard/components/           *)
(* routes-page.tsx) and the calls behind it (handleFailover in             *)
(* internal/consoleapi/api.go).  The form is filled from the policy by     *)
(* every load and every save, and turned back into a policy by a save.     *)
(***************************************************************************)
EXTENDS Integers, Sequences, FiniteSets, Functions, OrderedLists

CONSTANTS
  None, Blank,     \* nothing; an empty text
  Name,            \* names of models in rules
  Fallbacks,       \* what the text of a rule can say: sequences of targets
  Texts,           \* what the user types for the number of retries
  MaxRules, MaxEdits, MaxOps, MaxCalls,  \* bounds
  InitialPolicies

VARIABLES
  served,     \* the server's policy
  policy,     \* failoverPolicy, None while there is none
  form,       \* failoverForm
  edited,     \* history: the fields of the form edited since it was filled
  flags,      \* loading, saving
  feedback,   \* failoverFeedback, and the timers that clear it
  calls,      \* the calls that are out
  signedOut,
  ops, edits,
  excused     \* history: see QuietMeansFresh and UneditedPolicyKept

vars == <<served, policy, form, edited, flags, feedback, calls, signedOut, ops, edits, excused>>

DefaultPolicy ==
  [enabled |-> TRUE, mode |-> "same_model", attempts |-> 1, custom |-> <<>>, codes |-> {408, 429}]

Call(kind, val) == [kind |-> kind, val |-> val, at |-> "sent"]

Init ==
  /\ served \in InitialPolicies
  /\ policy = None /\ form = None /\ edited = {}
  /\ flags = {"loading"}
  /\ feedback = [shown |-> FALSE, timers |-> 0]
  /\ calls = <<Call("load", None)>>
  /\ signedOut = FALSE /\ ops = 0 /\ edits = 0 /\ excused = FALSE

(***************************************************************************)
(* The two conversions.  Of the status codes the form knows 429 only, and  *)
(* a save always names 408.                                                *)
(***************************************************************************)

ToFailoverForm(p) ==
  [enabled |-> p.enabled, mode |-> p.mode, attempts |-> p.attempts, custom |-> p.custom,
   codes |-> 429 \in p.codes]

ParsesBounded(text) == text \in 0..5

(* Rules without model and fallbacks are dropped, the others must have both. *)
Kept(rules) ==
  Picked(rules, {i \in DOMAIN rules : rules[i].model # Blank \/ rules[i].fallbacks # <<>>})

ParsesRules(rules) ==
  /\ Len(Kept(rules)) <= MaxRules
  /\ \A r \in Range(Kept(rules)) : r.model # Blank /\ r.fallbacks # <<>>

ParsedRules(rules) ==
  [k \in DOMAIN Kept(rules) |->
     [model |-> Kept(rules)[k].model, fallbacks |-> Distinct(Kept(rules)[k].fallbacks)]]

ToPolicy(f) ==
  [enabled |-> f.enabled, mode |-> f.mode, attempts |-> f.attempts,
   custom |-> ParsedRules(f.custom), codes |-> IF f.codes THEN {408, 429} ELSE {408}]

(***************************************************************************)
(* Edits.  The fields stay enabled while a save is out.                    *)
(***************************************************************************)
Edit(field, f) ==
  /\ form # None /\ ~signedOut /\ f # form /\ edits < MaxEdits
  /\ form' = f /\ edited' = edited \cup {field} /\ edits' = edits + 1
  /\ UNCHANGED <<served, policy, flags, feedback, calls, signedOut, ops, excused>>

Mode == {"disabled", "same_model", "any_model"}

EditSettings ==
  \/ Edit("enabled", [form EXCEPT !.enabled = ~@])
  \/ \E mode \in Mode : Edit("mode", [form EXCEPT !.mode = mode])
  \/ \E text \in Texts : Edit("attempts", [form EXCEPT !.attempts = text])

EditTriggers == Edit("codes", [form EXCEPT !.codes = ~@])

EditRules(rules) == Edit("custom", [form EXCEPT !.custom = rules])

AddCustomFallbackRule ==
  /\ Len(form.custom) < MaxRules
  /\ EditRules(Append(form.custom, [model |-> Blank, fallbacks |-> <<>>]))

UpdateCustomFallbackRule(k) ==
  \/ \E m \in Name \cup {Blank} : EditRules([form.custom EXCEPT ![k].model = m])
  \/ \E f \in Fallbacks : EditRules([form.custom EXCEPT ![k].fallbacks = f])

RemoveCustomFallbackRule(k) == EditRules(WithoutAt(form.custom, k))

ResetFailover ==
  /\ policy # None /\ "saving" \notin flags /\ ~signedOut
  /\ form' = ToFailoverForm(policy) /\ edited' = {}
  /\ UNCHANGED <<served, policy, flags, feedback, calls, signedOut, ops, edits, excused>>

(***************************************************************************)
(* Calls.                                                                  *)
(***************************************************************************)
Operate(kind, val) ==
  /\ ~signedOut /\ ops < MaxOps /\ Len(calls) < MaxCalls
  /\ ops' = ops + 1
  /\ calls' = Append(calls, Call(kind, val))
  /\ excused' = (excused \/ \E i \in DOMAIN calls : calls[i].kind # kind)
  /\ UNCHANGED <<served, policy, form, edited, feedback, signedOut, edits>>

Load ==
  /\ "loading" \notin flags
  /\ flags' = flags \cup {"loading"}
  /\ Operate("load", None)

(* A form that does not parse is answered with a message. *)
HandleFailoverSave ==
  /\ policy # None /\ form # None /\ "saving" \notin flags
  /\ ParsesBounded(form.attempts) /\ ParsesRules(form.custom)
  /\ flags' = flags \cup {"saving"}
  /\ Operate("save", [policy |-> ToPolicy(form), edited |-> edited])

(* A policy that cannot be read is answered with the defaults. *)
Settled(i, how, val) == calls' = [calls EXCEPT ![i].at = how, ![i].val = val]

ServeLoad(i) ==
  /\ calls[i].kind = "load"
  /\ \/ Settled(i, "ok", served) /\ UNCHANGED excused
     \/ Settled(i, "ok", DefaultPolicy) /\ excused' = (excused \/ served # DefaultPolicy)
  /\ UNCHANGED served

ServeSave(i) ==
  /\ calls[i].kind = "save"
  /\ served' = calls[i].val.policy
  /\ \/ Settled(i, "ok", calls[i].val) /\ UNCHANGED excused
     \/ Settled(i, "error", calls[i].val) /\ excused' = TRUE   \* the answer is lost

Fail(i) ==
  /\ \E how \in {"error", "unauthorized"} : Settled(i, how, calls[i].val)
  /\ UNCHANGED <<served, excused>>

Serve(i) ==
  /\ calls[i].at = "sent" /\ ~signedOut
  /\ ServeLoad(i) \/ ServeSave(i) \/ Fail(i)
  /\ UNCHANGED <<policy, form, edited, flags, feedback, signedOut, ops, edits>>

Answered(i, kind) ==
  /\ calls[i].kind = kind /\ calls[i].at # "sent" /\ ~signedOut
  /\ calls' = WithoutAt(calls, i)
  /\ signedOut' = (calls[i].at = "unauthorized")
  /\ UNCHANGED <<served, ops, edits, excused>>

FilledFrom(p) == policy' = p /\ form' = ToFailoverForm(p) /\ edited' = {}

LoadAnswered(i) ==
  /\ Answered(i, "load")
  /\ flags' = flags \ {"loading"}
  /\ IF calls[i].at = "ok" THEN FilledFrom(calls[i].val)
                           ELSE UNCHANGED <<policy, form, edited>>
  /\ UNCHANGED feedback

SaveAnswered(i) ==
  /\ Answered(i, "save")
  /\ flags' = flags \ {"saving"}
  /\ IF calls[i].at = "ok"
     THEN /\ FilledFrom(calls[i].val.policy)
          /\ feedback' = [shown |-> TRUE, timers |-> feedback.timers + 1]
     ELSE UNCHANGED <<policy, form, edited, feedback>>

FeedbackFades ==
  /\ feedback.timers > 0 /\ ~signedOut
  /\ feedback' = [shown |-> FALSE, timers |-> feedback.timers - 1]
  /\ UNCHANGED <<served, policy, form, edited, flags, calls, signedOut, ops, edits, excused>>

EditForm ==
  \/ EditSettings \/ EditTriggers \/ AddCustomFallbackRule
  \/ \E k \in DOMAIN form.custom : UpdateCustomFallbackRule(k) \/ RemoveCustomFallbackRule(k)

Next ==
  \/ Load \/ HandleFailoverSave \/ ResetFailover \/ FeedbackFades
  \/ form # None /\ EditForm
  \/ \E i \in DOMAIN calls : Serve(i) \/ LoadAnswered(i) \/ SaveAnswered(i)

Spec == Init /\ [][Next]_vars

(***************************************************************************)
(* Properties.                                                             *)
(***************************************************************************)
TypeOK ==
  /\ served.attempts \in 0..5 /\ served.mode \in Mode
  /\ form # None => /\ policy.attempts \in 0..5 /\ policy.mode \in Mode
                    /\ form.mode \in Mode /\ form.codes \in BOOLEAN
  /\ edited \subseteq DOMAIN served /\ flags \subseteq {"loading", "saving"}
  /\ feedback.shown => feedback.timers > 0

CompleteRules(rules) ==
  \A r \in Range(rules) :
    /\ r.model # Blank /\ r.fallbacks # <<>>
    /\ Cardinality(Range(r.fallbacks)) = Len(r.fallbacks)

(* Whatever the user typed, the stored rules name their model, have at least *)
(* one fallback, and none twice.                                             *)
StoredRulesComplete == CompleteRules(served.custom)

(* When nothing is out, the policy shown is the one stored, and a form that  *)
(* was not touched is that policy.  Excused are a load and a save that       *)
(* crossed, a lost answer, and a load answered with the defaults.            *)
QuietMeansFresh ==
  calls = <<>> /\ policy # None /\ ~signedOut /\ ~excused =>
    policy = served /\ (edited = {} => form = ToFailoverForm(served))

(* A save changes nothing of the stored policy that the user left alone,     *)
(* through both conversions and whatever was saved, loaded or reset before.  *)
(* (A policy without 408, which no form can express, gets it.)               *)
UneditedPolicyKept ==
  \A i \in DOMAIN calls :
    calls[i].kind = "save" /\ calls[i].at = "sent" /\ served' # served /\ ~excused'
    => \A field \in DOMAIN served \ calls[i].val.edited :
         served'[field] = served[field] \/ (field = "codes" /\ 408 \notin served.codes)
=============================================================================
