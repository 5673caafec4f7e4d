----------------------------- MODULE UsageCost -----------------------------
(***************************************************************************)
(* What a response costs.  Its usage, see UsageParsing, is stored, charged *)
(* to the caller's key (gateway/handler.go), added to the statistics       *)
(* (statsstore/rollup.go) and shown: each request with the formulas of its *)
(* cost (consoleapi/detail.go, dashboard/utils.ts), the statistics as the  *)
(* cards of the usage page.  The four price the tokens each on its own.    *)
(*                                                                         *)
(* A price is in tenths of a micro-USD for a token, so a cost here is an   *)
(* exact number of them; the code has it in floating point.                *)
(***************************************************************************)
EXTENDS Integers

CONSTANTS
  None,
  Answer,        \* the usage of the bodies that upstreams send, as recorded
  Tariff,        \* the prices a model may have; a part may have None
  MaxRequests    \* bound

VARIABLES
  tariff,    \* the catalog's prices of the model, or None
  row,       \* the response last stored: [type, named, usage, said, counted]
  charge,    \* what it added to its key at these prices, or None where it did not
  stats,     \* the sums of the statistics
  owed,      \* history: the cost of the responses in the statistics
  requests

vars == <<tariff, row, charge, stats, owed, requests>>

PricedPart == {"input", "output", "cacheRead", "cacheWrite"}
NoStats == [requests |-> 0, input |-> 0, output |-> 0, cached |-> 0, cost |-> [p \in PricedPart |-> 0]]

(***************************************************************************)
(* Prices.                                                                 *)
(***************************************************************************)
(* Mutant: a cached prompt stays in the input too. *)
BucketsOfWholePrompt(u) ==
  [input |-> u.input, output |-> u.output, cacheRead |-> u.read + u.cached, cacheWrite |-> u.create]

BucketsForUsage(u) ==
  [input      |-> IF u.cached > u.input THEN 0 ELSE u.input - u.cached,
   output     |-> u.output,
   cacheRead  |-> IF u.read > 0 \/ u.create > 0 THEN u.read ELSE u.cached,
   cacheWrite |-> u.create]

ToInt(price) == IF price = None THEN 0 ELSE price

Sum(of) == of["input"] + of["output"] + of["cacheRead"] + of["cacheWrite"]

CalculateCost(u, t) == Sum([p \in PricedPart |-> BucketsForUsage(u)[p] * ToInt(t[p])])

(* Cut to whole micro-USD; the floating-point product may fall just short.   *)
ToMicroUSD(cost) ==
  {cost \div 10} \cup (IF cost % 10 = 0 /\ cost > 0 THEN {cost \div 10 - 1} ELSE {})

ChargeQuota(named, u) == IF named /\ tariff # None THEN ToMicroUSD(CalculateCost(u, tariff)) ELSE {0}

(***************************************************************************)
(* A response ends (recordResponse).  The row and the key are two updates, *)
(* and each may fail.                                                      *)
(***************************************************************************)
Respond(answer, named) ==
  /\ requests < MaxRequests /\ requests' = requests + 1
  /\ row' \in {[type |-> answer.type, named |-> named, usage |-> answer.usage,
                said |-> answer.said, counted |-> FALSE], None}
  /\ charge' \in ChargeQuota(named, answer.usage) \cup {None}
  /\ UNCHANGED <<tariff, stats, owed>>

Refresh ==
  /\ tariff' \in (Tariff \cup {None}) \ {tariff}
  /\ charge' = None
  /\ UNCHANGED <<row, stats, owed, requests>>

(***************************************************************************)
(* The statistics are priced when a row is added to them.                  *)
(***************************************************************************)
Fold(sums, u) ==
  LET price(p) == IF tariff = None THEN 0 ELSE ToInt(tariff[p])
  IN [requests |-> sums.requests + 1,
      input    |-> sums.input + u.input,
      output   |-> sums.output + u.output,
      cached   |-> sums.cached + u.cached,
      cost     |-> [sums.cost EXCEPT
                      !["input"]      = @ + u.input * price("input"),
                      !["output"]     = @ + u.output * price("output"),
                      !["cacheRead"]  = @ + u.read * price("cacheRead"),
                      !["cacheWrite"] = @ + u.create * price("cacheWrite")]]

RollUp ==
  /\ row # None /\ ~row.counted
  /\ row' = [row EXCEPT !.counted = TRUE]
  /\ stats' = Fold(stats, row.usage)
  /\ owed' = owed + (IF tariff = None THEN 0 ELSE CalculateCost(row.usage, tariff))
  /\ UNCHANGED <<tariff, charge, requests>>

Init ==
  /\ tariff \in Tariff \cup {None} /\ row = None /\ charge = None
  /\ stats = NoStats /\ owed = 0 /\ requests = 0

Next ==
  \/ Refresh \/ RollUp
  \/ \E answer \in Answer, named \in BOOLEAN : Respond(answer, named)

Spec == Init /\ [][Next]_vars

(***************************************************************************)
(* The page of a request.  It is priced again each time it is shown.       *)
(***************************************************************************)
RoundUSD(cost) == (cost + 5) \div 10

ComputeCost(u) == [p \in PricedPart |-> BucketsForUsage(u)[p] * ToInt(tariff[p])]

GetTotalTokens(u, type) ==
  IF u.total > 0 THEN u.total
  ELSE IF type = "openai" THEN u.input + u.output ELSE u.input + u.output + u.create + u.read

(* The rows of counts: what a prompt read anew has, what the cache gave.     *)
UsageMetricRows(u, type) ==
  [prompt |-> u.input,
   uncached |-> IF type = "openai" THEN u.input - u.cached ELSE u.input,
   cached |-> IF type = "openai" THEN u.cached ELSE u.read,
   created |-> IF type = "openai" THEN 0 ELSE u.create,
   completion |-> u.output,
   total |-> GetTotalTokens(u, type)]

FormulaParts(type) == IF type = "openai" THEN PricedPart \ {"cacheWrite"} ELSE PricedPart
SumOfFormulas(of) ==
  of["input"] + of["output"] + of["cacheRead"] + IF "cacheWrite" \in DOMAIN of THEN of["cacheWrite"] ELSE 0

CostMetricRows(u, type) ==
  [p \in FormulaParts(type) |->
     [tokens |-> IF p = "output" THEN u.output ELSE BucketsForUsage(u)[p],
      price  |-> ToInt(tariff[p]),
      cost   |-> RoundUSD(ComputeCost(u)[p])]]

(***************************************************************************)
(* The cards of the usage page.                                            *)
(***************************************************************************)
Overview ==
  [total |-> RoundUSD(Sum(stats.cost)), cost |-> [p \in PricedPart |-> RoundUSD(stats.cost[p])]]

CostCards ==
  <<Overview.total, Overview.cost["input"], Overview.cost["output"],
    Overview.cost["cacheRead"] + Overview.cost["cacheWrite"]>>

(***************************************************************************)
(* Properties.                                                             *)
(***************************************************************************)
Near(x, y, limit) == x - y \in (-limit)..limit

TypeOK ==
  /\ tariff \in Tariff \cup {None} /\ owed \in Nat /\ requests \in 0..MaxRequests
  /\ stats.requests <= requests
  /\ row # None => \A f \in DOMAIN row.usage : row.usage[f] \in Nat

(* A fully recorded body was understood: every count is the one the upstream *)
(* gave last, and what it never gave is zero (usage.go).                     *)
RowIsWhatWasSaid ==
  row # None /\ row.said # None => \A f \in DOMAIN row.said : row.usage[f] = row.said[f]

(* The page of a request adds up: a formula's tokens times its price is its  *)
(* cost, the parts make the total (to the micro-USD, each part is rounded),  *)
(* and the tokens of the formulas are all the tokens counted above them, if  *)
(* the upstream did not say that it cached more than it was sent.            *)
FormulasAddUp ==
  row # None =>
    LET u == row.usage
        counts == UsageMetricRows(u, row.type)
    IN /\ tariff # None =>
            LET lines == CostMetricRows(u, row.type) IN
            /\ \A p \in DOMAIN lines : Near(lines[p].tokens * lines[p].price, 10 * lines[p].cost, 5)
            /\ Near(SumOfFormulas([p \in DOMAIN lines |-> lines[p].cost]),
                    RoundUSD(Sum(ComputeCost(u))), 2)
            /\ row.said # None /\ u.cached <= u.input =>
                 /\ SumOfFormulas([p \in DOMAIN lines |-> lines[p].tokens]) = counts.total
                 /\ lines["input"].tokens = counts.uncached
       /\ row.said # None /\ u.cached <= u.input =>
            counts.uncached + counts.cached + counts.created + counts.completion = counts.total

(* A key pays what the page of its request shows, or a micro-USD less, until *)
(* the prices change (chargeQuota); unless the answer names no model, which  *)
(* is shown at the price of the model asked for and charged to nobody.       *)
ChargedAsShown ==
  row # None /\ charge # None /\ row.named =>
    LET shown == IF tariff = None THEN 0 ELSE RoundUSD(Sum(ComputeCost(row.usage)))
    IN charge \in {shown, shown - 1}

(* The cards of the usage page add up, and their total is the cost of the    *)
(* requests in it; with prompts cached by OpenAI it is not, see              *)
(* CachedPromptsPriced.                                                      *)
CardsAddUp ==
  /\ Near(CostCards[1], CostCards[2] + CostCards[3] + CostCards[4], 2)
  /\ stats.cached = 0 => Sum(stats.cost) = owed

(* The usage page shows what its requests cost, cached prompts at the price  *)
(* of reading the cache (i18n/locales/en.ts:225).                            *)
CachedPromptsPriced == Sum(stats.cost) = owed
=============================================================================
