------------------------------- MODULE MCViews -------------------------------
(***************************************************************************)
(* The pages of ViewPages with values for their constants, and beside them *)
(* the figures of the monitor and the texts, which sum up and recur.       *)
(***************************************************************************)
EXTENDS ViewPages

CONSTANTS p, q

VARIABLES
  recorded, pruned, rolledUp, time,
  format, payload, said

figureVars == <<recorded, pruned, rolledUp, time>>
textVars   == <<format, payload, said>>

(* Buckets of five minutes stand for longer ones: two to an hour, and the    *)
(* trend's widths are one, two and four of them.                             *)
BucketSize == [r \in {"1h", "24h", "all"} |-> IF r = "1h" THEN 1 ELSE IF r = "24h" THEN 2 ELSE 4]
Span       == [r \in {"1h", "24h", "all"} |-> IF r = "1h" THEN 1 ELSE IF r = "24h" THEN 3 ELSE 11]

Figures == INSTANCE MonitorFigures WITH
  Route <- {p, q}, Status <- {200, 404}, DashboardRange <- {"1h", "24h", "all"},
  Hour <- 2, LIMIT <- 2, MaxRows <- 3, MaxTime <- 2, MaxPruned <- 1,
  log <- recorded, counted <- rolledUp, now <- time

Readable == INSTANCE ReadableText WITH Piece <- {"u", "v"}, MaxEvents <- 3

Parsing == INSTANCE UsageParsing WITH
  Input <- {1, 3}, Output <- {2}, Cache <- {0, 3}, MaxEvents <- 2
MCAnswer == Parsing!Answers

(* One model whose every part has a price, and one that has no cache prices. *)
MCTariff ==
  {[input |-> 7, output |-> 15, cacheRead |-> 3, cacheWrite |-> 9],
   [input |-> 25, output |-> 4, cacheRead |-> None, cacheWrite |-> None]}

MCTypeOf == [c \in {p, q} |-> IF c = p THEN "openai" ELSE "anthropic"]

Counts(i, o, create, read, cached) ==
  [input |-> i, output |-> o, total |-> i + o + create + read,
   create |-> create, read |-> read, cached |-> cached]
Ends(status, usage, truncated) == [status |-> status, usage |-> usage, truncated |-> truncated]

(* Responses that are cut off, fail, and hit the cache; of Anthropic one     *)
(* also writes to it.                                                        *)
MCOutcome ==
  LET common == {Ends(200, Counts(0, 0, 0, 0, 0), TRUE), Ends(504, Counts(0, 0, 0, 0, 0), FALSE)}
  IN [openai    |-> common \cup {Ends(200, Counts(3, 2, 0, 0, 3), FALSE)},
      anthropic |-> common \cup {Ends(200, Counts(1, 2, 0, 3, 0), FALSE),
                                 Ends(200, Counts(3, 2, 3, 3, 0), FALSE)}]

MCInit ==
  /\ PagesInit
  /\ Figures!Init
  /\ Readable!Init /\ (page # "text" => format = "chat")

MCNext ==
  \/ PagesNext /\ UNCHANGED <<figureVars, textVars>>
  \/ page = "figures" /\ Figures!Next /\ UNCHANGED <<pagesVars, textVars>>
  \/ page = "text" /\ Readable!Next /\ UNCHANGED <<pagesVars, figureVars>>

MCSpec == MCInit /\ [][MCNext]_<<pagesVars, figureVars, textVars>> /\ Session!Fairness

(* The figures of the monitor and of the usage page add up, the averages lie *)
(* within what they are the averages of, and the text read out of a recorded *)
(* stream is what was said.                                                  *)
FiguresAddUp ==
  /\ page = "figures" =>
       /\ Figures!TypeOK /\ Figures!EachRequestOnce
       /\ Figures!HealthAgreesWithTrend /\ Figures!FiguresAgree /\ Figures!UsageAddsUp
  /\ page = "text" => Readable!ReadsWhatWasSaid
  /\ page = "requests" => Views!AveragesAddUp
=============================================================================
