------------------------------- MODULE MCJobs -------------------------------
(***************************************************************************)
(* Instances of the modules about one job, or a few jobs and what they     *)
(* hand on.  They share no state; a behaviour is about one of them, the    *)
(* one its first state names, and scenes and steps bound what goes on.     *)
(***************************************************************************)
EXTENDS PriceStore, WebAsof, CronWatch, CoreSelection, MonthlyUniverse, EventCause, SheetWords,
        TLC

CONSTANTS a, b, i, wc1, wc2, s1, s2

VARIABLE world
jobsVars == <<priceVars, webVars, cronVars, selVars, monthVars, causeVars, candleVars, nameVars, world>>

-----------------------------------------------------------------------------
MCBarOn == [c \in WebCodes |-> IF c = wc1 THEN AsOfs ELSE {2}]
MCFireAt == [t \in Targets |-> IF t = "monthly" THEN 1 ELSE 2]
MCGrace == [t \in Targets |-> 1]
\* Every list drops one code, takes up another, and keeps the rest.
MCMarket == [n \in Issues |-> [c \in Codes |-> IF c = n + 2 THEN "absent" ELSE "equity_domestic"]]
MCNewsMonth == <<1, 2>>
MCPublished == <<[stock |-> 1, at |-> 2, named |-> FALSE, on |-> {"material"}],
                 [stock |-> 2, at |-> 3, named |-> TRUE, on |-> {"tdnet", "disclosure"}],
                 [stock |-> 1, at |-> 4, named |-> TRUE, on |-> {"disclosure"}],
                 [stock |-> 2, at |-> 4, named |-> FALSE, on |-> {"tdnet"}],
                 [stock |-> 1, at |-> 5, named |-> TRUE, on |-> {"tdnet", "market", "feature"}],
                 [stock |-> 2, at |-> 5, named |-> FALSE, on |-> {"tdnet"}]>>

\* Below six the limits are out of reach of a bar; at six one of them is not.
MCLimits == <<<<6, 6>>, <<10, 4>>>>
QuietBar == [o |-> 5, h |-> 6, l |-> 4, c |-> 5]
MCOldBars == {QuietBar, [o |-> 3, h |-> 6, l |-> 3, c |-> 6]}

MCOutages == {{}, {"kabutan"}}
MCOwnName == <<{"long"}, {}>>
MCShown == [kabutan |-> <<<<{"abc"}, {}>>, <<{"abc", "other"}, {"long"}>>>>,
            nikkei |-> <<<<{"noise"}, {"abc"}>>, <<{"abc"}, {"noise", "other"}>>>>]
MCAlphabet == [w \in Words |-> CASE w = "abc" -> 1 [] w = "long" -> 2 [] w = "noise" -> 3 [] OTHER -> 4]
Named(n) == [w \in Words |-> IF w = "abc" THEN n ELSE IF w = "long" THEN 1 ELSE 0]
MCDisclosed == <<<<[Named(2) EXCEPT !["other"] = 1], Named(0)>>, <<Named(1), Named(0)>>>>

-----------------------------------------------------------------------------
(* The provider's bars come in order but for those of a, and those of the  *)
(* others at most a day late; the benchmark job has ended when that of the *)
(* core begins, which is cut into passes by a alone.                       *)
Prefix(S) == \A d \in S : \A e \in TradingDays : e < d => e \in S
PriceScene ==
    /\ Prefix(market[i]) /\ Prefix(market[b])
    /\ \A d \in 1..priceDay - 2 : d \in market[i] \cap market[b]
    /\ \A s \in Symbols : disk.file[s].whole \/ s = a
    /\ (priceRun.pc = "ensure" /\ ensure["index"].pc \in {"pass", "archive"}) =>
         /\ ensure["core"].pc = "pass" /\ ensure["core"].todo = CoreCodes /\ ensure["core"].passes = 1
    /\ (ensure["core"].pc = "pass" /\ b \notin ensure["core"].todo) =>
         \/ a \notin ensure["core"].todo
         \/ ensure["core"].passes > 1
    /\ ensure["core"].pc = "done" => ensure["index"].pc \in {"done", "failed"}

(* Bars appear before a run, or between two passes of the core, and for    *)
(* the last two days; a run is of the day, on the last day of the one      *)
(* before, too.                                                            *)
PriceSteps ==
    /\ market' # market =>
         /\ \/ priceRun.pc = "idle" /\ csv.kind \in {"none", "rows"}
            \/ /\ ensure["core"].pc = "pass" /\ ensure["core"].todo = {} /\ ~priceRun.replay
               /\ \A s \in Symbols \ {a} : market'[s] = market[s]
         /\ \A d \in 1..priceDay - 2 : \A s \in Symbols : d \in market'[s] => d \in market[s]
    /\ priceDay' # priceDay => priceRun.pc = "idle" /\ csv.kind \in {"none", "rows"}
    /\ (priceRun.pc = "idle" /\ priceRun'.pc = "ensure") =>
         /\ priceRun'.date = priceDay \/ (priceDay = NumPriceDays /\ priceRun'.date = priceDay - 1)
         /\ disk'.file[i] = warm.file[i]
    /\ ensure'["index"].pc = "failed" => ensure["index"].pc \in {"pass", "failed"}
    /\ ensure'["index"].status[i] = "failed" =>
         market[i] = {} \/ ensure["index"].status[i] = "failed"

(* Dates are enriched in their order, between assemblies and with nothing  *)
(* reported; the active set moves once a bundle could not be written.      *)
WebScene ==
    /\ \A d \in AsOfs : d > 1 => (enriched[d] # "none" => enriched[d - 1] # "none")
    /\ ~(asm.mode = "backfill" /\ asm.date = 1 /\ 2 \in asm.todo)
WebSteps ==
    /\ enriched' # enriched => AsmAt("idle") /\ report = Silent
    /\ activeSet' # activeSet => AsmAt("freeze") /\ asm.tries = 2
    /\ (AsmAt("idle") /\ asm'.mode = "daily") => report = Silent /\ webFaults = 0 /\ asm'.date = 2
    /\ asm'.mode = "daily" => activeSet' = activeSet

(* One of the three programs at a time, but for what their guards are      *)
(* about: a release that is being built while the day turns.  One stock is *)
(* delisted at some time, the other stays.                                 *)
Put == {p \in Tags \X Days : patches[p[1]][p[2]] # NoPatch}
SelectScene ==
    /\ Cardinality({p \in {1, 2, 3} : \/ p = 1 /\ builder.pc # "idle"
                                      \/ p = 2 /\ patcher.pc # "idle"
                                      \/ p = 3 /\ daily.pc # "idle"}) <= 1
    /\ delistedOn[s2] = 0
    /\ \A t \in Tags : coreAt[t] = {s2} => delistedOn[s1] # 0
    /\ Cardinality(Put) <= 2
    /\ Cardinality({t \in Tags : snap[t] # "none"}) <= 2
    /\ Cardinality({t \in Tags : snap[t] = "orphan"}) <= 1
    /\ Cardinality({t \in Tags : snap[t] = "pending"}) <= 1
SelectSteps ==
    /\ (daily.pc = "idle" /\ daily'.pc # "idle") => output = NoOutput
    /\ output # NoOutput => UNCHANGED <<daily, patches, today, patcher, builder, delistedOn>>
    /\ (patches' # patches /\ patcher' = patcher) => daily.pc = "patched"
    /\ delistedOn' # delistedOn => builder.pc = "idle" /\ daily.pc = "idle" /\ patcher.pc # "resolved"
    /\ today' # today => builder.pc \in {"idle", "staged"} /\ daily.pc = "idle" /\ patcher.pc # "resolved"
    /\ (builder.pc = "idle" /\ builder'.pc = "staged") => today # 3

(* Bars change while a run splits or between runs, in some ways per code.  *)
MonthSteps ==
    /\ bars'[2] \in {"none", "thin"} /\ bars'[3] \in {"none", "short"} /\ bars'[4] \in {"none", "short"}
    /\ bars'[1] # "thin" /\ bars'[5] # "short" /\ monthRun'.entries[2] # "failed"
    /\ (bars' # bars /\ monthRun' = monthRun) =>
         \A c \in {3, 4} : bars'[c] \in {bars[c], "none"}
    /\ issue' # issue => monthRun.pc \in {"over", "list"}

(* The clock moves between runs and between the reading of the two sites;  *)
(* the first run may have a second attempt.                                *)
CauseSteps ==
    /\ moment' # moment => causeRun.pc \in {"over", "tdnet"}
    /\ causeRun'.attempt = 2 => causeRun'.id = 1

(* Attempts are of both codes, but for the second, which may be of one; of *)
(* today, or of a day that left a checkpoint; TDnet answers when nothing   *)
(* has been read yet.  Before the second, the proposal may be adopted or a  *)
(* day pass, before the last all words of code 1 may be taken out.  The    *)
(* second is not killed once it writes.                                    *)
NameSteps ==
    /\ nameDay' # nameDay => namePass.pc = "idle" /\ namePass.by = 1
    /\ config' # config => namePass.pc = "idle" /\
         IF namePass.by = 1 THEN config' = proposal.names ELSE namePass.by = 2 /\ config'[1] = {}
    /\ (namePass'.pc = "idle" /\ namePass.by = 2) => namePass.pc \in {"idle", "collect", "clear"}
    /\ (namePass.pc = "idle" /\ namePass'.pc # "idle") =>
         /\ namePass'.codes \in {{1}, NameCodes} /\ (namePass'.codes = {1} => namePass'.by = 2)
         /\ namePass'.done = {} => namePass'.issuers[1]["long"] = 1
         /\ namePass'.date = nameDay \/ Fingerprint(namePass'.date, namePass'.codes) \in {k.print : k \in checkpoints}

Scenes ==
    CASE world = "price" -> PriceScene
      [] world = "web" -> WebScene
      [] world = "select" -> SelectScene
      [] OTHER -> TRUE
Steps ==
    CASE world = "price" -> PriceSteps
      [] world = "web" -> WebSteps
      [] world = "select" -> SelectSteps
      [] world = "month" -> MonthSteps
      [] world = "cause" -> CauseSteps
      [] world = "names" -> NameSteps
      [] OTHER -> TRUE

-----------------------------------------------------------------------------
JobsInit ==
    /\ world \in {"price", "web", "cron", "select", "month", "cause", "candle", "names"}
    /\ PriceInit /\ WebInit /\ CronInit /\ SelectInit /\ MonthInit /\ CauseInit /\ CandleInit /\ NameInit
    /\ activeSet = "s1"
    /\ world # "cron" => audit = Poller /\ openDays = {}
    /\ world # "candle" => chart = <<QuietBar>>

JobsNext ==
    /\ UNCHANGED world
    /\ \/ world = "price" /\ PriceNext
          /\ UNCHANGED <<webVars, cronVars, selVars, monthVars, causeVars, candleVars, nameVars>>
       \/ world = "web" /\ WebNext
          /\ UNCHANGED <<priceVars, cronVars, selVars, monthVars, causeVars, candleVars, nameVars>>
       \/ world = "cron" /\ CronNext
          /\ UNCHANGED <<priceVars, webVars, selVars, monthVars, causeVars, candleVars, nameVars>>
       \/ world = "select" /\ SelectNext
          /\ UNCHANGED <<priceVars, webVars, cronVars, monthVars, causeVars, candleVars, nameVars>>
       \/ world = "month" /\ MonthNext
          /\ UNCHANGED <<priceVars, webVars, cronVars, selVars, causeVars, candleVars, nameVars>>
       \/ world = "cause" /\ CauseNext
          /\ UNCHANGED <<priceVars, webVars, cronVars, selVars, monthVars, candleVars, nameVars>>
       \/ world = "candle" /\ CandleNext
          /\ UNCHANGED <<priceVars, webVars, cronVars, selVars, monthVars, causeVars, nameVars>>
       \/ world = "names" /\ NameNext
          /\ UNCHANGED <<priceVars, webVars, cronVars, selVars, monthVars, causeVars, candleVars>>

JobsSpec == JobsInit /\ [][JobsNext]_jobsVars
=============================================================================
