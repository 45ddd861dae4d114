----------------------------- MODULE JobsProofs -----------------------------
(***************************************************************************)
(* Proofs about eight of the jobs: the web as-of bundles (WebAsof), the    *)
(* watchdog of the scheduled jobs (CronWatch), the core CSV a run works on *)
(* (CoreSelection), the monthly universe (MonthlyUniverse), the causes of  *)
(* the sheets (EventCause), the price stores of the daily run              *)
(* (PriceStore), the name aliases (NameAliases) and the words of a bar     *)
(* (CandleDescriptor), each for any constants.                             *)
(***************************************************************************)
EXTENDS WebAsof, CronWatch, CoreSelection, MonthlyUniverse, EventCause, PriceStore, SheetWords,
        FiniteSetTheorems, WellFoundedInduction, TLAPS

(***************************************************************************)
(* The bundles.  The one work directory of the backfill is safe because an *)
(* attempt starts with the download of its own date's CSV, whatever the    *)
(* directory holds, and a put file says "ok" after a commit only.          *)
(***************************************************************************)
CsvRow == [csv : AsOfs \cup {NoAsOf}, source : {"-", "enriched", "universe"}]
DirRow == [has : SUBSET StoreFiles, held : SUBSET WebCodes, torn : SUBSET WebCodes,
           csv : CsvRow, frozen : BundleRow, puts : [AsOfs -> {"none", "assembled", "ok", "error"}]]
AsmRow == [pc : {"idle", "pass", "download", "extract", "freeze", "project", "begin", "commit"},
           mode : AsmModes \cup {"-"}, put : BOOLEAN, date : AsOfs \cup {NoAsOf},
           set : WebSets \cup {"-"}, skip : BOOLEAN, dates : SUBSET AsOfs, todo : SUBSET AsOfs,
           pass : Nat, tries : Nat, progressed : BOOLEAN]
Attempting == {"download", "extract", "freeze", "project", "begin", "commit"}

WebTyped ==
    /\ enriched \in [AsOfs -> {"none", "stored", "expired"}] /\ activeSet \in WebSets
    /\ webGen \in [AsOfs \X WebSets -> {"none", "pending", "sealed", "committed", "failed"}]
    /\ bundles \in [AsOfs -> BundleRow]
    /\ work \in [AsmModes -> DirRow]
    /\ asm \in AsmRow
    /\ report \in [status : {"-", "ok", "not_met", "error"}, put : BOOLEAN, dates : SUBSET AsOfs]

(* Where the indices have been extracted, all codes have.                  *)
WholeDir(dir) == "index_dir" \in dir.has => dir.held = WebCodes

(* Of the codes with a bar on d only those with a cut file may be missing. *)
Whole(d, codes) == \A c \in WebCodes \ work["backfill"].torn : d \in BarOn[c] => c \in codes

(* What is in the work directory is of the date under way.                 *)
DirFits ==
    /\ \A m \in AsmModes : WholeDir(work[m])
    /\ work["daily"].torn = {}
    /\ asm.pc # "idle" => asm.mode \in AsmModes
    /\ asm.pc = "pass" => asm.mode = "backfill"
    /\ asm.pc \in Attempting => asm.date \in AsOfs
    /\ asm.pc \in {"extract", "freeze"} => Dir.csv.csv = asm.date
    /\ asm.pc \in {"project", "begin", "commit"} =>
          /\ Dir.frozen.csv = asm.date /\ \A c \in Dir.frozen.codes : asm.date \in BarOn[c]
          /\ Whole(asm.date, Dir.frozen.codes)
    /\ asm.pc \in {"begin", "commit"} => asm.set \in WebSets

(* A put file says "ok" of a served date only, and a report stands until   *)
(* the next backfill.                                                      *)
PutsHold ==
    /\ \A d \in AsOfs : work["backfill"].puts[d] = "ok" => bundles[d] # NoBundle
    /\ asm.mode = "backfill" => report.status = "-"

WebInv == WebTyped /\ DirFits /\ BundleIsWhole /\ BundleIsOfItsDate /\ PutsHold /\ ReportedIsServed

LEMMA WebInitHolds == WebInit => WebInv
<1> SUFFICES ASSUME WebInit PROVE WebInv
    OBVIOUS
<1>1. NoAsm \in AsmRow /\ NoAsm.pc = "idle" /\ NoAsm.mode = "-"
    BY DEF NoAsm, AsmRow
<1>2. NoBundle \in BundleRow
    BY DEF NoBundle, BundleRow
<1>3. FreshDir \in DirRow /\ FreshDir.puts = [d \in AsOfs |-> "none"]
    BY <1>2 DEF FreshDir, DirRow, NoCsvFile, CsvRow
<1>4. work \in [AsmModes -> DirRow] /\ \A m \in AsmModes : work[m] = FreshDir
    BY <1>3 DEF WebInit
<1>5. WebTyped
    BY <1>1, <1>2, <1>4 DEF WebInit, WebTyped, Silent
<1>6. DirFits /\ BundleIsOfItsDate /\ BundleIsWhole
    <2>1. WholeDir(FreshDir) /\ FreshDir.torn = {}
        BY DEF WholeDir, FreshDir
    <2> QED BY <1>1, <1>4, <2>1 DEF WebInit, DirFits, BundleIsOfItsDate, BundleIsWhole, Attempting, AsmModes
<1>7. PutsHold /\ ReportedIsServed
    BY <1>1, <1>3, <1>4 DEF WebInit, PutsHold, ReportedIsServed, Silent, AsmModes
<1> QED BY <1>5, <1>6, <1>7 DEF WebInv

(* An attempt that is over leaves a date to try again, a pass or nothing.  *)
LEMMA AttemptIs ==
    ASSUME WebInv, asm.pc \in Attempting, NEW good \in BOOLEAN, AttemptEnds(good)
    PROVE  /\ asm' \in AsmRow
           /\ \/ asm' = NoAsm
              \/ /\ asm.mode = "backfill" /\ asm'.mode = "backfill"
                 /\ asm'.pc \in {"download", "pass"} /\ asm'.date = asm.date
<1>1. asm \in AsmRow /\ asm.tries + 1 \in Nat /\ asm.mode \in AsmModes
    BY DEF WebInv, WebTyped, AsmRow, DirFits, Attempting
<1>2. CASE asm.mode = "daily"
    BY <1>1, <1>2 DEF AttemptEnds, NoAsm, AsmRow
<1>3. CASE asm.mode # "daily" /\ ~good /\ asm.tries < MaxTries
    BY <1>1, <1>3 DEF AttemptEnds, AsmRow, AsmModes
<1>4. CASE asm.mode # "daily" /\ ~(~good /\ asm.tries < MaxTries)
    <2>1. /\ asm.todo \ {asm.date} \in SUBSET AsOfs /\ (asm.progressed \/ good) \in BOOLEAN
        BY <1>1 DEF AsmRow
    <2>2. asm' = [asm EXCEPT !.pc = "pass", !.todo = asm.todo \ {asm.date},
                             !.progressed = asm.progressed \/ good]
        BY <1>4 DEF AttemptEnds
    <2> QED BY <1>1, <1>4, <2>1, <2>2 DEF AsmRow, AsmModes
<1> QED BY <1>2, <1>3, <1>4

(* Bundles are served and replaced, never taken away.                      *)
ServedWhole == \A d \in AsOfs : bundles'[d] # NoBundle => Whole(d, bundles'[d].codes)
StillServed == \A d \in AsOfs : bundles[d] # NoBundle => bundles'[d] # NoBundle

(* The directory under way, and what an attempt leaves of it.              *)
LEMMA DirIs ==
    ASSUME WebInv, asm.pc \in Attempting
    PROVE  /\ asm.mode \in AsmModes /\ asm.date \in AsOfs /\ Dir = work[asm.mode] /\ Dir \in DirRow
           /\ WholeDir(Dir) /\ work \in [AsmModes -> DirRow]
BY DEF WebInv, WebTyped, DirFits, Attempting, Dir

LEMMA LeftIs ==
    ASSUME WebInv, asm.pc \in Attempting, NEW dir \in DirRow, WholeDir(dir), work' = LeftBehind(dir)
    PROVE  /\ work' \in [AsmModes -> DirRow] /\ \A m \in AsmModes : WholeDir(work'[m])
           /\ IF asm.mode = "backfill" THEN work'["backfill"] = dir ELSE work'["backfill"] = work["backfill"]
           /\ work'["daily"].torn = {}
<1>1. FreshDir \in DirRow /\ WholeDir(FreshDir) /\ FreshDir.torn = {}
    BY DEF FreshDir, DirRow, NoCsvFile, CsvRow, NoBundle, BundleRow, WholeDir
<1>2. PICK left \in DirRow : /\ work' = [work EXCEPT ![asm.mode] = left] /\ WholeDir(left)
                             /\ asm.mode = "backfill" => left = dir
                             /\ asm.mode = "daily" => left.torn = {}
    BY <1>1 DEF LeftBehind
<1>3. /\ asm.mode \in AsmModes /\ work \in [AsmModes -> DirRow] /\ \A m \in AsmModes : WholeDir(work[m])
      /\ work["daily"].torn = {}
    BY DirIs DEF WebInv, DirFits
<1>4. work' \in [AsmModes -> DirRow] /\ \A m \in AsmModes : work'[m] = IF m = asm.mode THEN left ELSE work[m]
    BY <1>2, <1>3
<1> QED BY <1>2, <1>3, <1>4 DEF AsmModes

LEMMA AttemptKeeps ==
    ASSUME WebInv, asm.pc \in Attempting, UNCHANGED <<enriched, activeSet, report>>,
           webGen' \in [AsOfs \X WebSets -> {"none", "pending", "sealed", "committed", "failed"}],
           bundles' \in [AsOfs -> BundleRow], BundleIsOfItsDate', ServedWhole, StillServed,
           NEW good \in BOOLEAN, AttemptEnds(good),
           NEW dir \in DirRow, WholeDir(dir), Dir.torn \subseteq dir.torn, work' = LeftBehind(dir),
           \A d \in AsOfs : dir.puts[d] = "ok" => Dir.puts[d] = "ok" \/ bundles'[d] # NoBundle
    PROVE  WebInv'
<1>2. /\ asm' \in AsmRow
      /\ \/ asm' = NoAsm
         \/ /\ asm.mode = "backfill" /\ asm'.mode = "backfill"
            /\ asm'.pc \in {"download", "pass"} /\ asm'.date = asm.date
    BY AttemptIs
<1>3. asm.mode \in AsmModes /\ asm.date \in AsOfs /\ Dir = work[asm.mode]
    BY DirIs
<1>5. /\ work' \in [AsmModes -> DirRow] /\ \A m \in AsmModes : WholeDir(work'[m])
      /\ IF asm.mode = "backfill" THEN work'["backfill"] = dir ELSE work'["backfill"] = work["backfill"]
      /\ work'["daily"].torn = {}
    BY LeftIs
<1>13. BundleIsWhole'
    <2>1. work["backfill"].torn \subseteq work'["backfill"].torn
        BY <1>3, <1>5
    <2> QED BY <2>1 DEF ServedWhole, Whole, BundleIsWhole
<1>6. \A d \in AsOfs : work'["backfill"].puts[d] = "ok" =>
            work["backfill"].puts[d] = "ok" \/ bundles'[d] # NoBundle
    BY <1>3, <1>5
<1>7. WebTyped'
    BY <1>2, <1>5 DEF WebInv, WebTyped
<1>8. NoAsm.pc = "idle" /\ NoAsm.mode = "-"
    BY DEF NoAsm
<1>9. DirFits'
    BY <1>2, <1>3, <1>5, <1>8 DEF DirFits, Attempting
<1>10. PutsHold'
    BY <1>2, <1>6, <1>8 DEF PutsHold, WebInv, StillServed
<1>11. ReportedIsServed'
    <2>1. CASE asm.mode = "backfill"
        BY <2>1 DEF ReportedIsServed, WebInv, PutsHold
    <2>2. CASE asm.mode # "backfill"
        <3>1. work'["backfill"] = work["backfill"]
            BY <1>5, <2>2
        <3>2. report.dates \subseteq AsOfs
            BY DEF WebInv, WebTyped
        <3> QED BY <3>1, <3>2 DEF ReportedIsServed, WebInv, StillServed
    <2> QED BY <2>1, <2>2
<1> QED BY <1>7, <1>9, <1>10, <1>11, <1>13 DEF WebInv

LEMMA RaisesKeep ==
    ASSUME WebInv, asm.pc \in Attempting, UNCHANGED <<enriched, activeSet, report>>,
           webGen' \in [AsOfs \X WebSets -> {"none", "pending", "sealed", "committed", "failed"}],
           bundles' \in [AsOfs -> BundleRow], BundleIsOfItsDate', ServedWhole, StillServed,
           NEW dir \in DirRow, WholeDir(dir), dir.puts = Dir.puts, Dir.torn \subseteq dir.torn,
           AttemptRaisesIn(dir)
    PROVE  WebInv'
<1>1. AttemptEnds(FALSE) /\ work' = LeftBehind(dir)
    BY DEF AttemptRaisesIn
<1> QED BY <1>1, AttemptKeeps

LEMMA SaysKeep ==
    ASSUME WebInv, asm.pc \in Attempting, UNCHANGED <<enriched, activeSet, report>>,
           webGen' \in [AsOfs \X WebSets -> {"none", "pending", "sealed", "committed", "failed"}],
           bundles' \in [AsOfs -> BundleRow], BundleIsOfItsDate', ServedWhole, StillServed,
           NEW result \in {"assembled", "ok", "error"}, AttemptSays(result),
           result = "ok" => bundles'[asm.date] # NoBundle
    PROVE  WebInv'
<1> DEFINE dir == [Dir EXCEPT !.puts = [Dir.puts EXCEPT ![asm.date] = result]]
<1>1. Dir \in DirRow /\ WholeDir(Dir) /\ asm.date \in AsOfs
    BY DirIs
<1>2. [Dir.puts EXCEPT ![asm.date] = result] \in [AsOfs -> {"none", "assembled", "ok", "error"}]
    BY <1>1 DEF DirRow
<1>3. /\ dir \in DirRow /\ WholeDir(dir) /\ dir.puts = [Dir.puts EXCEPT ![asm.date] = result]
      /\ Dir.torn \subseteq dir.torn
    BY <1>1, <1>2 DEF DirRow, WholeDir
<1>4. \A d \in AsOfs : dir.puts[d] = "ok" => Dir.puts[d] = "ok" \/ bundles'[d] # NoBundle
    BY <1>1, <1>2, <1>3 DEF DirRow
<1>5. AttemptEnds(result # "error") /\ (result # "error") \in BOOLEAN /\ work' = LeftBehind(dir)
    BY <1>1 DEF AttemptSays
<1> HIDE DEF dir
<1> QED BY <1>3, <1>4, <1>5, AttemptKeeps

(* A step within an attempt that serves nothing.                           *)
LEMMA WithinKeeps ==
    ASSUME WebInv, UNCHANGED <<enriched, activeSet, bundles, report>>,
           webGen' \in [AsOfs \X WebSets -> {"none", "pending", "sealed", "committed", "failed"}],
           asm' \in AsmRow, work' \in [AsmModes -> DirRow], DirFits',
           asm'.mode = "backfill" => asm.mode = "backfill",
           work'["backfill"].puts = work["backfill"].puts,
           work'["backfill"].torn = work["backfill"].torn
    PROVE  WebInv'
<1>1. WebTyped'
    BY DEF WebInv, WebTyped
<1>2. PutsHold'
    BY DEF WebInv, PutsHold
<1>3. ReportedIsServed' /\ BundleIsOfItsDate' /\ BundleIsWhole'
    BY DEF WebInv, ReportedIsServed, BundleIsOfItsDate, BundleIsWhole
<1> QED BY <1>1, <1>2, <1>3 DEF WebInv

LEMMA AroundKeeps ==
    ASSUME WebInv,
           \/ \E d \in AsOfs : CsvStored(d) \/ CsvExpires(d)
           \/ \E m \in WebSets : SetPromoted(m)
    PROVE  WebInv'
<1>1. UNCHANGED <<webGen, bundles, work, asm, report, webFaults>>
    BY DEF CsvStored, CsvExpires, SetPromoted
<1>2. enriched' \in [AsOfs -> {"none", "stored", "expired"}] /\ activeSet' \in WebSets
    BY DEF CsvStored, CsvExpires, SetPromoted, WebInv, WebTyped
<1> QED BY <1>1, <1>2 DEF WebInv, WebTyped, DirFits, Dir, Whole, BundleIsOfItsDate, BundleIsWhole,
                          PutsHold, ReportedIsServed

LEMMA StartsKeep ==
    ASSUME WebInv,
           \/ \E d \in AsOfs : StartDailyBundle(d) \/ NextDate(d)
           \/ \E put \in BOOLEAN, dates \in SUBSET AsOfs : StartBackfill(put, dates)
           \/ PassEnds
    PROVE  WebInv'
<1>0. asm \in AsmRow /\ work \in [AsmModes -> DirRow] /\ webGen' = webGen
    BY DEF WebInv, WebTyped, StartDailyBundle, NextDate, StartBackfill, PassEnds
<1>1. ASSUME NEW d \in AsOfs, StartDailyBundle(d) PROVE WebInv'
    <2>1. /\ asm' \in AsmRow /\ asm'.pc = "download" /\ asm'.mode = "daily" /\ asm'.date = d
        BY <1>1 DEF StartDailyBundle, NoAsm, AsmRow, AsmModes
    <2>2. FreshDir \in DirRow
        BY DEF FreshDir, DirRow, NoCsvFile, CsvRow, NoBundle, BundleRow
    <2>3. /\ work' \in [AsmModes -> DirRow] /\ work'["backfill"] = work["backfill"]
          /\ work'["daily"] = FreshDir
          /\ UNCHANGED <<enriched, activeSet, bundles, report>>
        BY <1>0, <1>1, <2>2 DEF StartDailyBundle, AsmModes
    <2>4. DirFits'
        <3>1. \A m \in AsmModes : WholeDir(work'[m])
            BY <2>3 DEF WholeDir, FreshDir, AsmModes, WebInv, DirFits
        <3>2. work'["daily"].torn = {}
            BY <2>3 DEF FreshDir
        <3> QED BY <2>1, <3>1, <3>2 DEF DirFits, Attempting, AsmModes
    <2>5. webGen' \in [AsOfs \X WebSets -> {"none", "pending", "sealed", "committed", "failed"}]
        BY <1>0 DEF WebInv, WebTyped
    <2> QED BY <2>1, <2>3, <2>4, <2>5, WithinKeeps
<1>2. ASSUME NEW d \in AsOfs, NextDate(d) PROVE WebInv'
    <2>1. asm.mode = "backfill" /\ Dir \in DirRow
        BY <1>0, <1>2 DEF NextDate, AsmAt, WebInv, DirFits, Dir, AsmModes
    <2>2. asm' = [asm EXCEPT !.pc = "download", !.date = d, !.skip = HasPrices, !.tries = 1]
        BY <1>2 DEF NextDate
    <2>7. HasPrices \in BOOLEAN
        BY DEF HasPrices
    <2>3. asm' \in AsmRow /\ asm'.pc = "download" /\ asm'.mode = "backfill" /\ asm'.date = d
        BY <1>0, <2>1, <2>2, <2>7 DEF AsmRow
    <2>5. UNCHANGED <<enriched, activeSet, webGen, bundles, work, report>>
        BY <1>2 DEF NextDate
    <2>4. DirFits'
        BY <2>3, <2>5 DEF DirFits, Attempting, AsmModes, WebInv
    <2>6. webGen' \in [AsOfs \X WebSets -> {"none", "pending", "sealed", "committed", "failed"}]
        BY <1>0 DEF WebInv, WebTyped
    <2> QED BY <1>0, <2>1, <2>3, <2>4, <2>5, <2>6, WithinKeeps
<1>3. ASSUME NEW put \in BOOLEAN, NEW dates \in SUBSET AsOfs, StartBackfill(put, dates) PROVE WebInv'
    <2>1. asm' = [NoAsm EXCEPT !.pc = "pass", !.mode = "backfill", !.put = put, !.dates = dates,
                               !.todo = Remaining(dates), !.pass = 1]
        BY <1>3 DEF StartBackfill
    <2>2. asm' \in AsmRow /\ asm'.pc = "pass" /\ asm'.mode = "backfill"
        BY <2>1 DEF NoAsm, AsmRow, AsmModes, Remaining
    <2>3. report' = Silent /\ UNCHANGED <<enriched, activeSet, webGen, bundles, work>>
        BY <1>3 DEF StartBackfill
    <2>4. WebTyped'
        BY <2>2, <2>3 DEF WebInv, WebTyped, Silent
    <2>5. DirFits'
        BY <2>2, <2>3 DEF DirFits, Attempting, AsmModes, WebInv
    <2> QED BY <2>3, <2>4, <2>5 DEF WebInv, BundleIsOfItsDate, BundleIsWhole, PutsHold, ReportedIsServed, Silent
<1>4. CASE PassEnds
    <2>1. UNCHANGED <<enriched, activeSet, webGen, bundles, work>> /\ asm.mode = "backfill" /\ asm.dates \subseteq AsOfs
        BY <1>0, <1>4 DEF PassEnds, AsmAt, WebInv, DirFits, AsmRow
    <2>2. CASE asm' = [asm EXCEPT !.todo = Remaining(asm.dates), !.pass = @ + 1, !.progressed = FALSE]
               /\ UNCHANGED report
        <3>1. asm' \in AsmRow /\ asm'.pc = "pass" /\ asm'.mode = "backfill"
            <4>1. asm.pc = "pass"
                BY <1>4 DEF PassEnds, AsmAt
            <4>2. Remaining(asm.dates) \in SUBSET AsOfs /\ asm.pass + 1 \in Nat
                BY <1>0, <2>1 DEF Remaining, AsmRow
            <4>3. asm' = [asm EXCEPT !.todo = Remaining(asm.dates), !.pass = asm.pass + 1, !.progressed = FALSE]
                BY <2>2
            <4> QED BY <1>0, <2>1, <4>1, <4>2, <4>3 DEF AsmRow
        <3>2. DirFits'
            BY <2>1, <3>1 DEF DirFits, Attempting, AsmModes, WebInv
        <3>3. webGen' \in [AsOfs \X WebSets -> {"none", "pending", "sealed", "committed", "failed"}]
            BY <1>0 DEF WebInv, WebTyped
        <3> QED BY <1>0, <2>1, <2>2, <3>1, <3>2, <3>3, WithinKeeps
    <2>3. CASE /\ asm' = NoAsm
               /\ report' = [status |-> CoverageStatus(asm.dates), put |-> asm.put, dates |-> asm.dates]
        <3>1. NoAsm \in AsmRow /\ NoAsm.pc = "idle" /\ NoAsm.mode = "-"
            BY DEF NoAsm, AsmRow
        <3>2. CoverageStatus(asm.dates) \in {"ok", "not_met", "error"}
            BY DEF CoverageStatus
        <3>3. WebTyped'
            BY <1>0, <2>1, <2>3, <3>1, <3>2 DEF WebInv, WebTyped, AsmRow
        <3>4. DirFits' /\ PutsHold'
            BY <2>1, <2>3, <3>1 DEF DirFits, Attempting, WebInv, PutsHold
        <3>5. ReportedIsServed'
            <4> SUFFICES ASSUME report'.status \in {"ok", "not_met"}, NEW d \in asm.dates
                         PROVE  bundles[d] # NoBundle \/ work["backfill"].puts[d] = "assembled"
                BY <2>1, <2>3 DEF ReportedIsServed
            <4>1. Remaining(asm.dates) = {}
                BY <2>3 DEF CoverageStatus
            <4>2. PutOk(d)
                BY <4>1 DEF Remaining
            <4> QED BY <2>1, <4>2 DEF PutOk, WebInv, PutsHold
        <3> QED BY <2>1, <3>3, <3>4, <3>5 DEF WebInv, BundleIsOfItsDate, BundleIsWhole
    <2> QED BY <1>4, <2>2, <2>3 DEF PassEnds
<1> QED BY <1>1, <1>2, <1>3, <1>4

(* What a commit serves is of the date.                                    *)
LEMMA ServedIs ==
    ASSUME WebInv, AsmAt("commit")
    PROVE  /\ Served \in [AsOfs -> BundleRow] /\ Served[asm.date] # NoBundle
           /\ \A d \in AsOfs : bundles[d] # NoBundle => Served[d] # NoBundle
           /\ \A d \in AsOfs : Served[d] # NoBundle =>
                 /\ Served[d].csv = d /\ \A c \in Served[d].codes : d \in BarOn[c]
                 /\ Whole(d, Served[d].codes)
<1> DEFINE row == [Dir.frozen EXCEPT !.set = asm.set]
<1>1. asm.mode \in AsmModes /\ asm.date \in AsOfs /\ Dir \in DirRow /\ asm.set \in WebSets
    BY DEF WebInv, WebTyped, AsmAt, DirFits, Attempting, Dir
<1>2. Dir.frozen \in BundleRow
    BY <1>1 DEF DirRow
<1>3. row \in BundleRow /\ row.csv = Dir.frozen.csv /\ row.codes = Dir.frozen.codes
    BY <1>1, <1>2 DEF BundleRow
<1>4. /\ row.csv = asm.date /\ \A c \in row.codes : asm.date \in BarOn[c]
      /\ Whole(asm.date, row.codes)
    BY <1>3 DEF WebInv, DirFits, AsmAt
<1>5. row # NoBundle
    BY <1>1, <1>4, WebAssumption DEF NoBundle
<1>6. /\ bundles \in [AsOfs -> BundleRow] /\ Served = [bundles EXCEPT ![asm.date] = row]
      /\ \A d \in AsOfs : bundles[d] # NoBundle =>
            /\ bundles[d].csv = d /\ \A c \in bundles[d].codes : d \in BarOn[c]
            /\ Whole(d, bundles[d].codes)
    BY DEF WebInv, WebTyped, Served, BundleIsOfItsDate, BundleIsWhole, Whole
<1> HIDE DEF row
<1> QED BY <1>1, <1>3, <1>4, <1>5, <1>6

LEMMA GensTyped ==
    ASSUME WebInv, asm.pc \in {"begin", "commit"}, NEW s \in {"pending", "sealed", "committed", "failed"},
           GenBecomes(s)
    PROVE  webGen' \in [AsOfs \X WebSets -> {"none", "pending", "sealed", "committed", "failed"}]
BY DEF GenBecomes, WebInv, WebTyped

(* What lies in the directory once a call has failed or a kill has come.   *)
LEMMA BroughtIs ==
    ASSUME WebInv, asm.pc \in Attempting, NEW files \in SUBSET {"ohlc_zip", "index_zip"}
    PROVE  /\ Brought(files) \in DirRow /\ WholeDir(Brought(files)) /\ Brought(files).puts = Dir.puts
           /\ Brought(files).torn = Dir.torn
<1> DEFINE has == IF asm.skip THEN Dir.has ELSE Dir.has \cup files
<1>1. Dir \in DirRow /\ WholeDir(Dir)
    BY DirIs
<1>2. has \in SUBSET StoreFiles /\ ("index_dir" \in has => "index_dir" \in Dir.has)
    BY <1>1 DEF DirRow, StoreFiles
<1>3. Brought(files) = [Dir EXCEPT !.has = has]
    BY <1>1 DEF Brought
<1> HIDE DEF has
<1> QED BY <1>1, <1>2, <1>3 DEF DirRow, WholeDir

LEMMA ExtractedIs ==
    ASSUME WebInv, asm.pc \in Attempting, NEW codes \in SUBSET WebCodes
    PROVE  /\ Extracted(codes) \in DirRow /\ WholeDir(Extracted(codes)) /\ Extracted(codes).puts = Dir.puts
           /\ Extracted(codes).csv = Dir.csv /\ Extracted(codes).torn = Dir.torn
<1>1. Dir \in DirRow /\ WholeDir(Dir)
    BY DirIs
<1>2. Dir.has \cup {"daily_dir"} \in SUBSET StoreFiles /\ Dir.held \cup codes \in SUBSET WebCodes
    BY <1>1 DEF DirRow, StoreFiles
<1> QED BY <1>1, <1>2 DEF Extracted, DirRow, WholeDir

LEMMA PartWayIs ==
    ASSUME WebInv, asm.pc \in Attempting, NEW dir \in PartWay
    PROVE  dir \in DirRow /\ WholeDir(dir) /\ dir.puts = Dir.puts /\ Dir.torn \subseteq dir.torn
<1>1. CASE dir = Dir
    BY <1>1, DirIs
<1>2. CASE dir \in Archives
    BY <1>2, BroughtIs DEF Archives
<1>3. ASSUME NEW codes \in SUBSET WebCodes, NEW cut \in {{}} \cup {{c} : c \in WebCodes}, dir = CutOff(codes, cut)
      PROVE  dir \in DirRow /\ WholeDir(dir) /\ dir.puts = Dir.puts /\ Dir.torn \subseteq dir.torn
    <2> DEFINE X == Extracted(codes)
    <2>1. X \in DirRow /\ WholeDir(X) /\ X.puts = Dir.puts /\ X.torn = Dir.torn
        BY ExtractedIs
    <2>2. dir = [X EXCEPT !.torn = X.torn \cup cut] /\ cut \in SUBSET WebCodes
        BY <1>3 DEF CutOff
    <2> HIDE DEF X
    <2> QED BY <2>1, <2>2 DEF DirRow, WholeDir
<1>4. dir \in {Dir} \cup Archives
         \cup {CutOff(codes, cut) : codes \in SUBSET WebCodes, cut \in {{}} \cup {{c} : c \in WebCodes}}
    <2>1. CASE AsmAt("download")
        BY <2>1 DEF PartWay
    <2>2. CASE ~AsmAt("download") /\ AsmAt("extract") /\ ExtractsStores
        BY <2>2 DEF PartWay
    <2>3. CASE ~AsmAt("download") /\ ~(AsmAt("extract") /\ ExtractsStores)
        BY <2>3 DEF PartWay
    <2> QED BY <2>1, <2>2, <2>3
<1>5. CASE dir \in {CutOff(codes, cut) : codes \in SUBSET WebCodes, cut \in {{}} \cup {{c} : c \in WebCodes}}
    <2>1. PICK codes \in SUBSET WebCodes, cut \in {{}} \cup {{c} : c \in WebCodes} : dir = CutOff(codes, cut)
        BY <1>5, SMT
    <2> QED BY <1>3, <2>1, Zenon
<1> QED BY <1>1, <1>2, <1>4, <1>5

LEMMA AttemptsKeep ==
    ASSUME WebInv,
           Download \/ Extract \/ BeginBundle \/ CommitBundle \/ CallRaises \/ AsmKilled
              \/ (\E codes \in SUBSET WebCodes : Freeze(codes) \/ Project(codes))
              \/ (\E failed, committed \in BOOLEAN : BundleFails(failed, committed))
    PROVE  WebInv'
<1> DEFINE Gens == [AsOfs \X WebSets -> {"none", "pending", "sealed", "committed", "failed"}]
<1>0. /\ asm \in AsmRow /\ work \in [AsmModes -> DirRow] /\ webGen \in Gens /\ activeSet \in WebSets
      /\ bundles \in [AsOfs -> BundleRow] /\ BundleIsOfItsDate /\ BundleIsWhole
    BY DEF WebInv, WebTyped
<1>a. ASSUME asm.pc \in Attempting, NEW dir \in DirRow, WholeDir(dir), dir.puts = Dir.puts,
             Dir.torn \subseteq dir.torn, AttemptRaisesIn(dir), UNCHANGED <<enriched, activeSet, webGen, bundles, report>>
      PROVE  WebInv'
    BY <1>0, <1>a, RaisesKeep DEF StillServed, BundleIsOfItsDate, BundleIsWhole, ServedWhole, Whole
<1>1. ASSUME asm.pc \in Attempting, AttemptRaises,
             UNCHANGED <<enriched, activeSet, webGen, bundles, report>>
      PROVE  WebInv'
    BY <1>a, <1>1, DirIs DEF AttemptRaises
<1>2. ASSUME asm.pc \in Attempting, NEW result \in {"assembled", "error"}, AttemptSays(result),
             UNCHANGED <<enriched, activeSet, webGen, bundles, report>>
      PROVE  WebInv'
    BY <1>0, <1>2, SaysKeep DEF StillServed, BundleIsOfItsDate, BundleIsWhole, ServedWhole, Whole
<1>b. ASSUME asm.pc \in Attempting, NEW pc \in {"extract", "freeze", "project"}, NEW dir \in DirRow,
             WholeDir(dir), dir.puts = Dir.puts, dir.torn = Dir.torn, AsmGoto(pc), work' = [work EXCEPT ![asm.mode] = dir],
             UNCHANGED <<enriched, activeSet, webGen, bundles, report>>,
             pc \in {"extract", "freeze"} => dir.csv.csv = asm.date,
             pc = "project" =>
                /\ dir.frozen.csv = asm.date /\ \A c \in dir.frozen.codes : asm.date \in BarOn[c]
                /\ Whole(asm.date, dir.frozen.codes)
      PROVE  WebInv'
    <2>1. /\ asm.mode \in AsmModes /\ asm.date \in AsOfs /\ Dir = work[asm.mode] /\ work \in [AsmModes -> DirRow]
          /\ \A m \in AsmModes : WholeDir(work[m])
          /\ work["daily"].torn = {}
        BY <1>b, DirIs DEF WebInv, DirFits
    <2>2. /\ work' \in [AsmModes -> DirRow]
          /\ \A m \in AsmModes : work'[m] = IF m = asm.mode THEN dir ELSE work[m]
        BY <1>b, <2>1
    <2>3. asm' \in AsmRow /\ asm'.pc = pc /\ asm'.mode = asm.mode /\ asm'.date = asm.date
        BY <1>0, <1>b DEF AsmGoto, AsmRow
    <2>5. /\ work'["backfill"].puts = work["backfill"].puts
          /\ work'["backfill"].torn = work["backfill"].torn /\ work'["daily"].torn = {}
        BY <1>b, <2>1, <2>2 DEF AsmModes
    <2>6. Dir' = dir
        BY <2>1, <2>2, <2>3 DEF Dir
    <2>7. \A codes \in SUBSET WebCodes : Whole(asm.date, codes) => Whole(asm.date, codes)'
        BY <2>3, <2>5 DEF Whole
    <2>8. dir.frozen.codes \in SUBSET WebCodes
        BY DEF DirRow, BundleRow
    <2>9. pc = "project" => Whole(asm.date, dir.frozen.codes)'
        BY <1>b, <2>7, <2>8
    <2>4. DirFits'
        <3>1. asm'.pc \in {"project", "begin", "commit"} =>
                  /\ Dir'.frozen.csv = asm'.date /\ \A c \in Dir'.frozen.codes : asm'.date \in BarOn[c]
                  /\ Whole(asm.date, Dir.frozen.codes)'
            BY <1>b, <2>2, <2>3, <2>5, <2>6 DEF Whole
        <3> QED BY <1>b, <2>1, <2>2, <2>3, <2>5, <2>6, <3>1 DEF DirFits, Attempting
    <2> QED BY <1>0, <1>b, <2>2, <2>3, <2>4, <2>5, WithinKeeps
<1>3. CASE Download
    <2>1. asm.pc = "download" /\ asm.pc \in Attempting
        BY <1>3 DEF Download, AsmAt, Attempting
    <2>2. UNCHANGED <<enriched, activeSet, webGen, bundles, report>>
        BY <1>3 DEF Download
    <2>3. CASE CsvFile(asm.date) = NoCsvFile
        BY <1>1, <1>3, <2>1, <2>2, <2>3 DEF Download
    <2>4. CASE CsvFile(asm.date) # NoCsvFile
        <3> DEFINE F == CsvFile(asm.date)
                   B == Brought({"ohlc_zip", "index_zip"})
                   N == [B EXCEPT !.csv = F]
        <3>1. F \in CsvRow /\ F.csv = asm.date
            BY <2>1, <2>4, DirIs DEF CsvFile, UniverseCsv, CsvRow
        <3>2. B \in DirRow /\ WholeDir(B) /\ B.puts = Dir.puts /\ B.torn = Dir.torn
            BY <2>1, BroughtIs DEF StoreFiles
        <3>3. work' = [work EXCEPT ![asm.mode] = N] /\ AsmGoto("extract")
            BY <1>3, <2>4 DEF Download
        <3>4. N \in DirRow /\ WholeDir(N) /\ N.puts = B.puts /\ N.torn = B.torn /\ N.csv = F
            BY <3>1, <3>2 DEF DirRow, WholeDir
        <3> HIDE DEF N, B, F
        <3> QED BY <1>b, <2>1, <2>2, <3>1, <3>2, <3>3, <3>4
    <2> QED BY <2>3, <2>4
<1>c. CASE Extract
    <2>1. asm.pc = "extract" /\ asm.pc \in Attempting /\ Dir.csv.csv = asm.date
        BY <1>c DEF Extract, AsmAt, Attempting, WebInv, DirFits
    <2>2. UNCHANGED <<enriched, activeSet, webGen, bundles, report>>
        BY <1>c DEF Extract
    <2>3. Dir \in DirRow /\ WholeDir(Dir) /\ Dir = work[asm.mode] /\ asm.mode \in AsmModes
        BY <2>1, DirIs
    <2> DEFINE X == Extracted(WebCodes)
               N == [X EXCEPT !.has = X.has \cup {"index_dir"}]
    <2>8. Dir.held \cup WebCodes = WebCodes
        BY <2>3 DEF DirRow
    <2>9. X = [Dir EXCEPT !.has = Dir.has \cup {"daily_dir"}, !.held = WebCodes]
        BY <2>8 DEF Extracted
    <2>10. X \in DirRow /\ WholeDir(X) /\ X.puts = Dir.puts /\ X.csv = Dir.csv /\ X.torn = Dir.torn
        BY <2>1, <2>3, ExtractedIs
    <2>11. X.held = WebCodes
        BY <2>3, <2>9 DEF DirRow
    <2>4. /\ X \in DirRow /\ WholeDir(X) /\ X.puts = Dir.puts /\ X.csv = Dir.csv /\ X.held = WebCodes
          /\ X.torn = Dir.torn
        BY <2>10, <2>11
    <2>5. CASE ~ExtractsStores
        <3>1. AsmGoto("freeze") /\ work' = work /\ work = [work EXCEPT ![asm.mode] = Dir]
            BY <1>0, <1>c, <2>3, <2>5 DEF Extract
        <3> QED BY <1>b, <2>1, <2>2, <2>3, <3>1
    <2>6. CASE ExtractsStores /\ "index_zip" \notin Dir.has
        <3>1. AttemptRaisesIn(X)
            BY <1>c, <2>6 DEF Extract
        <3> HIDE DEF X
        <3> QED BY <1>a, <2>1, <2>2, <2>4, <3>1
    <2>7. CASE ExtractsStores /\ "index_zip" \in Dir.has
        <3>1. work' = [work EXCEPT ![asm.mode] = N] /\ AsmGoto("freeze")
            BY <1>c, <2>7 DEF Extract
        <3>2. N \in DirRow /\ WholeDir(N) /\ N.puts = X.puts /\ N.torn = X.torn /\ N.csv = X.csv
            BY <2>4 DEF DirRow, WholeDir, StoreFiles
        <3> HIDE DEF N, X
        <3> QED BY <1>b, <2>1, <2>2, <2>4, <3>1, <3>2
    <2> QED BY <2>5, <2>6, <2>7
<1>4. ASSUME NEW lost \in SUBSET WebCodes, Freeze(lost) PROVE WebInv'
    <2>1. asm.pc = "freeze" /\ asm.pc \in Attempting /\ Dir.csv.csv = asm.date
        BY <1>4 DEF Freeze, AsmAt, WebInv, DirFits, Attempting
    <2>2. UNCHANGED <<enriched, activeSet, webGen, bundles, report>>
        BY <1>4 DEF Freeze
    <2>3. CASE asm.date \notin IndexBars \/ "index_dir" \notin Dir.has
        BY <1>1, <1>4, <2>1, <2>2, <2>3 DEF Freeze
    <2>4. CASE asm.date \in IndexBars /\ "index_dir" \in Dir.has
        <3> DEFINE W == work[asm.mode]
                   F == [csv |-> Dir.csv.csv, source |-> Dir.csv.source, codes |-> Kept(asm.date, lost), set |-> "-"]
                   N == [W EXCEPT !.frozen = F]
        <3>1. W \in DirRow /\ Dir = W /\ asm.mode \in AsmModes /\ WholeDir(W)
            BY <2>1, DirIs
        <3>6. lost \subseteq work["backfill"].torn
            BY <1>4, <3>1 DEF Freeze, WebInv, DirFits, AsmModes
        <3>2. /\ Kept(asm.date, lost) \subseteq WebCodes /\ \A c \in Kept(asm.date, lost) : asm.date \in BarOn[c]
              /\ Whole(asm.date, Kept(asm.date, lost))
            BY <2>4, <3>1, <3>6 DEF Kept, WholeDir, Whole
        <3>3. /\ F \in BundleRow /\ F.csv = asm.date /\ \A c \in F.codes : asm.date \in BarOn[c]
              /\ Whole(asm.date, F.codes)
            BY <2>1, <3>1, <3>2 DEF BundleRow, DirRow, CsvRow
        <3>4. work' = [work EXCEPT ![asm.mode] = N] /\ AsmGoto("project")
            BY <1>0, <1>4, <2>4, <3>1 DEF Freeze
        <3> HIDE DEF F
        <3>5. N \in DirRow /\ N.frozen = F /\ N.puts = W.puts /\ N.torn = W.torn /\ WholeDir(N)
            BY <3>1, <3>3 DEF DirRow, WholeDir
        <3> HIDE DEF N
        <3> QED BY <1>b, <2>1, <2>2, <3>1, <3>3, <3>4, <3>5
    <2> QED BY <2>3, <2>4
<1>5. ASSUME NEW valued \in SUBSET WebCodes, Project(valued) PROVE WebInv'
    <2>1. asm.pc = "project" /\ asm.date \in AsOfs /\ asm.mode \in AsmModes
          /\ Dir.frozen.csv = asm.date /\ \A c \in Dir.frozen.codes : asm.date \in BarOn[c]
          /\ Whole(asm.date, Dir.frozen.codes)
        BY <1>5 DEF Project, AsmAt, WebInv, DirFits, Attempting
    <2>2. UNCHANGED <<enriched, activeSet, webGen, bundles, report>>
        BY <1>5 DEF Project
    <2>3. CASE AsmBinds /\ UNCHANGED work
        <3>1. asm' = [asm EXCEPT !.pc = "begin", !.set = activeSet]
            BY <2>3 DEF AsmBinds, ActiveSetNow
        <3>2. /\ asm' \in AsmRow /\ asm'.pc = "begin" /\ asm'.mode = asm.mode /\ asm'.date = asm.date
              /\ asm'.set = activeSet
            BY <1>0, <3>1 DEF AsmRow
        <3>3. DirFits'
            BY <1>0, <2>1, <2>3, <3>2 DEF DirFits, Dir, Whole, Attempting, WebInv
        <3> QED BY <1>0, <2>2, <2>3, <3>2, <3>3, WithinKeeps
    <2> QED BY <1>1, <1>2, <1>5, <2>1, <2>2, <2>3 DEF Project, Attempting
<1>6. CASE BeginBundle
    <2>1. asm.pc = "begin" /\ asm.date \in AsOfs /\ asm.mode \in AsmModes /\ asm.set \in WebSets
          /\ Dir.frozen.csv = asm.date /\ \A c \in Dir.frozen.codes : asm.date \in BarOn[c]
          /\ Whole(asm.date, Dir.frozen.codes)
        BY <1>6 DEF BeginBundle, AsmAt, WebInv, DirFits, Attempting
    <2>2. UNCHANGED <<enriched, activeSet, bundles, report>>
        BY <1>6 DEF BeginBundle
    <2>3. CASE MayBegin
        <3>1. GenBecomes("pending") /\ asm' = [asm EXCEPT !.pc = "commit"] /\ UNCHANGED work
            BY <1>6, <2>3 DEF BeginBundle, AsmGoto
        <3>2. webGen' \in Gens
            BY <2>1, <3>1, GensTyped
        <3>3. /\ asm' \in AsmRow /\ asm'.pc = "commit" /\ asm'.mode = asm.mode /\ asm'.date = asm.date
              /\ asm'.set = asm.set
            BY <1>0, <3>1 DEF AsmRow
        <3>4. DirFits'
            BY <1>0, <2>1, <3>1, <3>3 DEF DirFits, Dir, Whole, Attempting, WebInv
        <3> QED BY <1>0, <2>2, <3>1, <3>2, <3>3, <3>4, WithinKeeps
    <2>4. CASE ~MayBegin
        BY <1>2, <1>6, <2>1, <2>2, <2>4 DEF BeginBundle, Attempting
    <2> QED BY <2>3, <2>4
<1>7. ASSUME AsmAt("commit"), bundles' = Served
      PROVE  /\ asm.pc \in Attempting /\ bundles' \in [AsOfs -> BundleRow] /\ BundleIsOfItsDate'
             /\ ServedWhole /\ StillServed /\ bundles'[asm.date] # NoBundle
    BY <1>7, ServedIs DEF AsmAt, Attempting, BundleIsOfItsDate, ServedWhole, StillServed
<1>8. CASE CommitBundle
    <2>1. AsmAt("commit") /\ GenBecomes("committed") /\ bundles' = Served /\ AttemptSays("ok")
          /\ UNCHANGED <<enriched, activeSet, report>>
        BY <1>8 DEF CommitBundle
    <2>2. webGen' \in Gens
        BY <2>1, GensTyped DEF AsmAt
    <2> QED BY <1>7, <2>1, <2>2, SaysKeep
<1>9. ASSUME NEW failed \in BOOLEAN, NEW committed \in BOOLEAN, BundleFails(failed, committed)
      PROVE  WebInv'
    <2>1. /\ AsmAt("commit") /\ asm.pc \in {"begin", "commit"} /\ asm.pc \in Attempting
          /\ UNCHANGED <<enriched, activeSet, report>>
        BY <1>9 DEF BundleFails, AsmAt, Attempting
    <2>2. PICK s \in {"pending", "sealed", "committed", "failed"} : GenBecomes(s)
        BY <1>9 DEF BundleFails
    <2>3. webGen' \in Gens
        BY <2>1, <2>2, GensTyped
    <2>4. AttemptSays("error") \/ AttemptRaises
        BY <1>9 DEF BundleFails
    <2>5. BundleIsOfItsDate' /\ ServedWhole /\ StillServed /\ bundles' \in [AsOfs -> BundleRow]
        <3>1. CASE bundles' = Served
            BY <1>7, <2>1, <3>1
        <3>2. CASE bundles' = bundles
            BY <1>0, <3>2 DEF BundleIsOfItsDate, BundleIsWhole, StillServed, ServedWhole, Whole
        <3> QED BY <1>9, <3>1, <3>2 DEF BundleFails
    <2>6. CASE AttemptSays("error")
        BY <2>1, <2>3, <2>5, <2>6, SaysKeep
    <2>7. CASE AttemptRaisesIn(Dir)
        BY <2>1, <2>3, <2>5, <2>7, DirIs, RaisesKeep
    <2> QED BY <2>4, <2>6, <2>7 DEF AttemptRaises
<1>10. CASE CallRaises
    <2>1. asm.pc \in Attempting /\ UNCHANGED <<enriched, activeSet, webGen, bundles, report>>
        BY <1>10 DEF CallRaises, Attempting
    <2>2. PICK dir \in PartWay : AttemptRaisesIn(dir)
        BY <1>10 DEF CallRaises
    <2>3. dir \in DirRow /\ WholeDir(dir) /\ dir.puts = Dir.puts /\ Dir.torn \subseteq dir.torn
        BY <2>1, PartWayIs
    <2> QED BY <1>a, <2>1, <2>2, <2>3
<1>11. CASE AsmKilled
    <2>1. asm' = NoAsm /\ UNCHANGED <<enriched, activeSet, report>>
        BY <1>11 DEF AsmKilled
    <2>a. /\ work' \in [AsmModes -> DirRow] /\ \A m \in AsmModes : WholeDir(work'[m])
          /\ work'["backfill"].puts = work["backfill"].puts
          /\ work["backfill"].torn \subseteq work'["backfill"].torn /\ work'["daily"].torn = {}
        <3>1. PICK dir \in PartWay : work' = LeftBehind(dir)
            BY <1>11 DEF AsmKilled
        <3>2. CASE asm.pc = "pass"
            <4>1. dir = Dir /\ asm.mode = "backfill"
                BY <3>1, <3>2 DEF PartWay, AsmAt, WebInv, DirFits
            <4>2. work' = work
                BY <1>0, <3>1, <4>1 DEF LeftBehind, Dir
            <4> QED BY <1>0, <4>2 DEF WebInv, DirFits
        <3>3. CASE asm.pc \in Attempting
            <4>1. dir \in DirRow /\ WholeDir(dir) /\ dir.puts = Dir.puts /\ Dir.torn \subseteq dir.torn
                BY <3>1, <3>3, PartWayIs
            <4>2. Dir = work[asm.mode] /\ asm.mode \in AsmModes
                BY <3>3, DirIs
            <4> QED BY <3>1, <3>3, <4>1, <4>2, LeftIs
        <3>4. asm.pc \in {"pass"} \cup Attempting
            BY <1>0, <1>11 DEF AsmKilled, AsmAt, AsmRow, Attempting
        <3> QED BY <3>2, <3>3, <3>4
    <2>2. NoAsm \in AsmRow /\ NoAsm.pc = "idle" /\ NoAsm.mode = "-"
        BY DEF NoAsm, AsmRow
    <2>3. /\ webGen' \in Gens /\ bundles' \in [AsOfs -> BundleRow] /\ BundleIsOfItsDate' /\ ServedWhole
          /\ StillServed
        <3>1. CASE UNCHANGED <<webGen, bundles>>
            BY <1>0, <3>1 DEF BundleIsOfItsDate, BundleIsWhole, StillServed, ServedWhole, Whole
        <3>2. CASE AsmAt("commit") /\ \E s \in {"sealed", "committed"} :
                      GenBecomes(s) /\ bundles' = IF s = "committed" THEN Served ELSE bundles
            <4>1. webGen' \in Gens
                BY <3>2, GensTyped DEF AsmAt
            <4>2. CASE bundles' = Served
                BY <1>7, <3>2, <4>1, <4>2
            <4>3. CASE bundles' = bundles
                BY <1>0, <4>1, <4>3 DEF BundleIsOfItsDate, BundleIsWhole, StillServed, ServedWhole, Whole
            <4> QED BY <3>2, <4>2, <4>3
        <3> QED BY <1>11, <3>1, <3>2 DEF AsmKilled
    <2>4. WebTyped'
        BY <1>0, <2>1, <2>a, <2>2, <2>3 DEF WebInv, WebTyped
    <2>5. DirFits'
        BY <2>1, <2>a, <2>2 DEF DirFits, Attempting
    <2>6. PutsHold' /\ ReportedIsServed'
        BY <2>1, <2>a, <2>2, <2>3 DEF WebInv, WebTyped, PutsHold, ReportedIsServed, StillServed
    <2>7. BundleIsWhole'
        BY <2>a, <2>3 DEF ServedWhole, Whole, BundleIsWhole
    <2> QED BY <2>3, <2>4, <2>5, <2>6, <2>7 DEF WebInv
<1> QED BY <1>3, <1>c, <1>4, <1>5, <1>6, <1>8, <1>9, <1>10, <1>11

LEMMA WebStepKeeps == WebInv /\ [WebNext]_webVars => WebInv'
<1> SUFFICES ASSUME WebInv, [WebNext]_webVars PROVE WebInv'
    OBVIOUS
<1>1. CASE WebNext
    BY <1>1, AroundKeeps, StartsKeep, AttemptsKeep DEF WebNext
<1>2. CASE UNCHANGED webVars
    BY <1>2 DEF webVars, WebInv, WebTyped, DirFits, Dir, Whole, BundleIsOfItsDate, BundleIsWhole, PutsHold,
                ReportedIsServed
<1> QED BY <1>1, <1>2

(* Every bundle that is served was made of its own date's CSV and leaves   *)
(* out none of its codes but one whose file a kill has cut, and a date     *)
(* reported as done is served.                                             *)
THEOREM WebIsSafe == WebSpec => []WebSafe
<1>1. WebInv => WebSafe
    <2> SUFFICES ASSUME WebInv PROVE WebSafe
        OBVIOUS
    <2>1. WebTypeOK
        BY DEF WebInv, WebTyped, WebTypeOK, DirRow, AsmRow
    <2> QED BY <2>1 DEF WebInv, WebSafe
<1> QED BY <1>1, WebInitHolds, WebStepKeeps, PTL DEF WebSpec

-----------------------------------------------------------------------------
(***************************************************************************)
(* The watchdog.                                                           *)
(***************************************************************************)
WatchRow == [pc : {"idle", "resolved", "fetched", "ok", "miss", "red", "too_early", "skip_closed", "skip_not_first"},
             date : 0..NumWatchDays - 1, open : BOOLEAN, seen : SUBSET RunRecord, at : Times]

CronTyped ==
    /\ audit \in Audits /\ openDays \subseteq 0..(NumWatchDays - 1) /\ now \in Times
    /\ runs \subseteq RunRecord
    /\ ticks \in [0..(NumWatchDays - 1) -> {"due", "sent", "lost"}]
    /\ dog \in [Watchdogs -> WatchRow]
    /\ reported \subseteq Times

(* A run of a tick is a dispatch at the hour of its day or a little early; *)
(* a day that was passed has a run that covers it.                         *)
RunsFit ==
    /\ \A w \in Watchdogs : dog[w].seen \subseteq runs
    /\ audit # Poller => \A r \in runs : r.by = "tick" =>
          r.event = "workflow_dispatch" /\ r.at + Skew >= Fire(DayOf(r.at))
    /\ audit # Poller => \A w \in Watchdogs : dog[w].pc = "ok" =>
          \E r \in runs : /\ r.event = "workflow_dispatch" /\ DayOf(r.at) = dog[w].date
                          /\ r.at + Skew >= Fire(dog[w].date)

CronInv == CronTyped /\ RunsFit

(* The day of a slot.                                                      *)
LEMMA DivIs ==
    ASSUME NEW L \in Nat \ {0}, NEW t \in Nat, NEW d \in Nat
    PROVE  /\ t \div L \in Nat
           /\ (d * L <= t /\ t < (d + 1) * L) <=> t \div L = d
<1> DEFINE q == t \div L
<1>1. q \in Int /\ q * L <= t /\ t < q * L + L
    OBVIOUS
<1>2. q >= 0
    <2>1. CASE q <= -1
        <3>1. q * L <= (-1) * L
            BY <1>1, <2>1
        <3> QED BY <1>1, <3>1
    <2> QED BY <1>1, <2>1
<1> HIDE DEF q
<1>3. ASSUME d * L <= t, t < (d + 1) * L PROVE q = d
    <2>1. CASE q >= d + 1
        <3>1. q * L >= (d + 1) * L
            BY <1>1, <2>1
        <3> QED BY <1>1, <1>3, <3>1
    <2>2. CASE q + 1 <= d
        <3>1. (q + 1) * L <= d * L
            BY <1>1, <2>2
        <3>2. (q + 1) * L = q * L + L
            BY <1>1
        <3> QED BY <1>1, <1>3, <3>1, <3>2
    <2> QED BY <1>1, <2>1, <2>2
<1>4. ASSUME q = d PROVE d * L <= t /\ t < (d + 1) * L
    BY <1>1, <1>4
<1> QED BY <1>1, <1>2, <1>3, <1>4 DEF q

LEMMA TimesMonotone ==
    ASSUME NEW i \in Nat, NEW j \in Nat, NEW L \in Nat, i <= j
    PROVE  i * L \in Nat /\ j * L \in Nat /\ i * L <= j * L
OBVIOUS

LEMMA DayOfTime ==
    ASSUME NEW t \in Times
    PROVE  /\ t \in Nat /\ DayOf(t) \in 0..NumWatchDays - 1
           /\ \A d \in Nat : (d * DayLength <= t /\ t < (d + 1) * DayLength) <=> DayOf(t) = d
<1>1. NumWatchDays * DayLength \in Nat /\ t \in Nat /\ t < NumWatchDays * DayLength
    BY CronAssumption DEF Times
<1>2. DayOf(t) \in Nat /\ \A d \in Nat : (d * DayLength <= t /\ t < (d + 1) * DayLength) <=> DayOf(t) = d
    BY <1>1, CronAssumption, DivIs DEF DayOf
<1>3. DayOf(t) * DayLength <= t
    BY <1>2
<1>4. DayOf(t) < NumWatchDays
    <2>1. CASE DayOf(t) >= NumWatchDays
        <3>1. /\ NumWatchDays * DayLength <= DayOf(t) * DayLength
              /\ DayOf(t) * DayLength \in Nat
            BY <1>2, <2>1, CronAssumption, TimesMonotone
        <3> QED BY <1>1, <1>3, <3>1
    <2> QED BY <1>2, <2>1, CronAssumption
<1> QED BY <1>1, <1>2, <1>4, CronAssumption

LEMMA CronInitHolds == CronInit => CronInv
<1> SUFFICES ASSUME CronInit PROVE CronInv
    OBVIOUS
<1>1. 0 \in Times /\ 0 \in 0..NumWatchDays - 1
    <2>1. NumWatchDays * DayLength \in Nat \ {0}
        BY CronAssumption
    <2> QED BY <2>1, CronAssumption DEF Times
<1>2. Idle \in WatchRow
    BY <1>1 DEF Idle, WatchRow
<1>3. dog \in [Watchdogs -> WatchRow] /\ \A w \in Watchdogs : dog[w] = Idle
    BY <1>2 DEF CronInit
<1> QED BY <1>1, <1>3 DEF CronInit, CronInv, CronTyped, RunsFit, Idle

(* A run is entered in the list.                                           *)
LEMMA RunKeeps ==
    ASSUME CronInv, UNCHANGED <<audit, openDays, now, dog>>,
           NEW by \in {"tick", "hand", "watchdog"}, NEW event \in {"workflow_dispatch", "schedule"},
           Started(by, event) \/ UNCHANGED runs,
           (by = "tick" /\ audit # Poller) =>
              event = "workflow_dispatch" /\ now + Skew >= Fire(DayOf(now)),
           ticks' \in [0..(NumWatchDays - 1) -> {"due", "sent", "lost"}], reported' \subseteq Times
    PROVE  CronInv'
<1>1. runs \subseteq runs' /\ \A r \in runs' : r \in runs \/ r = [at |-> now, event |-> event, by |-> by]
    BY DEF Started
<1>2. [at |-> now, event |-> event, by |-> by] \in RunRecord
    BY DEF RunRecord, CronInv, CronTyped
<1>3. CronTyped'
    BY <1>1, <1>2 DEF CronInv, CronTyped
<1>4. RunsFit'
    <2>1. \A w \in Watchdogs : dog'[w].seen \subseteq runs'
        BY <1>1 DEF CronInv, RunsFit
    <2>2. audit # Poller => \A r \in runs' : r.by = "tick" =>
             r.event = "workflow_dispatch" /\ r.at + Skew >= Fire(DayOf(r.at))
        BY <1>1 DEF CronInv, RunsFit
    <2>3. audit # Poller => \A w \in Watchdogs : dog'[w].pc = "ok" =>
             \E r \in runs' : /\ r.event = "workflow_dispatch" /\ DayOf(r.at) = dog'[w].date
                              /\ r.at + Skew >= Fire(dog'[w].date)
        BY <1>1 DEF CronInv, RunsFit
    <2> QED BY <2>1, <2>2, <2>3 DEF RunsFit, Fire
<1> QED BY <1>3, <1>4 DEF CronInv

(* The watchdog reads or judges.                                           *)
LEMMA DogKeeps ==
    ASSUME CronInv, UNCHANGED <<audit, openDays, now, runs, ticks>>, NEW w \in Watchdogs,
           NEW row \in WatchRow, dog' = [dog EXCEPT ![w] = row], row.seen \subseteq runs,
           (audit # Poller /\ row.pc = "ok") =>
              \E r \in runs : /\ r.event = "workflow_dispatch" /\ DayOf(r.at) = row.date
                              /\ r.at + Skew >= Fire(row.date),
           reported' \subseteq Times
    PROVE  CronInv'
<1>1. dog \in [Watchdogs -> WatchRow]
    BY DEF CronInv, CronTyped
<1>2. dog' \in [Watchdogs -> WatchRow] /\ \A v \in Watchdogs : dog'[v] = IF v = w THEN row ELSE dog[v]
    BY <1>1
<1>3. CronTyped'
    BY <1>2 DEF CronInv, CronTyped
<1>4. RunsFit'
    BY <1>2 DEF CronInv, RunsFit, Fire
<1> QED BY <1>3, <1>4 DEF CronInv

(* What the watchdog is told covers a day does.                            *)
LEMMA CoveringIs ==
    ASSUME CronInv, audit # Poller, NEW list \in SUBSET RunRecord, NEW d \in 0..NumWatchDays - 1
    PROVE  Covering(d, list) = {r \in list : /\ r.event = "workflow_dispatch" /\ DayOf(r.at) = d
                                             /\ r.at + Skew >= Fire(d)}
<1>1. FireAt[audit] \in Nat /\ Skew \in Nat /\ d \in Nat /\ d * DayLength \in Nat /\ Fire(d) \in Nat
    <2>1. audit \in Targets /\ d \in Nat
        BY CronAssumption DEF CronInv, CronTyped, Audits
    <2>2. FireAt[audit] \in Nat /\ Skew \in Nat
        BY <2>1, CronAssumption
    <2>3. d * DayLength \in Nat
        BY <2>1, CronAssumption, TimesMonotone
    <2> QED BY <2>1, <2>2, <2>3 DEF Fire
<1>2. ASSUME NEW r \in list
      PROVE  (EarliestFor(d) <= r.at /\ r.at < (d + 1) * DayLength) <=>
                (DayOf(r.at) = d /\ r.at + Skew >= Fire(d))
    <2>1. r.at \in Times
        BY DEF RunRecord
    <2>2. r.at \in Nat /\ ((d * DayLength <= r.at /\ r.at < (d + 1) * DayLength) <=> DayOf(r.at) = d)
        BY <1>1, <2>1, DayOfTime
    <2>3. EarliestFor(d) <= r.at <=> d * DayLength <= r.at /\ Fire(d) - Skew <= r.at
        BY <1>1, <2>2 DEF EarliestFor
    <2> QED BY <1>1, <2>2, <2>3
<1> QED BY <1>2 DEF Covering

LEMMA VerdictIs ==
    ASSUME CronInv, NEW w \in Watchdogs
    PROVE  /\ Verdict(w) \in {"ok", "miss", "too_early", "skip_closed", "skip_not_first"}
           /\ audit # Poller =>
                 /\ Verdict(w) = "ok" => Covering(dog[w].date, dog[w].seen) # {}
                 /\ Verdict(w) = "miss" => Covering(dog[w].date, dog[w].seen) = {}
BY DEF Verdict, Evaluate, PollerVerdict

LEMMA CronActionKeeps ==
    ASSUME CronInv, CronNext
    PROVE  CronInv'
<1>0. /\ CronTyped /\ now \in Times /\ ticks \in [0..(NumWatchDays - 1) -> {"due", "sent", "lost"}]
      /\ reported \subseteq Times /\ runs \subseteq RunRecord /\ dog \in [Watchdogs -> WatchRow]
    BY DEF CronInv, CronTyped
<1>1. CASE Pass
    <2>1. now' \in Times /\ UNCHANGED <<audit, openDays, runs, ticks, dog, reported>>
        BY <1>1 DEF Pass
    <2> QED BY <2>1 DEF CronInv, CronTyped, RunsFit, Fire
<1>2. CASE Tick
    <2>1. /\ UNCHANGED <<audit, openDays, now, dog, reported>> /\ Started("tick", "workflow_dispatch")
          /\ now + Skew >= Fire(DayOf(now))
          /\ ticks' \in [0..(NumWatchDays - 1) -> {"due", "sent", "lost"}]
        BY <1>0, <1>2 DEF Tick
    <2> QED BY <1>0, <2>1, RunKeeps
<1>3. CASE TickLost
    <2>1. /\ UNCHANGED <<audit, openDays, now, runs, dog, reported>>
          /\ ticks' \in [0..(NumWatchDays - 1) -> {"due", "sent", "lost"}]
        BY <1>0, <1>3 DEF TickLost
    <2> QED BY <2>1 DEF CronInv, CronTyped, RunsFit, Fire
<1>4. CASE PollerTick
    BY <1>0, <1>4, RunKeeps DEF PollerTick
<1>5. ASSUME NEW e \in {"workflow_dispatch", "schedule"}, HandRun(e) PROVE CronInv'
    BY <1>0, <1>5, RunKeeps DEF HandRun
<1>6. ASSUME NEW w \in Watchdogs, Resolve(w) PROVE CronInv'
    <2> DEFINE row == [Idle EXCEPT !.pc = "resolved", !.date = DayOf(now), !.open = DayOf(now) \in openDays]
    <2>1. DayOf(now) \in 0..NumWatchDays - 1 /\ (DayOf(now) \in openDays) \in BOOLEAN
          /\ 0 \in 0..NumWatchDays - 1 /\ 0 \in Times
        <3>1. DayOf(now) \in 0..NumWatchDays - 1
            BY <1>0, DayOfTime
        <3>2. 0 \in 0..NumWatchDays - 1
            BY CronAssumption
        <3>3. 0 \in Times
            <4>1. NumWatchDays * DayLength \in Nat /\ now \in Nat /\ now <= NumWatchDays * DayLength - 1
                BY <1>0, CronAssumption, TimesMonotone DEF Times
            <4> QED BY <4>1 DEF Times
        <3> QED BY <3>1, <3>2, <3>3
    <2>2. row \in WatchRow /\ row.seen = {} /\ row.pc = "resolved"
        BY <2>1 DEF Idle, WatchRow
    <2>3. dog' = [dog EXCEPT ![w] = row] /\ UNCHANGED <<audit, openDays, now, runs, ticks, reported>>
        BY <1>6 DEF Resolve
    <2> HIDE DEF row
    <2> QED BY <1>0, <2>2, <2>3, DogKeeps
<1>7. ASSUME NEW w \in Watchdogs, Fetch(w) PROVE CronInv'
    <2>0. PICK list \in SUBSET runs : dog' = [dog EXCEPT ![w].pc = "fetched", ![w].seen = list]
        BY <1>7 DEF Fetch
    <2> DEFINE row == [dog[w] EXCEPT !.pc = "fetched", !.seen = list]
    <2>1. row \in WatchRow /\ row.seen = list /\ row.pc = "fetched"
        BY <1>0 DEF WatchRow
    <2>2. dog' = [dog EXCEPT ![w] = row] /\ UNCHANGED <<audit, openDays, now, runs, ticks, reported>>
        BY <1>0, <1>7, <2>0 DEF Fetch
    <2> HIDE DEF row
    <2> QED BY <1>0, <2>1, <2>2, DogKeeps
<1>8. ASSUME NEW w \in Watchdogs, Judge(w) PROVE CronInv'
    <2> DEFINE row == [dog[w] EXCEPT !.pc = Verdict(w), !.at = now]
    <2>1. dog[w] \in WatchRow /\ dog[w].seen \subseteq runs
        BY <1>0 DEF CronInv, RunsFit
    <2>2. Verdict(w) \in {"ok", "miss", "too_early", "skip_closed", "skip_not_first"}
        BY VerdictIs
    <2>3. row \in WatchRow /\ row.seen = dog[w].seen /\ row.pc = Verdict(w) /\ row.date = dog[w].date
        BY <1>0, <2>1, <2>2 DEF WatchRow
    <2>4. dog' = [dog EXCEPT ![w] = row] /\ UNCHANGED <<audit, openDays, now, runs, ticks, reported>>
        BY <1>0, <1>8 DEF Judge
    <2>5. (audit # Poller /\ Verdict(w) = "ok") =>
             \E r \in runs : /\ r.event = "workflow_dispatch" /\ DayOf(r.at) = dog[w].date
                             /\ r.at + Skew >= Fire(dog[w].date)
        <3>1. dog[w].date \in 0..NumWatchDays - 1 /\ dog[w].seen \in SUBSET RunRecord
            BY <2>1 DEF WatchRow
        <3> QED BY <2>1, <3>1, VerdictIs, CoveringIs
    <2> HIDE DEF row
    <2> QED BY <1>0, <2>1, <2>3, <2>4, <2>5, DogKeeps
<1>9. ASSUME NEW w \in Watchdogs, CatchUp(w) PROVE CronInv'
    <2> DEFINE row == [dog[w] EXCEPT !.pc = "red"]
    <2>1. dog[w] \in WatchRow /\ dog[w].seen \subseteq runs
        BY <1>0 DEF CronInv, RunsFit
    <2>2. row \in WatchRow /\ row.seen = dog[w].seen /\ row.pc = "red"
        BY <2>1 DEF WatchRow
    <2>3. /\ dog' = [dog EXCEPT ![w] = row] /\ UNCHANGED <<audit, openDays, now, ticks>>
          /\ Started("watchdog", "workflow_dispatch") \/ UNCHANGED runs
        BY <1>0, <1>9 DEF CatchUp
    <2>4. reported' \subseteq Times
        <3>1. dog[w].at \in Times /\ dog[w].date \in 0..NumWatchDays - 1
            BY <2>1 DEF WatchRow
        <3>2. dog[w].date \in Times
            <4>1. dog[w].date \in Nat /\ dog[w].date <= NumWatchDays - 1 /\ NumWatchDays \in Nat \ {0}
                BY <3>1, CronAssumption
            <4>2. NumWatchDays * 1 <= NumWatchDays * DayLength /\ NumWatchDays * DayLength \in Nat
                BY CronAssumption
            <4> QED BY <4>1, <4>2 DEF Times
        <3> QED BY <1>0, <1>9, <3>1, <3>2 DEF CatchUp, Report
    <2> HIDE DEF row
    <2>5. runs \subseteq runs' /\ \A r \in runs' : r \in runs \/ r.by = "watchdog"
        BY <2>3 DEF Started
    <2>6. runs' \subseteq RunRecord
        BY <1>0, <2>3 DEF Started, RunRecord
    <2>7. dog' \in [Watchdogs -> WatchRow] /\ \A v \in Watchdogs : dog'[v] = IF v = w THEN row ELSE dog[v]
        BY <1>0, <2>2, <2>3
    <2>8. CronTyped'
        BY <1>0, <2>3, <2>4, <2>6, <2>7 DEF CronTyped
    <2>9. \A v \in Watchdogs : dog'[v].seen \subseteq runs'
        BY <2>2, <2>1, <2>5, <2>7 DEF CronInv, RunsFit
    <2>10. audit # Poller => \A r \in runs' : r.by = "tick" =>
              r.event = "workflow_dispatch" /\ r.at + Skew >= Fire(DayOf(r.at))
        BY <2>5 DEF CronInv, RunsFit
    <2>11. audit # Poller => \A v \in Watchdogs : dog'[v].pc = "ok" =>
              \E r \in runs' : /\ r.event = "workflow_dispatch" /\ DayOf(r.at) = dog'[v].date
                               /\ r.at + Skew >= Fire(dog'[v].date)
        BY <2>2, <2>5, <2>7 DEF CronInv, RunsFit
    <2>12. RunsFit'
        BY <2>3, <2>9, <2>10, <2>11 DEF RunsFit, Fire
    <2> QED BY <2>8, <2>12 DEF CronInv
<1> QED BY <1>1, <1>2, <1>3, <1>4, <1>5, <1>6, <1>7, <1>8, <1>9 DEF CronNext

LEMMA CronStepKeeps == CronInv /\ [CronNext]_cronVars => CronInv'
<1> SUFFICES ASSUME CronInv, [CronNext]_cronVars PROVE CronInv'
    OBVIOUS
<1>1. CASE UNCHANGED cronVars
    BY <1>1 DEF cronVars, CronInv, CronTyped, RunsFit, Fire
<1> QED BY <1>1, CronActionKeeps

(* The list that makes a watchdog call a miss holds no tick of the day.    *)
LEMMA MissHasNoTick ==
    ASSUME CronInv, [CronNext]_cronVars, NEW w \in Watchdogs,
           dog[w].pc = "fetched", dog'[w].pc = "miss", audit # Poller,
           NEW r \in runs, r.by = "tick", DayOf(r.at) = dog[w].date
    PROVE  r \notin dog[w].seen
<1>1. dog \in [Watchdogs -> WatchRow] /\ runs \subseteq RunRecord /\ dog[w] \in WatchRow
    BY DEF CronInv, CronTyped
<1>2. Judge(w) /\ dog'[w].pc = Verdict(w)
    <2>1. dog' # dog
        OBVIOUS
    <2>2. PICK v \in Watchdogs : Resolve(v) \/ Fetch(v) \/ Judge(v) \/ CatchUp(v)
        BY <2>1 DEF CronNext, cronVars, Pass, Tick, TickLost, PollerTick, HandRun
    <2>3. v = w
        BY <1>1, <2>2 DEF Resolve, Fetch, Judge, CatchUp
    <2>4. Judge(w)
        BY <2>2, <2>3 DEF Resolve, Fetch, CatchUp
    <2>5. [dog[w] EXCEPT !.pc = Verdict(w), !.at = now].pc = Verdict(w)
        BY <1>1 DEF WatchRow
    <2>6. dog' = [dog EXCEPT ![w] = [dog[w] EXCEPT !.pc = Verdict(w), !.at = now]]
        BY <1>1, <2>4 DEF Judge
    <2> QED BY <1>1, <2>4, <2>5, <2>6
<1>3. Covering(dog[w].date, dog[w].seen) = {}
    BY <1>2, VerdictIs
<1>4. dog[w].date \in 0..NumWatchDays - 1 /\ dog[w].seen \in SUBSET RunRecord
    BY <1>1 DEF WatchRow
<1>5. r.event = "workflow_dispatch" /\ r.at + Skew >= Fire(dog[w].date)
    <2>1. r.at \in Times
        BY <1>1 DEF RunRecord
    <2> QED BY <2>1, DayOfTime DEF CronInv, RunsFit
<1> QED BY <1>3, <1>4, <1>5, CoveringIs

(* A lost tick is never passed as covered, and no job whose tick had come  *)
(* is started again, for any days, hours, graces and numbers of watchdogs. *)
THEOREM CronIsSafe == CronSpec => CronSafe
<1>1. CronInv => CronTypeOK /\ LostTickIsNotCovered
    <2> SUFFICES ASSUME CronInv PROVE CronTypeOK /\ LostTickIsNotCovered
        OBVIOUS
    <2>1. CronTypeOK
        BY DEF CronInv, CronTyped, RunsFit, CronTypeOK, WatchRow
    <2>2. LostTickIsNotCovered
        BY DEF CronInv, RunsFit, LostTickIsNotCovered
    <2> QED BY <2>1, <2>2
<1>2. CronInv /\ [CronNext]_cronVars =>
         [\A w \in Watchdogs :
            (dog[w].pc = "fetched" /\ dog'[w].pc = "miss" /\ audit # Poller)
                => \A r \in runs : (r.by = "tick" /\ DayOf(r.at) = dog[w].date) => r \notin dog[w].seen]_cronVars
    BY MissHasNoTick
<1> QED BY <1>1, <1>2, CronInitHolds, CronStepKeeps, PTL DEF CronSpec, CronSafe, NoCatchUpAfterTick

-----------------------------------------------------------------------------
(***************************************************************************)
(* The core CSV.  A build takes its stocks from a list of its month, a     *)
(* patch takes away what had left by its own day, and a stock leaves once: *)
(* so what a release or a patch says of a stock stays true of it.          *)
(***************************************************************************)
LEMMA NatsHaveLeast ==
    ASSUME NEW S \in SUBSET Nat, S # {}
    PROVE  \E x \in S : \A y \in S : x <= y
<1>1. PICK x \in S : \A y \in S : ~(<<y, x>> \in OpToRel(<, Nat))
    BY NatLessThanWellFounded, WFMin
<1>2. \A y \in S : ~(y < x)
    BY <1>1 DEF OpToRel
<1> QED BY <1>2

LEMMA DaysHaveLast ==
    ASSUME NEW S \in SUBSET Days, S # {}
    PROVE  Latest(S) \in S
<1> DEFINE T == {NumDays - d : d \in S}
<1>1. \A d \in S : d \in Nat /\ d <= NumDays
    BY SelectAssumption DEF Days
<1>2. T \subseteq Nat /\ T # {}
    BY <1>1, SelectAssumption
<1> HIDE DEF T
<1>3. PICK x \in T : \A y \in T : x <= y
    BY <1>2, NatsHaveLeast
<1>4. PICK d \in S : x = NumDays - d
    BY DEF T
<1>5. \A e \in S : NumDays - e \in T
    BY DEF T
<1>6. \A e \in S : e <= d
    BY <1>1, <1>3, <1>4, <1>5, SelectAssumption
<1> QED BY <1>4, <1>6 DEF Latest

(* Of any releases, one comes first when they are ordered by a number of   *)
(* theirs and then by their run.                                           *)
LEMMA TagsHaveFirst ==
    ASSUME NEW S \in SUBSET Tags, S # {}, NEW B \in Nat, NEW f \in [Tags -> 0..B]
    PROVE  \E t \in S : \A u \in S : f[t] > f[u] \/ (f[t] = f[u] /\ t.run >= u.run)
<1> DEFINE T == {B - f[t] : t \in S}
<1>1. ASSUME NEW t \in S PROVE f[t] \in Nat /\ f[t] <= B /\ t.run \in Nat /\ t.run <= MaxBuilds
    <2>1. f[t] \in 0..B /\ t.run \in 1..MaxBuilds
        BY DEF Tags
    <2> QED BY <2>1, SelectAssumption
<1>2. T \subseteq Nat /\ T # {}
    BY <1>1
<1>3. PICK a \in S : \A u \in S : f[u] <= f[a]
    <2> HIDE DEF T
    <2>1. PICK x \in T : \A y \in T : x <= y
        BY <1>2, NatsHaveLeast
    <2>2. PICK a \in S : x = B - f[a]
        BY DEF T
    <2>3. \A u \in S : B - f[u] \in T
        BY DEF T
    <2>4. \A u \in S : f[u] <= f[a]
        BY <1>1, <2>1, <2>2, <2>3
    <2> QED BY <2>4
<1> DEFINE A == {u \in S : f[u] = f[a]}
           R == {MaxBuilds - u.run : u \in A}
<1>4. R \subseteq Nat /\ R # {}
    BY <1>1, SelectAssumption
<1>5. PICK t \in A : \A u \in A : t.run >= u.run
    <2> HIDE DEF R
    <2>1. PICK x \in R : \A y \in R : x <= y
        BY <1>4, NatsHaveLeast
    <2>2. PICK t \in A : x = MaxBuilds - t.run
        BY DEF R
    <2>3. \A u \in A : MaxBuilds - u.run \in R
        BY DEF R
    <2>4. \A u \in A : t.run >= u.run
        BY <1>1, <2>1, <2>2, <2>3, SelectAssumption
    <2> QED BY <2>4
<1> QED BY <1>1, <1>3, <1>5

(* The month of a day.                                                     *)
LEMMA MonthIs ==
    ASSUME NEW d \in Nat \ {0}, NEW e \in Nat \ {0}
    PROVE  /\ MonthOf(d) \in Nat
           /\ d <= e => MonthOf(d) <= MonthOf(e)
           /\ e <= d + BuildDays => MonthOf(e) <= MonthOf(d) + 1
<1> DEFINE L == MonthLength
           m == MonthOf(d)
           n == MonthOf(e)
<1>1. L \in Nat \ {0} /\ d - 1 \in Nat /\ e - 1 \in Nat /\ BuildDays \in Nat /\ BuildDays <= L
    BY SelectAssumption
<1>2. /\ m \in Nat /\ m * L <= d - 1 /\ d - 1 < (m + 1) * L
      /\ n \in Nat /\ n * L <= e - 1 /\ e - 1 < (n + 1) * L
    BY <1>1, DivIs DEF MonthOf
<1> HIDE DEF L, m, n
<1>3. ASSUME d <= e, n < m PROVE FALSE
    <2>1. (n + 1) * L <= m * L /\ (n + 1) * L \in Nat /\ m * L \in Nat
        BY <1>1, <1>2, <1>3, TimesMonotone
    <2> QED BY <1>1, <1>2, <1>3, <2>1
<1>4. ASSUME e <= d + BuildDays, n > m + 1 PROVE FALSE
    <2>1. ((m + 1) + 1) * L <= n * L /\ ((m + 1) + 1) * L \in Nat /\ n * L \in Nat
        BY <1>1, <1>2, <1>4, TimesMonotone
    <2>2. ((m + 1) + 1) * L = (m + 1) * L + L /\ (m + 1) * L \in Nat
        BY <1>1, <1>2
    <2> QED BY <1>1, <1>2, <1>4, <2>1, <2>2
<1> QED BY <1>2, <1>3, <1>4 DEF m, n

LEMMA PickIsCommitted ==
    ASSUME NEW date \in Days, Committed # {}
    PROVE  Pick(date) \in Committed
<1> DEFINE eligible == {t \in Committed : t.day <= date}
<1>1. Committed \subseteq Tags /\ \A t \in Tags : t.day \in Nat \ {0} /\ t.day <= NumDays /\ t.run \in Nat
    BY SelectAssumption DEF Committed, Tags, Days
<1>2. CASE eligible # {}
    <2> DEFINE f == [t \in Tags |-> t.day]
    <2>1. f \in [Tags -> 0..NumDays] /\ NumDays \in Nat
        BY <1>1, SelectAssumption
    <2> HIDE DEF f
    <2>2. PICK t \in eligible : \A u \in eligible : f[t] > f[u] \/ (f[t] = f[u] /\ t.run >= u.run)
        BY <1>1, <1>2, <2>1, TagsHaveFirst
    <2>3. ASSUME NEW u \in eligible \ {t} PROVE Newer(t, u)
        <3>1. t.day > u.day \/ (t.day = u.day /\ t.run >= u.run)
            BY <1>1, <2>2 DEF f
        <3>2. ~(t.day = u.day /\ t.run = u.run)
            BY <1>1 DEF Tags
        <3> QED BY <1>1, <3>1, <3>2 DEF Newer
    <2>4. Newest(eligible) \in eligible
        BY <2>3 DEF Newest
    <2> QED BY <1>2, <2>4 DEF Pick
<1>3. CASE eligible = {}
    <2> DEFINE f == [t \in Tags |-> MonthOfTag(t)]
    <2>0. \A t \in Tags : MonthOfTag(t) \in 0..MonthOf(NumDays)
        BY <1>1, MonthIs, SelectAssumption DEF MonthOfTag
    <2>1. f \in [Tags -> 0..MonthOf(NumDays)] /\ MonthOf(NumDays) \in Nat
        BY <2>0, MonthIs, SelectAssumption
    <2> HIDE DEF f
    <2>2. PICK t \in Committed : \A u \in Committed : f[t] > f[u] \/ (f[t] = f[u] /\ t.run >= u.run)
        BY <1>1, <2>1, TagsHaveFirst
    <2>3. \A u \in Committed \ {t} : MonthOfTag(t) > MonthOfTag(u)
                                     \/ (MonthOfTag(t) = MonthOfTag(u) /\ t.run >= u.run)
        BY <1>1, <2>2 DEF f
    <2>4. ListedFirst(Committed) \in Committed
        BY <2>3 DEF ListedFirst
    <2> QED BY <1>3, <2>4 DEF Pick
<1> QED BY <1>2, <1>3

(* What a CSV holds that was stored for a release: the stocks that had     *)
(* left when its build began had left in that month, which is the month of *)
(* its tag or the one before.                                              *)
FromBuild(S, t) ==
    \A c \in S : t.day <= today /\ (delistedOn[c] # 0 => MonthOf(delistedOn[c]) >= MonthOf(t.day) - 1)

BuildRow == [pc : {"idle", "staged", "named", "pending", "put", "raised"}, run : 0..MaxBuilds,
             day : 0..NumDays, core : SUBSET Stocks, tag : Tags \cup {NoTag}]
DailyRow == [pc : {"idle", "select", "patched", "release"}, date : 0..NumDays,
             tag : Tags \cup {NoTag}, key : 0..NumDays]

SelTyped ==
    /\ today \in Days /\ delistedOn \in [Stocks -> 0..NumDays]
    /\ snap \in [Tags -> {"none", "pending", "committed", "orphan"}]
    /\ coreAt \in StoredCores /\ builder \in BuildRow
    /\ patches \in PatchedRows /\ patcher \in PatcherRun
    /\ daily \in DailyRow /\ output \in QualityReport \cup {NoOutput}
DelistingsFit == \A c \in Stocks : delistedOn[c] <= today
BuildFits ==
    builder.pc # "idle" =>
        /\ builder.run \in 1..MaxBuilds /\ builder.day \in 1..today /\ today <= builder.day + BuildDays
        /\ \A c \in builder.core : delistedOn[c] # 0 => MonthOf(delistedOn[c]) >= MonthOf(builder.day)
        /\ builder.pc # "staged" => builder.tag \in Tags /\ builder.tag.day \in builder.day..today
        /\ builder.pc \in {"pending", "put"} => snap[builder.tag] = "pending"
CoresFit == \A t \in Tags : FromBuild(coreAt[t], t)

(* A row of the patched key: it drops only what had left, and of what it   *)
(* keeps, only what the page no longer lists had left.                     *)
RowFits(row, t, d) ==
    /\ d <= today /\ row.csv \subseteq row.base /\ FromBuild(row.csv, t)
    /\ \A c \in row.base \ row.csv : delistedOn[c] \in 1..d
    /\ row.read => \A c \in row.csv :
           delistedOn[c] = 0 \/ delistedOn[c] >= d \/ MonthOf(delistedOn[c]) < MonthOf(d) - LookbackMonths
PatchesFit == \A t \in Tags, d \in Days : patches[t][d] # NoPatch => RowFits(patches[t][d], t, d)
PatcherFits ==
    patcher.pc # "idle" =>
        /\ patcher.date \in 1..today /\ patcher.tag \in Tags
        /\ patcher.pc = "fetched" => FromBuild(patcher.base, patcher.tag)
DailyFits ==
    daily.pc # "idle" =>
        /\ daily.date \in 1..today
        /\ daily.pc # "select" => daily.tag \in Tags
        /\ daily.pc = "patched" => daily.key \in 1..daily.date
OutputFits == NoHindsight /\ PatchedIsListed /\ (output # NoOutput => output.key <= today)

SelectInv == SelTyped /\ DelistingsFit /\ BuildFits /\ CoresFit /\ PatchesFit /\ PatcherFits /\ DailyFits /\ OutputFits

LEMMA SelectInitHolds == SelectInit => SelectInv
<1> SUFFICES ASSUME SelectInit PROVE SelectInv
    OBVIOUS
<1>1. SelTyped /\ DelistingsFit
    BY SelectAssumption DEF SelectInit, SelTyped, DelistingsFit, Days, StoredCores, PatchedRows, PatcherRun, BuildRow,
       DailyRow, NoBuild, NoPatcher, NoDaily, NoPatch
<1>2. BuildFits /\ PatcherFits /\ DailyFits /\ OutputFits
    BY DEF SelectInit, BuildFits, PatcherFits, DailyFits, OutputFits, NoHindsight, PatchedIsListed, NoBuild, NoPatcher, NoDaily
<1>3. CoresFit /\ PatchesFit
    BY DEF SelectInit, CoresFit, PatchesFit, FromBuild
<1> QED BY <1>1, <1>2, <1>3 DEF SelectInv

(* Time only adds: a day passes, or a stock that was listed leaves today.  *)
Later ==
    /\ today' \in Days /\ today <= today'
    /\ \A c \in Stocks : delistedOn'[c] = delistedOn[c] \/ (delistedOn[c] = 0 /\ delistedOn'[c] = today)

(* What was said of a CSV stays true as time passes.                       *)
LEMMA FromBuildStays ==
    ASSUME SelTyped, Later, NEW S \in SUBSET Stocks, NEW t \in Tags, FromBuild(S, t)
    PROVE  FromBuild(S, t)'
<1> SUFFICES ASSUME NEW c \in S
             PROVE  t.day <= today' /\ (delistedOn'[c] # 0 => MonthOf(delistedOn'[c]) >= MonthOf(t.day) - 1)
    BY DEF FromBuild
<1>1. t.day \in Nat \ {0} /\ today \in Nat \ {0} /\ today' \in Nat /\ t.day <= today /\ c \in Stocks
    BY SelectAssumption DEF SelTyped, Tags, Days, FromBuild, Later
<1>2. MonthOf(t.day) \in Nat /\ MonthOf(today) \in Nat /\ MonthOf(t.day) <= MonthOf(today)
    BY <1>1, MonthIs
<1>3. t.day <= today'
    BY <1>1 DEF Later
<1>4. delistedOn'[c] # 0 => MonthOf(delistedOn'[c]) >= MonthOf(t.day) - 1
    <2>1. CASE delistedOn'[c] = delistedOn[c]
        BY <2>1 DEF FromBuild
    <2>2. CASE delistedOn'[c] = today
        BY <2>2, <1>2
    <2> QED BY <1>1, <2>1, <2>2 DEF Later
<1> QED BY <1>3, <1>4

LEMMA RowFitsStays ==
    ASSUME SelTyped, Later, NEW t \in Tags, NEW d \in Days, NEW row, row.base \in SUBSET Stocks, RowFits(row, t, d)
    PROVE  RowFits(row, t, d)'
<1>1. d \in Nat \ {0} /\ today \in Nat \ {0} /\ today' \in Nat /\ d <= today /\ d <= today'
    BY SelectAssumption DEF SelTyped, Days, Later, RowFits
<1>2. row.csv \in SUBSET Stocks /\ FromBuild(row.csv, t)
    BY DEF RowFits
<1>3. FromBuild(row.csv, t)'
    BY <1>2, FromBuildStays
<1>4. ASSUME NEW c \in row.base \ row.csv PROVE delistedOn'[c] \in 1..d
    <2>1. delistedOn[c] \in 1..d /\ c \in Stocks
        BY DEF RowFits
    <2> QED BY <1>1, <2>1 DEF Later
<1>5. ASSUME row.read, NEW c \in row.csv
      PROVE  delistedOn'[c] = 0 \/ delistedOn'[c] >= d \/ MonthOf(delistedOn'[c]) < MonthOf(d) - LookbackMonths
    <2>1. delistedOn'[c] = delistedOn[c] \/ delistedOn'[c] = today
        BY <1>2 DEF Later
    <2>2. delistedOn[c] = 0 \/ delistedOn[c] >= d \/ MonthOf(delistedOn[c]) < MonthOf(d) - LookbackMonths
        BY <1>5 DEF RowFits
    <2> QED BY <1>1, <2>1, <2>2
<1> QED BY <1>1, <1>2, <1>3, <1>4, <1>5 DEF RowFits

LEMMA LaterKeeps ==
    ASSUME SelectInv, Later, delistedOn' \in [Stocks -> 0..NumDays], \A c \in Stocks : delistedOn'[c] <= today',
           builder.pc # "idle" => today' <= builder.day + BuildDays,
           UNCHANGED <<snap, coreAt, builder, patches, patcher, daily, output>>
    PROVE  SelectInv'
<1>1. /\ SelTyped /\ SelTyped' /\ DelistingsFit'
      /\ today \in Nat \ {0} /\ today' \in Nat \ {0} /\ today <= today'
    BY SelectAssumption DEF SelectInv, SelTyped, DelistingsFit, Later, Days
<1>2. BuildFits'
    <2> SUFFICES ASSUME builder.pc # "idle" PROVE BuildFits'
        BY DEF BuildFits
    <2>1. /\ builder.run \in 1..MaxBuilds /\ builder.day \in 1..today /\ today' <= builder.day + BuildDays
          /\ \A c \in builder.core : delistedOn[c] # 0 => MonthOf(delistedOn[c]) >= MonthOf(builder.day)
          /\ builder.pc # "staged" => builder.tag \in Tags /\ builder.tag.day \in builder.day..today
          /\ builder.pc \in {"pending", "put"} => snap[builder.tag] = "pending"
        BY DEF SelectInv, BuildFits
    <2>2. MonthOf(builder.day) \in Nat /\ MonthOf(today) \in Nat /\ MonthOf(builder.day) <= MonthOf(today)
        BY <1>1, <2>1, MonthIs
    <2>3. ASSUME NEW c \in builder.core, delistedOn'[c] # 0
          PROVE  MonthOf(delistedOn'[c]) >= MonthOf(builder.day)
        <3>1. c \in Stocks
            BY <1>1 DEF SelTyped, BuildRow
        <3>2. CASE delistedOn'[c] = delistedOn[c]
            BY <2>1, <2>3, <3>2
        <3>3. CASE delistedOn'[c] = today
            BY <2>2, <3>3
        <3> QED BY <3>1, <3>2, <3>3 DEF Later
    <2>4. /\ builder.day \in 1..today'
          /\ builder.pc # "staged" => builder.tag \in Tags /\ builder.tag.day \in builder.day..today'
        <3>1. builder.pc # "staged" => builder.tag.day \in Int
            BY <2>1
        <3> QED BY <1>1, <2>1, <3>1
    <2> QED BY <2>1, <2>3, <2>4 DEF BuildFits
<1>3. CoresFit'
    <2>1. ASSUME NEW t \in Tags PROVE FromBuild(coreAt[t], t)'
        <3>1. coreAt[t] \in SUBSET Stocks /\ FromBuild(coreAt[t], t)
            BY <1>1 DEF SelectInv, CoresFit, SelTyped, StoredCores
        <3> DEFINE S == coreAt[t]
        <3>2. \A c \in S : t.day <= today' /\ (delistedOn'[c] # 0 => MonthOf(delistedOn'[c]) >= MonthOf(t.day) - 1)
            BY <1>1, <3>1, FromBuildStays DEF FromBuild
        <3> QED BY <3>2 DEF FromBuild
    <2> QED BY <2>1 DEF CoresFit
<1>4. PatchesFit'
    <2>1. ASSUME NEW t \in Tags, NEW d \in Days, patches[t][d] # NoPatch PROVE RowFits(patches[t][d], t, d)'
        <3>1. PICK row : row = patches[t][d]
            OBVIOUS
        <3>2. row.base \in SUBSET Stocks /\ RowFits(row, t, d)
            BY <1>1, <2>1, <3>1 DEF SelectInv, PatchesFit, SelTyped, PatchedRows
        <3>3. RowFits(row, t, d)'
            BY <1>1, <3>2, RowFitsStays
        <3> QED BY <3>1, <3>3 DEF RowFits, FromBuild
    <2> QED BY <2>1 DEF PatchesFit
<1>5. PatcherFits'
    <2> SUFFICES ASSUME patcher.pc # "idle" PROVE PatcherFits'
        BY DEF PatcherFits
    <2>1. patcher.date \in 1..today' /\ patcher.tag \in Tags
        BY <1>1 DEF SelectInv, PatcherFits
    <2>2. ASSUME patcher.pc = "fetched" PROVE FromBuild(patcher.base, patcher.tag)'
        <3>1. PICK S, t : S = patcher.base /\ t = patcher.tag
            OBVIOUS
        <3>2. S \in SUBSET Stocks /\ t \in Tags /\ FromBuild(S, t)
            BY <1>1, <2>1, <2>2, <3>1 DEF SelectInv, PatcherFits, SelTyped, PatcherRun
        <3>3. FromBuild(S, t)'
            BY <1>1, <3>2, FromBuildStays
        <3> QED BY <3>1, <3>3 DEF FromBuild
    <2> QED BY <2>1, <2>2 DEF PatcherFits
<1>6. DailyFits'
    BY <1>1 DEF SelectInv, DailyFits
<1>7. OutputFits'
    <2> SUFFICES ASSUME output # NoOutput PROVE OutputFits'
        BY DEF OutputFits, NoHindsight, PatchedIsListed
    <2>1. output \in QualityReport /\ output.key \in Nat /\ output.key <= today /\ output.key <= today'
        BY <1>1, SelectAssumption DEF SelectInv, SelTyped, OutputFits, QualityReport
    <2>2. NoHindsight'
        <3>1. ASSUME NEW c \in output.base \ output.csv PROVE delistedOn'[c] \in 1..output.date
            BY <1>1, <2>1 DEF SelectInv, OutputFits, NoHindsight, QualityReport, Later
        <3> QED BY <3>1 DEF NoHindsight
    <2>3. PatchedIsListed'
        <3>1. ASSUME output.read, MonthOf(output.tag.day) > MonthOf(output.key) - LookbackMonths, NEW c \in output.csv
              PROVE  delistedOn'[c] = 0 \/ delistedOn'[c] >= output.key
            <4>1. c \in Stocks /\ (delistedOn[c] = 0 \/ delistedOn[c] >= output.key)
                BY <2>1, <3>1 DEF SelectInv, OutputFits, PatchedIsListed, QualityReport
            <4>2. delistedOn'[c] = delistedOn[c] \/ delistedOn'[c] = today
                BY <4>1 DEF Later
            <4> QED BY <1>1, <2>1, <4>1, <4>2
        <3> QED BY <3>1 DEF PatchedIsListed
    <2> QED BY <2>1, <2>2, <2>3 DEF OutputFits
<1> QED BY <1>1, <1>2, <1>3, <1>4, <1>5, <1>6, <1>7 DEF SelectInv

LEMMA NextDayKeeps ==
    ASSUME SelectInv, NextDay PROVE SelectInv'
<1>1. Later /\ \A c \in Stocks : delistedOn'[c] <= today'
    <2>1. \A c \in Stocks : delistedOn[c] \in 0..NumDays /\ delistedOn[c] <= today
        BY DEF SelectInv, SelTyped, DelistingsFit
    <2> QED BY <2>1, SelectAssumption DEF NextDay, Later, SelectInv, SelTyped, Days
<1>2. builder.pc # "idle" => today' <= builder.day + BuildDays
    <2>1. builder.day \in Int /\ today \in Int /\ BuildDays \in Int
        BY SelectAssumption DEF SelectInv, SelTyped, BuildRow, Days
    <2> QED BY <2>1 DEF NextDay
<1>3. delistedOn' \in [Stocks -> 0..NumDays] /\ UNCHANGED <<snap, coreAt, builder, patches, patcher, daily, output>>
    BY DEF NextDay, SelectInv, SelTyped
<1> QED BY <1>1, <1>2, <1>3, LaterKeeps

LEMMA DelistKeeps ==
    ASSUME SelectInv, NEW c \in Stocks, Delist(c) PROVE SelectInv'
<1>1. today \in 1..NumDays /\ delistedOn \in [Stocks -> 0..NumDays] /\ NumDays \in Nat
    BY SelectAssumption DEF SelectInv, SelTyped, Days
<1>2. Later /\ delistedOn' \in [Stocks -> 0..NumDays] /\ \A x \in Stocks : delistedOn'[x] <= today'
    BY <1>1 DEF Delist, Later, SelectInv, DelistingsFit, Days
<1>3. builder.pc # "idle" => today' <= builder.day + BuildDays
    BY DEF Delist, SelectInv, BuildFits
<1> QED BY <1>2, <1>3, LaterKeeps DEF Delist

(* Of what is said of the variables, each part that names none of those a  *)
(* step changes is kept.                                                   *)
LEMMA StillFits ==
    ASSUME SelectInv, UNCHANGED <<today, delistedOn>>
    PROVE  /\ DelistingsFit'
           /\ UNCHANGED <<snap, builder>> => BuildFits'
           /\ UNCHANGED coreAt => CoresFit'
           /\ UNCHANGED patches => PatchesFit'
           /\ UNCHANGED patcher => PatcherFits'
           /\ UNCHANGED daily => DailyFits'
           /\ UNCHANGED output => OutputFits'
<1>1. DelistingsFit' /\ (UNCHANGED <<snap, builder>> => BuildFits')
    BY DEF SelectInv, DelistingsFit, BuildFits
<1>2. UNCHANGED coreAt => CoresFit'
    BY DEF SelectInv, CoresFit, FromBuild
<1>3. UNCHANGED patches => PatchesFit'
    BY DEF SelectInv, PatchesFit, RowFits, FromBuild
<1>4. (UNCHANGED patcher => PatcherFits') /\ (UNCHANGED daily => DailyFits')
    BY DEF SelectInv, PatcherFits, DailyFits, FromBuild
<1>5. UNCHANGED output => OutputFits'
    BY DEF SelectInv, OutputFits, NoHindsight, PatchedIsListed
<1> QED BY <1>1, <1>2, <1>3, <1>4, <1>5

LEMMA StartBuildKeeps ==
    ASSUME SelectInv, NEW r \in 1..MaxBuilds, NEW core \in SUBSET Stocks, StartBuild(r, core) PROVE SelectInv'
<1>1. today \in 1..NumDays /\ NumDays \in Nat /\ BuildDays \in Nat /\ MaxBuilds \in Nat
    BY SelectAssumption DEF SelectInv, SelTyped, Days
<1>2. SelTyped'
    BY <1>1 DEF StartBuild, SelectInv, SelTyped, BuildRow
<1>3. BuildFits'
    <2>1. MonthOf(today) \in Nat
        BY <1>1, MonthIs
    <2>2. \A c \in core : delistedOn[c] # 0 => MonthOf(delistedOn[c]) >= MonthOf(today)
        BY <2>1 DEF StartBuild, OnTheList
    <2> QED BY <1>1, <2>2 DEF StartBuild, BuildFits
<1>4. UNCHANGED <<today, delistedOn, coreAt, patches, patcher, daily, output>>
    BY DEF StartBuild
<1> QED BY <1>2, <1>3, <1>4, StillFits DEF SelectInv

LEMMA NameTagKeeps ==
    ASSUME SelectInv, NameTag PROVE SelectInv'
<1>1. /\ today \in 1..NumDays /\ NumDays \in Nat /\ builder \in BuildRow /\ builder.pc = "staged"
      /\ builder' = [builder EXCEPT !.pc = "named", !.tag = [day |-> today, run |-> builder.run]]
    BY SelectAssumption DEF SelectInv, SelTyped, Days, NameTag
<1>2. /\ builder.run \in 1..MaxBuilds /\ builder.day \in 1..today /\ today <= builder.day + BuildDays
      /\ \A c \in builder.core : delistedOn[c] # 0 => MonthOf(delistedOn[c]) >= MonthOf(builder.day)
    BY <1>1 DEF SelectInv, BuildFits
<1>3. /\ builder'.pc = "named" /\ builder'.tag = [day |-> today, run |-> builder.run]
      /\ builder'.run = builder.run /\ builder'.day = builder.day /\ builder'.core = builder.core
      /\ builder' \in BuildRow /\ builder'.tag \in Tags
    BY <1>1, <1>2 DEF BuildRow, Tags, Days
<1>4. UNCHANGED <<today, delistedOn, snap, coreAt, patches, patcher, daily, output>>
    BY DEF NameTag
<1>5. SelTyped'
    BY <1>3, <1>4 DEF SelectInv, SelTyped
<1>6. BuildFits'
    BY <1>1, <1>2, <1>3, <1>4 DEF BuildFits
<1> QED BY <1>4, <1>5, <1>6, StillFits DEF SelectInv

(* Where the build stands: a tag it has named, or nothing.                 *)
LEMMA BuildGoes ==
    ASSUME SelectInv, builder.pc \in {"named", "pending", "put", "raised"}
    PROVE  /\ builder.tag \in Tags /\ builder.core \in SUBSET Stocks
           /\ \A pc \in {"named", "pending", "put", "raised"} :
                BuildTo(pc) => /\ builder' \in BuildRow /\ builder'.pc = pc /\ builder'.tag = builder.tag
                               /\ builder'.run = builder.run /\ builder'.day = builder.day /\ builder'.core = builder.core
           /\ BuildEnds => builder' \in BuildRow /\ builder'.pc = "idle"
<1>1. builder \in BuildRow /\ builder.tag \in Tags /\ NumDays \in Nat
    BY SelectAssumption DEF SelectInv, SelTyped, BuildFits
<1>2. BuildEnds => builder' \in BuildRow /\ builder'.pc = "idle"
    BY <1>1 DEF BuildEnds, NoBuild, BuildRow
<1> QED BY <1>1, <1>2 DEF BuildTo, BuildRow

LEMMA InsertPendingKeeps ==
    ASSUME SelectInv, InsertPending PROVE SelectInv'
<1>1. builder.pc = "named" /\ UNCHANGED <<today, delistedOn, coreAt, patches, patcher, daily, output>>
    BY DEF InsertPending
<1>2. \/ snap' = [snap EXCEPT ![builder.tag] = "pending"] /\ BuildTo("pending")
      \/ UNCHANGED snap /\ BuildEnds
    BY DEF InsertPending
<1>3. SelTyped'
    BY <1>1, <1>2, BuildGoes DEF SelectInv, SelTyped
<1>4. BuildFits'
    <2>1. builder.tag \in Tags /\ snap \in [Tags -> {"none", "pending", "committed", "orphan"}]
        BY <1>1, BuildGoes DEF SelectInv, SelTyped
    <2>2. CASE UNCHANGED snap /\ BuildEnds
        BY <1>1, <2>2, BuildGoes DEF BuildFits
    <2>3. CASE snap' = [snap EXCEPT ![builder.tag] = "pending"] /\ BuildTo("pending")
        BY <1>1, <2>1, <2>3, BuildGoes DEF SelectInv, BuildFits
    <2> QED BY <1>2, <2>2, <2>3
<1> QED BY <1>1, <1>3, <1>4, StillFits DEF SelectInv

LEMMA PutCoreKeeps ==
    ASSUME SelectInv, PutCore PROVE SelectInv'
<1>1. /\ builder.pc = "pending" /\ BuildTo("put") /\ coreAt' = [coreAt EXCEPT ![builder.tag] = builder.core]
      /\ UNCHANGED <<today, delistedOn, snap, patches, patcher, daily, output>>
    BY DEF PutCore
<1>2. SelTyped'
    BY <1>1, BuildGoes DEF SelectInv, SelTyped, StoredCores
<1>3. BuildFits'
    BY <1>1, BuildGoes DEF SelectInv, BuildFits
<1>4. FromBuild(builder.core, builder.tag)
    <2>1. /\ builder.day \in 1..today /\ today <= builder.day + BuildDays /\ builder.tag.day \in builder.day..today
          /\ \A c \in builder.core : delistedOn[c] # 0 => MonthOf(delistedOn[c]) >= MonthOf(builder.day)
          /\ today \in Nat /\ BuildDays \in Nat
        BY <1>1, SelectAssumption DEF SelectInv, BuildFits, SelTyped, Days
    <2>2. /\ MonthOf(builder.day) \in Nat /\ MonthOf(builder.tag.day) \in Nat
          /\ MonthOf(builder.tag.day) <= MonthOf(builder.day) + 1
        BY <2>1, MonthIs
    <2>3. \A c \in builder.core : delistedOn[c] # 0 => MonthOf(delistedOn[c]) \in Int
        <3> SUFFICES ASSUME NEW c \in builder.core, delistedOn[c] # 0 PROVE MonthOf(delistedOn[c]) \in Int
            OBVIOUS
        <3>1. delistedOn[c] \in 0..NumDays
            BY <1>1, BuildGoes DEF SelectInv, SelTyped
        <3> QED BY <3>1, MonthIs, SelectAssumption
    <2> QED BY <2>1, <2>2, <2>3 DEF FromBuild
<1>5. CoresFit'
    <2>1. builder.tag \in Tags /\ coreAt \in [Tags -> SUBSET Stocks]
        BY <1>1, BuildGoes DEF SelectInv, SelTyped, StoredCores
    <2>2. ASSUME NEW t \in Tags PROVE FromBuild(coreAt[t], t)'
        <3>1. FromBuild(coreAt'[t], t)
            BY <1>1, <1>4, <2>1 DEF SelectInv, CoresFit
        <3> QED BY <1>1, <3>1 DEF FromBuild
    <2> QED BY <2>2 DEF CoresFit
<1> QED BY <1>1, <1>2, <1>3, <1>5, StillFits DEF SelectInv

LEMMA CommitSnapshotKeeps ==
    ASSUME SelectInv, CommitSnapshot PROVE SelectInv'
<1>1. /\ builder.pc = "put" /\ (BuildEnds \/ BuildTo("raised")) /\ snap' = [snap EXCEPT ![builder.tag] = "committed"]
      /\ UNCHANGED <<today, delistedOn, coreAt, patches, patcher, daily, output>>
    BY DEF CommitSnapshot
<1>2. SelTyped'
    BY <1>1, BuildGoes DEF SelectInv, SelTyped
<1>3. BuildFits'
    BY <1>1, BuildGoes DEF SelectInv, BuildFits
<1> QED BY <1>1, <1>2, <1>3, StillFits DEF SelectInv

LEMMA BuildRaisesKeeps ==
    ASSUME SelectInv, BuildRaises PROVE SelectInv'
<1>1. /\ builder.pc \in {"pending", "put"} /\ (BuildEnds \/ BuildTo("raised"))
      /\ UNCHANGED <<today, delistedOn, snap, coreAt, patches, patcher, daily, output>>
    BY DEF BuildRaises
<1>2. SelTyped'
    BY <1>1, BuildGoes DEF SelectInv, SelTyped
<1>3. BuildFits'
    BY <1>1, BuildGoes DEF SelectInv, BuildFits
<1> QED BY <1>1, <1>2, <1>3, StillFits DEF SelectInv

LEMMA OrphanSnapshotKeeps ==
    ASSUME SelectInv, OrphanSnapshot PROVE SelectInv'
<1>1. /\ builder.pc = "raised" /\ BuildEnds /\ snap' = [snap EXCEPT ![builder.tag] = "orphan"]
      /\ UNCHANGED <<today, delistedOn, coreAt, patches, patcher, daily, output>>
    BY DEF OrphanSnapshot
<1>2. SelTyped'
    BY <1>1, BuildGoes DEF SelectInv, SelTyped
<1>3. BuildFits'
    BY <1>1, BuildGoes DEF BuildFits
<1> QED BY <1>1, <1>2, <1>3, StillFits DEF SelectInv

LEMMA ResolvePatchKeeps ==
    ASSUME SelectInv, ResolvePatch PROVE SelectInv'
<1>1. /\ patcher' = [NoPatcher EXCEPT !.pc = "resolved", !.date = today, !.tag = Pick(today)] /\ today \in Days
      /\ UNCHANGED <<today, delistedOn, snap, coreAt, builder, patches, daily, output>>
    BY DEF ResolvePatch, SelectInv, SelTyped
<1>2. Pick(today) \in Tags
    BY <1>1, PickIsCommitted DEF ResolvePatch, Committed
<1>3. /\ patcher' \in PatcherRun /\ patcher'.pc = "resolved" /\ patcher'.tag \in Tags
      /\ patcher'.date \in 1..today
    <2>1. patcher' = [pc |-> "resolved", date |-> today, tag |-> Pick(today), base |-> {}]
        BY <1>1 DEF NoPatcher
    <2>2. today \in 0..NumDays /\ today \in 1..today
        BY <1>1, SelectAssumption DEF Days
    <2> QED BY <1>2, <2>1, <2>2 DEF PatcherRun
<1>4. SelTyped' /\ PatcherFits'
    BY <1>1, <1>3 DEF SelectInv, SelTyped, PatcherFits
<1> QED BY <1>1, <1>4, StillFits DEF SelectInv

LEMMA FetchBaseKeeps ==
    ASSUME SelectInv, FetchBase PROVE SelectInv'
<1>1. /\ patcher.pc = "resolved" /\ patcher' = [patcher EXCEPT !.pc = "fetched", !.base = coreAt[patcher.tag]]
      /\ UNCHANGED <<today, delistedOn, snap, coreAt, builder, patches, daily, output>>
      /\ patcher \in PatcherRun /\ patcher.tag \in Tags /\ patcher.date \in 1..today
    BY DEF FetchBase, SelectInv, SelTyped, PatcherFits
<1>2. coreAt[patcher.tag] \in SUBSET Stocks /\ FromBuild(coreAt[patcher.tag], patcher.tag)
    BY <1>1 DEF SelectInv, SelTyped, StoredCores, CoresFit
<1>3. /\ patcher' \in PatcherRun /\ patcher'.pc = "fetched" /\ patcher'.tag = patcher.tag
      /\ patcher'.date = patcher.date /\ patcher'.base = coreAt[patcher.tag]
    BY <1>1, <1>2 DEF PatcherRun
<1>4. SelTyped' /\ PatcherFits'
    BY <1>1, <1>2, <1>3 DEF SelectInv, SelTyped, PatcherFits, FromBuild
<1> QED BY <1>1, <1>4, StillFits DEF SelectInv

LEMMA PutPatchKeeps ==
    ASSUME SelectInv, NEW read \in BOOLEAN, PutPatch(read) PROVE SelectInv'
<1> DEFINE core == patcher.base \ (IF read THEN DelistedOnPage(patcher.date) ELSE {})
           row == [csv |-> core, base |-> patcher.base, read |-> read]
<1>1. /\ patcher.pc = "fetched" /\ patcher' = NoPatcher
      /\ UNCHANGED <<today, delistedOn, snap, coreAt, builder, daily, output>>
      /\ \/ UNCHANGED patches
         \/ patches' = [patches EXCEPT ![patcher.tag][patcher.date] = row]
    BY DEF PutPatch
<1>2. /\ patcher \in PatcherRun /\ patcher.tag \in Tags /\ patcher.date \in 1..today /\ today \in Days
      /\ FromBuild(patcher.base, patcher.tag) /\ patcher.base \in SUBSET Stocks
    BY <1>1 DEF SelectInv, SelTyped, PatcherFits, PatcherRun
<1>3. patcher.date \in Days /\ patcher.date \in Nat \ {0} /\ patcher.date <= today
    BY <1>2, SelectAssumption DEF Days
<1>4. core \in SUBSET patcher.base /\ row \in [csv : SUBSET Stocks, base : SUBSET Stocks, read : BOOLEAN]
    BY <1>2
<1>5. RowFits(row, patcher.tag, patcher.date)
    <2>1. ASSUME NEW c \in patcher.base \ core PROVE delistedOn[c] \in 1..patcher.date
        BY DEF DelistedOnPage
    <2>2. ASSUME read, NEW c \in core
          PROVE  \/ delistedOn[c] = 0 \/ delistedOn[c] >= patcher.date
                 \/ MonthOf(delistedOn[c]) < MonthOf(patcher.date) - LookbackMonths
        <3>1. c \in Stocks /\ c \notin DelistedOnPage(patcher.date)
            BY <1>2, <2>2
        <3>2. delistedOn[c] \in 0..NumDays
            BY <3>1 DEF SelectInv, SelTyped
        <3> SUFFICES ASSUME delistedOn[c] # 0, ~(delistedOn[c] >= patcher.date)
                     PROVE  MonthOf(delistedOn[c]) < MonthOf(patcher.date) - LookbackMonths
            OBVIOUS
        <3>3. delistedOn[c] \in 1..patcher.date /\ delistedOn[c] \in Nat \ {0}
            BY <1>3, <3>2, SelectAssumption
        <3>4. ~(MonthOf(delistedOn[c]) >= MonthOf(patcher.date) - LookbackMonths)
            BY <3>1, <3>3 DEF DelistedOnPage
        <3>5. MonthOf(delistedOn[c]) \in Nat /\ MonthOf(patcher.date) \in Nat /\ LookbackMonths \in Nat
            BY <1>3, <3>3, MonthIs, SelectAssumption
        <3> QED BY <3>4, <3>5
    <2>3. FromBuild(core, patcher.tag)
        BY <1>2, <1>4 DEF FromBuild
    <2> HIDE DEF core
    <2> QED BY <1>3, <1>4, <2>1, <2>2, <2>3 DEF RowFits
<1> HIDE DEF row
<1>6. patches' \in PatchedRows
    <2>1. patches \in PatchedRows
        BY DEF SelectInv, SelTyped
    <2>2. CASE UNCHANGED patches
        BY <2>1, <2>2
    <2>3. CASE patches' = [patches EXCEPT ![patcher.tag][patcher.date] = row]
        <3>1. [patches[patcher.tag] EXCEPT ![patcher.date] = row] \in
                  [Days -> [csv : SUBSET Stocks, base : SUBSET Stocks, read : BOOLEAN]]
            BY <1>2, <1>3, <1>4, <2>1 DEF PatchedRows, row
        <3> QED BY <1>2, <2>1, <2>3, <3>1 DEF PatchedRows
    <2> QED BY <1>1, <2>2, <2>3
<1>7. PatchesFit'
    <2>1. ASSUME NEW t \in Tags, NEW d \in Days, patches'[t][d] # NoPatch PROVE RowFits(patches[t][d], t, d)'
        <3>1. RowFits(patches'[t][d], t, d)
            <4>1. patches'[t][d] = patches[t][d] \/ (t = patcher.tag /\ d = patcher.date /\ patches'[t][d] = row)
                BY <1>1, <1>2, <1>3 DEF SelectInv, SelTyped, PatchedRows
            <4> QED BY <1>5, <2>1, <4>1 DEF SelectInv, PatchesFit
        <3> QED BY <1>1, <3>1 DEF RowFits, FromBuild
    <2> QED BY <2>1 DEF PatchesFit
<1>8. SelTyped' /\ PatcherFits'
    BY <1>1, <1>6, SelectAssumption DEF SelectInv, SelTyped, PatcherFits, NoPatcher, PatcherRun
<1> QED BY <1>1, <1>7, <1>8, StillFits DEF SelectInv

LEMMA PatchOrphanedKeeps ==
    ASSUME SelectInv, NEW t \in Tags, NEW d \in Days, PatchOrphaned(t, d) PROVE SelectInv'
<1>1. /\ patches' = [patches EXCEPT ![t][d] = NoPatch] /\ patches \in PatchedRows
      /\ UNCHANGED <<today, delistedOn, snap, coreAt, builder, patcher, daily, output>>
    BY DEF PatchOrphaned, SelectInv, SelTyped
<1>2. PatchesFit' /\ SelTyped'
    <2>1. patches' \in PatchedRows
        BY <1>1 DEF PatchedRows, NoPatch
    <2>2. ASSUME NEW u \in Tags, NEW e \in Days, patches'[u][e] # NoPatch PROVE RowFits(patches[u][e], u, e)'
        <3>1. patches'[u][e] = patches[u][e]
            BY <1>1, <2>2 DEF PatchedRows
        <3> QED BY <1>1, <2>2, <3>1 DEF SelectInv, PatchesFit, RowFits, FromBuild
    <2> QED BY <1>1, <2>1, <2>2 DEF PatchesFit, SelectInv, SelTyped
<1> QED BY <1>1, <1>2, StillFits DEF SelectInv

LEMMA StartDailyKeeps ==
    ASSUME SelectInv, NEW d \in Days, StartDaily(d) PROVE SelectInv'
<1>1. /\ daily' = [NoDaily EXCEPT !.pc = "select", !.date = d] /\ d \in 1..today /\ d \in 0..NumDays
      /\ UNCHANGED <<today, delistedOn, snap, coreAt, builder, patches, patcher, output>>
    BY SelectAssumption DEF StartDaily, Days, SelectInv, SelTyped
<1>2. daily' \in DailyRow /\ daily'.pc = "select" /\ daily'.date = d
    <2>1. daily' = [pc |-> "select", date |-> d, tag |-> NoTag, key |-> 0]
        BY <1>1 DEF NoDaily
    <2>2. 0 \in 0..NumDays
        BY SelectAssumption
    <2> QED BY <1>1, <2>1, <2>2 DEF DailyRow
<1>3. SelTyped' /\ DailyFits'
    BY <1>1, <1>2 DEF SelectInv, SelTyped, DailyFits
<1> QED BY <1>1, <1>3, StillFits DEF SelectInv

LEMMA SelectKeeps ==
    ASSUME SelectInv, Select PROVE SelectInv'
<1> DEFINE t == Pick(daily.date)
           k == Latest(PatchDays(t, daily.date))
<1>1. /\ daily.pc = "select" /\ Committed # {} /\ daily \in DailyRow /\ daily.date \in 1..today /\ today \in Days
      /\ daily' = [daily EXCEPT !.pc = IF k = 0 THEN "release" ELSE "patched", !.tag = t, !.key = k]
      /\ UNCHANGED <<today, delistedOn, snap, coreAt, builder, patches, patcher, output>>
    BY DEF Select, SelectInv, SelTyped, DailyFits
<1>2. daily.date \in Days
    BY <1>1, SelectAssumption DEF Days
<1>3. t \in Tags
    BY <1>1, <1>2, PickIsCommitted DEF Committed
<1>4. k = 0 \/ (k \in Days /\ k <= daily.date)
    <2>1. PatchDays(t, daily.date) \in SUBSET Days
        BY DEF PatchDays
    <2>2. CASE PatchDays(t, daily.date) = {}
        BY <2>2 DEF Latest
    <2>3. CASE PatchDays(t, daily.date) # {}
        <3>1. k \in PatchDays(t, daily.date)
            BY <2>1, <2>3, DaysHaveLast
        <3> QED BY <3>1 DEF PatchDays
    <2> QED BY <2>2, <2>3
<1> HIDE DEF t, k
<1>5. /\ daily' \in DailyRow /\ daily'.pc = (IF k = 0 THEN "release" ELSE "patched") /\ daily'.tag = t
      /\ daily'.key = k /\ daily'.date = daily.date
    <2>1. k \in 0..NumDays
        BY <1>4, SelectAssumption DEF Days
    <2> QED BY <1>1, <1>3, <2>1 DEF DailyRow
<1>6. SelTyped'
    BY <1>1, <1>5 DEF SelectInv, SelTyped
<1>7. DailyFits'
    BY <1>1, <1>3, <1>4, <1>5, SelectAssumption DEF DailyFits, Days
<1> QED BY <1>1, <1>6, <1>7, StillFits DEF SelectInv

LEMMA MaterializePatchedKeeps ==
    ASSUME SelectInv, MaterializePatched PROVE SelectInv'
<1> DEFINE row == patches[daily.tag][daily.key]
<1>1. /\ daily.pc = "patched" /\ daily' = NoDaily
      /\ UNCHANGED <<today, delistedOn, snap, coreAt, builder, patches, patcher>>
      /\ output' = IF row = NoPatch THEN NoOutput
                   ELSE [date |-> daily.date, tag |-> daily.tag, key |-> daily.key,
                         csv |-> row.csv, base |-> row.base, read |-> row.read]
    BY DEF MaterializePatched
<1>2. /\ daily.date \in 1..today /\ today \in Days /\ daily.tag \in Tags /\ daily.key \in 1..daily.date
      /\ NumDays \in Nat
    BY <1>1, SelectAssumption DEF SelectInv, DailyFits, SelTyped
<1>3. /\ daily.date \in Days /\ daily.key \in Days /\ daily.key \in 0..NumDays
      /\ daily.key \in Nat \ {0} /\ daily.key <= daily.date /\ daily.key <= today /\ daily.date \in Nat
    BY <1>2 DEF Days
<1>4. row \in [csv : SUBSET Stocks, base : SUBSET Stocks, read : BOOLEAN]
    BY <1>2, <1>3 DEF SelectInv, SelTyped, PatchedRows
<1>5. row # NoPatch => RowFits(row, daily.tag, daily.key)
    BY <1>2, <1>3 DEF SelectInv, PatchesFit
<1> HIDE DEF row
<1>6. output' \in QualityReport \cup {NoOutput}
    BY <1>1, <1>2, <1>3, <1>4 DEF QualityReport
<1>7. SelTyped' /\ DailyFits'
    <2>1. NoDaily \in DailyRow
        BY <1>2 DEF NoDaily, DailyRow
    <2> QED BY <1>1, <1>6, <2>1 DEF SelectInv, SelTyped, DailyFits, NoDaily
<1>8. OutputFits'
    <2> SUFFICES ASSUME output' # NoOutput PROVE OutputFits'
        BY DEF OutputFits, NoHindsight, PatchedIsListed
    <2>1. /\ RowFits(row, daily.tag, daily.key)
          /\ output'.date = daily.date /\ output'.tag = daily.tag /\ output'.key = daily.key
          /\ output'.csv = row.csv /\ output'.base = row.base /\ output'.read = row.read
        BY <1>1, <1>5
    <2>2. \A c \in output'.base \ output'.csv : delistedOn[c] \in 1..output'.date
        <3> SUFFICES ASSUME NEW c \in row.base \ row.csv PROVE delistedOn[c] \in 1..daily.date
            BY <2>1
        <3>1. delistedOn[c] \in 1..daily.key
            BY <2>1 DEF RowFits
        <3> QED BY <1>3, <3>1
    <2>3. ASSUME row.read, MonthOf(daily.tag.day) > MonthOf(daily.key) - LookbackMonths, NEW c \in row.csv
          PROVE  delistedOn[c] = 0 \/ delistedOn[c] >= daily.key
        <3> SUFFICES ASSUME delistedOn[c] # 0, ~(delistedOn[c] >= daily.key) PROVE FALSE
            OBVIOUS
        <3>1. MonthOf(delistedOn[c]) < MonthOf(daily.key) - LookbackMonths
            BY <2>1, <2>3 DEF RowFits
        <3>2. MonthOf(delistedOn[c]) >= MonthOf(daily.tag.day) - 1
            BY <2>1, <2>3 DEF RowFits, FromBuild
        <3>3. delistedOn[c] \in 0..NumDays /\ daily.tag.day \in 1..NumDays
            BY <1>2, <1>4, <2>3 DEF SelectInv, SelTyped, Tags, Days
        <3>4. delistedOn[c] \in Nat \ {0} /\ daily.tag.day \in Nat \ {0}
            BY <1>2, <3>3
        <3>5. /\ MonthOf(delistedOn[c]) \in Nat /\ MonthOf(daily.tag.day) \in Nat /\ MonthOf(daily.key) \in Nat
              /\ LookbackMonths \in Nat
            BY <1>3, <3>4, MonthIs, SelectAssumption
        <3> QED BY <2>3, <3>1, <3>2, <3>5
    <2>4. NoHindsight'
        BY <1>1, <2>2 DEF NoHindsight
    <2>5. PatchedIsListed'
        BY <1>1, <2>1, <2>3 DEF PatchedIsListed
    <2>6. output'.key <= today'
        BY <1>1, <1>3, <2>1
    <2> QED BY <2>4, <2>5, <2>6 DEF OutputFits
<1> QED BY <1>1, <1>7, <1>8, StillFits DEF SelectInv

LEMMA MaterializeReleaseKeeps ==
    ASSUME SelectInv, MaterializeRelease PROVE SelectInv'
<1> DEFINE core == coreAt[daily.tag]
<1>1. /\ daily.pc = "release" /\ daily' = NoDaily
      /\ UNCHANGED <<today, delistedOn, snap, coreAt, builder, patches, patcher>>
      /\ output' = [date |-> daily.date, tag |-> daily.tag, key |-> 0, csv |-> core, base |-> core, read |-> FALSE]
    BY DEF MaterializeRelease
<1>2. /\ daily.date \in 1..today /\ today \in Days /\ daily.tag \in Tags /\ NumDays \in Nat /\ core \in SUBSET Stocks
    BY <1>1, SelectAssumption DEF SelectInv, DailyFits, SelTyped, StoredCores
<1>3. daily.date \in Days /\ 0 \in 0..NumDays /\ 0 <= today
    BY <1>2 DEF Days
<1> HIDE DEF core
<1>4. output' \in QualityReport
    BY <1>1, <1>2, <1>3 DEF QualityReport
<1>5. SelTyped' /\ DailyFits'
    <2>1. NoDaily \in DailyRow
        BY <1>3 DEF NoDaily, DailyRow
    <2> QED BY <1>1, <1>4, <2>1 DEF SelectInv, SelTyped, DailyFits, NoDaily
<1>6. OutputFits'
    BY <1>1, <1>3 DEF OutputFits, NoHindsight, PatchedIsListed
<1> QED BY <1>1, <1>5, <1>6, StillFits DEF SelectInv

LEMMA SelectStepKeeps ==
    ASSUME SelectInv, [SelectNext]_selVars PROVE SelectInv'
<1>1. ASSUME UNCHANGED selVars PROVE SelectInv'
    <2>1. UNCHANGED <<today, delistedOn, snap, coreAt, builder, patches, patcher, daily, output>>
        BY <1>1 DEF selVars
    <2>2. SelTyped'
        BY <2>1 DEF SelectInv, SelTyped
    <2> QED BY <2>1, <2>2, StillFits DEF SelectInv
<1>2. ASSUME NextDay \/ \E c \in Stocks : Delist(c) PROVE SelectInv'
    BY <1>2, NextDayKeeps, DelistKeeps
<1>3. ASSUME \E r \in 1..MaxBuilds, core \in SUBSET Stocks : StartBuild(r, core) PROVE SelectInv'
    BY <1>3, StartBuildKeeps
<1>4. ASSUME NameTag \/ InsertPending \/ PutCore \/ CommitSnapshot \/ BuildRaises \/ OrphanSnapshot PROVE SelectInv'
    BY <1>4, NameTagKeeps, InsertPendingKeeps, PutCoreKeeps, CommitSnapshotKeeps, BuildRaisesKeeps, OrphanSnapshotKeeps
<1>5. ASSUME \/ ResolvePatch \/ FetchBase \/ \E read \in BOOLEAN : PutPatch(read)
             \/ \E t \in Tags, d \in Days : PatchOrphaned(t, d)
      PROVE  SelectInv'
    BY <1>5, ResolvePatchKeeps, FetchBaseKeeps, PutPatchKeeps, PatchOrphanedKeeps
<1>6. ASSUME (\E d \in Days : StartDaily(d)) \/ Select \/ MaterializePatched \/ MaterializeRelease PROVE SelectInv'
    BY <1>6, StartDailyKeeps, SelectKeeps, MaterializePatchedKeeps, MaterializeReleaseKeeps
<1> QED BY <1>1, <1>2, <1>3, <1>4, <1>5, <1>6 DEF SelectNext

(* Only a put of the build changes what is stored for a tag, and by then   *)
(* the row of that tag is pending, never committed.                        *)
LEMMA CommittedIsLeftAlone ==
    ASSUME SelectInv, SelectNext, NEW t \in Tags, snap[t] = "committed"
    PROVE  coreAt'[t] = coreAt[t] /\ snap'[t] \in {"committed", "orphan"}
<1>1. /\ snap \in [Tags -> {"none", "pending", "committed", "orphan"}] /\ coreAt \in [Tags -> SUBSET Stocks]
      /\ builder.pc \in {"named", "pending", "put", "raised"} => builder.tag \in Tags
      /\ builder.pc \in {"pending", "put"} => snap[builder.tag] = "pending"
    BY DEF SelectInv, SelTyped, StoredCores, BuildFits
<1>2. CASE InsertPending
    BY <1>1, <1>2 DEF InsertPending, MayReopen
<1>3. CASE PutCore
    BY <1>1, <1>3 DEF PutCore
<1>4. CASE CommitSnapshot \/ OrphanSnapshot
    BY <1>1, <1>4 DEF CommitSnapshot, OrphanSnapshot
<1>5. CASE UNCHANGED <<snap, coreAt>>
    BY <1>1, <1>5
<1>6. ASSUME \/ NextDay \/ (\E c \in Stocks : Delist(c)) \/ NameTag \/ BuildRaises
             \/ \E r \in 1..MaxBuilds, core \in SUBSET Stocks : StartBuild(r, core)
      PROVE  UNCHANGED <<snap, coreAt>>
    BY <1>6 DEF NextDay, Delist, NameTag, BuildRaises, StartBuild
<1>7. ASSUME \/ ResolvePatch \/ FetchBase \/ (\E read \in BOOLEAN : PutPatch(read))
             \/ (\E u \in Tags, d \in Days : PatchOrphaned(u, d)) \/ (\E d \in Days : StartDaily(d))
             \/ Select \/ MaterializePatched \/ MaterializeRelease
      PROVE  UNCHANGED <<snap, coreAt>>
    BY <1>7 DEF ResolvePatch, FetchBase, PutPatch, PatchOrphaned, StartDaily, Select, MaterializePatched, MaterializeRelease
<1> QED BY <1>2, <1>3, <1>4, <1>5, <1>6, <1>7 DEF SelectNext

(* The CSV a run works on knows no later delisting, a patch leaves nothing *)
(* in it that had left, and a committed release keeps its CSV, for any     *)
(* number of days, stocks and builds and any look-back.                    *)
THEOREM SelectIsSafe == SelectSpec => SelectSafe
<1>1. SelectInv => SelectTypeOK /\ NoHindsight /\ PatchedIsListed
    BY DEF SelectInv, SelTyped, OutputFits, SelectTypeOK, BuildRow, DailyRow
<1>2. SelectInv /\ [SelectNext]_selVars =>
         [\A t \in Tags : snap[t] = "committed" =>
              coreAt'[t] = coreAt[t] /\ snap'[t] \in {"committed", "orphan"}]_selVars
    BY CommittedIsLeftAlone
<1> QED BY <1>1, <1>2, SelectInitHolds, SelectStepKeeps, PTL DEF SelectSpec, SelectSafe, CommittedCsvStays

-----------------------------------------------------------------------------
(***************************************************************************)
(* The monthly universe.  A run hands on by the newest file of each kind,  *)
(* which may be of an earlier run; it is of this one because a job that    *)
(* fails ends the run, and the pointer moves only to a directory that the  *)
(* run itself has filled.                                                  *)
(***************************************************************************)
Listings == Issues \cup {0}
FetchStatuses == {"missing", "failed", "insufficient", "ok"}
ThreeCsvs == [Classes -> SUBSET Codes]
StagedRow == [issue : Listings, copied : 0..3, rows : ThreeCsvs]
MonthRow == [id : 0..MaxRuns, todo : SUBSET Codes, entries : [Codes -> FetchStatuses], got : Listings,
             pc : {"over", "url", "list", "build", "todo", "fetch", "split", "stage", "gate", "point"}]

MonthTyped ==
    /\ issue \in Issues /\ url \in Listings /\ processed \in Listings
    /\ sets \in [issue : Listings, codes : SUBSET Codes] /\ bars \in [Codes -> Histories]
    /\ manifest \in [Codes -> FetchStatuses] /\ split \in [issue : Listings, rows : ThreeCsvs]
    /\ staged \in [Runs -> StagedRow] /\ latest \in Runs \cup {0} /\ monthRun \in MonthRow

(* Three CSVs part the domestic stocks of a list among them.               *)
Parts(rows, i) ==
    /\ UNION {rows[k] : k \in Classes} = Domestic(i)
    /\ \A j, k \in Classes : j # k => rows[j] \cap rows[k] = {}

(* What the directory of the run under way holds.                          *)
StagedSoFar(s) ==
    /\ monthRun.pc \in {"url", "list", "build", "todo", "fetch", "split"} => s = NotStaged
    /\ monthRun.pc = "stage" =>
          /\ s.copied < 3 /\ (s.copied # 0 => s.issue = monthRun.got)
          /\ \A n \in 1..3 : n <= s.copied => s.rows[Csvs[n]] = split.rows[Csvs[n]]
    /\ monthRun.pc \in {"gate", "point"} => s.copied = 3 /\ s.issue = monthRun.got /\ s.rows = split.rows
    /\ monthRun.pc = "point" => Gate(s)

(* The newest files are of the list the run has downloaded.                *)
FilesFit ==
    /\ monthRun.pc \in {"build", "todo", "fetch", "split", "stage", "gate", "point"} => monthRun.got \in Issues
    /\ monthRun.pc = "build" => processed = monthRun.got
    /\ monthRun.pc \in {"todo", "fetch", "split"} => sets = [issue |-> monthRun.got, codes |-> Domestic(monthRun.got)]
    /\ monthRun.pc \in {"stage", "gate", "point"} => split.issue = monthRun.got /\ Parts(split.rows, monthRun.got)
DirectoryFits ==
    monthRun.pc # "over" => monthRun.id \in Runs /\ latest < monthRun.id /\ StagedSoFar(staged[monthRun.id])
LaterAreEmpty == latest <= monthRun.id /\ \A r \in Runs : r > monthRun.id => staged[r] = NotStaged
MonthInv == MonthTyped /\ FilesFit /\ DirectoryFits /\ LaterAreEmpty /\ LatestIsAPartition

LEMMA MonthInitHolds == MonthInit => MonthInv
<1> SUFFICES ASSUME MonthInit PROVE MonthInv
    OBVIOUS
<1>1. MonthTyped
    BY MonthAssumption DEF MonthInit, Empty, NoRun, NoSplit, NoFiles, NotStaged, MonthTyped, Listings, FetchStatuses,
       ThreeCsvs, StagedRow, MonthRow, Histories
<1>2. FilesFit /\ DirectoryFits /\ LaterAreEmpty /\ LatestIsAPartition
    BY MonthAssumption DEF MonthInit, Empty, NoRun, FilesFit, DirectoryFits, LaterAreEmpty, LatestIsAPartition, Runs
<1> QED BY <1>1, <1>2 DEF MonthInv

(* A step that leaves the staged directories and the pointer alone, and    *)
(* stops the run or leaves its place, its list and its split.              *)
LEMMA DirectoriesStay ==
    ASSUME MonthInv, UNCHANGED <<staged, latest>>, monthRun' \in MonthRow, monthRun'.id = monthRun.id,
           \/ monthRun'.pc = "over"
           \/ /\ monthRun.pc # "over" /\ monthRun.pc \in {"url", "list", "build", "todo", "fetch", "split"}
              /\ monthRun'.pc \in {"url", "list", "build", "todo", "fetch", "split"}
           \/ /\ monthRun.pc = "split" /\ monthRun'.pc = "stage"
           \/ /\ monthRun'.pc = monthRun.pc /\ monthRun'.got = monthRun.got /\ UNCHANGED split
    PROVE  DirectoryFits' /\ LaterAreEmpty' /\ LatestIsAPartition'
<1>1. LaterAreEmpty' /\ LatestIsAPartition'
    BY DEF MonthInv, LaterAreEmpty, LatestIsAPartition
<1>2. DirectoryFits'
    BY DEF MonthInv, DirectoryFits, StagedSoFar, NotStaged, Gate
<1> QED BY <1>1, <1>2

LEMMA WorldKeeps ==
    ASSUME MonthInv, NewIssue \/ \E c \in Codes, h \in Histories : DailyTouches(c, h)
    PROVE  MonthInv'
<1>1. /\ UNCHANGED <<url, processed, sets, manifest, split, staged, latest, monthRun>>
      /\ issue' \in Issues /\ bars' \in [Codes -> Histories] /\ monthRun \in MonthRow
    BY DEF NewIssue, DailyTouches, workspace, MonthInv, MonthTyped
<1>2. MonthTyped' /\ FilesFit'
    BY <1>1 DEF MonthInv, MonthTyped, FilesFit
<1>3. DirectoryFits' /\ LaterAreEmpty' /\ LatestIsAPartition'
    BY <1>1, DirectoriesStay
<1> QED BY <1>2, <1>3 DEF MonthInv

LEMMA StartKeeps ==
    ASSUME MonthInv, NEW fresh \in BOOLEAN, Start(fresh)
    PROVE  MonthInv'
<1>1. /\ monthRun.id \in 0..MaxRuns /\ monthRun.id + 1 \in Runs /\ UNCHANGED <<issue, url>>
      /\ MaxRuns \in Nat /\ latest \in Runs \cup {0}
    BY MonthAssumption DEF Start, MonthInv, MonthTyped, MonthRow
<1>2. /\ monthRun'.id = monthRun.id + 1 /\ monthRun'.pc = "url" /\ monthRun' \in MonthRow
    <2>1. monthRun' = [id |-> monthRun.id + 1, pc |-> "url", todo |-> {}, entries |-> [c \in Codes |-> "missing"], got |-> 0]
        BY DEF Start, NoRun
    <2>2. monthRun.id + 1 \in 0..MaxRuns
        BY <1>1 DEF Runs
    <2> QED BY <2>1, <2>2 DEF MonthRow, FetchStatuses, Listings
<1>3. CASE fresh
    <2>1. /\ processed' = 0 /\ sets' = [issue |-> 0, codes |-> {}]
          /\ bars' = [c \in Codes |-> "none"] /\ manifest' = [c \in Codes |-> "missing"]
          /\ split' = NoSplit /\ staged' = [r \in Runs |-> NotStaged] /\ latest' = 0
        BY <1>3 DEF Start
    <2>2. MonthTyped'
        BY <1>1, <1>2, <2>1 DEF MonthInv, MonthTyped, NoSplit, NoFiles, NotStaged, Listings, FetchStatuses, ThreeCsvs,
           StagedRow, Histories
    <2>3. FilesFit' /\ LaterAreEmpty' /\ LatestIsAPartition' /\ DirectoryFits'
        BY <1>1, <1>2, <2>1 DEF FilesFit, LaterAreEmpty, LatestIsAPartition, DirectoryFits, StagedSoFar, Runs
    <2> QED BY <2>2, <2>3 DEF MonthInv
<1>4. CASE ~fresh
    <2>1. UNCHANGED <<processed, sets, bars, manifest, split, staged, latest>>
        BY <1>4 DEF Start, workspace
    <2>2. MonthTyped'
        BY <1>1, <1>2, <2>1 DEF MonthInv, MonthTyped
    <2>3. FilesFit' /\ LaterAreEmpty' /\ LatestIsAPartition'
        BY <1>1, <1>2, <2>1 DEF MonthInv, FilesFit, LaterAreEmpty, LatestIsAPartition, Runs
    <2>4. DirectoryFits'
        <3>1. staged[monthRun.id + 1] = NotStaged /\ latest < monthRun.id + 1
            BY <1>1 DEF MonthInv, LaterAreEmpty, Runs
        <3> QED BY <1>1, <1>2, <2>1, <3>1 DEF DirectoryFits, StagedSoFar
    <2> QED BY <2>2, <2>3, <2>4 DEF MonthInv
<1> QED BY <1>3, <1>4

LEMMA ListKeeps ==
    ASSUME MonthInv, \/ \E up \in BOOLEAN : UpdateUrl(up)
                     \/ \E up, good \in BOOLEAN : FetchList(up, good)
    PROVE  MonthInv'
<1>1. CASE \E up \in BOOLEAN : UpdateUrl(up)
    <2>1. PICK up \in BOOLEAN : UpdateUrl(up)
        BY <1>1
    <2>2. /\ UNCHANGED <<issue, processed, sets, bars, manifest, split, staged, latest>> /\ url' \in Listings
          /\ monthRun.pc = "url" /\ monthRun' \in MonthRow /\ monthRun'.id = monthRun.id
          /\ monthRun'.pc \in {"list", "over"}
        BY <2>1 DEF UpdateUrl, After, Resolved, workspace, MonthInv, MonthTyped, MonthRow, Listings
    <2>3. MonthTyped' /\ FilesFit'
        BY <2>2 DEF MonthInv, MonthTyped, FilesFit
    <2> QED BY <2>2, <2>3, DirectoriesStay DEF MonthInv
<1>2. CASE \E up, good \in BOOLEAN : FetchList(up, good)
    <2>1. PICK up \in BOOLEAN, good \in BOOLEAN : FetchList(up, good)
        BY <1>2
    <2>2. /\ UNCHANGED <<issue, sets, bars, manifest, split, staged, latest>> /\ url' \in Listings
          /\ processed' \in Listings
          /\ monthRun.pc = "list" /\ monthRun' \in MonthRow /\ monthRun'.id = monthRun.id
          /\ \/ monthRun'.pc = "over"
             \/ monthRun'.pc = "build" /\ monthRun'.got = processed' /\ processed' # 0
        BY <2>1 DEF FetchList, After, Resolved, MonthInv, MonthTyped, MonthRow, Listings
    <2>3. MonthTyped' /\ FilesFit'
        BY <2>2 DEF MonthInv, MonthTyped, FilesFit, Listings
    <2> QED BY <2>2, <2>3, DirectoriesStay DEF MonthInv
<1> QED BY <1>1, <1>2

LEMMA BuildUniverseKeeps ==
    ASSUME MonthInv, BuildUniverse
    PROVE  MonthInv'
<1>1. /\ UNCHANGED <<issue, url, processed, bars, manifest, split, staged, latest>>
      /\ monthRun.pc = "build" /\ monthRun' \in MonthRow /\ monthRun'.id = monthRun.id /\ monthRun'.got = monthRun.got
      /\ \/ monthRun'.pc = "over" /\ UNCHANGED sets
         \/ monthRun'.pc = "todo" /\ sets' = [issue |-> processed, codes |-> Domestic(processed)]
    BY DEF BuildUniverse, After, LatestProcessed, MonthInv, MonthTyped, MonthRow
<1>2. MonthTyped'
    BY <1>1 DEF MonthInv, MonthTyped, Domestic
<1>3. FilesFit'
    BY <1>1 DEF MonthInv, FilesFit
<1> QED BY <1>1, <1>2, <1>3, DirectoriesStay DEF MonthInv

LEMMA FetchKeeps ==
    ASSUME MonthInv, StartFetch \/ (\E c \in Codes, h \in Histories : FetchOne(c, h)) \/ WriteManifest
    PROVE  MonthInv'
<1>1. CASE StartFetch
    <2>1. /\ UNCHANGED <<issue, url, processed, sets, bars, manifest, split, staged, latest>>
          /\ monthRun.pc = "todo" /\ monthRun'.pc = "fetch" /\ monthRun' \in MonthRow
          /\ monthRun'.id = monthRun.id /\ monthRun'.got = monthRun.got
        BY <1>1 DEF StartFetch, LoadedManifest, LatestSets, workspace, MonthInv, MonthTyped, MonthRow
    <2>2. MonthTyped' /\ FilesFit'
        BY <2>1 DEF MonthInv, MonthTyped, FilesFit
    <2> QED BY <2>1, <2>2, DirectoriesStay DEF MonthInv
<1>2. CASE \E c \in Codes, h \in Histories : FetchOne(c, h)
    <2>1. PICK c \in Codes, h \in Histories : FetchOne(c, h)
        BY <1>2
    <2>2. /\ UNCHANGED <<issue, url, processed, sets, manifest, split, staged, latest>>
          /\ bars' \in [Codes -> Histories] /\ monthRun.pc = "fetch"
          /\ monthRun' = [monthRun EXCEPT !.todo = @ \ {c}, !.entries[c] = ManifestStatus(h)]
          /\ monthRun \in MonthRow /\ ManifestStatus(h) \in FetchStatuses
        BY <2>1 DEF FetchOne, MonthInv, MonthTyped, ManifestStatus, FetchStatuses, Histories
    <2>3. /\ monthRun'.pc = "fetch" /\ monthRun' \in MonthRow
          /\ monthRun'.id = monthRun.id /\ monthRun'.got = monthRun.got
        BY <2>2 DEF MonthRow
    <2>4. MonthTyped' /\ FilesFit'
        BY <2>2, <2>3 DEF MonthInv, MonthTyped, FilesFit
    <2> QED BY <2>2, <2>3, <2>4, DirectoriesStay DEF MonthInv
<1>3. CASE WriteManifest
    <2>1. /\ UNCHANGED <<issue, url, processed, sets, bars, split, staged, latest>>
          /\ manifest' = monthRun.entries /\ monthRun.pc = "fetch" /\ monthRun \in MonthRow
          /\ monthRun' = [monthRun EXCEPT !.pc = "split", !.entries = [c \in Codes |-> "missing"]]
        BY <1>3 DEF WriteManifest, NoRun, MonthInv, MonthTyped
    <2>2. /\ manifest' \in [Codes -> FetchStatuses] /\ monthRun'.pc = "split" /\ monthRun' \in MonthRow
          /\ monthRun'.id = monthRun.id /\ monthRun'.got = monthRun.got
        BY <2>1 DEF MonthRow, FetchStatuses
    <2>3. MonthTyped' /\ FilesFit'
        BY <2>1, <2>2 DEF MonthInv, MonthTyped, FilesFit
    <2> QED BY <2>1, <2>2, <2>3, DirectoriesStay DEF MonthInv
<1> QED BY <1>1, <1>2, <1>3

LEMMA SplitKeeps ==
    ASSUME MonthInv, Split
    PROVE  MonthInv'
<1>1. /\ UNCHANGED <<issue, url, processed, sets, bars, manifest, staged, latest>>
      /\ split' = [issue |-> sets.issue, rows |-> [k \in Classes |-> {c \in sets.codes : ClassOf(c) = k}]]
      /\ monthRun.pc = "split" /\ monthRun' = [monthRun EXCEPT !.pc = "stage"]
      /\ monthRun \in MonthRow /\ sets = [issue |-> monthRun.got, codes |-> Domestic(monthRun.got)]
      /\ monthRun.got \in Issues
    BY DEF Split, LatestSets, MonthInv, MonthTyped, FilesFit
<1>2. /\ monthRun' \in MonthRow /\ monthRun'.pc = "stage" /\ monthRun'.id = monthRun.id /\ monthRun'.got = monthRun.got
    BY <1>1 DEF MonthRow
<1>3. split'.issue = monthRun.got /\ split' \in [issue : Listings, rows : ThreeCsvs]
    BY <1>1 DEF Domestic, ThreeCsvs, Listings
<1>4. Parts(split'.rows, monthRun.got)
    <2>1. Classes = {"ipo", "illiquid", "core"}
        BY DEF Classes, Csvs
    <2>2. \A c : ClassOf(c) \in Classes
        BY <2>1 DEF ClassOf
    <2>3. \A k \in Classes : split'.rows[k] = {c \in Domestic(monthRun.got) : ClassOf(c) = k}
        BY <1>1
    <2> QED BY <2>2, <2>3 DEF Parts
<1>5. MonthTyped' /\ FilesFit'
    BY <1>1, <1>2, <1>3, <1>4 DEF MonthInv, MonthTyped, FilesFit, Parts
<1> QED BY <1>1, <1>2, <1>5, DirectoriesStay DEF MonthInv

LEMMA StageKeeps ==
    ASSUME MonthInv, Stage
    PROVE  MonthInv'
<1> DEFINE id == monthRun.id
           old == staged[id]
           n == old.copied + 1
           row == [issue |-> split.issue, copied |-> n,
                   rows |-> [old.rows EXCEPT ![Csvs[n]] = split.rows[Csvs[n]]]]
<1>1. /\ monthRun.pc = "stage" /\ monthRun \in MonthRow /\ id \in Runs /\ latest < id /\ latest \in Runs \cup {0}
      /\ MaxRuns \in Nat /\ UNCHANGED <<issue, url, processed, sets, bars, manifest, split, latest>>
      /\ monthRun' = [monthRun EXCEPT !.pc = IF n = 3 THEN "gate" ELSE "stage"]
      /\ split \in [issue : Listings, rows : ThreeCsvs] /\ old \in StagedRow /\ split.issue = monthRun.got
    BY MonthAssumption DEF Stage, MonthInv, MonthTyped, DirectoryFits, FilesFit
<1>2. /\ old.copied < 3 /\ old.copied \in 0..3
      /\ \A m \in 1..3 : m <= old.copied => old.rows[Csvs[m]] = split.rows[Csvs[m]]
    BY <1>1 DEF MonthInv, DirectoryFits, StagedSoFar, StagedRow
<1>3. n \in 1..3 /\ Csvs[n] \in Classes /\ row.rows \in ThreeCsvs /\ row \in StagedRow
    <2>1. n \in 1..3
        BY <1>2
    <2>2. Csvs[n] \in Classes
        BY <2>1 DEF Classes
    <2>3. row.rows \in ThreeCsvs
        BY <1>1, <2>2 DEF ThreeCsvs, StagedRow
    <2> QED BY <1>1, <2>1, <2>2, <2>3 DEF StagedRow
<1>4. \A m \in 1..3 : m <= n => row.rows[Csvs[m]] = split.rows[Csvs[m]]
    <2> SUFFICES ASSUME NEW m \in 1..3, m <= n PROVE row.rows[Csvs[m]] = split.rows[Csvs[m]]
        OBVIOUS
    <2>1. Csvs[m] \in Classes /\ old.rows \in ThreeCsvs
        BY <1>1 DEF Classes, StagedRow
    <2>2. CASE Csvs[m] = Csvs[n]
        BY <1>3, <2>1, <2>2 DEF ThreeCsvs
    <2>3. CASE Csvs[m] # Csvs[n]
        <3>1. m <= old.copied
            BY <1>2, <2>3
        <3> QED BY <1>2, <2>1, <2>3, <3>1 DEF ThreeCsvs
    <2> QED BY <2>2, <2>3
<1>5. staged' = [staged EXCEPT ![id] = row]
    <2>1. staged' = [staged EXCEPT ![id].copied = n, ![id].issue = split.issue,
                                   ![id].rows[Csvs[n]] = split.rows[Csvs[n]]]
        BY DEF Stage, LatestSplit
    <2>2. staged \in [Runs -> StagedRow] /\ old \in StagedRow
        BY <1>1 DEF MonthInv, MonthTyped
    <2>3. [[[old EXCEPT !.copied = n] EXCEPT !.issue = split.issue] EXCEPT !.rows[Csvs[n]] = split.rows[Csvs[n]]] = row
        <3>1. old = [issue |-> old.issue, copied |-> old.copied, rows |-> old.rows]
            BY <2>2 DEF StagedRow
        <3> DEFINE f == old.rows
                   one == [old EXCEPT !.copied = n]
                   two == [one EXCEPT !.issue = split.issue]
                   new == split.rows[Csvs[n]]
        <3>2. one = [issue |-> old.issue, copied |-> n, rows |-> f]
            BY <3>1
        <3> HIDE DEF one, f
        <3>3. two = [issue |-> split.issue, copied |-> n, rows |-> f]
            BY <3>2
        <3>4. [two EXCEPT !.rows[Csvs[n]] = new] = [two EXCEPT !.rows = [two.rows EXCEPT ![Csvs[n]] = new]]
            OBVIOUS
        <3>5. two.rows = f
            BY <3>3
        <3>6. [two EXCEPT !.rows[Csvs[n]] = new]
                  = [issue |-> split.issue, copied |-> n, rows |-> [f EXCEPT ![Csvs[n]] = new]]
            <4> HIDE DEF new, two
            <4> QED BY <3>3, <3>4, <3>5
        <3> QED BY <3>6 DEF one, f
    <2> HIDE DEF row
    <2> QED BY ONLY <2>1, <2>2, <2>3, <1>1
<1>6. row.issue = monthRun.got /\ row.copied = n
    BY <1>1
<1>7. n = 3 => row.rows = split.rows
    <2> SUFFICES ASSUME n = 3 PROVE row.rows = split.rows
        OBVIOUS
    <2>1. \A k \in Classes : row.rows[k] = split.rows[k]
        BY <1>4 DEF Classes
    <2> QED BY <1>1, <1>3, <2>1 DEF ThreeCsvs
<1> HIDE DEF row
<1>8. /\ monthRun' \in MonthRow /\ monthRun'.pc = (IF n = 3 THEN "gate" ELSE "stage")
      /\ monthRun'.id = id /\ monthRun'.got = monthRun.got
    BY <1>1 DEF MonthRow
<1>9. /\ \A r \in Runs : r # id => staged'[r] = staged[r]
      /\ staged'[id] = row /\ staged' \in [Runs -> StagedRow]
    BY <1>1, <1>3, <1>5 DEF MonthInv, MonthTyped
<1> HIDE DEF n
<1>10. MonthTyped' /\ FilesFit'
    BY <1>1, <1>8, <1>9 DEF MonthInv, MonthTyped, FilesFit
<1>11. DirectoryFits'
    <2> DEFINE new == staged'[id]
    <2>1. /\ n = 3 => new.copied = 3 /\ new.issue = monthRun'.got /\ new.rows = split'.rows
          /\ n # 3 => new.copied < 3 /\ new.issue = monthRun'.got
          /\ \A m \in 1..3 : m <= new.copied => new.rows[Csvs[m]] = split'.rows[Csvs[m]]
        <3>1. new = row /\ split' = split /\ monthRun'.got = monthRun.got
            BY <1>1, <1>8, <1>9
        <3>2. new.copied = n /\ new.issue = monthRun'.got /\ new.rows = row.rows
            BY <1>6, <3>1
        <3>3. \A m \in 1..3 : m <= new.copied => new.rows[Csvs[m]] = split'.rows[Csvs[m]]
            BY <1>4, <3>1, <3>2
        <3> HIDE DEF new
        <3> QED BY <1>3, <1>7, <3>1, <3>2, <3>3
    <2> HIDE DEF new
    <2>2. monthRun'.pc # "over" => monthRun'.id \in Runs /\ latest' < monthRun'.id
        BY <1>1, <1>8
    <2>3. staged'[monthRun'.id] = new
        BY <1>8 DEF new
    <2>4. monthRun'.pc = (IF n = 3 THEN "gate" ELSE "stage")
        BY <1>8
    <2> QED BY ONLY <2>1, <2>2, <2>3, <2>4 DEF DirectoryFits, StagedSoFar
<1>12. LaterAreEmpty' /\ LatestIsAPartition'
    <2>1. LaterAreEmpty'
        BY <1>1, <1>8, <1>9 DEF MonthInv, LaterAreEmpty, Runs
    <2>2. latest # 0 => staged'[latest] = staged[latest]
        BY <1>1, <1>9 DEF Runs
    <2>3. LatestIsAPartition'
        BY <1>1, <2>2 DEF MonthInv, LatestIsAPartition
    <2> QED BY <2>1, <2>3
<1> QED BY <1>10, <1>11, <1>12 DEF MonthInv

LEMMA GateKeeps ==
    ASSUME MonthInv, VerifyGate
    PROVE  MonthInv'
<1>1. /\ monthRun.pc = "gate" /\ monthRun \in MonthRow
      /\ UNCHANGED <<issue, url, processed, sets, bars, manifest, split, staged, latest>>
      /\ monthRun' = [monthRun EXCEPT !.pc = After(Gate(staged[monthRun.id]), "point")]
    BY DEF VerifyGate, workspace, MonthInv, MonthTyped
<1>2. /\ monthRun' \in MonthRow /\ monthRun'.id = monthRun.id /\ monthRun'.got = monthRun.got
      /\ \/ monthRun'.pc = "over"
         \/ monthRun'.pc = "point" /\ Gate(staged[monthRun.id])
    BY <1>1 DEF MonthRow, After
<1>3. MonthTyped' /\ FilesFit' /\ LaterAreEmpty' /\ LatestIsAPartition'
    BY <1>1, <1>2 DEF MonthInv, MonthTyped, FilesFit, LaterAreEmpty, LatestIsAPartition
<1>4. DirectoryFits'
    BY <1>1, <1>2 DEF MonthInv, DirectoryFits, StagedSoFar, Gate
<1> QED BY <1>3, <1>4 DEF MonthInv

LEMMA PointKeeps ==
    ASSUME MonthInv, PointLatest
    PROVE  MonthInv'
<1>1. /\ monthRun.pc = "point" /\ monthRun \in MonthRow /\ latest' = monthRun.id /\ monthRun.id \in Runs
      /\ UNCHANGED <<issue, url, processed, sets, bars, manifest, split, staged>>
      /\ monthRun' = [monthRun EXCEPT !.pc = "over"] /\ StagedSoFar(staged[monthRun.id])
    BY DEF PointLatest, MonthInv, MonthTyped, DirectoryFits
<1>2. monthRun' \in MonthRow /\ monthRun'.id = monthRun.id /\ monthRun'.pc = "over"
    BY <1>1 DEF MonthRow
<1>3. MonthTyped' /\ FilesFit' /\ DirectoryFits'
    BY <1>1, <1>2 DEF MonthInv, MonthTyped, FilesFit, DirectoryFits
<1>4. LaterAreEmpty'
    BY <1>1, <1>2 DEF MonthInv, LaterAreEmpty, Runs
<1>5. LatestIsAPartition'
    BY <1>1 DEF MonthInv, FilesFit, StagedSoFar, Gate, Parts, LatestIsAPartition
<1> QED BY <1>3, <1>4, <1>5 DEF MonthInv

LEMMA KilledKeeps ==
    ASSUME MonthInv, Killed
    PROVE  MonthInv'
<1>1. /\ monthRun' \in MonthRow /\ monthRun'.id = monthRun.id /\ monthRun'.pc = "over"
      /\ UNCHANGED <<issue, url, processed, sets, bars, manifest, split, staged, latest>>
    <2>1. monthRun' = [id |-> monthRun.id, pc |-> "over", todo |-> {}, entries |-> [c \in Codes |-> "missing"], got |-> 0]
        BY DEF Killed, NoRun
    <2>2. monthRun.id \in 0..MaxRuns
        BY DEF MonthInv, MonthTyped, MonthRow
    <2>3. monthRun' \in MonthRow
        BY <2>1, <2>2 DEF MonthRow, FetchStatuses, Listings
    <2> QED BY <2>1, <2>3 DEF Killed, workspace
<1>2. MonthTyped' /\ FilesFit'
    BY <1>1 DEF MonthInv, MonthTyped, FilesFit
<1> QED BY <1>1, <1>2, DirectoriesStay DEF MonthInv

LEMMA MonthStepKeeps ==
    ASSUME MonthInv, [MonthNext]_monthVars
    PROVE  MonthInv'
<1>1. ASSUME UNCHANGED monthVars PROVE MonthInv'
    BY <1>1 DEF monthVars, MonthInv, MonthTyped, FilesFit, DirectoryFits, StagedSoFar, LaterAreEmpty,
       LatestIsAPartition, Gate, Parts
<1>2. ASSUME MonthNext PROVE MonthInv'
    BY <1>2, WorldKeeps, StartKeeps, ListKeeps, BuildUniverseKeeps, FetchKeeps, SplitKeeps, StageKeeps, GateKeeps,
       PointKeeps, KilledKeeps DEF MonthNext
<1> QED BY <1>1, <1>2

(* The three CSVs of the released run part the domestic stocks of one list *)
(* the run downloaded itself, and the core has its bars when it is cut,    *)
(* for any lists, codes and runs, killed anywhere.                         *)
THEOREM MonthIsSafe == MonthSpec => MonthSafe
<1>1. MonthInv => MonthTypeOK /\ LatestIsAPartition /\ StagedIsDownloaded
    <2>1. MonthInv => MonthTypeOK
        BY DEF MonthInv, MonthTyped, MonthTypeOK, Listings, FetchStatuses, ThreeCsvs, StagedRow, MonthRow
    <2>2. MonthInv => StagedIsDownloaded
        BY DEF MonthInv, DirectoryFits, StagedSoFar, StagedIsDownloaded
    <2> QED BY <2>1, <2>2 DEF MonthInv
<1>2. MonthInv /\ [MonthNext]_monthVars =>
         [monthRun.pc = "split" /\ split' # split => \A c \in split'.rows["core"] : bars[c] = "full"]_monthVars
    <2> SUFFICES ASSUME MonthInv, MonthNext, monthRun.pc = "split", split' # split
                 PROVE  \A c \in split'.rows["core"] : bars[c] = "full"
        OBVIOUS
    <2>1. Split
        BY DEF MonthNext, NewIssue, DailyTouches, Start, UpdateUrl, FetchList, BuildUniverse, StartFetch, FetchOne,
           WriteManifest, Stage, VerifyGate, PointLatest, Killed, workspace
    <2>2. split'.rows["core"] = {c \in sets.codes : ClassOf(c) = "core"}
        BY <2>1 DEF Split, LatestSets, Classes, Csvs
    <2>3. \A c \in sets.codes : bars[c] \in Histories
        BY DEF MonthInv, MonthTyped
    <2> QED BY <2>2, <2>3 DEF ClassOf, MedianTurnover, Histories
<1> QED BY <1>1, <1>2, MonthInitHolds, MonthStepKeeps, PTL DEF MonthSpec, MonthSafe, CoreIsBacked

-----------------------------------------------------------------------------
(***************************************************************************)
(* The event causes.  Whatever earlier runs left, the files of the date    *)
(* are written by the run before it reads them, unless it picked no stock, *)
(* and then its rows are empty.  After the cutoff, what a run keeps of     *)
(* pages read to their end is a function of the date and the stocks.       *)
(***************************************************************************)
CauseRow == [cause : Causes \cup {""}, news : SUBSET Entries]
SheetCsv == [exists : BOOLEAN, rows : [NewsStocks -> CauseRow]]
NewsFiles == [events : SUBSET Entries, candidates : SUBSET Entries,
              summary : [exists : BOOLEAN, cause : [NewsStocks -> Causes \cup {""}]]]
CauseRunRow == [id : 0..MaxCauseRuns, attempt : 0..MaxAttempts, date : NewsDays, picked : SUBSET NewsStocks,
                read : SUBSET Entries, clean : BOOLEAN, built : SheetCsv,
                pc : {"over", "kabutan", "tdnet", "write", "rank", "build", "put", "render"}]

CauseTyped ==
    /\ moment \in Moments /\ causeRun \in CauseRunRow /\ causeFiles \in [NewsDays -> NewsFiles]
    /\ stagedCsv \in SheetCsv /\ sheet \in SheetCsv

(* News a sheet of the date may name, what the sites show of it once the   *)
(* cutoff has passed, and what the run makes of a reading.                 *)
OfDate(e, d) == Item(e).at <= Cutoff(d) /\ InWindow(e, d)
OnSites(d, S) == {e \in Entries : /\ e.kind \in Item(e).on /\ e.kind # "feature"
                                  /\ OfDate(e, d) /\ Item(e).stock \in S}
FilesFor(E, d, S) ==
    [events |-> E, candidates |-> {e \in E : Item(e).stock \in S},
     summary |-> [exists |-> TRUE,
                  cause |-> [s \in NewsStocks |-> IF s \in S THEN CauseOf(OfStock(E, s), d) ELSE ""]]]
RowsFrom(files, d, S) == [s \in NewsStocks |-> IF s \in S THEN RowFor(s, files, d) ELSE NoRow]

CsvOfDate(c, d) == \A s \in NewsStocks : \A e \in c.rows[s].news : Item(e).stock = s /\ OfDate(e, d)

ReadingFits ==
    LET r == causeRun
        kept == {e \in r.read : Item(e).at <= Cutoff(r.date)}
    IN  /\ r.clean => moment > Cutoff(r.date)
        /\ r.pc \in {"tdnet", "write"} => r.picked # {} /\ \A e \in r.read : InWindow(e, r.date)
        /\ r.pc = "tdnet" /\ r.clean => kept = {e \in OnSites(r.date, r.picked) : e.kind # "tdnet"}
        /\ r.pc = "write" /\ r.clean => kept = OnSites(r.date, r.picked)
        /\ r.pc \in {"rank", "build"} /\ r.picked # {} => causeFiles[r.date].events = r.read
        /\ r.pc \in {"rank", "build"} /\ r.picked # {} /\ r.clean => r.read = Preferred(OnSites(r.date, r.picked))
        /\ r.pc = "build" /\ r.picked # {} => causeFiles[r.date] = FilesFor(r.read, r.date, r.picked)
KeptAreOfDate == \A d \in NewsDays : \A e \in causeFiles[d].events \cup causeFiles[d].candidates : OfDate(e, d)
CsvsAreOfDate ==
    CsvOfDate(stagedCsv, causeRun.date) /\ CsvOfDate(sheet, causeRun.date) /\ CsvOfDate(causeRun.built, causeRun.date)
BuiltFits == RowsAreOfThisRun /\ (causeRun.built.exists => causeRun.pc \in {"put", "render", "over"})
CleanRunsFit ==
    \A k \in cleanRuns : k.rows = RowsFrom(FilesFor(Preferred(OnSites(k.date, k.picked)), k.date, k.picked), k.date, k.picked)
CauseInv == CauseTyped /\ ReadingFits /\ KeptAreOfDate /\ CsvsAreOfDate /\ BuiltFits /\ CleanRunsFit

LEMMA NothingYet == NoCsvYet \in SheetCsv /\ NoFilesYet \in NewsFiles /\ \A d : CsvOfDate(NoCsvYet, d)
BY DEF NoCsvYet, NoRow, SheetCsv, CauseRow, NoFilesYet, NoSummary, NewsFiles, CsvOfDate

LEMMA CauseInitHolds == CauseInit => CauseInv
<1> SUFFICES ASSUME CauseInit PROVE CauseInv
    OBVIOUS
<1>1. /\ causeRun = [id |-> 0, attempt |-> 0, pc |-> "over", date |-> 1, picked |-> {}, read |-> {},
                     clean |-> FALSE, built |-> NoCsvYet]
      /\ moment = 2 /\ causeFiles = [d \in NewsDays |-> NoFilesYet]
      /\ stagedCsv = NoCsvYet /\ sheet = NoCsvYet /\ cleanRuns = {}
    BY DEF CauseInit, NoCauseRun
<1>2. moment \in Moments /\ causeRun \in CauseRunRow
    <2>1. 1 \in NewsDays /\ 0 \in 0..MaxCauseRuns /\ 0 \in 0..MaxAttempts /\ moment \in Moments
        BY <1>1, CauseAssumption DEF NewsDays, Moments
    <2> QED BY <1>1, <2>1, NothingYet DEF CauseRunRow
<1>3. CauseTyped /\ KeptAreOfDate
    BY <1>1, <1>2, NothingYet DEF CauseTyped, KeptAreOfDate, NoFilesYet
<1>4. ReadingFits
    BY <1>1 DEF ReadingFits
<1>5. CsvsAreOfDate /\ BuiltFits /\ CleanRunsFit
    BY <1>1, NothingYet DEF CsvsAreOfDate, BuiltFits, CleanRunsFit, RowsAreOfThisRun, NoCsvYet
<1> QED BY <1>3, <1>4, <1>5 DEF CauseInv

LEMMA TimePassesKeeps ==
    ASSUME CauseInv, TimePasses PROVE CauseInv'
<1>1. /\ UNCHANGED <<causeRun, causeFiles, stagedCsv, sheet, cleanRuns>> /\ moment' \in Moments
      /\ moment' = moment + 1 /\ moment \in Int
    BY CauseAssumption DEF TimePasses, CauseInv, CauseTyped, Moments
<1>2. CauseTyped' /\ KeptAreOfDate' /\ CsvsAreOfDate' /\ BuiltFits' /\ CleanRunsFit'
    BY <1>1 DEF CauseInv, CauseTyped, KeptAreOfDate, CsvsAreOfDate, BuiltFits, RowsAreOfThisRun, CleanRunsFit
<1>3. ReadingFits'
    <2>1. causeRun.clean => moment' > Cutoff(causeRun.date)
        <3>1. causeRun.date \in Int /\ (causeRun.clean => moment > Cutoff(causeRun.date))
            BY CauseAssumption DEF CauseInv, CauseTyped, CauseRunRow, NewsDays, ReadingFits
        <3>2. Cutoff(causeRun.date) \in Int
            BY <3>1 DEF Cutoff
        <3> QED BY <1>1, <3>1, <3>2
    <2> QED BY <1>1, <2>1 DEF CauseInv, ReadingFits
<1> QED BY <1>2, <1>3 DEF CauseInv

LEMMA StartCauseRunKeeps ==
    ASSUME CauseInv, NEW d \in NewsDays, NEW S \in SUBSET NewsStocks, NEW fresh \in BOOLEAN, StartCauseRun(d, S, fresh)
    PROVE  CauseInv'
<1>1. /\ UNCHANGED <<moment, cleanRuns>> /\ stagedCsv' = NoCsvYet /\ sheet' = NoCsvYet
      /\ causeFiles' = (IF fresh THEN [e \in NewsDays |-> NoFilesYet] ELSE causeFiles)
      /\ causeRun' = [id |-> causeRun.id + 1, attempt |-> 1, pc |-> "kabutan", date |-> d, picked |-> S, read |-> {},
                      clean |-> moment > Cutoff(d), built |-> NoCsvYet]
    BY DEF StartCauseRun, NoCauseRun
<1>2. causeRun' \in CauseRunRow
    <2>1. causeRun.id + 1 \in 0..MaxCauseRuns /\ 1 \in 0..MaxAttempts
        BY CauseAssumption DEF StartCauseRun, CauseInv, CauseTyped, CauseRunRow
    <2> QED BY <1>1, <2>1, NothingYet DEF CauseRunRow
<1>3. causeFiles' \in [NewsDays -> NewsFiles] /\ KeptAreOfDate'
    BY <1>1, NothingYet DEF CauseInv, CauseTyped, KeptAreOfDate, NoFilesYet
<1>4. CauseTyped' /\ ReadingFits' /\ CleanRunsFit'
    BY <1>1, <1>2, <1>3, NothingYet DEF CauseInv, CauseTyped, ReadingFits, CleanRunsFit
<1>5. CsvsAreOfDate' /\ BuiltFits'
    BY <1>1, NothingYet DEF CsvsAreOfDate, BuiltFits, RowsAreOfThisRun, NoCsvYet
<1> QED BY <1>3, <1>4, <1>5 DEF CauseInv

LEMMA RerunAttemptKeeps ==
    ASSUME CauseInv, NEW S \in SUBSET NewsStocks, RerunAttempt(S)
    PROVE  CauseInv'
<1>1. /\ UNCHANGED <<moment, stagedCsv, sheet, cleanRuns>> /\ causeFiles' = [e \in NewsDays |-> NoFilesYet]
      /\ causeRun' = [causeRun EXCEPT !.attempt = @ + 1, !.pc = "kabutan", !.picked = S, !.read = {},
                                      !.clean = moment > Cutoff(causeRun.date), !.built = NoCsvYet]
      /\ causeRun \in CauseRunRow /\ causeRun.attempt \in 1..MaxAttempts - 1
    BY DEF RerunAttempt, CauseInv, CauseTyped
<1>2. /\ causeRun'.pc = "kabutan" /\ causeRun'.date = causeRun.date /\ causeRun'.built = NoCsvYet
      /\ causeRun'.clean = (moment > Cutoff(causeRun.date)) /\ causeRun' \in CauseRunRow
    <2>1. causeRun.attempt + 1 \in 0..MaxAttempts
        BY <1>1, CauseAssumption
    <2>2. (moment > Cutoff(causeRun.date)) \in BOOLEAN
        OBVIOUS
    <2> QED BY <1>1, <2>1, <2>2, NothingYet DEF CauseRunRow
<1>3. CauseTyped' /\ ReadingFits' /\ CleanRunsFit' /\ KeptAreOfDate'
    BY <1>1, <1>2, NothingYet DEF CauseInv, CauseTyped, ReadingFits, CleanRunsFit, KeptAreOfDate, NoFilesYet
<1>4. CsvsAreOfDate' /\ BuiltFits'
    <2>1. CsvsAreOfDate'
        BY <1>1, <1>2, NothingYet DEF CauseInv, CsvsAreOfDate
    <2>2. BuiltFits'
        BY <1>2 DEF BuiltFits, RowsAreOfThisRun, NoCsvYet
    <2> QED BY <2>1, <2>2
<1> QED BY <1>3, <1>4 DEF CauseInv

(* A step of the three jobs that changes neither the date, the stocks nor  *)
(* a CSV.                                                                  *)
LEMMA CsvsStay ==
    ASSUME CauseInv, UNCHANGED <<stagedCsv, sheet, cleanRuns>>, causeRun'.date = causeRun.date,
           causeRun'.built = causeRun.built, causeRun.pc \in {"kabutan", "tdnet", "write", "rank", "build"}
    PROVE  CsvsAreOfDate' /\ BuiltFits' /\ CleanRunsFit'
BY DEF CauseInv, CsvsAreOfDate, BuiltFits, RowsAreOfThisRun, CleanRunsFit

LEMMA FetchKabutanKeeps ==
    ASSUME CauseInv, NEW failed \in SUBSET KabutanPages, FetchKabutan(failed)
    PROVE  CauseInv'
<1> DEFINE d == causeRun.date
           P == causeRun.picked
           read == {e \in Entries : /\ Seen(e) /\ e.kind \notin {"tdnet", "feature"}
                                    /\ <<Item(e).stock, NewsMonth[DayOfMoment(Item(e).at)]>> \in KabutanPages \ failed
                                    /\ InWindow(e, d)}
           pc == IF P = {} THEN "rank" ELSE "tdnet"
           clean == causeRun.clean /\ failed = {}
<1>1. /\ UNCHANGED <<moment, causeFiles, stagedCsv, sheet, cleanRuns>> /\ causeRun.pc = "kabutan"
      /\ causeRun' = [causeRun EXCEPT !.pc = pc, !.clean = clean, !.read = read]
      /\ causeRun \in CauseRunRow /\ d \in NewsDays
    BY DEF FetchKabutan, CauseInv, CauseTyped, CauseRunRow
<1>2. clean \in BOOLEAN /\ read \in SUBSET Entries /\ pc \in {"rank", "tdnet"}
    BY <1>1 DEF CauseRunRow
<1>3. P = {} => read = {}
    BY DEF KabutanPages
<1>4. clean => {e \in read : Item(e).at <= Cutoff(d)} = {e \in OnSites(d, P) : e.kind # "tdnet"}
    <2> SUFFICES ASSUME clean, NEW e \in Entries
                 PROVE  e \in read /\ Item(e).at <= Cutoff(d) <=> e \in OnSites(d, P) /\ e.kind # "tdnet"
        BY DEF OnSites
    <2>1. Item(e).at \in Nat /\ Cutoff(d) \in Int /\ moment \in Int /\ moment > Cutoff(d)
        <3>1. e.item \in DOMAIN Published
            BY DEF Entries
        <3> QED BY <1>1, <3>1, CauseAssumption
                DEF Item, Cutoff, NewsDays, Moments, CauseInv, CauseTyped, ReadingFits
    <2>2. Item(e).at <= Cutoff(d) => Item(e).at <= moment
        BY <2>1
    <2>3. InWindow(e, d) => (<<Item(e).stock, NewsMonth[DayOfMoment(Item(e).at)]>> \in KabutanPages <=> Item(e).stock \in P)
        BY DEF InWindow, KabutanPages
    <2> QED BY <2>2, <2>3 DEF OnSites, OfDate, Seen
<1>5. \A e \in read : InWindow(e, d)
    OBVIOUS
<1> HIDE DEF read, pc, clean
<1>6. /\ causeRun'.pc = pc /\ causeRun'.clean = clean /\ causeRun'.read = read /\ causeRun'.date = d
      /\ causeRun'.picked = P /\ causeRun'.built = causeRun.built /\ causeRun' \in CauseRunRow
    BY <1>1, <1>2 DEF CauseRunRow
<1>7. CauseTyped' /\ KeptAreOfDate'
    BY <1>1, <1>6 DEF CauseInv, CauseTyped, KeptAreOfDate
<1>8. ReadingFits'
    <2>1. /\ pc = "tdnet" => P # {}
          /\ pc = "rank" => P = {}
          /\ clean => moment > Cutoff(d)
        BY DEF pc, clean, CauseInv, ReadingFits
    <2> QED BY <1>1, <1>2, <1>4, <1>5, <1>6, <2>1 DEF ReadingFits
<1> QED BY <1>1, <1>6, <1>7, <1>8, CsvsStay DEF CauseInv

LEMMA FetchTdnetKeeps ==
    ASSUME CauseInv, NEW failed \in SUBSET WindowDays(causeRun.date), FetchTdnet(failed)
    PROVE  CauseInv'
<1> DEFINE d == causeRun.date
           P == causeRun.picked
           more == {e \in UNION {Listed(x) : x \in WindowDays(d) \ failed} : Item(e).stock \in P}
           read == causeRun.read \cup more
           clean == causeRun.clean /\ failed = {} /\ \A x \in WindowDays(d) : Listed(x) = Disclosures(x)
<1>1. /\ UNCHANGED <<moment, causeFiles, stagedCsv, sheet, cleanRuns>> /\ causeRun.pc = "tdnet"
      /\ causeRun' = [causeRun EXCEPT !.pc = "write", !.clean = clean, !.read = read]
      /\ causeRun \in CauseRunRow /\ d \in NewsDays
    BY DEF FetchTdnet, CauseInv, CauseTyped, CauseRunRow
<1>2. \A x : \A e \in Listed(x) : e \in Entries /\ e.kind = "tdnet" /\ Seen(e) /\ DayOfMoment(Item(e).at) = x
    BY DEF Listed, Disclosures
<1>3. clean \in BOOLEAN /\ read \in SUBSET Entries /\ P # {} /\ \A e \in read : InWindow(e, d)
    <2>1. causeRun.read \in SUBSET Entries /\ causeRun.clean \in BOOLEAN /\ P # {} /\ \A e \in causeRun.read : InWindow(e, d)
        BY <1>1 DEF CauseRunRow, CauseInv, ReadingFits
    <2>2. \A e \in more : e \in Entries /\ InWindow(e, d)
        BY <1>2 DEF InWindow
    <2> QED BY <2>1, <2>2
<1>4. clean => {e \in read : Item(e).at <= Cutoff(d)} = OnSites(d, P)
    <2> SUFFICES ASSUME clean, NEW e \in Entries
                 PROVE  e \in read /\ Item(e).at <= Cutoff(d) <=> e \in OnSites(d, P)
        BY <1>3 DEF OnSites
    <2>1. Item(e).at \in Nat /\ Cutoff(d) \in Int /\ moment \in Int /\ moment > Cutoff(d)
        <3>1. e.item \in DOMAIN Published
            BY DEF Entries
        <3> QED BY <1>1, <3>1, CauseAssumption
                DEF Item, Cutoff, NewsDays, Moments, CauseInv, CauseTyped, ReadingFits
    <2>2. Item(e).at <= Cutoff(d) => Item(e).at <= moment
        BY <2>1
    <2>3. {x \in causeRun.read : Item(x).at <= Cutoff(d)} = {x \in OnSites(d, P) : x.kind # "tdnet"}
        BY <1>1 DEF CauseInv, ReadingFits
    <2>4. e \in more <=> e.kind = "tdnet" /\ Seen(e) /\ InWindow(e, d) /\ Item(e).stock \in P
        <3>1. ASSUME e.kind = "tdnet", Seen(e), InWindow(e, d) PROVE e \in UNION {Listed(x) : x \in WindowDays(d) \ failed}
            <4>1. DayOfMoment(Item(e).at) \in WindowDays(d) /\ e \in Disclosures(DayOfMoment(Item(e).at))
                BY <3>1 DEF InWindow, Disclosures
            <4> QED BY <4>1
        <3>2. ASSUME e \in UNION {Listed(x) : x \in WindowDays(d) \ failed}
              PROVE  e.kind = "tdnet" /\ Seen(e) /\ InWindow(e, d)
            BY <1>2, <3>2 DEF InWindow
        <3> QED BY <3>1, <3>2
    <2>5. e.kind = "tdnet" => (e \in OnSites(d, P) <=> e \in more /\ Item(e).at <= Cutoff(d))
        BY <2>2, <2>4 DEF OnSites, OfDate, Seen
    <2>6. e.kind # "tdnet" => (e \in OnSites(d, P) <=> e \in causeRun.read /\ Item(e).at <= Cutoff(d))
        BY <2>3
    <2>7. e.kind = "tdnet" => ~(e \in causeRun.read /\ Item(e).at <= Cutoff(d))
        BY <2>3
    <2> HIDE DEF more
    <2> QED BY <2>4, <2>5, <2>6, <2>7
<1> HIDE DEF read, clean
<1>6. /\ causeRun'.pc = "write" /\ causeRun'.clean = clean /\ causeRun'.read = read /\ causeRun'.date = d
      /\ causeRun'.picked = P /\ causeRun'.built = causeRun.built /\ causeRun' \in CauseRunRow
    BY <1>1, <1>3 DEF CauseRunRow
<1>7. CauseTyped' /\ KeptAreOfDate'
    BY <1>1, <1>6 DEF CauseInv, CauseTyped, KeptAreOfDate
<1>8. ReadingFits'
    <2>1. clean => moment > Cutoff(d)
        BY DEF clean, CauseInv, ReadingFits
    <2> QED BY <1>1, <1>3, <1>4, <1>6, <2>1 DEF ReadingFits
<1> QED BY <1>1, <1>6, <1>7, <1>8, CsvsStay DEF CauseInv

LEMMA WriteEventsKeeps ==
    ASSUME CauseInv, WriteEvents
    PROVE  CauseInv'
<1> DEFINE d == causeRun.date
           P == causeRun.picked
           kept == Preferred({e \in causeRun.read : WithinCutoff(e, d)})
<1>1. /\ UNCHANGED <<moment, stagedCsv, sheet, cleanRuns>> /\ causeRun.pc = "write"
      /\ causeRun' = [causeRun EXCEPT !.pc = "rank", !.read = kept]
      /\ causeFiles' = [causeFiles EXCEPT ![d].events = kept]
      /\ causeRun \in CauseRunRow /\ d \in NewsDays /\ causeFiles \in [NewsDays -> NewsFiles]
    BY DEF WriteEvents, Written, CauseInv, CauseTyped, CauseRunRow
<1>2. kept \in SUBSET Entries /\ \A e \in kept : OfDate(e, d)
    <2>1. kept \subseteq {e \in causeRun.read : Item(e).at <= Cutoff(d)}
        BY DEF Preferred, WithinCutoff
    <2> QED BY <1>1, <2>1 DEF CauseRunRow, CauseInv, ReadingFits, OfDate
<1>3. causeRun.clean => kept = Preferred(OnSites(d, P))
    <2>1. causeRun.clean => {e \in causeRun.read : Item(e).at <= Cutoff(d)} = OnSites(d, P)
        BY <1>1 DEF CauseInv, ReadingFits
    <2> QED BY <2>1 DEF WithinCutoff
<1> HIDE DEF kept
<1>4. /\ causeRun'.pc = "rank" /\ causeRun'.clean = causeRun.clean /\ causeRun'.read = kept /\ causeRun'.date = d
      /\ causeRun'.picked = P /\ causeRun'.built = causeRun.built /\ causeRun' \in CauseRunRow
    BY <1>1, <1>2 DEF CauseRunRow
<1>5. /\ causeFiles' \in [NewsDays -> NewsFiles] /\ causeFiles'[d].events = kept
      /\ \A x \in NewsDays : /\ causeFiles'[x].candidates = causeFiles[x].candidates
                             /\ x # d => causeFiles'[x] = causeFiles[x]
    <2> DEFINE files == [causeFiles[d] EXCEPT !.events = kept]
    <2>1. files \in NewsFiles /\ files.events = kept /\ files.candidates = causeFiles[d].candidates
        BY <1>1, <1>2 DEF NewsFiles
    <2>2. causeFiles' = [causeFiles EXCEPT ![d] = files]
        BY <1>1
    <2> HIDE DEF files
    <2> QED BY <1>1, <2>1, <2>2
<1>6. CauseTyped'
    BY <1>1, <1>4, <1>5 DEF CauseInv, CauseTyped
<1>7. KeptAreOfDate'
    <2>1. ASSUME NEW x \in NewsDays, NEW e \in causeFiles'[x].events \cup causeFiles'[x].candidates PROVE OfDate(e, x)
        BY <1>2, <1>5, <2>1 DEF CauseInv, KeptAreOfDate
    <2> QED BY <2>1 DEF KeptAreOfDate
<1>8. ReadingFits'
    BY <1>1, <1>3, <1>4, <1>5 DEF CauseInv, ReadingFits
<1> QED BY <1>1, <1>4, <1>6, <1>7, <1>8, CsvsStay DEF CauseInv

LEMMA RankCausesKeeps ==
    ASSUME CauseInv, RankCauses
    PROVE  CauseInv'
<1> DEFINE d == causeRun.date
           P == causeRun.picked
           E == causeRun.read
<1>1. /\ UNCHANGED <<moment, stagedCsv, sheet, cleanRuns>> /\ causeRun.pc = "rank"
      /\ causeRun' = [causeRun EXCEPT !.pc = "build"]
      /\ causeRun \in CauseRunRow /\ d \in NewsDays /\ causeFiles \in [NewsDays -> NewsFiles] /\ E \in SUBSET Entries
    BY DEF RankCauses, CauseStep, CauseInv, CauseTyped, CauseRunRow
<1>2. /\ causeRun'.pc = "build" /\ causeRun'.clean = causeRun.clean /\ causeRun'.read = E /\ causeRun'.date = d
      /\ causeRun'.picked = P /\ causeRun'.built = causeRun.built /\ causeRun' \in CauseRunRow
    BY <1>1 DEF CauseRunRow
<1>3. CASE P = {}
    <2>1. UNCHANGED causeFiles
        BY <1>3 DEF RankCauses
    <2>2. CauseTyped' /\ KeptAreOfDate'
        BY <1>1, <1>2, <2>1 DEF CauseInv, CauseTyped, KeptAreOfDate
    <2>3. ReadingFits'
        BY <1>1, <1>2, <1>3, <2>1 DEF CauseInv, ReadingFits
    <2> QED BY <1>1, <1>2, <2>2, <2>3, CsvsStay DEF CauseInv
<1>4. CASE P # {}
    <2> DEFINE cause == [s \in NewsStocks |-> IF s \in P THEN CauseOf(OfStock(E, s), d) ELSE ""]
               summed == [exists |-> TRUE, cause |-> cause]
               shown == {e \in E : Item(e).stock \in P}
               files == FilesFor(E, d, P)
    <2>1. causeFiles[d].events = E
        BY <1>1, <1>4 DEF CauseInv, ReadingFits
    <2>2. causeFiles' = [causeFiles EXCEPT ![d].summary = summed, ![d].candidates = shown]
        BY <1>4, <2>1 DEF RankCauses
    <2>3. [[causeFiles[d] EXCEPT !.summary = summed] EXCEPT !.candidates = shown] = files
        <3>1. causeFiles[d] = [events |-> E, summary |-> causeFiles[d].summary, candidates |-> causeFiles[d].candidates]
            BY <1>1, <2>1 DEF NewsFiles
        <3>2. files = [events |-> E, summary |-> summed, candidates |-> shown]
            BY DEF FilesFor
        <3> HIDE DEF summed, shown, files
        <3> DEFINE one == [causeFiles[d] EXCEPT !.summary = summed]
        <3>3. one = [events |-> E, summary |-> summed, candidates |-> causeFiles[d].candidates]
            BY <3>1
        <3> HIDE DEF one
        <3>4. [one EXCEPT !.candidates = shown] = files
            BY <3>2, <3>3
        <3> QED BY <3>4 DEF one
    <2>4. causeFiles' = [causeFiles EXCEPT ![d] = files]
        <3> HIDE DEF summed, shown, files
        <3> QED BY <1>1, <2>2, <2>3
    <2>5. files \in NewsFiles /\ files.events = E /\ files.candidates \subseteq E
        <3>1. cause \in [NewsStocks -> Causes \cup {""}]
            BY DEF CauseOf, Causes
        <3> HIDE DEF cause
        <3>2. files = [events |-> E, candidates |-> shown, summary |-> [exists |-> TRUE, cause |-> cause]]
            BY DEF FilesFor, cause
        <3> HIDE DEF files
        <3> QED BY <1>1, <3>1, <3>2 DEF NewsFiles
    <2> HIDE DEF files
    <2>6. /\ causeFiles' \in [NewsDays -> NewsFiles] /\ causeFiles'[d] = files
          /\ \A x \in NewsDays : x # d => causeFiles'[x] = causeFiles[x]
        BY <1>1, <2>4, <2>5
    <2>7. CauseTyped'
        BY <1>1, <1>2, <2>6 DEF CauseInv, CauseTyped
    <2>8. KeptAreOfDate'
        <3>1. ASSUME NEW x \in NewsDays, NEW e \in causeFiles'[x].events \cup causeFiles'[x].candidates PROVE OfDate(e, x)
            <4>1. e \in causeFiles[x].events \cup causeFiles[x].candidates
                BY <1>1, <2>1, <2>5, <2>6, <3>1
            <4> QED BY <4>1 DEF CauseInv, KeptAreOfDate
        <3> QED BY <3>1 DEF KeptAreOfDate
    <2>9. ReadingFits'
        <3>1. /\ causeRun.clean => moment > Cutoff(d) /\ E = Preferred(OnSites(d, P))
            BY <1>1, <1>4 DEF CauseInv, ReadingFits
        <3>2. causeFiles'[d].events = E /\ causeFiles'[d] = FilesFor(E, d, P)
            BY <2>5, <2>6 DEF files
        <3> QED BY <1>1, <1>2, <3>1, <3>2 DEF ReadingFits
    <2> QED BY <1>1, <1>2, <2>7, <2>8, <2>9, CsvsStay DEF CauseInv
<1> QED BY <1>3, <1>4

LEMMA BuildEnrichedKeeps ==
    ASSUME CauseInv, BuildEnriched
    PROVE  CauseInv'
<1> DEFINE d == causeRun.date
           P == causeRun.picked
           E == causeRun.read
           files == causeFiles[d]
           rows == RowsFrom(files, d, P)
           built == [exists |-> TRUE, rows |-> rows]
           key == [date |-> d, picked |-> P, rows |-> rows]
<1>1. /\ UNCHANGED <<moment, causeFiles, stagedCsv, sheet>> /\ causeRun.pc = "build"
      /\ \/ /\ causeRun' = [causeRun EXCEPT !.pc = "put", !.built = built]
            /\ cleanRuns' = IF causeRun.clean THEN cleanRuns \cup {key} ELSE cleanRuns
         \/ causeRun' = [causeRun EXCEPT !.pc = "render"] /\ UNCHANGED cleanRuns
      /\ causeRun \in CauseRunRow /\ d \in NewsDays /\ files \in NewsFiles
    BY DEF BuildEnriched, CauseStep, RowsFrom, CauseInv, CauseTyped, CauseRunRow
<1>2. P # {} => files = FilesFor(E, d, P)
    BY <1>1 DEF CauseInv, ReadingFits
<1>3. \A s \in NewsStocks : /\ s \notin P => rows[s] = NoRow
                            /\ s \in P => rows[s] = RowFor(s, files, d)
    BY DEF RowsFrom
<1>4. ASSUME NEW s \in NewsStocks, s \in P
      PROVE  /\ RowFor(s, files, d) \in CauseRow /\ RowFor(s, files, d).news \subseteq E
             /\ \A e \in RowFor(s, files, d).news : Item(e).stock = s /\ OfDate(e, d)
    <2>1. files.summary.cause[s] \in Causes \cup {""} /\ files.candidates \in SUBSET Entries
        BY <1>1 DEF NewsFiles
    <2>2. files.candidates \subseteq E
        <3> DEFINE made == FilesFor(E, d, P)
        <3>1. made.candidates = {e \in E : Item(e).stock \in P}
            BY DEF FilesFor
        <3> HIDE DEF made
        <3>2. files = made
            BY <1>2, <1>4 DEF made
        <3> QED BY <3>1, <3>2
    <2>3. \A e \in files.candidates : OfDate(e, d)
        BY <1>1 DEF CauseInv, KeptAreOfDate
    <2>4. \A e \in TopOf(OfStock(files.candidates, s), TopN, d) : e \in files.candidates /\ Item(e).stock = s
        BY DEF TopOf, OfStock
    <2> HIDE DEF files
    <2>5. CASE files.summary.cause[s] \in {"", "C"}
        <3>1. RowFor(s, files, d) = [cause |-> "C", news |-> {}]
            BY <2>5 DEF RowFor
        <3> QED BY <3>1 DEF CauseRow, Causes
    <2>6. CASE files.summary.cause[s] \notin {"", "C"}
        <3>1. RowFor(s, files, d) = [cause |-> files.summary.cause[s], news |-> TopOf(OfStock(files.candidates, s), TopN, d)]
            BY <2>6 DEF RowFor
        <3> DEFINE top == TopOf(OfStock(files.candidates, s), TopN, d)
        <3>2. top \subseteq files.candidates /\ \A e \in top : Item(e).stock = s
            BY <2>4
        <3> HIDE DEF top
        <3>3. RowFor(s, files, d).news = top /\ RowFor(s, files, d) \in CauseRow
            <4>1. RowFor(s, files, d) = [cause |-> files.summary.cause[s], news |-> top]
                BY <3>1 DEF top
            <4>2. top \in SUBSET Entries /\ files.summary.cause[s] \in Causes \cup {""}
                BY <2>1, <3>2
            <4>3. \A c \in Causes \cup {""}, n \in SUBSET Entries : [cause |-> c, news |-> n] \in CauseRow
                BY DEF CauseRow
            <4>4. RowFor(s, files, d) \in CauseRow
                BY <4>1, <4>2, <4>3
            <4> QED BY <4>1, <4>4
        <3> QED BY <2>2, <2>3, <3>2, <3>3
    <2> QED BY <2>5, <2>6
<1>5. NoRow \in CauseRow /\ NoRow.news = {}
    BY DEF NoRow, CauseRow
<1>6. built \in SheetCsv /\ CsvOfDate(built, d)
    <2>1. rows \in [NewsStocks -> CauseRow]
        <3>1. \A s \in NewsStocks : (IF s \in P THEN RowFor(s, files, d) ELSE NoRow) \in CauseRow
            BY <1>4, <1>5
        <3> QED BY <3>1 DEF RowsFrom
    <2>2. \A s \in NewsStocks : \A e \in rows[s].news : Item(e).stock = s /\ OfDate(e, d)
        BY <1>3, <1>4, <1>5
    <2> HIDE DEF rows
    <2> QED BY <2>1, <2>2 DEF SheetCsv, CsvOfDate
<1>7. \A s \in NewsStocks : rows[s].news \subseteq E /\ (s \notin P => rows[s] = NoRow)
    BY <1>3, <1>4, <1>5
<1>8. causeRun.clean => rows = RowsFrom(FilesFor(Preferred(OnSites(d, P)), d, P), d, P)
    <2> SUFFICES ASSUME causeRun.clean PROVE rows = RowsFrom(FilesFor(Preferred(OnSites(d, P)), d, P), d, P)
        OBVIOUS
    <2>1. CASE P = {}
        BY <2>1 DEF RowsFrom
    <2>2. CASE P # {}
        <3>1. E = Preferred(OnSites(d, P))
            BY <1>1, <2>2 DEF CauseInv, ReadingFits
        <3> QED BY <1>2, <2>2, <3>1
    <2> QED BY <2>1, <2>2
<1> HIDE DEF rows, built
<1>9. /\ causeRun'.clean = causeRun.clean /\ causeRun'.read = E /\ causeRun'.date = d /\ causeRun'.picked = P
      /\ causeRun' \in CauseRunRow
      /\ \/ causeRun'.pc = "put" /\ causeRun'.built = built
         \/ causeRun'.pc = "render" /\ causeRun'.built = causeRun.built
    BY <1>1, <1>6 DEF CauseRunRow
<1>10. CauseTyped' /\ KeptAreOfDate' /\ ReadingFits'
    BY <1>1, <1>9 DEF CauseInv, CauseTyped, KeptAreOfDate, ReadingFits
<1>11. CsvsAreOfDate'
    BY <1>1, <1>6, <1>9 DEF CauseInv, CsvsAreOfDate
<1>12. BuiltFits'
    BY <1>1, <1>7, <1>9 DEF CauseInv, BuiltFits, RowsAreOfThisRun, built
<1>13. CleanRunsFit'
    BY <1>1, <1>8 DEF CauseInv, CleanRunsFit
<1> QED BY <1>10, <1>11, <1>12, <1>13 DEF CauseInv

LEMMA HandOverKeeps ==
    ASSUME CauseInv, (\E ok \in BOOLEAN : PutEnriched(ok) \/ RenderSheet(ok)) \/ EnrichmentFails
    PROVE  CauseInv'
<1>1. /\ UNCHANGED <<moment, causeFiles, cleanRuns>> /\ causeRun \in CauseRunRow
      /\ stagedCsv' \in {stagedCsv, causeRun.built} /\ sheet' \in {sheet, stagedCsv}
      /\ \/ causeRun.pc = "put" /\ causeRun' = [causeRun EXCEPT !.pc = "render"]
         \/ causeRun.pc = "render" /\ causeRun' = [causeRun EXCEPT !.pc = "over"]
         \/ /\ causeRun.pc \in {"kabutan", "tdnet", "write", "rank", "build"}
            /\ causeRun' = [causeRun EXCEPT !.pc = "render"]
    BY DEF PutEnriched, RenderSheet, EnrichmentFails, CauseStep, CauseInv, CauseTyped
<1>2. /\ causeRun'.clean = causeRun.clean /\ causeRun'.read = causeRun.read /\ causeRun'.date = causeRun.date
      /\ causeRun'.picked = causeRun.picked /\ causeRun'.built = causeRun.built
      /\ causeRun' \in CauseRunRow /\ causeRun'.pc \in {"render", "over"}
    BY <1>1 DEF CauseRunRow
<1>3. CauseTyped' /\ KeptAreOfDate'
    <2>1. causeRun.built \in SheetCsv
        BY <1>1 DEF CauseRunRow
    <2> QED BY <1>1, <1>2, <2>1 DEF CauseInv, CauseTyped, KeptAreOfDate
<1>4. ReadingFits'
    BY <1>1, <1>2 DEF CauseInv, ReadingFits
<1>5. CsvsAreOfDate'
    BY <1>1, <1>2 DEF CauseInv, CsvsAreOfDate
<1>6. BuiltFits' /\ CleanRunsFit'
    BY <1>1, <1>2 DEF CauseInv, BuiltFits, RowsAreOfThisRun, CleanRunsFit
<1> QED BY <1>3, <1>4, <1>5, <1>6 DEF CauseInv

LEMMA CauseStepKeeps ==
    ASSUME CauseInv, [CauseNext]_causeVars
    PROVE  CauseInv'
<1>1. ASSUME UNCHANGED causeVars PROVE CauseInv'
    BY <1>1 DEF causeVars, CauseInv, CauseTyped, ReadingFits, KeptAreOfDate, CsvsAreOfDate, BuiltFits,
       RowsAreOfThisRun, CleanRunsFit
<1>2. ASSUME CauseNext PROVE CauseInv'
    BY <1>2, TimePassesKeeps, StartCauseRunKeeps, RerunAttemptKeeps, FetchKabutanKeeps, FetchTdnetKeeps,
       WriteEventsKeeps, RankCausesKeeps, BuildEnrichedKeeps, HandOverKeeps DEF CauseNext
<1> QED BY <1>1, <1>2

(* No news after the close, rows of this run only, and replays that agree, *)
(* for any news, days, stocks and runs, and any pages that fail.           *)
THEOREM CausesAreSafe == CauseSpec => []CauseSafe
<1>1. CauseInv => CauseSafe
    <2> SUFFICES ASSUME CauseInv PROVE CauseSafe
        OBVIOUS
    <2>1. CauseTypeOK
        <3>1. \A c \in SheetCsv : CsvOk(c)
            BY DEF SheetCsv, CauseRow, CsvOk
        <3>2. causeRun.built \in SheetCsv
            BY DEF CauseInv, CauseTyped, CauseRunRow
        <3> QED BY <3>1, <3>2 DEF CauseInv, CauseTyped, CauseRunRow, NewsFiles, CauseTypeOK
    <2>2. NewsIsOfItsDate
        <3> SUFFICES ASSUME NEW s \in NewsStocks, NEW e \in sheet.rows[s].news
                     PROVE  /\ Item(e).stock = s /\ Item(e).at <= Cutoff(causeRun.date)
                            /\ DayOfMoment(Item(e).at) >= causeRun.date - NewsLookback
            BY DEF NewsIsOfItsDate
        <3>1. Item(e).stock = s /\ Item(e).at <= Cutoff(causeRun.date) /\ InWindow(e, causeRun.date)
            BY DEF CauseInv, CsvsAreOfDate, CsvOfDate, OfDate
        <3>2. causeRun.date \in Int /\ NewsLookback \in Int
            BY CauseAssumption DEF CauseInv, CauseTyped, CauseRunRow, NewsDays
        <3>3. /\ DayOfMoment(Item(e).at) \in Int
              /\ causeRun.date - NewsLookback <= DayOfMoment(Item(e).at)
            BY <3>1, CauseAssumption DEF InWindow, WindowDays, NewsDays
        <3> QED BY <3>1, <3>2, <3>3
    <2>3. RowsAreOfThisRun
        BY DEF CauseInv, BuiltFits
    <2>4. ReplayAgrees
        BY DEF CauseInv, CleanRunsFit, ReplayAgrees
    <2> QED BY <2>1, <2>2, <2>3, <2>4 DEF CauseSafe
<1> QED BY <1>1, CauseInitHolds, CauseStepKeeps, PTL DEF CauseSpec

-----------------------------------------------------------------------------
(***************************************************************************)
(* The price stores.  A file that the stale exclusions do not name is too  *)
(* short, has the bar of the date or one after it, and pruning keeps that; *)
(* the store of a run has what the warm copy had, or fetched all of it, or *)
(* has nothing.                                                            *)
(***************************************************************************)
LEMMA BarsHaveLast ==
    ASSUME NEW S \in SUBSET TradingDays, S # {}
    PROVE  Last(S) \in S /\ \A e \in S : e <= Last(S)
<1> DEFINE T == {NumPriceDays - d : d \in S}
<1>1. \A d \in S : d \in Nat /\ d <= NumPriceDays
    BY PriceAssumption DEF TradingDays
<1>2. T \subseteq Nat /\ T # {}
    BY <1>1, PriceAssumption
<1> HIDE DEF T
<1>3. PICK x \in T : \A y \in T : x <= y
    BY <1>2, NatsHaveLeast
<1>4. PICK d \in S : x = NumPriceDays - d
    BY DEF T
<1>5. \A e \in S : NumPriceDays - e \in T
    BY DEF T
<1>6. \A e \in S : e <= d
    BY <1>1, <1>3, <1>4, <1>5, PriceAssumption
<1> QED BY <1>4, <1>6 DEF Last

LEMMA BarsAreCounted ==
    ASSUME NEW S \in SUBSET TradingDays, NEW T \in SUBSET S
    PROVE  Cardinality(S) \in Nat /\ Cardinality(T) \in Nat /\ Cardinality(T) <= Cardinality(S)
<1>1. 1 \in Int /\ NumPriceDays \in Int
    BY PriceAssumption
<1>2. IsFiniteSet(TradingDays)
    BY <1>1, FS_Interval DEF TradingDays
<1>3. IsFiniteSet(S) /\ IsFiniteSet(T)
    BY <1>2, FS_Subset
<1> QED BY <1>3, FS_Subset, FS_CardinalityType

StoreFile == [bars : SUBSET TradingDays, whole : BOOLEAN]
JobRow == [pc : {"idle", "pass", "archive", "done", "failed"}, todo : SUBSET Symbols,
           passes : 0..MaxPasses, status : [Symbols -> Statuses]]

(* What keeps compute from refusing a code as late.                        *)
IsShort(file) == ~file.whole \/ file.bars = {} \/ Cardinality(file.bars) < Required
Computable(file, date) ==
    \/ IsShort(file) \/ date \in file.bars
    \/ (\E d \in file.bars : d > date) \/ \A d \in file.bars : ~(d <= date)

LEMMA StatusIs ==
    ASSUME NEW file \in StoreFile, NEW date \in TradingDays
    PROVE  /\ StatusOnDisk(file, date) \in Statuses /\ FetchStatus(file, date) \in Statuses
           /\ StatusOnDisk(file, date) = "insufficient" <=> IsShort(file)
           /\ StatusOnDisk(file, date) # "stale" => Computable(file, date)
<1>1. StatusOnDisk(file, date) \in Statuses /\ FetchStatus(file, date) \in Statuses
    BY DEF StatusOnDisk, FetchStatus, Statuses
<1>2. StatusOnDisk(file, date) = "insufficient" <=> IsShort(file)
    BY DEF StatusOnDisk, FetchStatus, IsShort
<1>3. ASSUME StatusOnDisk(file, date) # "stale", ~IsShort(file) PROVE Computable(file, date)
    <2>1. file.bars \in SUBSET TradingDays /\ file.bars # {} /\ ~(Last(file.bars) < date)
        BY <1>3 DEF StatusOnDisk, FetchStatus, IsShort, StoreFile
    <2>2. Last(file.bars) \in file.bars /\ Last(file.bars) \in Nat /\ date \in Nat
        BY <2>1, BarsHaveLast, PriceAssumption DEF TradingDays
    <2> QED BY <2>1, <2>2 DEF Computable
<1> QED BY <1>1, <1>2, <1>3 DEF Computable

BarsAreReal == \A s \in Symbols : disk.file[s].bars \subseteq market[s] /\ warm.file[s].bars \subseteq market[s]
DatesAreFit ==
    /\ priceRun.date <= priceDay /\ \A c \in CoreCodes : \A d \in warm.file[c].bars : d <= priceDay
    /\ priceRun.pc # "idle" /\ ~priceRun.replay =>
          \A c \in CoreCodes : \A d \in disk.file[c].bars \cup warm.file[c].bars : d <= priceRun.date
JobsFit ==
    /\ \A k \in JobKinds : /\ ensure[k].todo \subseteq SymbolsOf(k)
                           /\ ensure[k].pc # "idle" => priceRun.pc # "idle"
    /\ priceRun.pc = "compute" => \A k \in JobKinds : ensure[k].pc = "done"
DiskHasWarm ==
    ~priceRun.replay /\ ensure["core"].pc \in {"pass", "archive"} =>
        \A c \in CoreCodes : \/ disk.file[c].bars = {}
                             \/ {d \in warm.file[c].bars : d + Window > priceDay} \subseteq disk.file[c].bars
ExclusionsFit == ensure["core"].pc \in {"archive", "done"} => Cardinality(Excluded) <= Threshold
ContinuedFits ==
    \A k \in JobKinds : ensure[k].pc \in {"archive", "done"} =>
        \A s \in SymbolsOf(k) \ Excluded : Computable(disk.file[s], priceRun.date)
PriceInv ==
    PriceTypeOK /\ BarsAreReal /\ DatesAreFit /\ JobsFit /\ DiskHasWarm /\ ExclusionsFit /\ ContinuedFits /\ CsvIsOfItsDate

LEMMA SymbolsAre ==
    /\ JobKinds = {"core", "index"} /\ SymbolsOf("core") = CoreCodes /\ SymbolsOf("index") = Bench
    /\ \A c \in CoreCodes : c \in Symbols /\ c \notin Bench
    /\ \A k \in JobKinds : SymbolsOf(k) \subseteq Symbols
    /\ \A k \in JobKinds, l \in JobKinds : k # l => SymbolsOf(k) \cap SymbolsOf(l) = {}
BY PriceAssumption DEF JobKinds, SymbolsOf, Symbols

LEMMA NothingStored ==
    /\ EmptyStore \in Stores /\ \A s \in Symbols : EmptyStore.file[s] = NoBars
    /\ NoBars.bars = {} /\ NoBars \in StoreFile /\ IdleJob \in JobRow /\ IdleJob.pc = "idle" /\ IdleJob.todo = {}
    /\ NoExclusions.date = NoDate /\ NoExclusions.codes = {} /\ EmptyStore.exclusions = NoExclusions
BY PriceAssumption DEF EmptyStore, Stores, NoBars, NoExclusions, StoreFile, IdleJob, JobRow, Statuses

LEMMA PriceInitHolds == PriceInit => PriceInv
<1> SUFFICES ASSUME PriceInit PROVE PriceInv
    OBVIOUS
<1>1. PriceTypeOK
    <2>1. 1 \in TradingDays
        BY PriceAssumption DEF TradingDays
    <2>2. ensure \in [JobKinds -> JobRow]
        BY NothingStored DEF PriceInit
    <2> QED BY <2>1, <2>2, NothingStored DEF PriceInit, PriceTypeOK, JobRow, NoCsv
<1>2. BarsAreReal /\ DatesAreFit /\ JobsFit
    BY NothingStored, SymbolsAre DEF PriceInit, BarsAreReal, DatesAreFit, JobsFit
<1>3. DiskHasWarm /\ ExclusionsFit /\ ContinuedFits
    BY NothingStored, SymbolsAre DEF PriceInit, DiskHasWarm, ExclusionsFit, ContinuedFits
<1>4. CsvIsOfItsDate
    BY DEF PriceInit, CsvIsOfItsDate, NoCsv
<1> QED BY <1>1, <1>2, <1>3, <1>4 DEF PriceInv

LEMMA WorldOfPricesKeeps ==
    ASSUME PriceInv, NewDay \/ \E s \in Symbols, d \in TradingDays : PublishBar(s, d)
    PROVE  PriceInv'
<1>1. /\ UNCHANGED <<warm, disk, ensure, priceRun, csv>>
      /\ priceDay' \in TradingDays /\ priceDay <= priceDay' /\ priceDay \in Nat /\ priceDay' \in Nat
      /\ market' \in [Symbols -> SUBSET TradingDays] /\ \A s \in Symbols : market[s] \subseteq market'[s]
    BY PriceAssumption DEF NewDay, PublishBar, PriceInv, PriceTypeOK, TradingDays
<1>2. PriceTypeOK' /\ BarsAreReal' /\ JobsFit'
    BY <1>1 DEF PriceInv, PriceTypeOK, BarsAreReal, JobsFit
<1>3. \A c \in CoreCodes : warm.file[c].bars \subseteq Nat
    BY SymbolsAre, PriceAssumption DEF PriceInv, PriceTypeOK, Stores, TradingDays
<1>4. DatesAreFit'
    <2>1. priceRun.date \in Nat
        BY PriceAssumption DEF PriceInv, PriceTypeOK, TradingDays
    <2> QED BY <1>1, <1>3, <2>1 DEF PriceInv, DatesAreFit
<1>5. DiskHasWarm'
    <2>1. ASSUME NEW c \in CoreCodes, NEW d \in warm.file[c].bars, d + Window > priceDay' PROVE d + Window > priceDay
        <3>1. d \in Nat /\ Window \in Nat
            BY <1>3, PriceAssumption
        <3> QED BY <1>1, <2>1, <3>1
    <2> QED BY <1>1, <2>1 DEF PriceInv, DiskHasWarm
<1>6. ExclusionsFit' /\ ContinuedFits'
    BY <1>1 DEF PriceInv, ExclusionsFit, ContinuedFits, Excluded, Computable, IsShort
<1>7. CsvIsOfItsDate'
    <2>1. csv.codes \subseteq Symbols
        BY SymbolsAre DEF PriceInv, PriceTypeOK
    <2> QED BY <1>1, <2>1 DEF PriceInv, CsvIsOfItsDate
<1> QED BY <1>2, <1>4, <1>5, <1>6, <1>7 DEF PriceInv

LEMMA StartRunKeeps ==
    ASSUME PriceInv, NEW date \in TradingDays, NEW hits \in SUBSET JobKinds, StartRun(date, hits)
    PROVE  PriceInv'
<1>1. /\ UNCHANGED <<priceDay, market, warm>> /\ csv' = NoCsv /\ date <= priceDay
      /\ priceRun' = [pc |-> "ensure", date |-> date, replay |-> date < priceDay]
      /\ ensure' = [k \in JobKinds |-> BegunJob(k)]
      /\ priceDay \in Nat /\ date \in Nat
    BY PriceAssumption DEF StartRun, PriceInv, PriceTypeOK, TradingDays
<1>2. \A s \in Symbols : disk'.file[s] \in {warm.file[s], NoBars}
    BY DEF StartRun, RestoredCore, RestoredIndex
<1>3. disk' \in Stores
    <2>1. \A s \in Symbols : warm.file[s] \in StoreFile /\ NoBars \in StoreFile
        BY NothingStored DEF PriceInv, PriceTypeOK, Stores, StoreFile
    <2>2. warm.exclusions \in [date : TradingDays \cup {NoDate}, codes : SUBSET CoreCodes]
          /\ NoExclusions \in [date : TradingDays \cup {NoDate}, codes : SUBSET CoreCodes]
        BY DEF PriceInv, PriceTypeOK, Stores, NoExclusions
    <2> DEFINE file == [s \in Symbols |-> IF s \in CoreCodes THEN RestoredCore(hits, s) ELSE RestoredIndex(hits, s)]
               excl == IF "core" \in hits THEN warm.exclusions ELSE NoExclusions
    <2>3. file \in [Symbols -> StoreFile]
        BY <2>1 DEF RestoredCore, RestoredIndex
    <2>4. excl \in [date : TradingDays \cup {NoDate}, codes : SUBSET CoreCodes]
        BY <2>2
    <2>5. disk' = [file |-> file, exclusions |-> excl]
        BY DEF StartRun
    <2> HIDE DEF file, excl
    <2> QED BY <2>3, <2>4, <2>5 DEF Stores, StoreFile
<1>4. \A k \in JobKinds : BegunJob(k) \in JobRow /\ BegunJob(k).pc = "pass" /\ BegunJob(k).todo = SymbolsOf(k)
    <2> SUFFICES ASSUME NEW k \in JobKinds
                 PROVE  BegunJob(k) \in JobRow /\ BegunJob(k).pc = "pass" /\ BegunJob(k).todo = SymbolsOf(k)
        OBVIOUS
    <2>1. BegunJob(k) = [pc |-> "pass", todo |-> SymbolsOf(k), passes |-> 1, status |-> [s \in Symbols |-> "missing"]]
        <3> DEFINE unseen == [s \in Symbols |-> "missing"]
        <3>1. IdleJob = [pc |-> "idle", todo |-> {}, passes |-> 0, status |-> unseen]
            BY DEF IdleJob
        <3> HIDE DEF unseen
        <3>2. BegunJob(k) = [pc |-> "pass", todo |-> SymbolsOf(k), passes |-> 1, status |-> unseen]
            <4> DEFINE one == [IdleJob EXCEPT !.pc = "pass"]
                       two == [one EXCEPT !.todo = SymbolsOf(k)]
            <4>1. one = [pc |-> "pass", todo |-> {}, passes |-> 0, status |-> unseen]
                BY <3>1
            <4> HIDE DEF one
            <4>2. two = [pc |-> "pass", todo |-> SymbolsOf(k), passes |-> 0, status |-> unseen]
                BY <4>1
            <4> HIDE DEF two
            <4>3. [two EXCEPT !.passes = 1] = [pc |-> "pass", todo |-> SymbolsOf(k), passes |-> 1, status |-> unseen]
                BY <4>2
            <4> QED BY <4>3 DEF BegunJob, one, two
        <3> QED BY <3>2 DEF unseen
    <2>2. 1 \in 0..MaxPasses
        BY PriceAssumption
    <2> QED BY <2>1, <2>2, SymbolsAre DEF JobRow, Statuses
<1>5. PriceTypeOK'
    <2>1. ensure' \in [JobKinds -> JobRow]
        BY <1>1, <1>4
    <2> QED BY <1>1, <1>3, <2>1 DEF PriceInv, PriceTypeOK, JobRow, NoCsv
<1>6. BarsAreReal' /\ JobsFit'
    BY <1>1, <1>2, <1>4, NothingStored DEF PriceInv, BarsAreReal, JobsFit
<1>7. DatesAreFit'
    <2>1. \A c \in CoreCodes : \A d \in warm.file[c].bars : d <= priceDay
        BY DEF PriceInv, DatesAreFit
    <2>2. ~(date < priceDay) => date = priceDay
        BY <1>1
    <2>3. \A c \in CoreCodes : disk'.file[c].bars \subseteq warm.file[c].bars
        BY <1>2, NothingStored, SymbolsAre
    <2>4. priceRun'.date = date /\ priceRun'.replay = (date < priceDay) /\ warm' = warm /\ priceDay' = priceDay
        BY <1>1
    <2>5. ~priceRun'.replay =>
             \A c \in CoreCodes : \A d \in disk'.file[c].bars \cup warm'.file[c].bars : d <= priceRun'.date
        BY <2>1, <2>2, <2>3, <2>4
    <2> QED BY <1>1, <2>1, <2>4, <2>5 DEF DatesAreFit
<1>8. DiskHasWarm' /\ ExclusionsFit' /\ ContinuedFits'
    BY <1>1, <1>2, <1>4, NothingStored, SymbolsAre DEF DiskHasWarm, ExclusionsFit, ContinuedFits
<1>9. CsvIsOfItsDate'
    BY <1>1 DEF CsvIsOfItsDate, NoCsv
<1> QED BY <1>5, <1>6, <1>7, <1>8, <1>9 DEF PriceInv

(* What a look at a file leaves: a file of real bars up to the date, that  *)
(* has all the old one had or all that a full fetch gives.                 *)
LEMMA EnsureFileIs ==
    ASSUME PriceInv, NEW k \in JobKinds, NEW s \in Symbols, NEW answer \in Answers, EnsureFile(k, s, answer)
    PROVE  /\ s \in SymbolsOf(k) /\ ensure[k].pc = "pass" /\ UNCHANGED <<priceDay, market, warm, priceRun, csv>>
           /\ \E file \in StoreFile, status \in Statuses :
                /\ Ensured(k, s, file, status) /\ file.bars \subseteq market[s]
                /\ file.bars \subseteq disk.file[s].bars \cup {d \in TradingDays : d <= priceRun.date}
                /\ disk.file[s].bars \subseteq file.bars \/ file.bars = Fetched(s, WindowStart)
<1> DEFINE old == disk.file[s]
           newer == NewerBars(s, answer = "newer")
           grown == [old EXCEPT !.bars = @ \cup newer]
           all == [bars |-> Fetched(s, WindowStart), whole |-> answer # "broken"]
           Left(file) ==
              /\ file \in StoreFile /\ file.bars \subseteq market[s]
              /\ file.bars \subseteq old.bars \cup {d \in TradingDays : d <= priceRun.date}
              /\ old.bars \subseteq file.bars \/ file.bars = Fetched(s, WindowStart)
<1>1. /\ s \in SymbolsOf(k) /\ ensure[k].pc = "pass" /\ UNCHANGED <<priceDay, market, warm, priceRun, csv>>
      /\ old \in StoreFile /\ old.bars \subseteq market[s] /\ market[s] \in SUBSET TradingDays
      /\ priceRun.date \in TradingDays
    BY DEF EnsureFile, PriceInv, JobsFit, PriceTypeOK, BarsAreReal, Stores, StoreFile
<1>2. \A first : Fetched(s, first) \subseteq market[s] /\ Fetched(s, first) \subseteq {d \in TradingDays : d <= priceRun.date}
    BY <1>1 DEF Fetched
<1>3. newer \subseteq market[s] /\ newer \subseteq {d \in TradingDays : d <= priceRun.date}
    BY <1>2 DEF NewerBars
<1>4. Left(old)
    BY <1>1
<1>5. Left(grown)
    <2> HIDE DEF newer, old
    <2>1. grown = [bars |-> old.bars \cup newer, whole |-> old.whole] /\ old.whole \in BOOLEAN
        BY <1>1 DEF StoreFile
    <2> HIDE DEF grown
    <2>2. old.bars \cup newer \in SUBSET TradingDays
        BY <1>1, <1>3
    <2>3. grown \in StoreFile /\ grown.bars = old.bars \cup newer
        BY <2>1, <2>2 DEF StoreFile
    <2> QED BY <1>1, <1>3, <2>3
<1>6. Left(all)
    <2>1. Fetched(s, WindowStart) \in SUBSET TradingDays /\ (answer # "broken") \in BOOLEAN
        BY <1>1, <1>2
    <2>2. all \in StoreFile
        BY <2>1 DEF StoreFile
    <2> QED BY <1>2, <2>2
<1>7. FetchStatus(grown, priceRun.date) \in Statuses /\ FetchStatus(all, priceRun.date) \in Statuses
      /\ {"ok", "failed"} \subseteq Statuses
    BY <1>1, <1>5, <1>6, StatusIs DEF Statuses
<1>8. \/ Ensured(k, s, old, "ok") \/ Ensured(k, s, old, "failed")
      \/ Ensured(k, s, grown, FetchStatus(grown, priceRun.date))
      \/ Ensured(k, s, all, FetchStatus(all, priceRun.date))
    BY DEF EnsureFile, RefetchAll, CachedFile
<1> HIDE DEF old, newer, grown, all
<1>9. \E file \in StoreFile, status \in Statuses : Ensured(k, s, file, status) /\ Left(file)
    BY <1>4, <1>5, <1>6, <1>7, <1>8
<1> QED BY <1>1, <1>9 DEF old

LEMMA EnsuredIs ==
    ASSUME PriceInv, NEW k \in JobKinds, NEW s \in Symbols, NEW file \in StoreFile, NEW status \in Statuses,
           Ensured(k, s, file, status)
    PROVE  /\ disk' \in Stores /\ disk'.exclusions = disk.exclusions /\ disk'.file[s] = file
           /\ \A x \in Symbols : x # s => disk'.file[x] = disk.file[x]
           /\ ensure' \in [JobKinds -> JobRow] /\ ensure'[k].pc = ensure[k].pc
           /\ ensure'[k].todo \subseteq ensure[k].todo /\ \A l \in JobKinds : l # k => ensure'[l] = ensure[l]
<1> DEFINE files == [disk.file EXCEPT ![s] = file]
           row == [ensure[k] EXCEPT !.todo = @ \ {s}, !.status[s] = status]
<1>1. /\ disk.file \in [Symbols -> StoreFile]
      /\ disk.exclusions \in [date : TradingDays \cup {NoDate}, codes : SUBSET CoreCodes]
      /\ disk = [file |-> disk.file, exclusions |-> disk.exclusions] /\ ensure \in [JobKinds -> JobRow]
    BY DEF PriceInv, PriceTypeOK, Stores, StoreFile, JobRow
<1>2. disk' = [file |-> files, exclusions |-> disk.exclusions] /\ files \in [Symbols -> StoreFile]
    BY <1>1 DEF Ensured
<1>3. disk' \in Stores
    <2> HIDE DEF files
    <2> QED BY <1>1, <1>2 DEF Stores, StoreFile
<1>4. row \in JobRow /\ row.pc = ensure[k].pc /\ row.todo = ensure[k].todo \ {s}
    <2>1. ensure[k] \in JobRow
        BY <1>1
    <2> QED BY <2>1 DEF JobRow
<1>5. ensure' = [ensure EXCEPT ![k] = row]
    BY <1>1 DEF Ensured
<1> HIDE DEF row
<1> QED BY <1>1, <1>2, <1>3, <1>4, <1>5

LEMMA EnsureFileKeeps ==
    ASSUME PriceInv, NEW k \in JobKinds, NEW s \in Symbols, NEW answer \in Answers, EnsureFile(k, s, answer)
    PROVE  PriceInv'
<1>1. /\ s \in SymbolsOf(k) /\ ensure[k].pc = "pass" /\ UNCHANGED <<priceDay, market, warm, priceRun, csv>>
    BY EnsureFileIs
<1>2. PICK file \in StoreFile, status \in Statuses :
                /\ Ensured(k, s, file, status) /\ file.bars \subseteq market[s]
                /\ file.bars \subseteq disk.file[s].bars \cup {d \in TradingDays : d <= priceRun.date}
                /\ disk.file[s].bars \subseteq file.bars \/ file.bars = Fetched(s, WindowStart)
    BY EnsureFileIs
<1>3. /\ disk' \in Stores /\ disk'.exclusions = disk.exclusions /\ disk'.file[s] = file
      /\ \A x \in Symbols : x # s => disk'.file[x] = disk.file[x]
      /\ ensure' \in [JobKinds -> JobRow] /\ ensure'[k].pc = ensure[k].pc
      /\ ensure'[k].todo \subseteq ensure[k].todo /\ \A l \in JobKinds : l # k => ensure'[l] = ensure[l]
    BY <1>2, EnsuredIs
<1>4. PriceTypeOK' /\ BarsAreReal' /\ JobsFit'
    BY <1>1, <1>2, <1>3 DEF PriceInv, PriceTypeOK, JobRow, BarsAreReal, JobsFit
<1>5. DatesAreFit'
    <2>1. \A d \in file.bars : d \in disk.file[s].bars \/ d <= priceRun.date
        BY <1>2
    <2> QED BY <1>1, <1>3, <2>1, SymbolsAre DEF PriceInv, DatesAreFit
<1>6. DiskHasWarm'
    <2> SUFFICES ASSUME ~priceRun.replay, ensure["core"].pc \in {"pass", "archive"}, NEW c \in CoreCodes
                 PROVE  \/ disk'.file[c].bars = {}
                        \/ {d \in warm.file[c].bars : d + Window > priceDay} \subseteq disk'.file[c].bars
        BY <1>1, <1>3, SymbolsAre DEF DiskHasWarm
    <2>1. \/ disk.file[c].bars = {}
          \/ {d \in warm.file[c].bars : d + Window > priceDay} \subseteq disk.file[c].bars
        BY DEF PriceInv, DiskHasWarm
    <2>2. CASE c # s
        BY <1>3, <2>1, <2>2, SymbolsAre
    <2>3. CASE c = s /\ file.bars = Fetched(s, WindowStart)
        <3>1. ASSUME NEW d \in warm.file[s].bars, d + Window > priceDay PROVE d \in Fetched(s, WindowStart)
            <4>1. d \in market[s] /\ d \in Nat \ {0} /\ priceDay \in Nat /\ Window \in Nat
                BY PriceAssumption DEF PriceInv, BarsAreReal, PriceTypeOK, TradingDays
            <4>2. d <= priceRun.date
                <5>1. priceRun.pc # "idle" /\ s \in CoreCodes
                    BY <1>1, <2>3 DEF PriceInv, JobsFit
                <5> QED BY <5>1 DEF PriceInv, DatesAreFit
            <4>3. WindowStart <= d
                BY <3>1, <4>1 DEF WindowStart
            <4> QED BY <4>1, <4>2, <4>3 DEF Fetched
        <3> QED BY <1>3, <2>3, <3>1
    <2>4. CASE c = s /\ disk.file[s].bars \subseteq file.bars /\ disk.file[s].bars # {}
        BY <1>3, <2>1, <2>4
    <2>5. CASE c = s /\ disk.file[s].bars = {} /\ disk.file[s].bars \subseteq file.bars
        <3>1. TooShort(disk.file[s])
            BY <2>5, FS_EmptySet, PriceAssumption DEF TooShort
        <3>2. file.bars \in {{}, Fetched(s, WindowStart)}
            <4>1. \A f, t : Ensured(k, s, f, t) => disk'.file[s] = f
                <5>1. disk.file \in [Symbols -> StoreFile] /\ disk = [file |-> disk.file, exclusions |-> disk.exclusions]
                    BY DEF PriceInv, PriceTypeOK, Stores, StoreFile
                <5> QED BY <5>1 DEF Ensured
            <4>2. NewerBars(s, answer = "newer") = {} /\ ~UpToDate(disk.file[s])
                BY <3>1 DEF NewerBars, CachedFile, UpToDate
            <4>3. RefetchAll(k, s, answer # "none", answer # "broken")
                BY <4>2 DEF EnsureFile, CachedFile
            <4>4. \/ Ensured(k, s, [bars |-> Fetched(s, WindowStart), whole |-> answer # "broken"],
                             FetchStatus([bars |-> Fetched(s, WindowStart), whole |-> answer # "broken"], priceRun.date))
                  \/ Ensured(k, s, disk.file[s], "failed")
                BY <4>3 DEF RefetchAll
            <4>5. disk'.file[s] \in {[bars |-> Fetched(s, WindowStart), whole |-> answer # "broken"], disk.file[s]}
                BY <4>1, <4>4
            <4> QED BY <1>3, <2>5, <4>5
        <3> QED BY <1>3, <2>3, <2>5, <3>2
    <2> QED BY <1>2, <2>2, <2>3, <2>4, <2>5
<1>7. Excluded' = Excluded
    BY <1>1, <1>3 DEF Excluded
<1>8. ExclusionsFit'
    BY <1>1, <1>3, <1>7, SymbolsAre DEF PriceInv, ExclusionsFit
<1>9. ContinuedFits'
    <2>1. ASSUME NEW l \in JobKinds, ensure'[l].pc \in {"archive", "done"}, NEW x \in SymbolsOf(l) \ Excluded
          PROVE  Computable(disk'.file[x], priceRun.date)
        <3>1. l # k /\ ensure[l].pc \in {"archive", "done"}
            BY <1>1, <1>3, <2>1
        <3>2. x \in Symbols /\ x # s
            BY <1>1, <2>1, <3>1, SymbolsAre
        <3> QED BY <1>3, <2>1, <3>1, <3>2 DEF PriceInv, ContinuedFits
    <2> QED BY <1>1, <1>7, <2>1 DEF ContinuedFits
<1>10. CsvIsOfItsDate'
    BY <1>1 DEF PriceInv, CsvIsOfItsDate
<1> QED BY <1>4, <1>5, <1>6, <1>8, <1>9, <1>10 DEF PriceInv

LEMMA NextPassKeeps ==
    ASSUME PriceInv, NEW k \in JobKinds, NextPass(k)
    PROVE  PriceInv'
<1> DEFINE stale == {s \in SymbolsOf(k) : ensure[k].status[s] = "stale"}
           row == [ensure[k] EXCEPT !.todo = stale, !.passes = @ + 1]
<1>1. /\ ensure[k].pc = "pass" /\ ensure[k].passes < MaxPasses /\ ensure' = [ensure EXCEPT ![k] = row]
      /\ UNCHANGED <<priceDay, market, warm, disk, priceRun, csv>> /\ ensure \in [JobKinds -> JobRow]
    BY DEF NextPass, PriceInv, PriceTypeOK, JobRow
<1>2. row \in JobRow /\ row.pc = "pass" /\ row.todo \subseteq SymbolsOf(k)
    <2>1. ensure[k] \in JobRow /\ stale \in SUBSET Symbols /\ ensure[k].passes + 1 \in 0..MaxPasses
        BY <1>1, SymbolsAre, PriceAssumption DEF JobRow
    <2> HIDE DEF stale
    <2>2. row \in JobRow /\ row.pc = "pass" /\ row.todo = stale
        BY <1>1, <2>1 DEF JobRow
    <2> QED BY <2>2 DEF stale
<1> HIDE DEF row
<1>3. /\ ensure' \in [JobKinds -> JobRow] /\ ensure'[k] = row /\ \A l \in JobKinds : l # k => ensure'[l] = ensure[l]
    BY <1>1, <1>2
<1>4. \A l \in JobKinds : ensure'[l].pc = ensure[l].pc
    BY <1>1, <1>2, <1>3
<1>5. PriceTypeOK' /\ BarsAreReal' /\ JobsFit' /\ DatesAreFit' /\ CsvIsOfItsDate'
    BY <1>1, <1>2, <1>3, <1>4 DEF PriceInv, PriceTypeOK, JobRow, BarsAreReal, JobsFit, DatesAreFit, CsvIsOfItsDate
<1>6. DiskHasWarm' /\ ExclusionsFit' /\ ContinuedFits'
    BY <1>1, <1>4, SymbolsAre DEF PriceInv, DiskHasWarm, ExclusionsFit, ContinuedFits, Excluded
<1> QED BY <1>5, <1>6 DEF PriceInv
LEMMA ReconcileKeeps ==
    ASSUME PriceInv, NEW k \in JobKinds, Reconcile(k)
    PROVE  PriceInv'
<1> DEFINE seen == [s \in Symbols |-> IF s \in SymbolsOf(k)
                                      THEN StatusOnDisk(disk.file[s], priceRun.date) ELSE "missing"]
           stale == {s \in SymbolsOf(k) : seen[s] = "stale"}
           good == {s \in SymbolsOf(k) : seen[s] = "ok"}
           goes == IF k = "core" THEN CoreGoesOn(stale, good) ELSE IndexGoesOn(stale, good)
           row == [ensure[k] EXCEPT !.status = seen, !.pc = IF goes THEN "archive" ELSE "failed"]
<1>1. /\ ensure[k].pc = "pass" /\ UNCHANGED <<priceDay, market, warm, priceRun, csv>>
      /\ ensure' = [ensure EXCEPT ![k].status = seen, ![k].pc = IF goes THEN "archive" ELSE "failed"]
      /\ disk' = IF k = "core" THEN [disk EXCEPT !.exclusions = ExclusionsFor(stale)] ELSE disk
    BY DEF Reconcile
<1>2. /\ ensure \in [JobKinds -> JobRow] /\ disk \in Stores /\ priceRun.date \in TradingDays
      /\ \A s \in Symbols : disk.file[s] \in StoreFile
      /\ disk = [file |-> disk.file, exclusions |-> disk.exclusions]
    BY <1>1 DEF PriceInv, PriceTypeOK, JobRow, Stores, StoreFile
<1>3. /\ seen \in [Symbols -> Statuses]
      /\ \A s \in SymbolsOf(k) : seen[s] # "stale" => Computable(disk.file[s], priceRun.date)
    <2>1. \A s \in Symbols : /\ StatusOnDisk(disk.file[s], priceRun.date) \in Statuses
                             /\ StatusOnDisk(disk.file[s], priceRun.date) # "stale"
                                   => Computable(disk.file[s], priceRun.date)
        BY <1>2, StatusIs
    <2>2. "missing" \in Statuses
        BY DEF Statuses
    <2> QED BY <2>1, <2>2, SymbolsAre
<1>4. stale \subseteq SymbolsOf(k) /\ \A s \in SymbolsOf(k) \ stale : Computable(disk.file[s], priceRun.date)
    BY <1>3
<1>5. goes => IF k = "core" THEN stale = {} \/ Cardinality(stale) <= Threshold ELSE stale = {}
    BY DEF CoreGoesOn, IndexGoesOn, MayContinue
<1> HIDE DEF seen, stale, goes
<1>6. row \in JobRow /\ row.pc \in {"archive", "failed"} /\ row.todo = ensure[k].todo /\ (row.pc = "archive" => goes)
    <2>1. ensure[k] \in JobRow
        BY <1>2
    <2> QED BY <1>3, <2>1 DEF JobRow
<1>7. ensure' = [ensure EXCEPT ![k] = row]
    BY <1>1, <1>2
<1> HIDE DEF row
<1>8. /\ ensure' \in [JobKinds -> JobRow] /\ ensure'[k] = row /\ \A l \in JobKinds : l # k => ensure'[l] = ensure[l]
    BY <1>2, <1>6, <1>7
<1>9. /\ disk'.file = disk.file /\ disk' \in Stores
      /\ Excluded' = IF k = "core" THEN stale ELSE Excluded
    <2>1. CASE k # "core"
        <3>1. disk' = disk /\ priceRun' = priceRun
            BY <1>1, <2>1
        <3> QED BY <1>2, <2>1, <3>1 DEF Excluded
    <2>2. CASE k = "core"
        <3>1. stale \subseteq CoreCodes
            BY <1>4, <2>2, SymbolsAre
        <3>2. ExclusionsFor(stale) \in [date : TradingDays \cup {NoDate}, codes : SUBSET CoreCodes]
            BY <1>2, <3>1 DEF ExclusionsFor, NoExclusions
        <3>3. disk' = [file |-> disk.file, exclusions |-> ExclusionsFor(stale)]
            BY <1>1, <1>2, <2>2
        <3>4. disk'.file = disk.file /\ disk'.exclusions = ExclusionsFor(stale) /\ disk' \in Stores
            BY <1>2, <3>2, <3>3 DEF Stores
        <3>5. NoDate # priceRun.date /\ priceRun'.date = priceRun.date
            BY <1>1, <1>2, PriceAssumption DEF TradingDays
        <3>6. Excluded' = stale
            BY <3>4, <3>5 DEF Excluded, ExclusionsFor, NoExclusions
        <3> QED BY <2>2, <3>4, <3>6
    <2> QED BY <2>1, <2>2
<1>10. PriceTypeOK'
    BY <1>1, <1>8, <1>9 DEF PriceInv, PriceTypeOK, JobRow
<1>11. BarsAreReal' /\ DatesAreFit' /\ CsvIsOfItsDate'
    BY <1>1, <1>9 DEF PriceInv, BarsAreReal, DatesAreFit, CsvIsOfItsDate
<1>12. JobsFit'
    <2>1. priceRun.pc \notin {"idle", "compute"}
        BY <1>1 DEF PriceInv, JobsFit
    <2>2. \A l \in JobKinds : ensure'[l].todo \subseteq SymbolsOf(l)
        BY <1>6, <1>8 DEF PriceInv, JobsFit
    <2> QED BY <1>1, <2>1, <2>2 DEF JobsFit
<1>13. DiskHasWarm'
    <2>1. \A l \in JobKinds : ensure'[l].pc \in {"pass", "archive"} => ensure[l].pc \in {"pass", "archive"}
        BY <1>1, <1>8
    <2> QED BY <1>1, <1>9, <2>1, SymbolsAre DEF PriceInv, DiskHasWarm
<1>14. ExclusionsFit'
    <2>1. CASE k = "core"
        <3>1. Cardinality({}) = 0
            BY FS_EmptySet
        <3>2. ensure'["core"].pc \in {"archive", "done"} => Cardinality(stale) <= Threshold
            BY <1>5, <1>6, <1>8, <2>1, <3>1, PriceAssumption
        <3> QED BY <1>9, <2>1, <3>2 DEF ExclusionsFit
    <2>2. CASE k # "core"
        BY <1>8, <1>9, <2>2, SymbolsAre DEF PriceInv, ExclusionsFit
    <2> QED BY <2>1, <2>2
<1>15. ContinuedFits'
    <2>1. ASSUME NEW l \in JobKinds, ensure'[l].pc \in {"archive", "done"}, NEW s \in SymbolsOf(l), s \notin Excluded'
          PROVE  Computable(disk.file[s], priceRun.date)
        <3>1. CASE l = k
            <4>1. goes
                BY <1>6, <1>8, <2>1, <3>1
            <4>2. s \notin stale
                BY <1>5, <1>9, <2>1, <4>1
            <4> QED BY <1>4, <3>1, <4>2
        <3>2. CASE l # k
            <4>1. ensure[l].pc \in {"archive", "done"}
                BY <1>8, <2>1, <3>2
            <4>2. Excluded \subseteq CoreCodes
                BY <1>2 DEF Excluded, Stores
            <4>3. s \notin Excluded
                BY <1>9, <2>1, <3>2, <4>2, SymbolsAre
            <4> QED BY <4>1, <4>3 DEF PriceInv, ContinuedFits
        <3> QED BY <3>1, <3>2
    <2>2. priceRun' = priceRun
        BY <1>1
    <2> QED BY <1>9, <2>1, <2>2 DEF ContinuedFits
<1> QED BY <1>10, <1>11, <1>12, <1>13, <1>14, <1>15 DEF PriceInv

(* Pruning drops the oldest bars of a file, and what it leaves is no later *)
(* than what was there.                                                    *)
LEMMA ZipIs ==
    ASSUME PriceInv, NEW k \in JobKinds, NEW s \in Symbols
    PROVE  /\ ZippedFile(k, s) \in StoreFile /\ ZippedFile(k, s).bars \subseteq disk.file[s].bars
           /\ \A d \in disk.file[s].bars : d + Window > priceDay => d \in ZippedFile(k, s).bars
           /\ Computable(disk.file[s], priceRun.date) => Computable(ZippedFile(k, s), priceRun.date)
<1> DEFINE old == disk.file[s]
           young == Pruned(k, old.bars)
<1>1. old \in StoreFile /\ priceRun.date \in Nat /\ priceDay \in Nat /\ Window \in Nat /\ old.bars \subseteq Nat
    BY PriceAssumption DEF PriceInv, PriceTypeOK, Stores, StoreFile, TradingDays
<1>2. /\ young \subseteq old.bars /\ \A d \in old.bars : d + Window > priceDay => d \in young
      /\ \A d \in old.bars, e \in young : d > e => d \in young
    BY <1>1 DEF Pruned
<1>3. ZippedFile(k, s) = [bars |-> young, whole |-> young = {} \/ old.whole]
    BY DEF ZippedFile
<1> HIDE DEF young
<1>4. young \in SUBSET TradingDays /\ (young = {} \/ old.whole) \in BOOLEAN
    BY <1>1, <1>2 DEF StoreFile
<1>5. ZippedFile(k, s) \in StoreFile /\ ZippedFile(k, s).bars = young /\ (ZippedFile(k, s).whole <=> (young = {} \/ old.whole))
    <2> DEFINE kept == young = {} \/ old.whole
    <2>1. kept \in BOOLEAN /\ (kept <=> (young = {} \/ old.whole)) /\ ZippedFile(k, s) = [bars |-> young, whole |-> kept]
        BY <1>3, <1>4
    <2> HIDE DEF kept
    <2>2. ZippedFile(k, s) \in StoreFile /\ ZippedFile(k, s).bars = young /\ ZippedFile(k, s).whole = kept
        BY <1>4, <2>1 DEF StoreFile
    <2> QED BY <2>1, <2>2
<1>6. IsShort(old) => IsShort(ZippedFile(k, s))
    <2>1. old.bars \in SUBSET TradingDays /\ young \in SUBSET old.bars
        BY <1>1, <1>2 DEF StoreFile
    <2>2. Cardinality(young) <= Cardinality(old.bars) /\ Cardinality(young) \in Nat /\ Cardinality(old.bars) \in Nat
        BY <2>1, BarsAreCounted
    <2> QED BY <1>2, <1>5, <2>2, PriceAssumption DEF IsShort
<1>7. ASSUME Computable(old, priceRun.date), ~IsShort(ZippedFile(k, s)) PROVE Computable(ZippedFile(k, s), priceRun.date)
    <2>1. CASE \A d \in young : ~(d <= priceRun.date)
        BY <1>5, <2>1 DEF Computable
    <2>2. CASE \E d \in young : d <= priceRun.date
        <3>1. PICK e \in young : e <= priceRun.date
            BY <2>2
        <3>2. \A d \in old.bars : d >= priceRun.date => d \in young
            <4>1. ASSUME NEW d \in old.bars, d >= priceRun.date PROVE d \in young
                <5>1. d \in Nat /\ e \in Nat
                    BY <1>1, <1>2
                <5>2. d = e \/ d > e
                    BY <1>1, <3>1, <4>1, <5>1
                <5> QED BY <1>2, <5>2
            <4> QED BY <4>1
        <3>3. \A d \in old.bars : d \in Nat
            BY <1>1
        <3>4. e \in old.bars
            BY <1>2, <3>1
        <3>5. priceRun.date \in old.bars \/ \E d \in old.bars : d > priceRun.date
            BY <1>6, <1>7, <3>1, <3>4 DEF Computable
        <3> QED BY <1>1, <1>5, <3>2, <3>3, <3>5 DEF Computable
    <2> QED BY <2>1, <2>2
<1> QED BY <1>2, <1>5, <1>7 DEF Computable

LEMMA WithZipIs ==
    ASSUME PriceInv, NEW k \in JobKinds, NEW store \in Stores
    PROVE  /\ WithZip(k, store) \in Stores
           /\ \A s \in Symbols : WithZip(k, store).file[s] = IF s \in SymbolsOf(k) THEN ZippedFile(k, s) ELSE store.file[s]
           /\ WithZip(k, store).exclusions = IF k = "core" THEN disk.exclusions ELSE store.exclusions
<1> DEFINE file == [s \in Symbols |-> IF s \in SymbolsOf(k) THEN ZippedFile(k, s) ELSE store.file[s]]
           excl == IF k = "core" THEN disk.exclusions ELSE store.exclusions
<1>1. WithZip(k, store) = [file |-> file, exclusions |-> excl]
    BY DEF WithZip
<1>2. \A s \in Symbols : ZippedFile(k, s) \in StoreFile /\ store.file[s] \in StoreFile
    BY ZipIs DEF Stores, StoreFile
<1>3. file \in [Symbols -> StoreFile]
    BY <1>2
<1>4. excl \in [date : TradingDays \cup {NoDate}, codes : SUBSET CoreCodes]
    BY DEF PriceInv, PriceTypeOK, Stores
<1>5. \A s \in Symbols : file[s] = IF s \in SymbolsOf(k) THEN ZippedFile(k, s) ELSE store.file[s]
    OBVIOUS
<1> HIDE DEF file
<1>6. WithZip(k, store) \in Stores /\ WithZip(k, store).file = file /\ WithZip(k, store).exclusions = excl
    BY <1>1, <1>3, <1>4 DEF Stores, StoreFile
<1> QED BY <1>5, <1>6
LEMMA ArchiveKeeps ==
    ASSUME PriceInv, NEW k \in JobKinds, NEW saved \in BOOLEAN, Archive(k, saved)
    PROVE  /\ PriceInv'
           /\ \A c \in CoreCodes, d \in TradingDays :
                 d \in warm.file[c].bars /\ d \notin warm'.file[c].bars /\ d + Window > priceDay
                 => warm'.file[c].bars = {}
<1> DEFINE row == [ensure[k] EXCEPT !.pc = IF saved THEN "done" ELSE "failed"]
<1>1. /\ ensure[k].pc = "archive" /\ UNCHANGED <<priceDay, market, priceRun, csv>>
      /\ disk' = WithZip(k, disk) /\ ensure' = [ensure EXCEPT ![k] = row]
      /\ warm' = warm \/ (~priceRun.replay /\ warm' = WithZip(k, warm))
      /\ ensure \in [JobKinds -> JobRow] /\ disk \in Stores /\ warm \in Stores
    BY DEF Archive, ShouldRotate, PriceInv, PriceTypeOK, JobRow
<1>2. row \in JobRow /\ row.pc \in {"done", "failed"} /\ row.todo = ensure[k].todo
    <2>1. ensure[k] \in JobRow
        BY <1>1
    <2> QED BY <2>1 DEF JobRow
<1> HIDE DEF row
<1>3. /\ ensure' \in [JobKinds -> JobRow] /\ ensure'[k] = row /\ \A l \in JobKinds : l # k => ensure'[l] = ensure[l]
    BY <1>1, <1>2
<1>4. /\ disk' \in Stores /\ disk'.exclusions = disk.exclusions
      /\ \A s \in Symbols : disk'.file[s] = IF s \in SymbolsOf(k) THEN ZippedFile(k, s) ELSE disk.file[s]
    BY <1>1, WithZipIs
<1>5. /\ warm' \in Stores
      /\ \A s \in Symbols : disk'.file[s].bars \subseteq disk.file[s].bars
      /\ \A s \in Symbols : warm'.file[s] = warm.file[s]
                            \/ (~priceRun.replay /\ s \in SymbolsOf(k) /\ warm'.file[s] = ZippedFile(k, s))
    BY <1>1, <1>4, WithZipIs, ZipIs
<1>6. PriceTypeOK'
    BY <1>1, <1>3, <1>4, <1>5 DEF PriceInv, PriceTypeOK, JobRow
<1>7. BarsAreReal' /\ CsvIsOfItsDate'
    <2>1. \A s \in Symbols : ZippedFile(k, s).bars \subseteq disk.file[s].bars
        BY ZipIs
    <2>2. \A s \in Symbols : warm'.file[s].bars \subseteq disk.file[s].bars \cup warm.file[s].bars
        BY <1>5, <2>1
    <2>3. \A s \in Symbols : disk.file[s].bars \cup warm.file[s].bars \subseteq market[s]
        BY DEF PriceInv, BarsAreReal
    <2>4. BarsAreReal'
        BY <1>1, <1>5, <2>2, <2>3 DEF BarsAreReal
    <2> QED BY <1>1, <2>4 DEF PriceInv, CsvIsOfItsDate
<1>8. JobsFit'
    <2>1. priceRun.pc \notin {"idle", "compute"}
        BY <1>1 DEF PriceInv, JobsFit
    <2>2. \A l \in JobKinds : ensure'[l].todo \subseteq SymbolsOf(l)
        BY <1>2, <1>3 DEF PriceInv, JobsFit
    <2> QED BY <1>1, <2>1, <2>2 DEF JobsFit
<1>9. DatesAreFit'
    <2>1. priceRun.pc # "idle" /\ priceRun.date <= priceDay /\ priceRun.date \in Nat /\ priceDay \in Nat
        BY <1>1, PriceAssumption DEF PriceInv, JobsFit, DatesAreFit, PriceTypeOK, TradingDays
    <2>2. ASSUME NEW c \in CoreCodes, NEW d \in warm'.file[c].bars
          PROVE  d \in warm.file[c].bars \/ (~priceRun.replay /\ d \in disk.file[c].bars)
        BY <1>5, <2>2, ZipIs, SymbolsAre
    <2>3. \A c \in CoreCodes : \A d \in warm'.file[c].bars : d <= priceDay
        <3>1. ASSUME NEW c \in CoreCodes, NEW d \in warm'.file[c].bars PROVE d <= priceDay
            <4>1. d \in Nat
                BY <1>5, SymbolsAre, PriceAssumption DEF Stores, TradingDays
            <4>2. CASE d \in warm.file[c].bars
                BY <4>2 DEF PriceInv, DatesAreFit
            <4>3. CASE ~priceRun.replay /\ d \in disk.file[c].bars
                <5>1. d <= priceRun.date
                    BY <2>1, <4>3 DEF PriceInv, DatesAreFit
                <5> QED BY <2>1, <4>1, <5>1
            <4> QED BY <2>2, <4>2, <4>3
        <3> QED BY <3>1
    <2>4. ~priceRun.replay => \A c \in CoreCodes : \A d \in disk'.file[c].bars \cup warm'.file[c].bars : d <= priceRun.date
        <3>1. \A c \in CoreCodes : disk'.file[c].bars \subseteq disk.file[c].bars
            BY <1>5, SymbolsAre
        <3> QED BY <2>1, <2>2, <3>1 DEF PriceInv, DatesAreFit
    <2> QED BY <1>1, <2>1, <2>3, <2>4 DEF DatesAreFit
<1>10. DiskHasWarm'
    <2>1. CASE k = "core"
        BY <1>2, <1>3, <2>1 DEF DiskHasWarm
    <2>2. CASE k # "core"
        <3>1. ensure'["core"] = ensure["core"]
            BY <1>3, <2>2, SymbolsAre
        <3>2. \A c \in CoreCodes : c \in Symbols /\ c \notin SymbolsOf(k)
            BY <2>2, SymbolsAre
        <3>3. \A c \in CoreCodes : disk'.file[c] = disk.file[c] /\ warm'.file[c] = warm.file[c]
            BY <1>4, <1>5, <3>2
        <3> QED BY <1>1, <3>1, <3>3 DEF PriceInv, DiskHasWarm
    <2> QED BY <2>1, <2>2
<1>11. Excluded' = Excluded
    BY <1>1, <1>4 DEF Excluded
<1>12. \A l \in JobKinds : ensure'[l].pc \in {"archive", "done"} => ensure[l].pc \in {"archive", "done"}
    BY <1>1, <1>3
<1>13. ExclusionsFit'
    BY <1>11, <1>12, SymbolsAre DEF PriceInv, ExclusionsFit
<1>14. ContinuedFits'
    <2>1. ASSUME NEW l \in JobKinds, ensure'[l].pc \in {"archive", "done"}, NEW s \in SymbolsOf(l) \ Excluded
          PROVE  Computable(disk'.file[s], priceRun.date)
        <3>1. Computable(disk.file[s], priceRun.date) /\ s \in Symbols
            BY <1>12, <2>1, SymbolsAre DEF PriceInv, ContinuedFits
        <3> QED BY <1>4, <3>1, ZipIs
    <2> QED BY <1>1, <1>11, <2>1 DEF ContinuedFits
<1>15. ASSUME NEW c \in CoreCodes, NEW d \in TradingDays,
              d \in warm.file[c].bars, d \notin warm'.file[c].bars, d + Window > priceDay
       PROVE  warm'.file[c].bars = {}
    <2>1. ~priceRun.replay /\ c \in SymbolsOf(k) /\ warm'.file[c] = ZippedFile(k, c)
        BY <1>5, <1>15, SymbolsAre
    <2>2. k = "core"
        BY <2>1, SymbolsAre
    <2>3. \/ disk.file[c].bars = {}
          \/ {e \in warm.file[c].bars : e + Window > priceDay} \subseteq disk.file[c].bars
        BY <1>1, <2>1, <2>2 DEF PriceInv, DiskHasWarm
    <2>4. /\ ZippedFile(k, c).bars \subseteq disk.file[c].bars
          /\ \A e \in disk.file[c].bars : e + Window > priceDay => e \in ZippedFile(k, c).bars
        BY ZipIs, SymbolsAre
    <2> QED BY <1>15, <2>1, <2>3, <2>4
<1> QED BY <1>6, <1>7, <1>8, <1>9, <1>10, <1>13, <1>14, <1>15 DEF PriceInv

LEMMA RunEndsKeeps ==
    ASSUME PriceInv, RunEnds, UNCHANGED <<priceDay, market, warm>>, CsvIsOfItsDate',
           csv'.kind \in {"none", "rows", "stale", "failed"}, csv'.codes \subseteq CoreCodes
    PROVE  PriceInv'
<1>1. /\ priceRun' = [priceRun EXCEPT !.pc = "idle"] /\ disk' = EmptyStore
      /\ ensure' = [k \in JobKinds |-> IdleJob]
      /\ priceRun \in [pc : {"idle", "ensure", "compute"}, date : TradingDays, replay : BOOLEAN]
    BY DEF RunEnds, PriceInv, PriceTypeOK
<1>2. /\ priceRun' \in [pc : {"idle", "ensure", "compute"}, date : TradingDays, replay : BOOLEAN]
      /\ priceRun'.pc = "idle" /\ priceRun'.date = priceRun.date
    BY <1>1
<1>3. ensure' \in [JobKinds -> JobRow] /\ \A k \in JobKinds : ensure'[k] = IdleJob
    BY <1>1, NothingStored
<1>4. disk' \in Stores /\ \A s \in Symbols : disk'.file[s].bars = {}
    BY <1>1, NothingStored
<1>5. PriceTypeOK'
    BY <1>2, <1>3, <1>4 DEF PriceInv, PriceTypeOK, JobRow
<1>6. BarsAreReal' /\ DatesAreFit' /\ JobsFit'
    BY <1>2, <1>3, <1>4, NothingStored DEF PriceInv, BarsAreReal, DatesAreFit, JobsFit
<1>7. DiskHasWarm' /\ ExclusionsFit' /\ ContinuedFits'
    BY <1>3, NothingStored, SymbolsAre DEF DiskHasWarm, ExclusionsFit, ContinuedFits
<1> QED BY <1>5, <1>6, <1>7 DEF PriceInv

LEMMA JobsEndKeeps ==
    ASSUME PriceInv, JobsEnd
    PROVE  PriceInv'
<1>1. priceRun.pc = "ensure" /\ UNCHANGED <<priceDay, market, warm, csv>>
      /\ priceRun \in [pc : {"idle", "ensure", "compute"}, date : TradingDays, replay : BOOLEAN]
    BY DEF JobsEnd, PriceInv, PriceTypeOK
<1>2. CASE \A k \in JobKinds : ensure[k].pc = "done"
    <2>1. priceRun' = [priceRun EXCEPT !.pc = "compute"] /\ UNCHANGED <<disk, ensure>>
        BY <1>2 DEF JobsEnd
    <2>2. /\ priceRun' \in [pc : {"idle", "ensure", "compute"}, date : TradingDays, replay : BOOLEAN]
          /\ priceRun'.pc = "compute" /\ priceRun'.date = priceRun.date /\ priceRun'.replay = priceRun.replay
        BY <1>1, <2>1
    <2>3. PriceTypeOK' /\ BarsAreReal' /\ DatesAreFit' /\ JobsFit' /\ DiskHasWarm' /\ CsvIsOfItsDate'
        BY <1>1, <1>2, <2>1, <2>2
           DEF PriceInv, PriceTypeOK, BarsAreReal, DatesAreFit, JobsFit, DiskHasWarm, CsvIsOfItsDate
    <2>4. ExclusionsFit' /\ ContinuedFits'
        BY <2>1, <2>2 DEF PriceInv, ExclusionsFit, ContinuedFits, Excluded
    <2> QED BY <2>3, <2>4 DEF PriceInv
<1>3. CASE ~ \A k \in JobKinds : ensure[k].pc = "done"
    <2>1. RunEnds
        BY <1>3 DEF JobsEnd
    <2>2. priceRun'.date = priceRun.date
        BY <1>1, <2>1 DEF RunEnds
    <2>3. CsvIsOfItsDate'
        BY <1>1, <2>2 DEF PriceInv, CsvIsOfItsDate
    <2>4. csv'.kind \in {"none", "rows", "stale", "failed"} /\ csv'.codes \subseteq CoreCodes
        BY <1>1 DEF PriceInv, PriceTypeOK
    <2> QED BY <1>1, <2>1, <2>3, <2>4, RunEndsKeeps
<1> QED BY <1>2, <1>3

LEMMA ComputeKeeps ==
    ASSUME PriceInv, Compute
    PROVE  PriceInv'
<1> DEFINE rows == {c \in CoreCodes \ Excluded : UpTo(disk.file[c].bars) # {}}
<1>1. /\ RunEnds /\ UNCHANGED <<priceDay, market, warm>> /\ priceRun'.date = priceRun.date
      /\ BenchOutcome \in {"rows", "stale", "failed"}
    BY DEF Compute, RunEnds, PriceInv, PriceTypeOK, BenchOutcome
<1>2. \/ csv' = [kind |-> BenchOutcome, codes |-> {}] /\ BenchOutcome # "rows"
      \/ csv' = [kind |-> "stale", codes |-> {}] \/ csv' = [kind |-> "failed", codes |-> {}]
      \/ csv' = [kind |-> "rows", codes |-> rows] /\ StaleCodes = {}
    BY DEF Compute
<1>3. ASSUME csv'.kind = "rows", NEW c \in csv'.codes PROVE priceRun.date \in market[c]
    <2>1. csv' = [kind |-> "rows", codes |-> rows] /\ StaleCodes = {}
        BY <1>2, <1>3
    <2>2. c \in rows
        BY <1>3, <2>1
    <2>3. c \in CoreCodes \ Excluded /\ UpTo(disk.file[c].bars) # {} /\ ~Behind(c)
        BY <2>1, <2>2 DEF StaleCodes
    <2>4. priceRun.date \in disk.file[c].bars
        BY <2>3 DEF Behind, CachedFile
    <2> QED BY <2>3, <2>4, SymbolsAre DEF PriceInv, BarsAreReal
<1>4. CsvIsOfItsDate'
    BY <1>1, <1>3 DEF CsvIsOfItsDate
<1>5. csv'.kind \in {"none", "rows", "stale", "failed"} /\ csv'.codes \subseteq CoreCodes
    <2>1. rows \subseteq CoreCodes
        OBVIOUS
    <2> HIDE DEF rows
    <2> QED BY <1>1, <1>2, <2>1
<1> QED BY <1>1, <1>4, <1>5, RunEndsKeeps

(* Every step keeps the invariant and the bars of the warm copy.           *)
LEMMA PriceStepKeeps ==
    ASSUME PriceInv, [PriceNext]_priceVars
    PROVE  /\ PriceInv'
           /\ \A c \in CoreCodes, d \in TradingDays :
                 d \in warm.file[c].bars /\ d \notin warm'.file[c].bars /\ d + Window > priceDay
                 => warm'.file[c].bars = {}
<1>1. CASE UNCHANGED priceVars
    BY <1>1 DEF priceVars, PriceInv, PriceTypeOK, BarsAreReal, DatesAreFit, JobsFit, DiskHasWarm,
                ExclusionsFit, ContinuedFits, CsvIsOfItsDate, Excluded, Computable, IsShort
<1>2. CASE NewDay \/ \E s \in Symbols, d \in TradingDays : PublishBar(s, d)
    <2>1. warm' = warm
        BY <1>2 DEF NewDay, PublishBar
    <2> QED BY <1>2, <2>1, WorldOfPricesKeeps
<1>3. CASE \E date \in TradingDays, hits \in SUBSET JobKinds : StartRun(date, hits)
    <2>1. warm' = warm
        BY <1>3 DEF StartRun
    <2> QED BY <1>3, <2>1, StartRunKeeps
<1>4. ASSUME NEW k \in JobKinds, NEW s \in Symbols, NEW answer \in Answers, EnsureFile(k, s, answer)
      PROVE  PriceInv' /\ warm' = warm
    BY <1>4, EnsureFileKeeps DEF EnsureFile
<1>5. ASSUME NEW k \in JobKinds, NextPass(k) \/ Reconcile(k) PROVE PriceInv' /\ warm' = warm
    BY <1>5, NextPassKeeps, ReconcileKeeps DEF NextPass, Reconcile
<1>6. CASE \E k \in JobKinds, saved \in BOOLEAN : Archive(k, saved)
    BY <1>6, ArchiveKeeps
<1>7. CASE JobsEnd \/ Compute
    <2>1. warm' = warm
        BY <1>7 DEF JobsEnd, Compute
    <2> QED BY <1>7, <2>1, JobsEndKeeps, ComputeKeeps
<1> QED BY <1>1, <1>2, <1>3, <1>4, <1>5, <1>6, <1>7 DEF PriceNext

(* What the invariant says of the day's compute job.                       *)
LEMMA PriceInvMeans ==
    ASSUME PriceInv
    PROVE  PriceTypeOK /\ CsvIsOfItsDate /\ FewAreLeftOut /\ ContinuedIsComputable
<1>1. /\ priceRun.date \in TradingDays /\ Excluded \subseteq CoreCodes
      /\ \A s \in Symbols : disk.file[s] \in StoreFile
    BY DEF PriceInv, PriceTypeOK, Stores, StoreFile, Excluded
<1>2. FewAreLeftOut
    <2> SUFFICES ASSUME priceRun.pc = "compute"
                 PROVE  Cardinality({c \in CoreCodes : Behind(c) /\ c \in Excluded}) <= Threshold
        BY DEF FewAreLeftOut
    <2> DEFINE late == {c \in CoreCodes : Behind(c) /\ c \in Excluded}
    <2>1. Cardinality(Excluded) <= Threshold
        BY SymbolsAre DEF PriceInv, JobsFit, ExclusionsFit
    <2>2. late \subseteq Excluded
        OBVIOUS
    <2> HIDE DEF late
    <2>3. IsFiniteSet(Excluded)
        BY <1>1, FS_Subset, PriceAssumption
    <2>4. IsFiniteSet(late) /\ Cardinality(late) <= Cardinality(Excluded)
        BY <2>2, <2>3, FS_Subset
    <2>5. Cardinality(late) \in Nat /\ Cardinality(Excluded) \in Nat
        BY <2>3, <2>4, FS_CardinalityType
    <2>6. Cardinality(late) <= Threshold
        BY <2>1, <2>4, <2>5, PriceAssumption
    <2> QED BY <2>6 DEF late
<1>3. ContinuedIsComputable
    <2> SUFFICES ASSUME priceRun.pc = "compute", NEW s \in Bench \cup (CoreCodes \ Excluded), Behind(s)
                 PROVE  \/ StatusOnDisk(disk.file[s], priceRun.date) = "insufficient"
                        \/ \E d \in disk.file[s].bars : d > priceRun.date
        BY DEF ContinuedIsComputable
    <2>1. PICK k \in JobKinds : s \in SymbolsOf(k) \ Excluded
        BY <1>1, SymbolsAre
    <2>2. Computable(disk.file[s], priceRun.date) /\ s \in Symbols
        BY <2>1, SymbolsAre DEF PriceInv, JobsFit, ContinuedFits
    <2>3. /\ priceRun.date \notin disk.file[s].bars
          /\ ~ \A d \in disk.file[s].bars : ~(d <= priceRun.date)
        BY DEF Behind, UpTo, CachedFile
    <2>4. StatusOnDisk(disk.file[s], priceRun.date) = "insufficient" <=> IsShort(disk.file[s])
        BY <1>1, <2>2, StatusIs
    <2> QED BY <2>2, <2>3, <2>4 DEF Computable
<1> QED BY <1>2, <1>3 DEF PriceInv

(* The rows of a date's CSV have the bar of that date, no more late codes  *)
(* are left out than the policy allows, compute refuses what was continued *)
(* with only over a short file or one with a hole, and the warm copy loses *)
(* no bar that is not due.                                                 *)
THEOREM PricesAreSafe == PriceSpec => PriceSafe
<1>1. PriceInit => PriceInv
    BY PriceInitHolds
<1>2. PriceInv /\ [PriceNext]_priceVars => PriceInv'
    BY PriceStepKeeps
<1>3. PriceInv => PriceTypeOK /\ CsvIsOfItsDate /\ FewAreLeftOut /\ ContinuedIsComputable
    BY PriceInvMeans
<1>4. PriceInv /\ [PriceNext]_priceVars =>
         [\A c \in CoreCodes, d \in TradingDays :
            d \in warm.file[c].bars /\ d \notin warm'.file[c].bars /\ d + Window > priceDay
            => warm'.file[c].bars = {}]_priceVars
    BY PriceStepKeeps
<1> QED BY <1>1, <1>2, <1>3, <1>4, PTL DEF PriceSpec, PriceSafe, WarmKeepsBars

-----------------------------------------------------------------------------
(***************************************************************************)
(* The name aliases.  A checkpoint is of one date and list of codes and    *)
(* holds only what was read for them; a count is a read of now and the     *)
(* count of the state that was before, which earlier reads paid for.       *)
(***************************************************************************)
Levels == {"high", "medium", "low"}
NamePlaces == {"idle", "collect", "delta", "state", "summary", "clear"}
NameLists == [NameCodes -> SUBSET Words]
WordCounts == [NameCodes -> [Words -> Nat]]
FullRecord == [count : Nat, first : NameDays, last : NameDays, confidence : Levels]
NameRecords == [NameCodes -> [Words -> FullRecord \cup {NoRecord}]]
FoundName == [word : Words, sources : SUBSET (Sites \cup {"tdnet"}), read : NameDays, known : BOOLEAN,
              count : Nat, confidence : Levels]
FoundRow == [NameCodes -> SUBSET FoundName]
NamePassRow == [by : 0..MaxNamePasses, pc : NamePlaces, date : NameDays, codes : SUBSET NameCodes,
                base : NameLists, old : NameRecords, issuers : WordCounts, done : SUBSET NameCodes,
                found : FoundRow, unsaved : Nat]
CheckpointRow == [print : NameDays \X SUBSET NameCodes, done : SUBSET NameCodes, found : FoundRow]

NamesTyped ==
    /\ nameDay \in NameDays /\ config \in NameLists
    /\ proposal \in [by : 0..MaxNamePasses, names : NameLists]
    /\ nameState \in [by : 0..MaxNamePasses, records : NameRecords]
    /\ delta = [d \in NameDays |-> delta[d]] /\ summary = [d \in NameDays |-> summary[d]]
    /\ checkpoints \subseteq CheckpointRow /\ namePass \in NamePassRow /\ seenTotal \in WordCounts
    /\ namePass.unsaved <= SaveEvery

(* What was read for a date and a list of codes, by now.                   *)
ReadsFit(date, codes, done, found, total) ==
    /\ done \subseteq codes
    /\ \A c \in NameCodes : \A k \in found[c] :
          /\ c \in done /\ k.read = date /\ k.count <= total[c][k.word] + 1
          /\ k.confidence = Confidence(k.sources, 0, k.word, k.known)
PaidFor(records, total) == \A c \in NameCodes, w \in Words : records[c][w].count <= total[c][w] + 1

CheckpointsFit ==
    /\ \A k \in checkpoints : ReadsFit(k.print[1], k.print[2], k.done, k.found, seenTotal)
    /\ \A j, k \in checkpoints : j.print = k.print => j = k
NamePassFits ==
    /\ ReadsFit(namePass.date, namePass.codes, namePass.done, namePass.found, seenTotal)
    /\ namePass.pc \notin {"idle", "collect"} => namePass.done = namePass.codes
CountsFit == PaidFor(nameState.records, seenTotal) /\ PaidFor(namePass.old, seenTotal)
OrderFits ==
    /\ proposal.by <= namePass.by /\ nameState.by <= namePass.by
    /\ \A d \in NameDays : summary[d].by \in Nat /\ summary[d].by <= namePass.by
    /\ namePass.pc = "collect" => proposal.by < namePass.by
    /\ namePass.pc \in {"collect", "delta", "state", "summary"} =>
          \A d \in NameDays : summary[d].by < namePass.by
WritesFit ==
    /\ namePass.pc \in {"delta", "state", "summary", "clear"} =>
          proposal = [by |-> namePass.by, names |-> Merged(namePass)]
    /\ namePass.pc \in {"state", "summary", "clear"} =>
          delta[namePass.date] = [by |-> namePass.by, rows |-> DeltaRows(namePass)]
    /\ namePass.pc \in {"summary", "clear"} =>
          nameState = [by |-> namePass.by, records |-> BuildState(namePass)]
NamesInv == NamesTyped /\ CheckpointsFit /\ NamePassFits /\ CountsFit /\ OrderFits /\ WritesFit /\ SummaryVouches

LEMMA FullIsARecord == \A r \in FullRecord : r # NoRecord
<1> SUFFICES ASSUME NEW r \in FullRecord PROVE r # NoRecord
    OBVIOUS
<1>1. "first" \in DOMAIN r
    BY DEF FullRecord
<1>2. DOMAIN NoRecord = {"count"}
    BY DEF NoRecord
<1> QED BY <1>1, <1>2

LEMMA ReadsLast ==
    ASSUME NEW date, NEW codes, NEW done, NEW found \in FoundRow, NEW total \in WordCounts, NEW more \in WordCounts,
           ReadsFit(date, codes, done, found, total), \A c \in NameCodes, w \in Words : total[c][w] <= more[c][w]
    PROVE  ReadsFit(date, codes, done, found, more)
<1>1. ASSUME NEW c \in NameCodes, NEW k \in found[c] PROVE k.count <= more[c][k.word] + 1
    <2>1. k.count \in Nat /\ k.word \in Words
        BY DEF FoundRow, FoundName
    <2>2. k.count <= total[c][k.word] + 1
        BY DEF ReadsFit
    <2>3. total[c][k.word] \in Nat /\ more[c][k.word] \in Nat /\ total[c][k.word] <= more[c][k.word]
        BY <2>1 DEF WordCounts
    <2> QED BY <2>1, <2>2, <2>3
<1> QED BY <1>1 DEF ReadsFit

LEMMA PaidLasts ==
    ASSUME NEW records \in NameRecords, NEW total \in WordCounts, NEW more \in WordCounts,
           PaidFor(records, total), \A c \in NameCodes, w \in Words : total[c][w] <= more[c][w]
    PROVE  PaidFor(records, more)
<1> SUFFICES ASSUME NEW c \in NameCodes, NEW w \in Words PROVE records[c][w].count <= more[c][w] + 1
    BY DEF PaidFor
<1>1. records[c][w].count \in Nat
    BY DEF NameRecords, FullRecord, NoRecord
<1>2. total[c][w] \in Nat /\ more[c][w] \in Nat /\ records[c][w].count <= total[c][w] + 1 /\ total[c][w] <= more[c][w]
    BY DEF WordCounts, PaidFor
<1> QED BY <1>1, <1>2

(* What a pass proposes: the list it began with, and words vouched for.    *)
LEMMA MergedIs ==
    ASSUME NEW p \in NamePassRow
    PROVE  /\ Merged(p) \in NameLists
           /\ \A c \in NameCodes : \A w \in Merged(p)[c] \ p.base[c] :
                 \E k \in p.found[c] : k.word = w /\ k.confidence # "low"
<1>1. p.found \in FoundRow /\ p.base \in NameLists /\ p.codes \in SUBSET NameCodes
    BY DEF NamePassRow
<1>2. ASSUME NEW r \in DeltaRows(p), r.action = "add"
      PROVE  r.code \in NameCodes /\ \E k \in p.found[r.code] : r.word = k.word /\ k.confidence # "low"
    <2>1. PICK c \in p.codes : r \in DeltaOf(p, c)
        BY <1>2 DEF DeltaRows
    <2>2. PICK k \in p.found[c] : r = [code |-> c, word |-> k.word, action |-> ActionOn(p, c, k)]
        BY <2>1 DEF DeltaOf
    <2>3. ActionOn(p, c, k) = "add" => k.confidence # "low"
        BY DEF ActionOn
    <2> QED BY <1>1, <1>2, <2>2, <2>3
<1>3. \A c \in NameCodes : \A k \in p.found[c] : k.word \in Words
    BY <1>1 DEF FoundRow, FoundName
<1>4. ASSUME NEW c \in NameCodes
      PROVE  /\ Merged(p)[c] = p.base[c] \cup {r.word : r \in {r \in DeltaRows(p) : r.code = c /\ r.action = "add"}}
             /\ Merged(p)[c] \subseteq Words
    <2>1. Merged(p)[c] = p.base[c] \cup {r.word : r \in {r \in DeltaRows(p) : r.code = c /\ r.action = "add"}}
        BY DEF Merged
    <2> QED BY <1>1, <1>2, <1>3, <2>1 DEF NameLists
<1>5. Merged(p) \in NameLists
    BY <1>4 DEF Merged, NameLists
<1>6. ASSUME NEW c \in NameCodes, NEW w \in Merged(p)[c] \ p.base[c]
      PROVE  \E k \in p.found[c] : k.word = w /\ k.confidence # "low"
    <2>1. PICK r \in DeltaRows(p) : r.code = c /\ r.action = "add" /\ w = r.word
        BY <1>4, <1>6
    <2> QED BY <1>2, <2>1
<1> QED BY <1>5, <1>6

LEMMA BuildStateIs ==
    ASSUME NEW p \in NamePassRow, NEW total \in WordCounts, PaidFor(p.old, total),
           ReadsFit(p.date, p.codes, p.done, p.found, total)
    PROVE  /\ BuildState(p) \in NameRecords /\ PaidFor(BuildState(p), total)
           /\ \A c \in NameCodes, w \in Words : (w \in Merged(p)[c]) <=> (BuildState(p)[c][w] # NoRecord)
<1>1. p.found \in FoundRow /\ p.old \in NameRecords /\ p.date \in NameDays
    BY DEF NamePassRow
<1>2. ASSUME NEW c \in NameCodes, NEW w \in Words
      PROVE  RecordOf(p, c, w) \in FullRecord /\ RecordOf(p, c, w).count <= total[c][w] + 1
    <2> DEFINE seen == {k \in p.found[c] : k.word = w}
               was == p.old[c][w]
               first == IF was = NoRecord THEN p.date ELSE was.first
    <2>1. was \in FullRecord \cup {NoRecord} /\ was.count <= total[c][w] + 1 /\ total[c][w] \in Nat
        BY <1>1 DEF NameRecords, PaidFor, WordCounts
    <2>2. first \in NameDays
        BY <1>1, <2>1 DEF FullRecord
    <2>3. CASE seen # {}
        <3> DEFINE k == CHOOSE k \in seen : TRUE
        <3>1. k \in seen
            BY <2>3
        <3>2. RecordOf(p, c, w) = [count |-> k.count, first |-> first, last |-> p.date, confidence |-> k.confidence]
            BY <2>3 DEF RecordOf
        <3> HIDE DEF k
        <3>3. k \in p.found[c] /\ k.word = w
            BY <3>1
        <3>4. k \in FoundName
            BY <1>1, <3>3 DEF FoundRow
        <3>5. k.count \in Nat /\ k.confidence \in Levels
            BY <3>4 DEF FoundName
        <3>6. k.count <= total[c][w] + 1
            BY <3>3 DEF ReadsFit
        <3> HIDE DEF first
        <3> QED BY <1>1, <2>2, <3>2, <3>5, <3>6 DEF FullRecord
    <2>4. CASE seen = {} /\ was # NoRecord
        <3>1. RecordOf(p, c, w) = [was EXCEPT !.last = p.date]
            BY <2>4 DEF RecordOf
        <3>2. was \in FullRecord
            BY <2>1, <2>4
        <3> HIDE DEF was
        <3> QED BY <1>1, <2>1, <3>1, <3>2 DEF FullRecord
    <2>5. CASE seen = {} /\ was = NoRecord
        <3>1. RecordOf(p, c, w) = [count |-> 1, first |-> p.date, last |-> p.date, confidence |-> "medium"]
            BY <2>5 DEF RecordOf
        <3> QED BY <1>1, <2>1, <3>1 DEF FullRecord, Levels
    <2> QED BY <2>3, <2>4, <2>5
<1>3. ASSUME NEW c \in NameCodes, NEW w \in Words
      PROVE  /\ BuildState(p)[c][w] = IF w \in Merged(p)[c] THEN RecordOf(p, c, w) ELSE NoRecord
             /\ BuildState(p)[c][w] \in FullRecord \cup {NoRecord}
             /\ BuildState(p)[c][w].count <= total[c][w] + 1
    <2>1. BuildState(p)[c][w] = IF w \in Merged(p)[c] THEN RecordOf(p, c, w) ELSE NoRecord
        BY DEF BuildState
    <2>2. NoRecord.count = 0 /\ total[c][w] \in Nat
        BY DEF NoRecord, WordCounts
    <2> QED BY <1>2, <2>1, <2>2
<1>4. BuildState(p) \in NameRecords
    BY <1>3 DEF BuildState, NameRecords
<1>5. \A c \in NameCodes, w \in Words : (w \in Merged(p)[c]) <=> (BuildState(p)[c][w] # NoRecord)
    BY <1>2, <1>3, FullIsARecord
<1> QED BY <1>3, <1>4, <1>5 DEF PaidFor

(* A step from place to place leaves what the pass has.                    *)
LEMMA GotoIs ==
    ASSUME NEW p \in NamePassRow, NEW pc \in NamePlaces, NEW q, q = [p EXCEPT !.pc = pc]
    PROVE  /\ q \in NamePassRow /\ q.pc = pc /\ q.by = p.by /\ q.date = p.date /\ q.codes = p.codes
           /\ q.base = p.base /\ q.old = p.old /\ q.issuers = p.issuers /\ q.done = p.done
           /\ q.found = p.found /\ q.unsaved = p.unsaved
           /\ DeltaRows(q) = DeltaRows(p) /\ Merged(q) = Merged(p) /\ BuildState(q) = BuildState(p)
<1>1. /\ q \in NamePassRow /\ q.pc = pc /\ q.by = p.by /\ q.date = p.date /\ q.codes = p.codes
      /\ q.base = p.base /\ q.old = p.old /\ q.issuers = p.issuers /\ q.done = p.done
      /\ q.found = p.found /\ q.unsaved = p.unsaved
    BY DEF NamePassRow
<1>2. \A c : DeltaOf(q, c) = DeltaOf(p, c)
    BY <1>1 DEF DeltaOf, ActionOn
<1>3. DeltaRows(q) = DeltaRows(p)
    BY <1>1, <1>2 DEF DeltaRows
<1>4. Merged(q) = Merged(p)
    BY <1>1, <1>3 DEF Merged
<1>5. \A c, w : RecordOf(q, c, w) = RecordOf(p, c, w)
    BY <1>1 DEF RecordOf
<1>6. BuildState(q) = BuildState(p)
    BY <1>4, <1>5 DEF BuildState
<1> QED BY <1>1, <1>3, <1>4, <1>6
LEMMA NameInitHolds == NameInit => NamesInv
<1> SUFFICES ASSUME NameInit PROVE NamesInv
    OBVIOUS
<1> DEFINE none == [c \in NameCodes |-> {}]
           zero == [c \in NameCodes |-> [w \in Words |-> 0]]
           unseen == [c \in NameCodes |-> [w \in Words |-> NoRecord]]
<1>1. NoPass = [by |-> 0, pc |-> "idle", date |-> 1, codes |-> {}, base |-> none, old |-> unseen,
                issuers |-> zero, done |-> {}, found |-> none, unsaved |-> 0]
    BY DEF NoPass, NoCandidates, NoDisclosures, NoRecords
<1>2. /\ none \in NameLists /\ none \in FoundRow /\ zero \in WordCounts /\ unseen \in NameRecords
      /\ \A c \in NameCodes : none[c] = {} /\ \A w \in Words : unseen[c][w].count = 0 /\ zero[c][w] = 0
    BY DEF NameLists, FoundRow, WordCounts, NameRecords, NoRecord
<1>3. nameDay = 1 /\ config = none /\ namePass = NoPass /\ checkpoints = {} /\ seenTotal = zero
      /\ proposal = [by |-> 0, names |-> none] /\ nameState = [by |-> 0, records |-> unseen]
    BY <1>1 DEF NameInit, NoDisclosures, NoRecords
<1> HIDE DEF none, zero, unseen
<1>4. NoPass \in NamePassRow
    <2>1. 1 \in NameDays /\ 0 \in 0..MaxNamePasses
        BY NamesAssumption DEF NameDays
    <2> QED BY <1>1, <1>2, <2>1 DEF NamePassRow, NamePlaces
<1>5. NamesTyped
    <2>1. delta = [d \in NameDays |-> delta[d]] /\ summary = [d \in NameDays |-> summary[d]]
        BY DEF NameInit
    <2>2. 1 \in NameDays /\ 0 \in 0..MaxNamePasses /\ NoPass.unsaved <= SaveEvery
        BY <1>1, NamesAssumption DEF NameDays
    <2> QED BY <1>2, <1>3, <1>4, <2>1, <2>2 DEF NamesTyped
<1>6. CheckpointsFit /\ NamePassFits /\ CountsFit
    BY <1>1, <1>2, <1>3 DEF CheckpointsFit, NamePassFits, CountsFit, ReadsFit, PaidFor
<1>7. OrderFits /\ WritesFit /\ SummaryVouches
    <2>1. \A d \in NameDays : summary[d].by = 0
        BY DEF NameInit
    <2> QED BY <1>1, <1>3, <2>1 DEF OrderFits, WritesFit, SummaryVouches
<1> QED BY <1>5, <1>6, <1>7 DEF NamesInv

LEMMA GotoFits ==
    ASSUME NamesInv, NEW pc \in NamePlaces, PassGoto(pc), UNCHANGED seenTotal,
           pc \notin {"idle", "collect"} => namePass.done = namePass.codes
    PROVE  /\ namePass' \in NamePassRow /\ namePass'.pc = pc /\ namePass'.by = namePass.by
           /\ namePass'.date = namePass.date /\ namePass'.unsaved <= SaveEvery
           /\ DeltaRows(namePass)' = DeltaRows(namePass) /\ Merged(namePass)' = Merged(namePass)
           /\ BuildState(namePass)' = BuildState(namePass)
           /\ NamePassFits' /\ PaidFor(namePass'.old, seenTotal')
<1>1. namePass \in NamePassRow /\ namePass' = [namePass EXCEPT !.pc = pc]
    BY DEF PassGoto, NamesInv, NamesTyped
<1>2. /\ namePass' \in NamePassRow /\ namePass'.pc = pc /\ namePass'.by = namePass.by
      /\ namePass'.date = namePass.date /\ namePass'.codes = namePass.codes /\ namePass'.old = namePass.old
      /\ namePass'.done = namePass.done /\ namePass'.found = namePass.found /\ namePass'.unsaved = namePass.unsaved
      /\ DeltaRows(namePass') = DeltaRows(namePass) /\ Merged(namePass') = Merged(namePass)
      /\ BuildState(namePass') = BuildState(namePass)
    BY <1>1, GotoIs
<1>3. NamePassFits' /\ PaidFor(namePass'.old, seenTotal')
    BY <1>2 DEF NamesInv, NamePassFits, CountsFit, PaidFor, ReadsFit
<1>4. namePass'.unsaved <= SaveEvery
    BY <1>2 DEF NamesInv, NamesTyped
<1> QED BY <1>2, <1>3, <1>4

(* A torn state file takes all records away, and no summary is written.    *)
LEMMA TearStateKeeps ==
    ASSUME NamesInv, TearState
    PROVE  NamesInv'
<1>1. /\ namePass.pc = "state" /\ PassGoto("idle") /\ nameState' = [by |-> namePass.by, records |-> NoRecords]
      /\ UNCHANGED <<nameDay, config, proposal, delta, summary, checkpoints, seenTotal>>
    BY DEF TearState, PassAt
<1>2. /\ namePass' \in NamePassRow /\ namePass'.pc = "idle" /\ namePass'.by = namePass.by
      /\ namePass'.unsaved <= SaveEvery /\ NamePassFits' /\ PaidFor(namePass'.old, seenTotal')
    BY <1>1, GotoFits DEF NamePlaces
<1>3. /\ nameState' \in [by : 0..MaxNamePasses, records : NameRecords] /\ nameState'.by = namePass.by
      /\ PaidFor(nameState'.records, seenTotal')
    <2>1. namePass.by \in 0..MaxNamePasses /\ seenTotal \in WordCounts
        BY DEF NamesInv, NamesTyped, NamePassRow
    <2>2. NoRecords \in NameRecords /\ \A c \in NameCodes, w \in Words : NoRecords[c][w].count = 0
        BY DEF NoRecords, NameRecords, NoRecord
    <2>3. \A c \in NameCodes, w \in Words : 0 <= seenTotal[c][w] + 1
        BY <2>1 DEF WordCounts
    <2> QED BY <1>1, <2>1, <2>2, <2>3 DEF PaidFor
<1>4. NamesTyped' /\ CountsFit'
    BY <1>1, <1>2, <1>3 DEF NamesInv, NamesTyped, CountsFit
<1>5. CheckpointsFit'
    BY <1>1 DEF NamesInv, CheckpointsFit, ReadsFit
<1>6. OrderFits' /\ WritesFit'
    <2>1. namePass.by <= namePass.by
        BY NamesAssumption DEF NamesInv, NamesTyped, NamePassRow
    <2> QED BY <1>1, <1>2, <1>3, <2>1 DEF NamesInv, OrderFits, WritesFit
<1>7. SummaryVouches'
    <2>1. \A e \in NameDays : summary'[e].by # proposal'.by
        <3>1. proposal.by = namePass.by /\ namePass.by \in Nat
            BY <1>1, NamesAssumption DEF NamesInv, NamesTyped, NamePassRow, WritesFit
        <3> QED BY <1>1, <3>1 DEF NamesInv, OrderFits
    <2> QED BY <2>1 DEF SummaryVouches
<1> QED BY <1>2, <1>4, <1>5, <1>6, <1>7 DEF NamesInv

LEMMA NameWritesKeep ==
    ASSUME NamesInv, WriteProposal \/ WriteDelta \/ WriteState \/ WriteSummary \/ ClearCheckpoint \/ KillNamePass
    PROVE  NamesInv'
<1> DEFINE n == namePass.by
           d == namePass.date
<1>1. /\ namePass \in NamePassRow /\ n \in 0..MaxNamePasses /\ d \in NameDays
      /\ proposal.by \in Nat /\ nameState.by \in Nat /\ \A e \in NameDays : summary[e].by \in Nat
      /\ n \in Nat
    BY NamesAssumption DEF NamesInv, NamesTyped, NamePassRow, OrderFits
<1>2. PICK pc \in NamePlaces :
        /\ PassGoto(pc) /\ UNCHANGED <<nameDay, config, seenTotal>>
        /\ pc \notin {"idle", "collect"} => namePass.done = namePass.codes
        /\ pc \in {"idle", "delta", "state", "summary", "clear"}
        /\ pc = "idle" => UNCHANGED <<proposal, nameState, delta, summary>>
        /\ pc = "delta" => WriteProposal
        /\ pc = "state" => WriteDelta
        /\ pc = "summary" => WriteState
        /\ pc = "clear" => WriteSummary
        /\ checkpoints' \subseteq checkpoints
    BY DEF WriteProposal, WriteDelta, WriteState, WriteSummary, ClearCheckpoint, KillNamePass,
           NamePlaces, PassAt, NamesInv, NamePassFits
<1>3. /\ namePass' \in NamePassRow /\ namePass'.pc = pc /\ namePass'.by = n
      /\ namePass'.date = d /\ namePass'.unsaved <= SaveEvery
      /\ DeltaRows(namePass)' = DeltaRows(namePass) /\ Merged(namePass)' = Merged(namePass)
      /\ BuildState(namePass)' = BuildState(namePass)
      /\ NamePassFits' /\ PaidFor(namePass'.old, seenTotal')
    BY <1>2, GotoFits
<1>4. CheckpointsFit'
    BY <1>2 DEF NamesInv, CheckpointsFit, ReadsFit
<1>5. /\ Merged(namePass) \in NameLists
      /\ BuildState(namePass) \in NameRecords /\ PaidFor(BuildState(namePass), seenTotal)
      /\ \A c \in NameCodes, w \in Words : (w \in Merged(namePass)[c]) <=> (BuildState(namePass)[c][w] # NoRecord)
    <2>1. PaidFor(namePass.old, seenTotal) /\ seenTotal \in WordCounts
          /\ ReadsFit(namePass.date, namePass.codes, namePass.done, namePass.found, seenTotal)
        BY DEF NamesInv, CountsFit, NamesTyped, NamePassFits
    <2> QED BY <1>1, <2>1, MergedIs, BuildStateIs
<1>6. checkpoints' \subseteq CheckpointRow /\ nameDay' \in NameDays /\ config' \in NameLists /\ seenTotal' \in WordCounts
    BY <1>2 DEF NamesInv, NamesTyped
<1>7. CASE pc = "idle"
    <2>1. UNCHANGED <<proposal, nameState, delta, summary>>
        BY <1>2, <1>7
    <2>2. NamesTyped' /\ CountsFit'
        BY <1>2, <1>3, <1>6, <2>1 DEF NamesInv, NamesTyped, CountsFit, PaidFor
    <2>3. OrderFits' /\ WritesFit' /\ SummaryVouches'
        BY <1>3, <1>7, <2>1 DEF NamesInv, OrderFits, WritesFit, SummaryVouches
    <2> QED BY <1>3, <1>4, <2>2, <2>3 DEF NamesInv
<1>8. CASE pc = "delta"
    <2>1. /\ namePass.pc = "collect" /\ proposal' = [by |-> n, names |-> Merged(namePass)]
          /\ UNCHANGED <<nameState, delta, summary>>
        BY <1>2, <1>8 DEF WriteProposal, PassAt
    <2>2. proposal' \in [by : 0..MaxNamePasses, names : NameLists] /\ proposal'.by = n
        BY <1>1, <1>5, <2>1
    <2>3. NamesTyped' /\ CountsFit'
        BY <1>2, <1>3, <1>6, <2>1, <2>2 DEF NamesInv, NamesTyped, CountsFit, PaidFor
    <2>4. OrderFits' /\ WritesFit'
        BY <1>1, <1>3, <1>8, <2>1, <2>2 DEF NamesInv, OrderFits, WritesFit
    <2>5. SummaryVouches'
        <3>1. \A e \in NameDays : summary'[e].by # proposal'.by
            BY <1>1, <2>1, <2>2 DEF NamesInv, OrderFits
        <3> QED BY <3>1 DEF SummaryVouches
    <2> QED BY <1>3, <1>4, <2>3, <2>4, <2>5 DEF NamesInv
<1>9. CASE pc = "state"
    <2> DEFINE written == [by |-> n, rows |-> DeltaRows(namePass)]
    <2>1. /\ namePass.pc = "delta" /\ delta' = [delta EXCEPT ![d] = written]
          /\ UNCHANGED <<proposal, nameState, summary>>
        BY <1>2, <1>9 DEF WriteDelta, PassAt
    <2> HIDE DEF written
    <2>2. delta' = [e \in NameDays |-> delta'[e]] /\ delta'[d] = written
        <3>1. delta = [e \in NameDays |-> delta[e]]
            BY DEF NamesInv, NamesTyped
        <3> QED BY <1>1, <2>1, <3>1
    <2>3. NamesTyped' /\ CountsFit'
        BY <1>2, <1>3, <1>6, <2>1, <2>2 DEF NamesInv, NamesTyped, CountsFit, PaidFor
    <2>4. OrderFits' /\ WritesFit'
        BY <1>1, <1>3, <1>9, <2>1, <2>2 DEF NamesInv, OrderFits, WritesFit, written
    <2>5. SummaryVouches'
        <3>1. \A e \in NameDays : summary'[e].by # proposal'.by
            BY <1>1, <2>1 DEF NamesInv, OrderFits, WritesFit
        <3> QED BY <3>1 DEF SummaryVouches
    <2> QED BY <1>3, <1>4, <2>3, <2>4, <2>5 DEF NamesInv
<1>10. CASE pc = "summary"
    <2>1. /\ namePass.pc = "state" /\ nameState' = [by |-> n, records |-> BuildState(namePass)]
          /\ UNCHANGED <<proposal, delta, summary>>
        BY <1>2, <1>10 DEF WriteState, PassAt
    <2>2. /\ nameState' \in [by : 0..MaxNamePasses, records : NameRecords] /\ nameState'.by = n
          /\ nameState'.records = BuildState(namePass)
        BY <1>1, <1>5, <2>1
    <2>3. NamesTyped' /\ CountsFit'
        BY <1>2, <1>3, <1>5, <1>6, <2>1, <2>2 DEF NamesInv, NamesTyped, CountsFit, PaidFor
    <2>4. OrderFits' /\ WritesFit'
        BY <1>1, <1>3, <1>10, <2>1, <2>2 DEF NamesInv, OrderFits, WritesFit
    <2>5. SummaryVouches'
        <3>1. \A e \in NameDays : summary'[e].by # proposal'.by
            BY <1>1, <2>1 DEF NamesInv, OrderFits, WritesFit
        <3> QED BY <3>1 DEF SummaryVouches
    <2> QED BY <1>3, <1>4, <2>3, <2>4, <2>5 DEF NamesInv
<1>11. CASE pc = "clear"
    <2> DEFINE written == Summary(namePass)
    <2>1. /\ namePass.pc = "summary" /\ summary' = [summary EXCEPT ![d] = written]
          /\ UNCHANGED <<proposal, delta, nameState>>
        BY <1>2, <1>11 DEF WriteSummary, PassAt
    <2>2. written.by = n /\ written.added = Cardinality({r \in DeltaRows(namePass) : r.action = "add"})
        BY DEF Summary
    <2> HIDE DEF written
    <2>3. /\ summary' = [e \in NameDays |-> summary'[e]] /\ summary'[d] = written
          /\ \A e \in NameDays : e # d => summary'[e] = summary[e]
        <3>1. summary = [e \in NameDays |-> summary[e]]
            BY DEF NamesInv, NamesTyped
        <3> QED BY <1>1, <2>1, <3>1
    <2>4. NamesTyped' /\ CountsFit'
        BY <1>2, <1>3, <1>6, <2>1, <2>3 DEF NamesInv, NamesTyped, CountsFit, PaidFor
    <2>5. OrderFits'
        BY <1>1, <1>3, <1>11, <2>1, <2>2, <2>3 DEF NamesInv, OrderFits
    <2>6. WritesFit'
        BY <1>3, <1>11, <2>1 DEF NamesInv, WritesFit
    <2>7. SummaryVouches'
        <3>1. /\ proposal = [by |-> n, names |-> Merged(namePass)]
              /\ delta[d] = [by |-> n, rows |-> DeltaRows(namePass)]
              /\ nameState = [by |-> n, records |-> BuildState(namePass)]
            BY <2>1 DEF NamesInv, WritesFit
        <3>2. \A e \in NameDays : e # d => summary'[e].by # n
            BY <1>1, <2>1, <2>3 DEF NamesInv, OrderFits
        <3>3. /\ proposal'.by = n /\ proposal'.names = Merged(namePass)
              /\ delta'[d].by = n /\ delta'[d].rows = DeltaRows(namePass)
              /\ nameState'.by = n /\ nameState'.records = BuildState(namePass)
            BY <2>1, <3>1
        <3>4. \A e \in NameDays : summary'[e].by = proposal'.by => e = d
            BY <3>2, <3>3
        <3>5. summary'[d].added = Cardinality({r \in delta'[d].rows : r.action = "add"})
            BY <2>2, <2>3, <3>3
        <3> HIDE DEF n, d
        <3>6. \A c \in NameCodes, w \in Words : (w \in proposal'.names[c]) <=> (nameState'.records[c][w] # NoRecord)
            BY <1>5, <3>3
        <3> QED BY <3>3, <3>4, <3>5, <3>6 DEF SummaryVouches
    <2> QED BY <1>3, <1>4, <2>4, <2>5, <2>6, <2>7 DEF NamesInv
<1> QED BY <1>2, <1>7, <1>8, <1>9, <1>10, <1>11

LEMMA NameWorldKeeps ==
    ASSUME NamesInv, NextNameDay \/ AdoptProposal
                     \/ \E c \in NameCodes : \E words \in SUBSET config[c] : EditConfig(c, words)
    PROVE  NamesInv'
<1>1. /\ UNCHANGED <<proposal, nameState, delta, summary, checkpoints, namePass, seenTotal>>
      /\ nameDay' \in NameDays /\ config' \in NameLists
    <2>1. nameDay \in NameDays /\ config \in NameLists /\ proposal.names \in NameLists
        BY DEF NamesInv, NamesTyped
    <2>2. CASE NextNameDay
        BY <2>1, <2>2, NamesAssumption DEF NextNameDay, NameDays
    <2>3. CASE AdoptProposal
        BY <2>1, <2>3 DEF AdoptProposal
    <2>4. ASSUME NEW c \in NameCodes, NEW words \in SUBSET config[c], EditConfig(c, words)
          PROVE  UNCHANGED <<nameDay, proposal, nameState, delta, summary, checkpoints, namePass, seenTotal>>
                 /\ config' \in NameLists
        BY <2>1, <2>4 DEF EditConfig, NameLists
    <2> QED BY <2>1, <2>2, <2>3, <2>4
<1>2. NamesTyped' /\ OrderFits' /\ SummaryVouches'
    BY <1>1 DEF NamesInv, NamesTyped, OrderFits, SummaryVouches
<1>3. CheckpointsFit' /\ NamePassFits' /\ CountsFit'
    BY <1>1 DEF NamesInv, CheckpointsFit, NamePassFits, CountsFit
<1>4. WritesFit'
    BY <1>1 DEF NamesInv, WritesFit
<1> QED BY <1>2, <1>3, <1>4 DEF NamesInv
LEMMA StartNamePassKeeps ==
    ASSUME NamesInv, NEW d \in NameDays, NEW codes \in SUBSET NameCodes, NEW ok \in BOOLEAN, StartNamePass(d, codes, ok)
    PROVE  NamesInv'
<1> DEFINE resumed == LoadCheckpoint(Fingerprint(d, codes))
           issued == IssuerCounts(d, codes, ok /\ codes \ resumed.done # {})
<1>1. /\ namePass.by < MaxNamePasses
      /\ namePass' = [by |-> namePass.by + 1, pc |-> "collect", date |-> d, codes |-> codes, base |-> config,
                      old |-> nameState.records, done |-> resumed.done, found |-> resumed.found, unsaved |-> 0,
                      issuers |-> issued]
      /\ UNCHANGED <<nameDay, config, proposal, nameState, delta, summary, checkpoints, seenTotal>>
    BY DEF StartNamePass
<1>2. /\ resumed.done \in SUBSET NameCodes /\ resumed.found \in FoundRow
      /\ ReadsFit(d, codes, resumed.done, resumed.found, seenTotal)
    <2> DEFINE kept == {k \in checkpoints : k.print = <<d, codes>>}
    <2>1. CASE kept = {}
        <3>1. resumed = [print |-> <<d, codes>>, done |-> {}, found |-> NoCandidates]
            BY <2>1 DEF LoadCheckpoint, Fingerprint
        <3>2. NoCandidates \in FoundRow /\ \A c \in NameCodes : NoCandidates[c] = {}
            BY DEF NoCandidates, FoundRow
        <3>3. resumed.done = {} /\ resumed.found = NoCandidates
            BY <3>1
        <3> HIDE DEF resumed
        <3> QED BY <3>2, <3>3 DEF ReadsFit
    <2>2. CASE kept # {}
        <3>1. resumed = CHOOSE k \in kept : TRUE
            BY <2>2 DEF LoadCheckpoint, Fingerprint
        <3> HIDE DEF resumed
        <3>2. resumed \in kept
            BY <2>2, <3>1
        <3>3. resumed \in checkpoints /\ resumed.print[1] = d /\ resumed.print[2] = codes
            BY <3>2
        <3> QED BY <3>3 DEF NamesInv, NamesTyped, CheckpointRow, CheckpointsFit
    <2> QED BY <2>1, <2>2
<1>3. issued \in WordCounts
    <2>1. \A c \in NameCodes, w \in Words : Disclosed[d][c][w] \in Nat
        BY NamesAssumption DEF NameDays
    <2> HIDE DEF resumed
    <2> QED BY <2>1 DEF IssuerCounts, WordCounts
<1> HIDE DEF resumed, issued
<1>4. /\ namePass.by \in Nat /\ namePass.by + 1 \in 0..MaxNamePasses /\ proposal.by \in Nat /\ nameState.by \in Nat
      /\ config \in NameLists /\ nameState.records \in NameRecords
    BY <1>1, NamesAssumption DEF NamesInv, NamesTyped, NamePassRow
<1>5. /\ namePass' \in NamePassRow /\ namePass'.by = namePass.by + 1 /\ namePass'.pc = "collect" /\ namePass'.date = d
      /\ namePass'.codes = codes /\ namePass'.old = nameState.records /\ namePass'.done = resumed.done
      /\ namePass'.found = resumed.found /\ namePass'.unsaved = 0
    BY <1>1, <1>2, <1>3, <1>4 DEF NamePassRow, NamePlaces
<1>6. NamesTyped'
    <2>1. 0 <= SaveEvery
        BY NamesAssumption
    <2> QED BY <1>1, <1>5, <2>1 DEF NamesInv, NamesTyped
<1>7. CheckpointsFit' /\ NamePassFits' /\ CountsFit'
    BY <1>1, <1>2, <1>5 DEF NamesInv, CheckpointsFit, NamePassFits, CountsFit
<1>8. OrderFits' /\ WritesFit' /\ SummaryVouches'
    <2>1. OrderFits'
        BY <1>1, <1>4, <1>5 DEF NamesInv, OrderFits
    <2>2. WritesFit' /\ SummaryVouches'
        BY <1>1, <1>5 DEF NamesInv, WritesFit, SummaryVouches
    <2> QED BY <2>1, <2>2
<1> QED BY <1>6, <1>7, <1>8 DEF NamesInv

(* What is seen of a word now, and the candidate it makes.                 *)
LEMMA CandidateIs ==
    ASSUME NEW p \in NamePassRow, NEW c \in NameCodes, NEW silent, NEW w \in Words
    PROVE  /\ SeenNow(p, c, silent, w) \in Nat
           /\ CandidateFor(p, c, silent, w) \in FoundName
           /\ CandidateFor(p, c, silent, w).word = w /\ CandidateFor(p, c, silent, w).read = p.date
           /\ CandidateFor(p, c, silent, w).count = SeenNow(p, c, silent, w) + p.old[c][w].count
           /\ CandidateFor(p, c, silent, w).confidence =
                 Confidence(CandidateFor(p, c, silent, w).sources, 0, w, CandidateFor(p, c, silent, w).known)
<1> DEFINE sources == Observed(p, c, silent, w)
           seen == SeenNow(p, c, silent, w)
           known == w \in Known(p, c)
           level == Confidence(sources, seen, w, known)
<1>1. sources \in SUBSET (Sites \cup {"tdnet"})
    BY DEF Observed
<1>2. p.issuers[c][w] \in Nat /\ p.old[c][w].count \in Nat /\ p.date \in NameDays
    BY DEF NamePassRow, WordCounts, NameRecords, FullRecord, NoRecord
<1>3. seen \in Nat
    <2>1. IsFiniteSet({"kabutan"}) /\ IsFiniteSet({"nikkei"})
        BY FS_Singleton
    <2>2. IsFiniteSet({"kabutan"} \cup {"nikkei"})
        BY <2>1, FS_Union
    <2>3. sources \ {"tdnet"} \subseteq {"kabutan"} \cup {"nikkei"}
        BY <1>1 DEF Sites
    <2> HIDE DEF sources
    <2>4. IsFiniteSet(sources \ {"tdnet"})
        BY <2>2, <2>3, FS_Subset
    <2>5. Cardinality(sources \ {"tdnet"}) \in Nat
        BY <2>4, FS_CardinalityType
    <2>6. seen = Cardinality(sources \ {"tdnet"}) + p.issuers[c][w]
        BY DEF SeenNow, sources
    <2> HIDE DEF seen
    <2> QED BY <1>2, <2>5, <2>6
<1>4. level \in Levels /\ level = Confidence(sources, 0, w, known)
    <2> HIDE DEF sources, seen, known
    <2> QED BY DEF Confidence, Levels
<1>5. known \in BOOLEAN
    OBVIOUS
<1>6. CandidateFor(p, c, silent, w) =
         [word |-> w, sources |-> sources, read |-> p.date, known |-> known,
          count |-> seen + p.old[c][w].count, confidence |-> level]
    BY DEF CandidateFor
<1> HIDE DEF sources, seen, known, level
<1>7. seen + p.old[c][w].count \in Nat
    BY <1>2, <1>3
<1> DEFINE made == CandidateFor(p, c, silent, w)
<1>8. made = [word |-> w, sources |-> sources, read |-> p.date, known |-> known,
              count |-> seen + p.old[c][w].count, confidence |-> level]
    BY <1>6
<1> HIDE DEF made
<1>9. /\ made \in FoundName /\ made.word = w /\ made.read = p.date /\ made.count = seen + p.old[c][w].count
      /\ made.confidence = level /\ made.sources = sources /\ made.known = known
    BY <1>1, <1>2, <1>4, <1>5, <1>7, <1>8 DEF FoundName
<1> QED BY <1>3, <1>4, <1>9 DEF made, seen

LEMMA ReadCodeKeeps ==
    ASSUME NamesInv, NEW silent \in Outages, ReadCode(silent)
    PROVE  NamesInv'
<1> DEFINE p == namePass
           c == Min(p.codes \ p.done)
           cands == {CandidateFor(p, c, silent, w) : w \in {w \in Words : Observed(p, c, silent, w) # {}}}
           counts == [w \in Words |-> seenTotal[c][w] + SeenNow(p, c, silent, w)]
           read == [p EXCEPT !.done = @ \union {c}, !.unsaved = @ + 1, !.found[c] = cands]
           saves == read.unsaved >= SaveEvery
<1>1. /\ p.pc = "collect" /\ p.done # p.codes
      /\ namePass' = IF saves THEN [read EXCEPT !.unsaved = 0] ELSE read
      /\ checkpoints' = IF saves THEN SaveCheckpoint(read) ELSE checkpoints
      /\ seenTotal' = [seenTotal EXCEPT ![c] = counts]
      /\ UNCHANGED <<nameDay, config, proposal, nameState, delta, summary>>
    BY DEF ReadCode, PassAt
<1>2. /\ p \in NamePassRow /\ seenTotal \in WordCounts /\ p.unsaved \in Nat /\ p.unsaved <= SaveEvery
      /\ p.done \subseteq p.codes /\ p.codes \subseteq NameCodes /\ p.found \in FoundRow /\ p.date \in NameDays
      /\ ReadsFit(p.date, p.codes, p.done, p.found, seenTotal)
    BY DEF NamesInv, NamesTyped, NamePassRow, NamePassFits, ReadsFit
<1>3. c \in p.codes /\ c \notin p.done /\ c \in NameCodes
    <2> DEFINE left == p.codes \ p.done
    <2>1. left \in SUBSET Nat /\ left # {}
        BY <1>1, <1>2, NamesAssumption
    <2>2. c = CHOOSE x \in left : \A y \in left : x =< y
        BY DEF Min
    <2> HIDE DEF left, c
    <2>3. c \in left
        BY <2>1, <2>2, NatsHaveLeast
    <2> QED BY <1>2, <2>3 DEF left
<1>4. \A w \in Words : /\ SeenNow(p, c, silent, w) \in Nat /\ CandidateFor(p, c, silent, w) \in FoundName
                       /\ CandidateFor(p, c, silent, w).word = w /\ CandidateFor(p, c, silent, w).read = p.date
                       /\ CandidateFor(p, c, silent, w).count = SeenNow(p, c, silent, w) + p.old[c][w].count
                       /\ CandidateFor(p, c, silent, w).confidence =
                            Confidence(CandidateFor(p, c, silent, w).sources, 0, w, CandidateFor(p, c, silent, w).known)
    BY <1>2, <1>3, CandidateIs
<1> HIDE DEF c
<1>5. /\ counts \in [Words -> Nat] /\ \A w \in Words : counts[w] = seenTotal[c][w] + SeenNow(p, c, silent, w)
      /\ \A w \in Words : seenTotal[c][w] \in Nat
    BY <1>2, <1>3, <1>4 DEF WordCounts
<1> HIDE DEF counts
<1>6. /\ seenTotal' \in WordCounts /\ seenTotal'[c] = counts /\ \A x \in NameCodes : x # c => seenTotal'[x] = seenTotal[x]
      /\ \A x \in NameCodes, w \in Words : seenTotal[x][w] <= seenTotal'[x][w]
    <2>1. seenTotal' \in WordCounts /\ seenTotal'[c] = counts /\ \A x \in NameCodes : x # c => seenTotal'[x] = seenTotal[x]
        BY <1>1, <1>2, <1>3, <1>5 DEF WordCounts
    <2>2. \A x \in NameCodes, w \in Words : seenTotal[x][w] \in Nat
        BY <1>2 DEF WordCounts
    <2> QED BY <1>4, <1>5, <2>1, <2>2
<1>7. /\ cands \in SUBSET FoundName
      /\ \A k \in cands : /\ k.read = p.date /\ k.count <= seenTotal'[c][k.word] + 1
                          /\ k.confidence = Confidence(k.sources, 0, k.word, k.known)
    <2>1. ASSUME NEW w \in Words
          PROVE  CandidateFor(p, c, silent, w).count <= seenTotal'[c][w] + 1
        <3>1. p.old[c][w].count <= seenTotal[c][w] + 1
            BY <1>3 DEF NamesInv, CountsFit, PaidFor
        <3>2. p.old[c][w].count \in Nat
            BY <1>2, <1>3 DEF NamePassRow, NameRecords, FullRecord, NoRecord
        <3> QED BY <1>4, <1>5, <1>6, <3>1, <3>2
    <2> QED BY <1>4, <2>1
<1> HIDE DEF cands
<1> DEFINE done == p.done \cup {c}
           found == [p.found EXCEPT ![c] = cands]
<1>8. /\ found \in FoundRow /\ found[c] = cands /\ \A x \in NameCodes : x # c => found[x] = p.found[x]
      /\ done \in SUBSET NameCodes /\ done \subseteq p.codes
    BY <1>2, <1>3, <1>7 DEF FoundRow
<1>9. /\ read \in NamePassRow /\ read.done = done /\ read.found = found /\ read.unsaved = p.unsaved + 1
      /\ read.by = p.by /\ read.pc = p.pc /\ read.date = p.date /\ read.codes = p.codes /\ read.old = p.old
    <2>1. read = [p EXCEPT !.done = done, !.unsaved = p.unsaved + 1, !.found = found]
        BY <1>2 DEF NamePassRow
    <2> HIDE DEF done, found, read
    <2>2. p.unsaved + 1 \in Nat
        BY <1>2
    <2> QED BY <1>2, <1>8, <2>1, <2>2 DEF NamePassRow
<1> HIDE DEF done, found, read
<1>10. /\ namePass' \in NamePassRow /\ namePass'.done = done /\ namePass'.found = found
       /\ namePass'.by = p.by /\ namePass'.pc = p.pc /\ namePass'.date = p.date /\ namePass'.codes = p.codes
       /\ namePass'.old = p.old /\ namePass'.unsaved <= SaveEvery
    <2>1. CASE saves
        <3>1. namePass' = [read EXCEPT !.unsaved = 0]
            BY <1>1, <2>1
        <3>2. /\ namePass' \in NamePassRow /\ namePass'.unsaved = 0 /\ namePass'.done = read.done
              /\ namePass'.found = read.found /\ namePass'.by = read.by /\ namePass'.pc = read.pc
              /\ namePass'.date = read.date /\ namePass'.codes = read.codes /\ namePass'.old = read.old
            BY <1>9, <3>1 DEF NamePassRow
        <3> QED BY <1>9, <3>2, NamesAssumption
    <2>2. CASE ~saves
        BY <1>1, <1>2, <1>9, <2>2, NamesAssumption
    <2> QED BY <2>1, <2>2
<1>11. ReadsFit(p.date, p.codes, done, found, seenTotal')
    <2>1. ReadsFit(p.date, p.codes, p.done, p.found, seenTotal')
        BY <1>2, <1>6, ReadsLast
    <2>2. \A x \in NameCodes : \A k \in found[x] :
             /\ x \in done /\ k.read = p.date /\ k.count <= seenTotal'[x][k.word] + 1
             /\ k.confidence = Confidence(k.sources, 0, k.word, k.known)
        BY <1>7, <1>8, <2>1 DEF ReadsFit, done
    <2> QED BY <1>8, <2>2 DEF ReadsFit
<1>12. CheckpointsFit' /\ checkpoints' \subseteq CheckpointRow
    <2> DEFINE print == <<p.date, p.codes>>
               kept == [print |-> print, done |-> done, found |-> found]
    <2>1. \A k \in checkpoints : k \in CheckpointRow /\ ReadsFit(k.print[1], k.print[2], k.done, k.found, seenTotal')
        <3>1. \A k \in checkpoints : k \in CheckpointRow /\ k.found \in FoundRow
            BY DEF NamesInv, NamesTyped, CheckpointRow
        <3>2. \A k \in checkpoints : ReadsFit(k.print[1], k.print[2], k.done, k.found, seenTotal)
            BY DEF NamesInv, CheckpointsFit
        <3> QED BY <1>2, <1>6, <3>1, <3>2, ReadsLast
    <2>2. /\ kept \in CheckpointRow /\ kept.print = print /\ kept.done = done /\ kept.found = found
          /\ print[1] = p.date /\ print[2] = p.codes
        BY <1>2, <1>8 DEF CheckpointRow
    <2>3. checkpoints' = checkpoints \/ checkpoints' = {k \in checkpoints : k.print # print} \cup {kept}
        BY <1>1, <1>9 DEF SaveCheckpoint, Fingerprint
    <2>4. \A j, k \in checkpoints : j.print = k.print => j = k
        BY DEF NamesInv, CheckpointsFit
    <2> HIDE DEF print, kept
    <2>5. ReadsFit(kept.print[1], kept.print[2], kept.done, kept.found, seenTotal')
        BY <1>11, <2>2
    <2>6. \A k \in checkpoints' : k \in CheckpointRow /\ ReadsFit(k.print[1], k.print[2], k.done, k.found, seenTotal')
        BY <2>1, <2>2, <2>3, <2>5
    <2>7. \A j, k \in checkpoints' : j.print = k.print => j = k
        BY <2>2, <2>3, <2>4
    <2> QED BY <2>6, <2>7 DEF CheckpointsFit
<1>13. NamesTyped'
    BY <1>1, <1>6, <1>10, <1>12 DEF NamesInv, NamesTyped
<1>14. NamePassFits'
    BY <1>1, <1>10, <1>11 DEF NamePassFits
<1>15. CountsFit'
    <2>1. nameState.records \in NameRecords /\ p.old \in NameRecords
        BY <1>2 DEF NamesInv, NamesTyped, NamePassRow
    <2>2. PaidFor(nameState.records, seenTotal') /\ PaidFor(p.old, seenTotal')
        BY <1>2, <1>6, <2>1, PaidLasts DEF NamesInv, CountsFit
    <2> QED BY <1>1, <1>10, <2>2 DEF CountsFit
<1>16. OrderFits' /\ WritesFit' /\ SummaryVouches'
    BY <1>1, <1>10 DEF NamesInv, OrderFits, WritesFit, SummaryVouches
<1> QED BY <1>12, <1>13, <1>14, <1>15, <1>16 DEF NamesInv

LEMMA NameStepKeeps ==
    ASSUME NamesInv, [NameNext]_nameVars
    PROVE  NamesInv'
<1>1. CASE UNCHANGED nameVars
    <2>1. UNCHANGED <<nameDay, config, proposal, nameState, delta, summary, checkpoints, namePass, seenTotal>>
        BY <1>1 DEF nameVars
    <2>2. NamesTyped' /\ OrderFits' /\ SummaryVouches' /\ WritesFit'
        BY <2>1 DEF NamesInv, NamesTyped, OrderFits, SummaryVouches, WritesFit
    <2>3. CheckpointsFit' /\ NamePassFits' /\ CountsFit'
        BY <2>1 DEF NamesInv, CheckpointsFit, NamePassFits, CountsFit
    <2> QED BY <2>2, <2>3 DEF NamesInv
<1>2. CASE NameNext
    BY <1>2, StartNamePassKeeps, ReadCodeKeeps, NameWritesKeep, TearStateKeeps, NameWorldKeeps DEF NameNext
<1> QED BY <1>1, <1>2

LEMMA NamesInvMeans ==
    ASSUME NamesInv
    PROVE  NamesSafe
<1>1. NamesTypeOK
    <2>1. /\ DOMAIN nameState.records = NameCodes /\ namePass.pc \in NamePlaces /\ namePass.unsaved \in 0..SaveEvery
          /\ proposal.names \in NameLists /\ \A k \in checkpoints : k.done \subseteq NameCodes
        BY NamesAssumption DEF NamesInv, NamesTyped, NameRecords, NamePassRow, CheckpointRow
    <2> QED BY <2>1 DEF NamesInv, NamesTyped, NamesTypeOK, NameLists, NamePlaces, OrderFits, NamePassFits,
                        CheckpointsFit, ReadsFit
<1>2. ReadForItsDate
    <2>1. namePass.codes \subseteq NameCodes
        BY DEF NamesInv, NamesTyped, NamePassRow
    <2> QED BY <2>1 DEF NamesInv, NamePassFits, ReadsFit, ReadForItsDate
<1>3. NoReadCountedTwice
    BY DEF NamesInv, CountsFit, PaidFor, NoReadCountedTwice
<1>4. AddedIsVouchedFor
    <2> SUFFICES ASSUME namePass.pc = "delta", NEW c \in NameCodes, NEW w \in proposal.names[c] \ namePass.base[c]
                 PROVE  \E k \in namePass.found[c] :
                          /\ k.word = w
                          /\ k.known \/ Cardinality(k.sources) >= 2 \/ w \notin ShortWords \union NoiseWords
        BY DEF AddedIsVouchedFor
    <2>1. namePass \in NamePassRow /\ proposal.names = Merged(namePass)
        BY DEF NamesInv, NamesTyped, WritesFit
    <2>2. PICK k \in namePass.found[c] : k.word = w /\ k.confidence # "low"
        BY <2>1, MergedIs
    <2>3. k.confidence = Confidence(k.sources, 0, k.word, k.known)
        BY DEF NamesInv, NamePassFits, ReadsFit
    <2>4. k.known \/ Cardinality(k.sources) >= 2 \/ w \notin ShortWords \union NoiseWords
        BY <2>2, <2>3 DEF Confidence, ValidWord
    <2> QED BY <2>2, <2>4
<1> QED BY <1>1, <1>2, <1>3, <1>4 DEF NamesInv, NamesSafe

(* An attempt writes what was read for its date and codes, no read is      *)
(* counted twice, what is added is vouched for, and a summary vouches for  *)
(* the files before it, for any codes, words, sites' answers and kills.    *)
THEOREM NamesAreSafe == NameSpec => []NamesSafe
<1>1. NamesInv => NamesSafe
    BY NamesInvMeans
<1> QED BY <1>1, NameInitHolds, NameStepKeeps, PTL DEF NameSpec

-----------------------------------------------------------------------------
(***************************************************************************)
(* The words of a bar.  The labels of a day fall apart by the place of the *)
(* sentence they fill (LabelsDivided), and each place has one at most      *)
(* (PartsFit); so what is said at a place is what the arms of that place   *)
(* chose (TextIs), and a chart upside down can be compared place by place. *)
(***************************************************************************)
LEMMA MinIs ==
    ASSUME NEW S, NEW k \in S, k \in Int, \A n \in S : n \in Int /\ k <= n
    PROVE  Min(S) = k
<1>1. \E m \in S : \A n \in S : m <= n
    OBVIOUS
<1>2. PICK m : m = Min(S)
    OBVIOUS
<1>3. m \in S /\ \A n \in S : m <= n
    BY <1>1, <1>2 DEF Min
<1>4. m = k
    BY <1>3
<1> QED BY <1>2, <1>4

LEMMA MaxIs ==
    ASSUME NEW S, NEW k \in S, k \in Int, \A n \in S : n \in Int /\ k >= n
    PROVE  Max(S) = k
<1>1. \E m \in S : \A n \in S : m >= n
    OBVIOUS
<1>2. PICK m : m = Max(S)
    OBVIOUS
<1>3. m \in S /\ \A n \in S : m >= n
    BY <1>1, <1>2 DEF Max
<1>4. m = k
    BY <1>3
<1> QED BY <1>2, <1>4

(* The first arm that holds, and the last check, whatever the others say.  *)
LEMMA FirstArmIs ==
    ASSUME NEW N \in Nat, NEW arms, DOMAIN arms = 1..N
    PROVE  /\ (\A n \in 1..N : ~arms[n][2]) => FirstArm(arms) = {}
           /\ \A k \in 1..N : (arms[k][2] /\ \A n \in 1..N : n < k => ~arms[n][2])
                => FirstArm(arms) = {arms[k][1]} \ {NoLabel}
<1> DEFINE on == {n \in DOMAIN arms : arms[n][2]}
<1>1. (\A n \in 1..N : ~arms[n][2]) => on = {}
    OBVIOUS
<1>2. ASSUME NEW k \in 1..N, arms[k][2], \A n \in 1..N : n < k => ~arms[n][2]
      PROVE  on # {} /\ Min(on) = k
    <2>1. k \in on /\ \A n \in on : n \in 1..N /\ k <= n
        BY <1>2
    <2> HIDE DEF on
    <2>2. k \in Int /\ \A n \in on : n \in Int /\ k <= n
        BY <2>1
    <2> QED BY <2>1, <2>2, MinIs
<1> QED BY <1>1, <1>2 DEF FirstArm

LEMMA LastCheckIs ==
    ASSUME NEW N \in Nat, NEW checks, DOMAIN checks = 1..N
    PROVE  /\ (\A n \in 1..N : ~checks[n][2]) => LastCheck(checks) = {}
           /\ \A k \in 1..N : (checks[k][2] /\ \A n \in 1..N : k < n => ~checks[n][2])
                => LastCheck(checks) = {checks[k][1]}
<1> DEFINE on == {n \in DOMAIN checks : checks[n][2]}
<1>1. (\A n \in 1..N : ~checks[n][2]) => on = {}
    OBVIOUS
<1>2. ASSUME NEW k \in 1..N, checks[k][2], \A n \in 1..N : k < n => ~checks[n][2]
      PROVE  on # {} /\ Max(on) = k
    <2>1. k \in on /\ \A n \in on : n \in 1..N /\ k >= n
        BY <1>2
    <2> HIDE DEF on
    <2>2. k \in Int /\ \A n \in on : n \in Int /\ k >= n
        BY <2>1
    <2> QED BY <2>1, <2>2, MaxIs
<1> QED BY <1>1, <1>2 DEF LastCheck

(* The first arm that holds is one of them; there is none where none does. *)
LEMMA FirstArmFits ==
    ASSUME NEW N \in Nat, NEW arms, DOMAIN arms = 1..N
    PROVE  \/ (\A n \in 1..N : ~arms[n][2]) /\ FirstArm(arms) = {}
           \/ \E k \in 1..N : /\ arms[k][2] /\ FirstArm(arms) = {arms[k][1]} \ {NoLabel}
                              /\ \A n \in 1..N : n < k => ~arms[n][2]
<1>1. CASE \A n \in 1..N : ~arms[n][2]
    BY <1>1, FirstArmIs
<1>2. CASE \E n \in 1..N : arms[n][2]
    <2> DEFINE on == {n \in 1..N : arms[n][2]}
    <2>1. on \in SUBSET Nat /\ on # {}
        BY <1>2
    <2>2. PICK k \in on : \A n \in on : k <= n
        <3> HIDE DEF on
        <3> QED BY <2>1, NatsHaveLeast
    <2>3. k \in 1..N /\ arms[k][2] /\ \A n \in 1..N : n < k => ~arms[n][2]
        BY <2>2
    <2> HIDE DEF on
    <2>4. FirstArm(arms) = {arms[k][1]} \ {NoLabel}
        BY <2>3, FirstArmIs
    <2> QED BY <2>3, <2>4
<1> QED BY <1>1, <1>2

LEMMA LastCheckFits ==
    ASSUME NEW N \in Nat, NEW checks, DOMAIN checks = 1..N
    PROVE  \/ (\A n \in 1..N : ~checks[n][2]) /\ LastCheck(checks) = {}
           \/ \E k \in 1..N : /\ checks[k][2] /\ LastCheck(checks) = {checks[k][1]}
                              /\ \A n \in 1..N : k < n => ~checks[n][2]
<1>1. CASE \A n \in 1..N : ~checks[n][2]
    BY <1>1, LastCheckIs
<1>2. CASE \E n \in 1..N : checks[n][2]
    <2> DEFINE left == {N - n : n \in {m \in 1..N : checks[m][2]}}
    <2>1. left \in SUBSET Nat /\ left # {}
        BY <1>2
    <2>2. PICK x \in left : \A y \in left : x <= y
        <3> HIDE DEF left
        <3> QED BY <2>1, NatsHaveLeast
    <2>3. PICK k \in 1..N : checks[k][2] /\ x = N - k
        OBVIOUS
    <2>4. ASSUME NEW n \in 1..N, k < n PROVE ~checks[n][2]
        <3>1. checks[n][2] => N - n \in left
            OBVIOUS
        <3> HIDE DEF left
        <3> QED BY <2>2, <2>3, <2>4, <3>1
    <2> HIDE DEF left
    <2>5. LastCheck(checks) = {checks[k][1]}
        BY <2>3, <2>4, LastCheckIs
    <2> QED BY <2>3, <2>4, <2>5
<1> QED BY <1>1, <1>2

(* A place says the one label there is for it.                             *)
WordsOf(words) == {words[n] : n \in DOMAIN words}

LEMMA SaidIs ==
    ASSUME NEW words, NEW N \in Nat, DOMAIN words = 1..N, \A n \in 1..N : words[n] # NoLabel,
           NEW labels, NEW part, labels \cap WordsOf(words) = part, part = {} \/ \E w : part = {w}
    PROVE  Said(words, labels) = part
<1>1. PICK arms : arms = [n \in DOMAIN words |-> <<words[n], words[n] \in labels>>]
    OBVIOUS
<1>2. DOMAIN arms = 1..N /\ \A n \in 1..N : arms[n][1] = words[n] /\ (arms[n][2] <=> words[n] \in labels)
    BY <1>1
<1>3. \A w : w \in part <=> w \in labels /\ \E n \in 1..N : w = words[n]
    BY DEF WordsOf
<1>4. CASE (\A n \in 1..N : ~arms[n][2]) /\ FirstArm(arms) = {}
    <2>1. part = {}
        BY <1>2, <1>3, <1>4
    <2>2. Said(words, labels) = {}
        BY <1>1, <1>4 DEF Said
    <2> QED BY <2>1, <2>2
<1>5. ASSUME NEW k \in 1..N, arms[k][2], FirstArm(arms) = {arms[k][1]} \ {NoLabel}
      PROVE  Said(words, labels) = part
    <2>1. words[k] \in part /\ FirstArm(arms) = {words[k]}
        BY <1>2, <1>3, <1>5
    <2>2. Said(words, labels) = {words[k]}
        BY <1>1, <2>1 DEF Said
    <2> QED BY <2>1, <2>2
<1> QED BY <1>2, <1>4, <1>5, FirstArmFits

(* Turned over: a pair is swapped, and every word by itself.               *)
LEMMA TwinsApart ==
    \A t, u \in Twins : t[1] # u[2] /\ (t[1] = u[1] => t = u) /\ (t[2] = u[2] => t = u)
BY DEF Twins

LEMMA OppositeHas ==
    ASSUME NEW L, NEW w
    PROVE  w \in Opposite(L) <=>
             \/ w \in L /\ \A t \in Twins : w # t[1] /\ w # t[2]
             \/ \E t \in Twins : (w = t[2] /\ t[1] \in L) \/ (w = t[1] /\ t[2] \in L)
<1>1. ASSUME NEW t \in Twins
      PROVE  w \in {t[2] : x \in {t[1]} \cap L} \cup {t[1] : x \in {t[2]} \cap L} <=>
               (w = t[2] /\ t[1] \in L) \/ (w = t[1] /\ t[2] \in L)
    OBVIOUS
<1> QED BY <1>1 DEF Opposite

LEMMA OppositeOfTwin ==
    ASSUME NEW t \in Twins
    PROVE  Opposite({t[1]}) = {t[2]} /\ Opposite({t[2]}) = {t[1]}
<1>1. ASSUME NEW w PROVE w \in Opposite({t[1]}) <=> w = t[2]
    BY TwinsApart, OppositeHas
<1>2. ASSUME NEW w PROVE w \in Opposite({t[2]}) <=> w = t[1]
    BY TwinsApart, OppositeHas
<1> QED BY <1>1, <1>2

LEMMA OppositeOfOther ==
    ASSUME NEW w, \A t \in Twins : w # t[1] /\ w # t[2]
    PROVE  Opposite({w}) = {w}
<1>1. ASSUME NEW v PROVE v \in Opposite({w}) <=> v = w
    BY OppositeHas
<1> QED BY <1>1

LEMMA OppositeOfNone == Opposite({}) = {}
<1>1. ASSUME NEW v PROVE v \notin Opposite({})
    BY OppositeHas
<1> QED BY <1>1

LEMMA OppositeOfBoth ==
    ASSUME NEW A, NEW B
    PROVE  Opposite(A \cup B) = Opposite(A) \cup Opposite(B)
<1>1. ASSUME NEW v PROVE v \in Opposite(A \cup B) <=> v \in Opposite(A) \/ v \in Opposite(B)
    BY OppositeHas
<1> QED BY <1>1

-----------------------------------------------------------------------------
(* The limits.                                                             *)
LEMMA BarIs ==
    ASSUME NEW bar \in Bar
    PROVE  /\ bar.o \in Int /\ bar.h \in Int /\ bar.l \in Int /\ bar.c \in Int
           /\ bar.l <= bar.o /\ bar.l <= bar.c /\ bar.o <= bar.h /\ bar.c <= bar.h
BY CandleAssumption DEF Bar

LEMMA LimitRangeIs ==
    ASSUME NEW close \in Int
    PROVE  LimitRange(close) \in Nat
<1>1. PICK table : table = LimitTable
    OBVIOUS
<1>2. table \in Seq(Int \X Nat)
    BY <1>1, CandleAssumption DEF LimitTable
<1>3. PICK above : above = {n \in DOMAIN table : close < table[n][1]}
    OBVIOUS
<1>4. above \in SUBSET Nat /\ above \subseteq DOMAIN table
    BY <1>2, <1>3
<1>5. ASSUME above # {} PROVE table[Min(above)][2] \in Nat
    <2>1. PICK k \in above : \A n \in above : k <= n
        BY <1>4, <1>5, NatsHaveLeast
    <2>2. k \in Int /\ \A n \in above : n \in Int /\ k <= n
        BY <1>4, <2>1
    <2>3. Min(above) = k
        BY <2>2, MinIs
    <2> QED BY <1>2, <1>4, <2>3
<1>6. LimitRange(close) = IF above = {} THEN LastRange ELSE table[Min(above)][2]
    BY <1>1, <1>3 DEF LimitRange
<1> QED BY <1>5, <1>6, CandleAssumption

(* Which of the checks hold, in their order.                               *)
Reached(bar, close) ==
    LET high == close + LimitRange(close)
        low == close - LimitRange(close)
    IN <<HitHigh(bar, high), HitLow(bar, low),
         HitHigh(bar, high) /\ bar.c >= high, HitLow(bar, low) /\ bar.c <= low,
         HitHigh(bar, high) /\ bar.o >= high /\ bar.c < high,
         HitLow(bar, low) /\ bar.o <= low /\ bar.c > low,
         \A p \in {bar.h, bar.o, bar.c, bar.l} : p >= high,
         \A p \in {bar.h, bar.o, bar.c, bar.l} : p <= low>>

LEMMA LimitLabelsAre ==
    ASSUME NEW bar, NEW close
    PROVE  \/ (\A n \in 1..8 : ~Reached(bar, close)[n]) /\ LimitLabels(bar, close) = {}
           \/ \E k \in 1..8 : /\ Reached(bar, close)[k] /\ LimitLabels(bar, close) = {LimitWords[k]}
                              /\ \A n \in 1..8 : k < n => ~Reached(bar, close)[n]
<1>1. PICK on : on = Reached(bar, close)
    OBVIOUS
<1>2. PICK checks : checks = <<<<"LIMIT_HIGH_TOUCH", on[1]>>, <<"LIMIT_LOW_TOUCH", on[2]>>,
                               <<"LIMIT_HIGH_TOUCH_STUCK", on[3]>>, <<"LIMIT_LOW_TOUCH_STUCK", on[4]>>,
                               <<"LIMIT_HIGH_OPEN_ONLY", on[5]>>, <<"LIMIT_LOW_OPEN_ONLY", on[6]>>,
                               <<"LIMIT_HIGH_FULL_STUCK", on[7]>>, <<"LIMIT_LOW_FULL_STUCK", on[8]>>>>
    OBVIOUS
<1>3. LimitLabels(bar, close) = LastCheck(checks)
    BY <1>1, <1>2 DEF LimitLabels, Reached
<1>4. DOMAIN checks = 1..8 /\ \A n \in 1..8 : checks[n][1] = LimitWords[n] /\ (checks[n][2] <=> on[n])
    <2>1. DOMAIN checks = 1..8
        BY <1>2
    <2>2. \A n \in 1..8 : n = 1 \/ n = 2 \/ n = 3 \/ n = 4 \/ n = 5 \/ n = 6 \/ n = 7 \/ n = 8
        OBVIOUS
    <2>3. /\ checks[1][2] = on[1] /\ checks[2][2] = on[2] /\ checks[3][2] = on[3] /\ checks[4][2] = on[4]
          /\ checks[5][2] = on[5] /\ checks[6][2] = on[6] /\ checks[7][2] = on[7] /\ checks[8][2] = on[8]
        BY <1>2
    <2>4. /\ checks[1][1] = LimitWords[1] /\ checks[2][1] = LimitWords[2]
          /\ checks[3][1] = LimitWords[3] /\ checks[4][1] = LimitWords[4]
          /\ checks[5][1] = LimitWords[5] /\ checks[6][1] = LimitWords[6]
          /\ checks[7][1] = LimitWords[7] /\ checks[8][1] = LimitWords[8]
        BY <1>2 DEF LimitWords
    <2> QED BY <2>1, <2>2, <2>3, <2>4
<1>5. \/ (\A n \in 1..8 : ~checks[n][2]) /\ LastCheck(checks) = {}
      \/ \E k \in 1..8 : /\ checks[k][2] /\ LastCheck(checks) = {checks[k][1]}
                         /\ \A n \in 1..8 : k < n => ~checks[n][2]
    <2>1. 8 \in Nat
        OBVIOUS
    <2> QED BY <1>4, <2>1, LastCheckFits
<1> QED BY <1>1, <1>3, <1>4, <1>5

Ordered(bar) ==
    /\ bar.o \in Int /\ bar.h \in Int /\ bar.l \in Int /\ bar.c \in Int
    /\ bar.l <= bar.o /\ bar.l <= bar.c /\ bar.o <= bar.h /\ bar.c <= bar.h

\* A bar upside down, about a close.
Turned(bar, close) == [o |-> 2 * close - bar.o, h |-> 2 * close - bar.l,
                       l |-> 2 * close - bar.h, c |-> 2 * close - bar.c]

LEMMA TurnedIs ==
    ASSUME NEW bar, Ordered(bar), NEW close \in Int
    PROVE  /\ Ordered(Turned(bar, close))
           /\ Turned(bar, close).o = 2 * close - bar.o /\ Turned(bar, close).h = 2 * close - bar.l
           /\ Turned(bar, close).l = 2 * close - bar.h /\ Turned(bar, close).c = 2 * close - bar.c
BY DEF Ordered, Turned

LEMMA ReachedIs ==
    ASSUME NEW bar, Ordered(bar), NEW close \in Int, NEW R \in Nat, R = LimitRange(close)
    PROVE  /\ Reached(bar, close)[1] <=> bar.h >= close + R
           /\ Reached(bar, close)[2] <=> bar.l <= close - R
           /\ Reached(bar, close)[3] <=> bar.c >= close + R
           /\ Reached(bar, close)[4] <=> bar.c <= close - R
           /\ Reached(bar, close)[5] <=> bar.o >= close + R /\ bar.c < close + R
           /\ Reached(bar, close)[6] <=> bar.o <= close - R /\ bar.c > close - R
           /\ Reached(bar, close)[7] <=> bar.l >= close + R
           /\ Reached(bar, close)[8] <=> bar.h <= close - R
<1>1. PICK high \in Int : high = close + R
    OBVIOUS
<1>2. PICK low \in Int : low = close - R
    OBVIOUS
<1>3. /\ Reached(bar, close)[1] = HitHigh(bar, high) /\ Reached(bar, close)[2] = HitLow(bar, low)
      /\ Reached(bar, close)[3] = (HitHigh(bar, high) /\ bar.c >= high)
      /\ Reached(bar, close)[4] = (HitLow(bar, low) /\ bar.c <= low)
      /\ Reached(bar, close)[5] = (HitHigh(bar, high) /\ bar.o >= high /\ bar.c < high)
      /\ Reached(bar, close)[6] = (HitLow(bar, low) /\ bar.o <= low /\ bar.c > low)
      /\ Reached(bar, close)[7] = (\A p \in {bar.h, bar.o, bar.c, bar.l} : p >= high)
      /\ Reached(bar, close)[8] = (\A p \in {bar.h, bar.o, bar.c, bar.l} : p <= low)
    BY <1>1, <1>2 DEF Reached
<1>4. /\ (HitHigh(bar, high) <=> bar.h >= high) /\ (HitLow(bar, low) <=> bar.l <= low)
      /\ (\A p \in {bar.h, bar.o, bar.c, bar.l} : p >= high) <=> bar.l >= high
      /\ (\A p \in {bar.h, bar.o, bar.c, bar.l} : p <= low) <=> bar.h <= low
      /\ (bar.c >= high => bar.h >= high) /\ (bar.o >= high => bar.h >= high)
      /\ (bar.c <= low => bar.l <= low) /\ (bar.o <= low => bar.l <= low)
    BY DEF HitHigh, HitLow, Ordered
<1> QED BY <1>1, <1>2, <1>3, <1>4

LEMMA TwinLimits ==
    \A k \in {1, 3, 5, 7} : <<LimitWords[k], LimitWords[k + 1]>> \in Twins
BY DEF LimitWords, Twins

LEMMA LimitsTurned ==
    ASSUME NEW bar, Ordered(bar), NEW close \in Int, ~TouchesBothLimits(bar, close)
    PROVE  LimitLabels(Turned(bar, close), close) = Opposite(LimitLabels(bar, close))
<1>1. PICK R \in Nat : R = LimitRange(close)
    BY LimitRangeIs
<1>2. PICK turn : turn = Turned(bar, close)
    OBVIOUS
<1>3. Ordered(turn) /\ turn.o = 2 * close - bar.o /\ turn.h = 2 * close - bar.l
      /\ turn.l = 2 * close - bar.h /\ turn.c = 2 * close - bar.c
    BY <1>2, TurnedIs
<1>4. PICK on : on = Reached(bar, close)
    OBVIOUS
<1>5. PICK onTurned : onTurned = Reached(turn, close)
    OBVIOUS
<1>6. /\ on[1] <=> bar.h >= close + R
      /\ on[2] <=> bar.l <= close - R
      /\ on[3] <=> bar.c >= close + R
      /\ on[4] <=> bar.c <= close - R
      /\ on[5] <=> bar.o >= close + R /\ bar.c < close + R
      /\ on[6] <=> bar.o <= close - R /\ bar.c > close - R
      /\ on[7] <=> bar.l >= close + R
      /\ on[8] <=> bar.h <= close - R
    BY <1>1, <1>4, ReachedIs
<1>7. /\ onTurned[1] <=> turn.h >= close + R
      /\ onTurned[2] <=> turn.l <= close - R
      /\ onTurned[3] <=> turn.c >= close + R
      /\ onTurned[4] <=> turn.c <= close - R
      /\ onTurned[5] <=> turn.o >= close + R /\ turn.c < close + R
      /\ onTurned[6] <=> turn.o <= close - R /\ turn.c > close - R
      /\ onTurned[7] <=> turn.l >= close + R
      /\ onTurned[8] <=> turn.h <= close - R
    BY <1>1, <1>3, <1>5, ReachedIs
<1>8. /\ (onTurned[1] <=> on[2]) /\ (onTurned[2] <=> on[1]) /\ (onTurned[3] <=> on[4])
      /\ (onTurned[4] <=> on[3]) /\ (onTurned[5] <=> on[6]) /\ (onTurned[6] <=> on[5])
      /\ (onTurned[7] <=> on[8]) /\ (onTurned[8] <=> on[7])
    BY <1>3, <1>6, <1>7 DEF Ordered
<1>9. /\ on[3] \/ on[5] \/ on[7] => on[1]
      /\ on[4] \/ on[6] \/ on[8] => on[2]
      /\ ~(on[1] /\ on[2])
    BY <1>1, <1>6 DEF Ordered, TouchesBothLimits
<1>10. \A n \in 1..8 : n = 1 \/ n = 2 \/ n = 3 \/ n = 4 \/ n = 5 \/ n = 6 \/ n = 7 \/ n = 8
    OBVIOUS
<1>11. /\ \/ (\A n \in 1..8 : ~on[n]) /\ LimitLabels(bar, close) = {}
          \/ \E k \in 1..8 : /\ on[k] /\ LimitLabels(bar, close) = {LimitWords[k]}
                             /\ \A n \in 1..8 : k < n => ~on[n]
       /\ \/ (\A n \in 1..8 : ~onTurned[n]) /\ LimitLabels(turn, close) = {}
          \/ \E k \in 1..8 : /\ onTurned[k] /\ LimitLabels(turn, close) = {LimitWords[k]}
                             /\ \A n \in 1..8 : k < n => ~onTurned[n]
    BY <1>4, <1>5, LimitLabelsAre
<1>12. CASE \A n \in 1..8 : ~on[n]
    <2>1. \A n \in 1..8 : ~onTurned[n]
        BY <1>8, <1>10, <1>12
    <2>2. LimitLabels(bar, close) = {} /\ LimitLabels(turn, close) = {}
        BY <1>11, <1>12, <2>1
    <2> QED BY <1>2, <2>2, OppositeOfNone
<1>13. ASSUME NEW k \in 1..8, on[k], LimitLabels(bar, close) = {LimitWords[k]},
              \A n \in 1..8 : k < n => ~on[n]
       PROVE  LimitLabels(turn, close) = Opposite(LimitLabels(bar, close))
    <2>1. PICK j \in 1..8 : /\ onTurned[j] /\ LimitLabels(turn, close) = {LimitWords[j]}
                            /\ \A n \in 1..8 : j < n => ~onTurned[n]
        BY <1>8, <1>10, <1>11, <1>13
    <2>2. (k \in {1, 3, 5, 7} /\ j = k + 1) \/ (j \in {1, 3, 5, 7} /\ k = j + 1)
        BY <1>8, <1>9, <1>10, <1>13, <2>1
    <2>3. CASE k \in {1, 3, 5, 7} /\ j = k + 1
        <3>1. PICK t \in Twins : t[1] = LimitWords[k] /\ t[2] = LimitWords[j]
            BY <2>3, TwinLimits
        <3> QED BY <1>13, <2>1, <3>1, OppositeOfTwin
    <2>4. CASE j \in {1, 3, 5, 7} /\ k = j + 1
        <3>1. PICK t \in Twins : t[1] = LimitWords[j] /\ t[2] = LimitWords[k]
            BY <2>4, TwinLimits
        <3> QED BY <1>13, <2>1, <3>1, OppositeOfTwin
    <2> QED BY <2>2, <2>3, <2>4
<1> QED BY <1>2, <1>11, <1>12, <1>13

-----------------------------------------------------------------------------
(* The shape of a bar, and which arms of it hold.                          *)
LEMMA FeaturesAre ==
    ASSUME NEW ch, Len(ch) \in Nat, NEW bar, bar = ch[Len(ch)]
    PROVE  /\ Features(ch).range = bar.h - bar.l /\ Features(ch).body = Apart(bar.c, bar.o)
           /\ Features(ch).upper = bar.h - Greater(bar.o, bar.c)
           /\ Features(ch).lower = Lesser(bar.o, bar.c) - bar.l
           /\ Features(ch).gap = Unknown
<1>1. AlignedClose(ch, Len(ch)) = Unknown
    BY DEF AlignedClose
<1>2. TrueRange(ch, Len(ch)) = bar.h - bar.l
    BY <1>1 DEF TrueRange
<1> QED BY <1>1, <1>2 DEF Features

LEMMA NothingIsOdd ==
    ASSUME NEW bar, NEW f, f.gap = Unknown
    PROVE  OddLabels(bar, f) = {}
BY DEF OddLabels

\* The shape of f and that of the bar upside down.
LikeTurned(f, g) ==
    /\ f.range \in Int /\ f.body \in Int /\ f.upper \in Int /\ f.lower \in Int
    /\ g.range = f.range /\ g.body = f.body /\ g.upper = f.lower /\ g.lower = f.upper

LEMMA ShapeTurned ==
    ASSUME NEW bar, Ordered(bar), NEW close \in Int, NEW f, NEW g,
           f.range = bar.h - bar.l, f.body = Apart(bar.c, bar.o),
           f.upper = bar.h - Greater(bar.o, bar.c), f.lower = Lesser(bar.o, bar.c) - bar.l,
           g.range = Turned(bar, close).h - Turned(bar, close).l,
           g.body = Apart(Turned(bar, close).c, Turned(bar, close).o),
           g.upper = Turned(bar, close).h - Greater(Turned(bar, close).o, Turned(bar, close).c),
           g.lower = Lesser(Turned(bar, close).o, Turned(bar, close).c) - Turned(bar, close).l
    PROVE  LikeTurned(f, g)
<1>1. PICK o, h, l, c \in Int : o = bar.o /\ h = bar.h /\ l = bar.l /\ c = bar.c
    BY DEF Ordered
<1>2. /\ Turned(bar, close).o = 2 * close - o /\ Turned(bar, close).h = 2 * close - l
      /\ Turned(bar, close).l = 2 * close - h /\ Turned(bar, close).c = 2 * close - c
    BY <1>1, TurnedIs
<1>3. f.range = h - l /\ g.range = (2 * close - l) - (2 * close - h)
    BY <1>1, <1>2
<1>4. f.body = Apart(c, o) /\ g.body = Apart(2 * close - c, 2 * close - o)
    BY <1>1, <1>2
<1>5. f.upper = h - Greater(o, c) /\ g.upper = (2 * close - l) - Greater(2 * close - o, 2 * close - c)
    BY <1>1, <1>2
<1>6. f.lower = Lesser(o, c) - l /\ g.lower = Lesser(2 * close - o, 2 * close - c) - (2 * close - h)
    BY <1>1, <1>2
<1>7. f.range \in Int /\ g.range = f.range
    BY <1>3
<1>8. f.body \in Int /\ g.body = f.body
    BY <1>4 DEF Apart
<1>9. f.upper \in Int /\ g.lower = f.upper
    BY <1>5, <1>6 DEF Greater, Lesser
<1>10. f.lower \in Int /\ g.upper = f.lower
    BY <1>5, <1>6 DEF Greater, Lesser
<1> QED BY <1>7, <1>8, <1>9, <1>10 DEF LikeTurned

LEMMA FeaturesTurned ==
    ASSUME NEW ch, NEW turned, Len(ch) \in Nat, Len(turned) = Len(ch),
           NEW bar, bar = ch[Len(ch)], Ordered(bar), NEW close \in Int,
           turned[Len(turned)] = Turned(bar, close)
    PROVE  LikeTurned(Features(ch), Features(turned))
<1>1. PICK f, g : f = Features(ch) /\ g = Features(turned)
    OBVIOUS
<1>2. PICK turn : turn = Turned(bar, close)
    OBVIOUS
<1>3. /\ f.range = bar.h - bar.l /\ f.body = Apart(bar.c, bar.o)
      /\ f.upper = bar.h - Greater(bar.o, bar.c)
      /\ f.lower = Lesser(bar.o, bar.c) - bar.l
    BY <1>1, FeaturesAre
<1>4. /\ g.range = turn.h - turn.l /\ g.body = Apart(turn.c, turn.o)
      /\ g.upper = turn.h - Greater(turn.o, turn.c)
      /\ g.lower = Lesser(turn.o, turn.c) - turn.l
    BY <1>1, <1>2, FeaturesAre
<1> QED BY <1>1, <1>2, <1>3, <1>4, ShapeTurned

BodyHolds(f) ==
    <<AtMost(f, f.body, 10), AtLeast(f, f.body, 70) /\ AtMost(f, Greater(f.upper, f.lower), 15),
      AtLeast(f, f.body, 70), AtLeast(f, f.body, 55), AtMost(f, f.body, 25), TRUE>>
BodyWords == <<"DOJI", "BODY_MARUBOZU_LIKE", NoLabel, "BODY_LONG", "BODY_SMALL", "BODY_MIDDLE">>

LEMMA BodyLabelsAre ==
    ASSUME NEW f
    PROVE  \E k \in 1..6 : BodyHolds(f)[k] /\ BodyLabels(f) = {BodyWords[k]} \ {NoLabel}
<1>1. PICK on : on = BodyHolds(f)
    OBVIOUS
<1>2. PICK arms : arms = <<<<"DOJI", on[1]>>, <<"BODY_MARUBOZU_LIKE", on[2]>>, <<NoLabel, on[3]>>,
                           <<"BODY_LONG", on[4]>>, <<"BODY_SMALL", on[5]>>, <<"BODY_MIDDLE", on[6]>>>>
    OBVIOUS
<1>3. BodyLabels(f) = FirstArm(arms)
    BY <1>1, <1>2 DEF BodyLabels, BodyHolds
<1>4. DOMAIN arms = 1..6 /\ \A n \in 1..6 : arms[n][1] = BodyWords[n] /\ (arms[n][2] <=> on[n])
    <2>1. DOMAIN arms = 1..6
        BY <1>2
    <2>2. \A n \in 1..6 : n = 1 \/ n = 2 \/ n = 3 \/ n = 4 \/ n = 5 \/ n = 6
        OBVIOUS
    <2>3. /\ arms[1][2] = on[1] /\ arms[2][2] = on[2] /\ arms[3][2] = on[3]
          /\ arms[4][2] = on[4] /\ arms[5][2] = on[5] /\ arms[6][2] = on[6]
        BY <1>2
    <2>4. /\ arms[1][1] = BodyWords[1] /\ arms[2][1] = BodyWords[2] /\ arms[3][1] = BodyWords[3]
          /\ arms[4][1] = BodyWords[4] /\ arms[5][1] = BodyWords[5] /\ arms[6][1] = BodyWords[6]
        BY <1>2 DEF BodyWords
    <2> QED BY <2>1, <2>2, <2>3, <2>4
<1>5. on[6]
    BY <1>1 DEF BodyHolds
<1>6. 6 \in Nat /\ 6 \in 1..6
    OBVIOUS
<1>7. PICK k \in 1..6 : arms[k][2] /\ FirstArm(arms) = {arms[k][1]} \ {NoLabel}
    <2>1. ~(\A n \in 1..6 : ~arms[n][2])
        BY <1>4, <1>5, <1>6
    <2>2. DOMAIN arms = 1..6
        BY <1>4
    <2> QED BY <1>6, <2>1, <2>2, FirstArmFits
<1> QED BY <1>1, <1>3, <1>4, <1>7

LEMMA BodyTurned ==
    ASSUME NEW f, NEW g, LikeTurned(f, g)
    PROVE  BodyLabels(g) = BodyLabels(f)
<1>1. Greater(g.upper, g.lower) = Greater(f.upper, f.lower)
    BY DEF LikeTurned, Greater
<1>2. \A p, q : AtLeast(g, p, q) = AtLeast(f, p, q) /\ AtMost(g, p, q) = AtMost(f, p, q)
    BY DEF LikeTurned, AtLeast, AtMost
<1>3. g.body = f.body
    BY DEF LikeTurned
<1>4. /\ AtMost(g, g.body, 10) = AtMost(f, f.body, 10) /\ AtLeast(g, g.body, 70) = AtLeast(f, f.body, 70)
      /\ AtMost(g, Greater(g.upper, g.lower), 15) = AtMost(f, Greater(f.upper, f.lower), 15)
      /\ AtLeast(g, g.body, 55) = AtLeast(f, f.body, 55) /\ AtMost(g, g.body, 25) = AtMost(f, f.body, 25)
    BY <1>1, <1>2, <1>3, Zenon
<1> QED BY <1>4, Zenon DEF BodyLabels

WickHolds(f) ==
    <<AtLeast(f, f.upper, 45) /\ AtLeast(f, f.lower, 45), AtLeast(f, f.upper, 25) /\ AtLeast(f, f.lower, 25),
      AtLeast(f, f.upper, 45), AtLeast(f, f.lower, 45), AtLeast(f, f.upper, 25), AtLeast(f, f.lower, 25)>>
WickWords == Places[4]

LEMMA WickLabelsAre ==
    ASSUME NEW f
    PROVE  \/ (\A n \in 1..6 : ~WickHolds(f)[n]) /\ WickLabels(f) = {}
           \/ \E k \in 1..6 : /\ WickHolds(f)[k] /\ WickLabels(f) = {WickWords[k]}
                              /\ \A n \in 1..6 : n < k => ~WickHolds(f)[n]
<1>1. PICK on : on = WickHolds(f)
    OBVIOUS
<1>2. PICK arms : arms = <<<<"WICK_BOTH_LONG", on[1]>>, <<"WICK_BOTH_PRESENT", on[2]>>,
                           <<"WICK_UPPER_LONG", on[3]>>, <<"WICK_LOWER_LONG", on[4]>>,
                           <<"WICK_UPPER_PRESENT", on[5]>>, <<"WICK_LOWER_PRESENT", on[6]>>>>
    OBVIOUS
<1>3. WickLabels(f) = FirstArm(arms)
    BY <1>1, <1>2 DEF WickLabels, WickHolds
<1>4. /\ DOMAIN arms = 1..6
      /\ \A n \in 1..6 : arms[n][1] = WickWords[n] /\ (arms[n][2] <=> on[n]) /\ WickWords[n] # NoLabel
    <2>1. DOMAIN arms = 1..6
        BY <1>2
    <2>2. \A n \in 1..6 : n = 1 \/ n = 2 \/ n = 3 \/ n = 4 \/ n = 5 \/ n = 6
        OBVIOUS
    <2>3. /\ arms[1][2] = on[1] /\ arms[2][2] = on[2] /\ arms[3][2] = on[3]
          /\ arms[4][2] = on[4] /\ arms[5][2] = on[5] /\ arms[6][2] = on[6]
        BY <1>2
    <2>4. /\ arms[1][1] = WickWords[1] /\ arms[2][1] = WickWords[2] /\ arms[3][1] = WickWords[3]
          /\ arms[4][1] = WickWords[4] /\ arms[5][1] = WickWords[5] /\ arms[6][1] = WickWords[6]
        BY <1>2 DEF WickWords, Places
    <2>5. /\ WickWords[1] # NoLabel /\ WickWords[2] # NoLabel /\ WickWords[3] # NoLabel
          /\ WickWords[4] # NoLabel /\ WickWords[5] # NoLabel /\ WickWords[6] # NoLabel
        BY DEF WickWords, Places, NoLabel
    <2> QED BY <2>1, <2>2, <2>3, <2>4, <2>5
<1>5. \/ (\A n \in 1..6 : ~arms[n][2]) /\ FirstArm(arms) = {}
      \/ \E k \in 1..6 : /\ arms[k][2] /\ FirstArm(arms) = {arms[k][1]} \ {NoLabel}
                         /\ \A n \in 1..6 : n < k => ~arms[n][2]
    <2>1. 6 \in Nat
        OBVIOUS
    <2> QED BY <1>4, <2>1, FirstArmFits
<1> QED BY <1>1, <1>3, <1>4, <1>5

LEMMA WickTurned ==
    ASSUME NEW f, NEW g, LikeTurned(f, g)
    PROVE  WickLabels(g) = Opposite(WickLabels(f))
<1>1. PICK on : on = WickHolds(f)
    OBVIOUS
<1>2. PICK onTurned : onTurned = WickHolds(g)
    OBVIOUS
<1>3. /\ \A p, q : AtLeast(g, p, q) = AtLeast(f, p, q)
      /\ g.upper = f.lower /\ g.lower = f.upper
    BY DEF LikeTurned, AtLeast
<1>4. /\ on[1] = (AtLeast(f, f.upper, 45) /\ AtLeast(f, f.lower, 45))
      /\ on[2] = (AtLeast(f, f.upper, 25) /\ AtLeast(f, f.lower, 25))
      /\ on[3] = AtLeast(f, f.upper, 45) /\ on[4] = AtLeast(f, f.lower, 45)
      /\ on[5] = AtLeast(f, f.upper, 25) /\ on[6] = AtLeast(f, f.lower, 25)
    BY <1>1 DEF WickHolds
<1>5. /\ onTurned[1] = (AtLeast(f, f.lower, 45) /\ AtLeast(f, f.upper, 45))
      /\ onTurned[2] = (AtLeast(f, f.lower, 25) /\ AtLeast(f, f.upper, 25))
      /\ onTurned[3] = AtLeast(f, f.lower, 45) /\ onTurned[4] = AtLeast(f, f.upper, 45)
      /\ onTurned[5] = AtLeast(f, f.lower, 25) /\ onTurned[6] = AtLeast(f, f.upper, 25)
    <2>1. /\ onTurned[1] = (AtLeast(g, g.upper, 45) /\ AtLeast(g, g.lower, 45))
          /\ onTurned[2] = (AtLeast(g, g.upper, 25) /\ AtLeast(g, g.lower, 25))
          /\ onTurned[3] = AtLeast(g, g.upper, 45) /\ onTurned[4] = AtLeast(g, g.lower, 45)
          /\ onTurned[5] = AtLeast(g, g.upper, 25) /\ onTurned[6] = AtLeast(g, g.lower, 25)
        BY <1>2 DEF WickHolds
    <2> QED BY <1>3, <2>1
<1>6. /\ (on[1] <=> on[3] /\ on[4]) /\ (on[2] <=> on[5] /\ on[6])
      /\ (onTurned[1] <=> on[1]) /\ (onTurned[2] <=> on[2]) /\ (onTurned[3] <=> on[4])
      /\ (onTurned[4] <=> on[3]) /\ (onTurned[5] <=> on[6]) /\ (onTurned[6] <=> on[5])
    BY <1>4, <1>5
<1>7. \A n \in 1..6 : n = 1 \/ n = 2 \/ n = 3 \/ n = 4 \/ n = 5 \/ n = 6
    OBVIOUS
<1>8. /\ \/ (\A n \in 1..6 : ~on[n]) /\ WickLabels(f) = {}
         \/ \E k \in 1..6 : /\ on[k] /\ WickLabels(f) = {WickWords[k]}
                            /\ \A n \in 1..6 : n < k => ~on[n]
      /\ \/ (\A n \in 1..6 : ~onTurned[n]) /\ WickLabels(g) = {}
         \/ \E k \in 1..6 : /\ onTurned[k] /\ WickLabels(g) = {WickWords[k]}
                            /\ \A n \in 1..6 : n < k => ~onTurned[n]
    BY <1>1, <1>2, WickLabelsAre
<1>9. CASE \A n \in 1..6 : ~on[n]
    <2>1. \A n \in 1..6 : ~onTurned[n]
        BY <1>6, <1>7, <1>9
    <2>2. WickLabels(f) = {} /\ WickLabels(g) = {}
        BY <1>8, <1>9, <2>1
    <2> QED BY <2>2, OppositeOfNone
<1>10. ASSUME NEW k \in 1..6, on[k], WickLabels(f) = {WickWords[k]},
              \A n \in 1..6 : n < k => ~on[n]
       PROVE  WickLabels(g) = Opposite(WickLabels(f))
    <2>1. PICK j \in 1..6 : /\ onTurned[j] /\ WickLabels(g) = {WickWords[j]}
                            /\ \A n \in 1..6 : n < j => ~onTurned[n]
        BY <1>6, <1>7, <1>8, <1>10
    <2>2. \/ k \in {1, 2} /\ j = k
          \/ k \in {3, 5} /\ j = k + 1
          \/ j \in {3, 5} /\ k = j + 1
        BY <1>6, <1>7, <1>10, <2>1
    <2>3. \A n \in {3, 5} : <<WickWords[n], WickWords[n + 1]>> \in Twins
        BY DEF WickWords, Places, Twins
    <2>4. \A n \in {1, 2} : \A t \in Twins : WickWords[n] # t[1] /\ WickWords[n] # t[2]
        BY DEF WickWords, Places, Twins
    <2>5. CASE k \in {1, 2} /\ j = k
        BY <1>10, <2>1, <2>4, <2>5, OppositeOfOther
    <2>6. CASE k \in {3, 5} /\ j = k + 1
        <3>1. PICK t \in Twins : t[1] = WickWords[k] /\ t[2] = WickWords[j]
            BY <2>3, <2>6
        <3> QED BY <1>10, <2>1, <3>1, OppositeOfTwin
    <2>7. CASE j \in {3, 5} /\ k = j + 1
        <3>1. PICK t \in Twins : t[1] = WickWords[j] /\ t[2] = WickWords[k]
            BY <2>3, <2>7
        <3> QED BY <1>10, <2>1, <3>1, OppositeOfTwin
    <2> QED BY <2>2, <2>5, <2>6, <2>7
<1> QED BY <1>8, <1>9, <1>10

LEMMA FirstOfTwo ==
    ASSUME NEW x, NEW y, NEW on, x # NoLabel, y # NoLabel
    PROVE  FirstArm(<<<<x, on[1]>>, <<y, on[2]>>>>) = IF on[1] THEN {x} ELSE IF on[2] THEN {y} ELSE {}
<1>1. PICK arms : arms = <<<<x, on[1]>>, <<y, on[2]>>>>
    OBVIOUS
<1>2. DOMAIN arms = 1..2 /\ arms[1][1] = x /\ arms[2][1] = y /\ arms[1][2] = on[1] /\ arms[2][2] = on[2]
    BY <1>1
<1>3. 2 \in Nat /\ \A n \in 1..2 : n = 1 \/ n = 2
    OBVIOUS
<1>4. /\ (\A n \in 1..2 : ~arms[n][2]) => FirstArm(arms) = {}
      /\ \A k \in 1..2 : (arms[k][2] /\ \A n \in 1..2 : n < k => ~arms[n][2])
            => FirstArm(arms) = {arms[k][1]} \ {NoLabel}
    BY <1>2, <1>3, FirstArmIs
<1>5. ASSUME on[1] PROVE FirstArm(arms) = {x}
    <2>1. 1 \in 1..2 /\ arms[1][2] /\ \A n \in 1..2 : ~(n < 1)
        BY <1>2, <1>5
    <2> QED BY <1>2, <1>4, <2>1
<1>6. ASSUME ~on[1], on[2] PROVE FirstArm(arms) = {y}
    <2>1. 2 \in 1..2 /\ arms[2][2] /\ \A n \in 1..2 : n < 2 => ~arms[n][2]
        BY <1>2, <1>3, <1>6
    <2> QED BY <1>2, <1>4, <2>1
<1>7. ASSUME ~on[1], ~on[2] PROVE FirstArm(arms) = {}
    BY <1>2, <1>3, <1>4, <1>7
<1> QED BY <1>1, <1>5, <1>6, <1>7

LEMMA DirLabelsAre ==
    ASSUME NEW bar
    PROVE  DirLabels(bar) = IF bar.c > bar.o THEN {"DIR_BULL"} ELSE IF bar.c < bar.o THEN {"DIR_BEAR"} ELSE {}
<1>1. PICK on : on = <<bar.c > bar.o, bar.c < bar.o>>
    OBVIOUS
<1>2. on[1] = (bar.c > bar.o) /\ on[2] = (bar.c < bar.o)
    BY <1>1
<1>3. DirLabels(bar) = FirstArm(<<<<"DIR_BULL", on[1]>>, <<"DIR_BEAR", on[2]>>>>)
    BY <1>2 DEF DirLabels
<1>4. "DIR_BULL" # NoLabel /\ "DIR_BEAR" # NoLabel
    BY DEF NoLabel
<1>5. FirstArm(<<<<"DIR_BULL", on[1]>>, <<"DIR_BEAR", on[2]>>>>) = IF on[1] THEN {"DIR_BULL"} ELSE IF on[2] THEN {"DIR_BEAR"} ELSE {}
    BY <1>4, FirstOfTwo
<1> QED BY <1>2, <1>3, <1>5

LEMMA WindowLabelsAre ==
    ASSUME NEW old, NEW bar
    PROVE  WindowLabels(old, bar) =
             IF old.h < bar.l THEN {"GAP_DOWN"} ELSE IF old.l > bar.h THEN {"GAP_UP"} ELSE {}
<1>1. PICK on : on = <<old.h < bar.l, old.l > bar.h>>
    OBVIOUS
<1>2. on[1] = (old.h < bar.l) /\ on[2] = (old.l > bar.h)
    BY <1>1
<1>3. WindowLabels(old, bar) = FirstArm(<<<<"GAP_DOWN", on[1]>>, <<"GAP_UP", on[2]>>>>)
    BY <1>2 DEF WindowLabels
<1>4. "GAP_DOWN" # NoLabel /\ "GAP_UP" # NoLabel
    BY DEF NoLabel
<1>5. FirstArm(<<<<"GAP_DOWN", on[1]>>, <<"GAP_UP", on[2]>>>>) = IF on[1] THEN {"GAP_DOWN"} ELSE IF on[2] THEN {"GAP_UP"} ELSE {}
    BY <1>4, FirstOfTwo
<1> QED BY <1>2, <1>3, <1>5

LEMMA DirTurned ==
    ASSUME NEW bar, Ordered(bar), NEW close \in Int
    PROVE  DirLabels(Turned(bar, close)) = Opposite(DirLabels(bar))
<1>1. PICK turn : turn = Turned(bar, close)
    OBVIOUS
<1>2. Ordered(turn) /\ turn.o = 2 * close - bar.o /\ turn.c = 2 * close - bar.c
    BY <1>1, TurnedIs
<1>3. (turn.c > turn.o <=> bar.c < bar.o) /\ (turn.c < turn.o <=> bar.c > bar.o) /\ ~(bar.c > bar.o /\ bar.c < bar.o)
    BY <1>2 DEF Ordered
<1>4. /\ DirLabels(bar) = IF bar.c > bar.o THEN {"DIR_BULL"} ELSE IF bar.c < bar.o THEN {"DIR_BEAR"} ELSE {}
      /\ DirLabels(turn) = IF bar.c < bar.o THEN {"DIR_BULL"} ELSE IF bar.c > bar.o THEN {"DIR_BEAR"} ELSE {}
    BY <1>3, DirLabelsAre
<1>5. Opposite({"DIR_BULL"}) = {"DIR_BEAR"} /\ Opposite({"DIR_BEAR"}) = {"DIR_BULL"}
    <2>1. PICK t \in Twins : t[1] = "DIR_BULL" /\ t[2] = "DIR_BEAR"
        BY DEF Twins
    <2> QED BY <2>1, OppositeOfTwin
<1> QED BY <1>1, <1>3, <1>4, <1>5, OppositeOfNone

LEMMA WindowTurned ==
    ASSUME NEW old, NEW bar, NEW close \in Int, Ordered(old), Ordered(bar)
    PROVE  WindowLabels(Turned(old, close), Turned(bar, close)) = Opposite(WindowLabels(old, bar))
<1>1. PICK oldT : oldT = Turned(old, close)
    OBVIOUS
<1>2. PICK barT : barT = Turned(bar, close)
    OBVIOUS
<1>3. /\ oldT.h = 2 * close - old.l /\ oldT.l = 2 * close - old.h
      /\ barT.h = 2 * close - bar.l /\ barT.l = 2 * close - bar.h
    BY <1>1, <1>2, TurnedIs
<1>4. (oldT.h < barT.l <=> old.l > bar.h) /\ (oldT.l > barT.h <=> old.h < bar.l)
      /\ ~(old.l > bar.h /\ old.h < bar.l)
    BY <1>3 DEF Ordered
<1>5. /\ WindowLabels(old, bar) = IF old.h < bar.l THEN {"GAP_DOWN"} ELSE IF old.l > bar.h THEN {"GAP_UP"} ELSE {}
      /\ WindowLabels(oldT, barT) = IF old.l > bar.h THEN {"GAP_DOWN"} ELSE IF old.h < bar.l THEN {"GAP_UP"} ELSE {}
    BY <1>4, WindowLabelsAre
<1>6. Opposite({"GAP_DOWN"}) = {"GAP_UP"} /\ Opposite({"GAP_UP"}) = {"GAP_DOWN"}
    <2>1. PICK t \in Twins : t[1] = "GAP_UP" /\ t[2] = "GAP_DOWN"
        BY DEF Twins
    <2> QED BY <2>1, OppositeOfTwin
<1> QED BY <1>1, <1>2, <1>4, <1>5, <1>6, OppositeOfNone

-----------------------------------------------------------------------------
(* The labels of a day, place by place of the sentence.                    *)
OneOf(labels, words) == labels = {} \/ \E w \in words : labels = {w}

LEMMA SizeLabelsAre ==
    ASSUME NEW q
    PROVE  OneOf(SizeLabels(q), WordsOf(Places[3]))
<1>1. CASE q = Unknown
    BY <1>1 DEF SizeLabels, OneOf
<1>2. CASE q # Unknown
    <2>1. PICK on : on = <<q >= 95, q >= 85, q < 15, q < 40>>
        OBVIOUS
    <2>2. PICK arms : arms = <<<<"RANGE_VERY_LARGE", on[1]>>, <<"RANGE_LARGE", on[2]>>,
                               <<"RANGE_VERY_SMALL", on[3]>>, <<"RANGE_SMALL", on[4]>>>>
        OBVIOUS
    <2>3. SizeLabels(q) = FirstArm(arms)
        BY <1>2, <2>1, <2>2 DEF SizeLabels
    <2>4. DOMAIN arms = 1..4 /\ \A n \in 1..4 : n = 1 \/ n = 2 \/ n = 3 \/ n = 4
        BY <2>2
    <2>5. /\ arms[1][1] = "RANGE_VERY_LARGE" /\ arms[2][1] = "RANGE_LARGE"
          /\ arms[3][1] = "RANGE_VERY_SMALL" /\ arms[4][1] = "RANGE_SMALL"
        BY <2>2
    <2>6. \A w \in {"RANGE_VERY_LARGE", "RANGE_LARGE", "RANGE_VERY_SMALL", "RANGE_SMALL"} :
            w # NoLabel /\ w \in WordsOf(Places[3])
        <3>1. \A w \in {"RANGE_VERY_LARGE", "RANGE_LARGE", "RANGE_VERY_SMALL", "RANGE_SMALL"} : w # NoLabel
            BY DEF NoLabel
        <3>2. WordsOf(Places[3]) = {"RANGE_VERY_LARGE", "RANGE_LARGE", "RANGE_SMALL", "RANGE_VERY_SMALL"}
            BY DEF WordsOf, Places
        <3> QED BY <3>1, <3>2
    <2>7. \A n \in 1..4 : arms[n][1] # NoLabel /\ arms[n][1] \in WordsOf(Places[3])
        BY <2>4, <2>5, <2>6
    <2>8. 4 \in Nat
        OBVIOUS
    <2>9. FirstArm(arms) = {} \/ \E k \in 1..4 : FirstArm(arms) = {arms[k][1]} \ {NoLabel}
        BY <2>4, <2>8, FirstArmFits
    <2> QED BY <2>3, <2>7, <2>9 DEF OneOf
<1> QED BY <1>1, <1>2

\* What a chart's latest bar puts at each place of the sentence.
LimitPart(ch) == LimitLabels(ch[Len(ch)], ch[Len(ch) - 1].c)
FlatPart(ch) == FlatLabels(Features(ch), LimitPart(ch))
WickPart(ch) == IF Features(ch).range = 0 THEN {} ELSE WickLabels(Features(ch))
BodyPart(ch) == IF Features(ch).range = 0 THEN {} ELSE BodyLabels(Features(ch))
DirPart(ch) == IF "DOJI" \in BodyPart(ch) THEN {} ELSE DirLabels(ch[Len(ch)])
Part(ch, q) == <<{}, WindowLabels(ch[Len(ch) - 1], ch[Len(ch)]), SizeLabels(q),
                 WickPart(ch), BodyPart(ch), DirPart(ch)>>
LabelsOf(ch, q) == CandleLabels(ch, q) \cup WindowLabels(ch[Len(ch) - 1], ch[Len(ch)])

LEMMA WordsAre ==
    /\ WordsOf(LimitWords) = {"LIMIT_HIGH_TOUCH", "LIMIT_LOW_TOUCH", "LIMIT_HIGH_TOUCH_STUCK",
                "LIMIT_LOW_TOUCH_STUCK", "LIMIT_HIGH_OPEN_ONLY", "LIMIT_LOW_OPEN_ONLY",
                "LIMIT_HIGH_FULL_STUCK", "LIMIT_LOW_FULL_STUCK"}
    /\ WordsOf(OddWords) = {"INVALID_TR0", "ACTION_SUSPECT"}
    /\ WordsOf(Places[1]) = {"GAP_DOMINANT"}
    /\ WordsOf(Places[2]) = {"GAP_UP", "GAP_DOWN"}
    /\ WordsOf(Places[3]) = {"RANGE_VERY_LARGE", "RANGE_LARGE", "RANGE_SMALL", "RANGE_VERY_SMALL"}
    /\ WordsOf(Places[4]) = {"WICK_BOTH_LONG", "WICK_BOTH_PRESENT", "WICK_UPPER_LONG", "WICK_LOWER_LONG",
              "WICK_UPPER_PRESENT", "WICK_LOWER_PRESENT"}
    /\ WordsOf(Places[5]) = {"DOJI", "BODY_MARUBOZU_LIKE", "BODY_LONG", "BODY_SMALL", "BODY_MIDDLE"}
    /\ WordsOf(Places[6]) = {"DIR_BULL", "DIR_BEAR"}
<1>1. WordsOf(LimitWords) = {"LIMIT_HIGH_TOUCH", "LIMIT_LOW_TOUCH", "LIMIT_HIGH_TOUCH_STUCK",
                "LIMIT_LOW_TOUCH_STUCK", "LIMIT_HIGH_OPEN_ONLY", "LIMIT_LOW_OPEN_ONLY",
                "LIMIT_HIGH_FULL_STUCK", "LIMIT_LOW_FULL_STUCK"}
    BY DEF WordsOf, LimitWords
<1>2. WordsOf(OddWords) = {"INVALID_TR0", "ACTION_SUSPECT"}
    BY DEF WordsOf, OddWords
<1>3. WordsOf(Places[1]) = {"GAP_DOMINANT"} /\ WordsOf(Places[2]) = {"GAP_UP", "GAP_DOWN"}
    BY DEF WordsOf, Places
<1>4. WordsOf(Places[3]) = {"RANGE_VERY_LARGE", "RANGE_LARGE", "RANGE_SMALL", "RANGE_VERY_SMALL"}
    BY DEF WordsOf, Places
<1>5. WordsOf(Places[4]) = {"WICK_BOTH_LONG", "WICK_BOTH_PRESENT", "WICK_UPPER_LONG", "WICK_LOWER_LONG",
              "WICK_UPPER_PRESENT", "WICK_LOWER_PRESENT"}
    BY DEF WordsOf, Places
<1>6. WordsOf(Places[5]) = {"DOJI", "BODY_MARUBOZU_LIKE", "BODY_LONG", "BODY_SMALL", "BODY_MIDDLE"}
    BY DEF WordsOf, Places
<1>7. WordsOf(Places[6]) = {"DIR_BULL", "DIR_BEAR"}
    BY DEF WordsOf, Places
<1> QED BY <1>1, <1>2, <1>3, <1>4, <1>5, <1>6, <1>7

LEMMA PartsFit ==
    ASSUME NEW ch, NEW q
    PROVE  /\ OneOf(LimitPart(ch), WordsOf(LimitWords))
           /\ FlatPart(ch) \subseteq {"INVALID_TR0"}
           /\ \A n \in 1..6 : OneOf(Part(ch, q)[n], WordsOf(Places[n]))
<1>1. OneOf(LimitPart(ch), WordsOf(LimitWords))
    <2>1. LimitPart(ch) = {} \/ \E k \in 1..8 : LimitPart(ch) = {LimitWords[k]}
        BY LimitLabelsAre DEF LimitPart
    <2>2. DOMAIN LimitWords = 1..8
        BY DEF LimitWords
    <2> QED BY <2>1, <2>2 DEF OneOf, WordsOf
<1>2. FlatPart(ch) \subseteq {"INVALID_TR0"}
    BY DEF FlatPart, FlatLabels
<1>3. OneOf(WickPart(ch), WordsOf(Places[4]))
    <2>1. WickPart(ch) = {} \/ \E k \in 1..6 : WickPart(ch) = {Places[4][k]}
        BY WickLabelsAre DEF WickPart, WickWords
    <2>2. DOMAIN Places[4] = 1..6
        BY DEF Places
    <2> QED BY <2>1, <2>2 DEF OneOf, WordsOf
<1>4. OneOf(BodyPart(ch), WordsOf(Places[5]))
    <2>1. BodyPart(ch) = {} \/ \E k \in 1..6 : BodyPart(ch) = {BodyWords[k]} \ {NoLabel}
        BY BodyLabelsAre DEF BodyPart
    <2>2. \A k \in 1..6 : BodyWords[k] = NoLabel \/ BodyWords[k] \in WordsOf(Places[5])
        <3>1. \A n \in 1..6 : n = 1 \/ n = 2 \/ n = 3 \/ n = 4 \/ n = 5 \/ n = 6
            OBVIOUS
        <3>2. /\ BodyWords[1] \in WordsOf(Places[5]) /\ BodyWords[2] \in WordsOf(Places[5])
              /\ BodyWords[3] = NoLabel /\ BodyWords[4] \in WordsOf(Places[5])
              /\ BodyWords[5] \in WordsOf(Places[5]) /\ BodyWords[6] \in WordsOf(Places[5])
            BY WordsAre DEF BodyWords
        <3> QED BY <3>1, <3>2
    <2> QED BY <2>1, <2>2 DEF OneOf
<1>5. OneOf(DirPart(ch), WordsOf(Places[6]))
    <2>1. PICK bar : bar = ch[Len(ch)]
        OBVIOUS
    <2>2. DirPart(ch) \in {{}, {"DIR_BULL"}, {"DIR_BEAR"}}
        BY <2>1, DirLabelsAre DEF DirPart
    <2> QED BY <2>2, WordsAre DEF OneOf
<1>6. OneOf(WindowLabels(ch[Len(ch) - 1], ch[Len(ch)]), WordsOf(Places[2]))
    <2>1. PICK old, bar : old = ch[Len(ch) - 1] /\ bar = ch[Len(ch)]
        OBVIOUS
    <2>2. WindowLabels(old, bar) \in {{}, {"GAP_UP"}, {"GAP_DOWN"}}
        BY WindowLabelsAre
    <2> QED BY <2>1, <2>2, WordsAre DEF OneOf
<1>7. OneOf({}, WordsOf(Places[1])) /\ OneOf(SizeLabels(q), WordsOf(Places[3]))
    BY SizeLabelsAre DEF OneOf
<1>8. ASSUME NEW n \in 1..6 PROVE OneOf(Part(ch, q)[n], WordsOf(Places[n]))
    <2>1. n = 1 \/ n = 2 \/ n = 3 \/ n = 4 \/ n = 5 \/ n = 6
        OBVIOUS
    <2>2. PICK gap : gap = WindowLabels(ch[Len(ch) - 1], ch[Len(ch)])
        OBVIOUS
    <2>3. Part(ch, q) = <<{}, gap, SizeLabels(q), WickPart(ch), BodyPart(ch), DirPart(ch)>>
        BY <2>2 DEF Part
    <2>4. /\ Part(ch, q)[1] = {} /\ Part(ch, q)[2] = gap /\ Part(ch, q)[3] = SizeLabels(q)
          /\ Part(ch, q)[4] = WickPart(ch) /\ Part(ch, q)[5] = BodyPart(ch) /\ Part(ch, q)[6] = DirPart(ch)
        BY <2>3
    <2> QED BY <1>3, <1>4, <1>5, <1>6, <1>7, <2>1, <2>2, <2>4
<1> QED BY <1>1, <1>2, <1>8

LEMMA PartIs ==
    ASSUME NEW ch, NEW q
    PROVE  /\ DOMAIN Part(ch, q) = 1..6
           /\ Part(ch, q)[1] = {} /\ Part(ch, q)[2] = WindowLabels(ch[Len(ch) - 1], ch[Len(ch)])
           /\ Part(ch, q)[3] = SizeLabels(q)
           /\ Part(ch, q)[4] = WickPart(ch) /\ Part(ch, q)[5] = BodyPart(ch) /\ Part(ch, q)[6] = DirPart(ch)
<1>1. PICK gap : gap = WindowLabels(ch[Len(ch) - 1], ch[Len(ch)])
    OBVIOUS
<1>2. Part(ch, q) = <<{}, gap, SizeLabels(q), WickPart(ch), BodyPart(ch), DirPart(ch)>>
    BY <1>1 DEF Part
<1>3. /\ DOMAIN Part(ch, q) = 1..6
      /\ Part(ch, q)[1] = {} /\ Part(ch, q)[2] = gap /\ Part(ch, q)[3] = SizeLabels(q)
      /\ Part(ch, q)[4] = WickPart(ch) /\ Part(ch, q)[5] = BodyPart(ch) /\ Part(ch, q)[6] = DirPart(ch)
    BY <1>2
<1> QED BY <1>1, <1>3

LEMMA SixPlaces == DOMAIN Places = 1..6 /\ \A n \in 1..6 : n = 1 \/ n = 2 \/ n = 3 \/ n = 4 \/ n = 5 \/ n = 6
<1>1. DOMAIN Places = 1..6
    BY DEF Places
<1>2. \A n \in 1..6 : n = 1 \/ n = 2 \/ n = 3 \/ n = 4 \/ n = 5 \/ n = 6
    OBVIOUS
<1> QED BY <1>1, <1>2

LEMMA LabelsAre ==
    ASSUME NEW ch, Len(ch) \in Nat, NEW q
    PROVE  LabelsOf(ch, q) = LimitPart(ch) \cup FlatPart(ch) \cup UNION {Part(ch, q)[n] : n \in 1..6}
<1>1. PICK bar : bar = ch[Len(ch)]
    OBVIOUS
<1>2. PICK f : f = Features(ch)
    OBVIOUS
<1>3. f.gap = Unknown
    BY <1>1, <1>2, FeaturesAre
<1>4. OddLabels(bar, f) = {}
    BY <1>3, NothingIsOdd
<1>5. PICK shape : shape = IF f.range = 0 THEN {} ELSE BodyLabels(f) \cup WickLabels(f)
    OBVIOUS
<1>6. shape = BodyPart(ch) \cup WickPart(ch)
    BY <1>2, <1>5 DEF BodyPart, WickPart
<1>7. "DOJI" \notin WickPart(ch)
    <2>1. OneOf(Part(ch, q)[4], WordsOf(Places[4])) /\ Part(ch, q)[4] = WickPart(ch)
        BY PartsFit, PartIs
    <2>2. "DOJI" \notin WordsOf(Places[4])
        BY WordsAre
    <2> QED BY <2>1, <2>2 DEF OneOf
<1>8. DirPart(ch) = IF "DOJI" \in shape THEN {} ELSE DirLabels(bar)
    BY <1>1, <1>6, <1>7 DEF DirPart
<1>9. CandleLabels(ch, q) = LimitPart(ch) \cup FlatPart(ch) \cup OddLabels(bar, f) \cup SizeLabels(q)
                              \cup shape \cup DirPart(ch)
    BY <1>1, <1>2, <1>5, <1>8 DEF CandleLabels, LimitPart, FlatPart
<1>10. PICK gap : gap = WindowLabels(ch[Len(ch) - 1], ch[Len(ch)])
    OBVIOUS
<1>11. LabelsOf(ch, q) = LimitPart(ch) \cup FlatPart(ch) \cup SizeLabels(q) \cup BodyPart(ch)
                          \cup WickPart(ch) \cup DirPart(ch) \cup gap
    BY <1>4, <1>6, <1>9, <1>10 DEF LabelsOf
<1>12. UNION {Part(ch, q)[n] : n \in 1..6} =
         gap \cup SizeLabels(q) \cup WickPart(ch) \cup BodyPart(ch) \cup DirPart(ch)
    <2>1. /\ Part(ch, q)[1] = {} /\ Part(ch, q)[2] = gap /\ Part(ch, q)[3] = SizeLabels(q)
          /\ Part(ch, q)[4] = WickPart(ch) /\ Part(ch, q)[5] = BodyPart(ch) /\ Part(ch, q)[6] = DirPart(ch)
        BY <1>10, PartIs
    <2>2. 1 \in 1..6 /\ 2 \in 1..6 /\ 3 \in 1..6 /\ 4 \in 1..6 /\ 5 \in 1..6 /\ 6 \in 1..6
        OBVIOUS
    <2> QED BY <2>1, <2>2, SixPlaces
<1> QED BY <1>11, <1>12

\* The place of a word: the limits and what explains an empty day come first.
LEMMA PlacesApart ==
    /\ WordsOf(LimitWords) \cap WordsOf(OddWords) = {}
    /\ \A n \in 1..6 : /\ WordsOf(LimitWords) \cap WordsOf(Places[n]) = {}
                       /\ WordsOf(OddWords) \cap WordsOf(Places[n]) = {}
    /\ \A m, n \in 1..6 : m # n => WordsOf(Places[m]) \cap WordsOf(Places[n]) = {}
<1>1. PICK P : P = [n \in 1..6 |-> WordsOf(Places[n])]
    OBVIOUS
<1>2. PICK limits, odd : limits = WordsOf(LimitWords) /\ odd = WordsOf(OddWords)
    OBVIOUS
<1>3. /\ P[1] = WordsOf(Places[1]) /\ P[2] = WordsOf(Places[2]) /\ P[3] = WordsOf(Places[3])
      /\ P[4] = WordsOf(Places[4]) /\ P[5] = WordsOf(Places[5]) /\ P[6] = WordsOf(Places[6])
    BY <1>1
<1>4. limits \cap odd = {} /\ limits \cap P[1] = {} /\ limits \cap P[2] = {} /\ limits \cap P[3] = {}
    BY <1>2, <1>3, WordsAre
<1>5. limits \cap P[4] = {} /\ limits \cap P[5] = {} /\ limits \cap P[6] = {}
    BY <1>2, <1>3, WordsAre
<1>6. /\ odd \cap P[1] = {} /\ odd \cap P[2] = {} /\ odd \cap P[3] = {}
      /\ odd \cap P[4] = {} /\ odd \cap P[5] = {} /\ odd \cap P[6] = {}
    BY <1>2, <1>3, WordsAre
<1>7. /\ P[1] \cap P[2] = {} /\ P[1] \cap P[3] = {} /\ P[1] \cap P[4] = {} /\ P[1] \cap P[5] = {}
      /\ P[1] \cap P[6] = {} /\ P[2] \cap P[3] = {} /\ P[2] \cap P[4] = {} /\ P[2] \cap P[5] = {}
    BY <1>3, WordsAre
<1>8. /\ P[2] \cap P[6] = {} /\ P[3] \cap P[4] = {} /\ P[3] \cap P[5] = {} /\ P[3] \cap P[6] = {}
      /\ P[4] \cap P[5] = {} /\ P[4] \cap P[6] = {} /\ P[5] \cap P[6] = {}
    BY <1>3, WordsAre
<1>9. \A n \in 1..6 : P[n] = WordsOf(Places[n])
    BY <1>1
<1>10. \A n \in 1..6 : limits \cap P[n] = {} /\ odd \cap P[n] = {}
    BY <1>4, <1>5, <1>6, SixPlaces
<1>11. \A m, n \in 1..6 : m # n => P[m] \cap P[n] = {}
    BY <1>7, <1>8, SixPlaces
<1> QED BY <1>2, <1>4, <1>9, <1>10, <1>11

LEMMA LabelsDivided ==
    ASSUME NEW ch, Len(ch) \in Nat, NEW q
    PROVE  /\ LabelsOf(ch, q) \cap WordsOf(LimitWords) = LimitPart(ch)
           /\ LabelsOf(ch, q) \cap WordsOf(OddWords) = FlatPart(ch)
           /\ \A n \in 1..6 : LabelsOf(ch, q) \cap WordsOf(Places[n]) = Part(ch, q)[n]
<1>1. PICK P : P = [n \in 1..6 |-> WordsOf(Places[n])]
    OBVIOUS
<1>2. PICK limits, odd : limits = WordsOf(LimitWords) /\ odd = WordsOf(OddWords)
    OBVIOUS
<1>3. PICK part : part = Part(ch, q)
    OBVIOUS
<1>4. LabelsOf(ch, q) = LimitPart(ch) \cup FlatPart(ch) \cup UNION {part[n] : n \in 1..6}
    BY <1>3, LabelsAre
<1>5. LimitPart(ch) \subseteq limits /\ FlatPart(ch) \subseteq odd /\ \A n \in 1..6 : part[n] \subseteq P[n]
    <2>1. OneOf(LimitPart(ch), WordsOf(LimitWords)) /\ FlatPart(ch) \subseteq {"INVALID_TR0"}
          /\ \A n \in 1..6 : OneOf(part[n], WordsOf(Places[n]))
        BY <1>3, PartsFit
    <2>2. "INVALID_TR0" \in odd
        BY <1>2, WordsAre
    <2> QED BY <1>1, <1>2, <2>1, <2>2 DEF OneOf
<1>6. /\ limits \cap odd = {} /\ \A n \in 1..6 : limits \cap P[n] = {} /\ odd \cap P[n] = {}
      /\ \A m, n \in 1..6 : m # n => P[m] \cap P[n] = {}
    BY <1>1, <1>2, PlacesApart
<1>7. LabelsOf(ch, q) \cap limits = LimitPart(ch)
    BY <1>4, <1>5, <1>6
<1>8. LabelsOf(ch, q) \cap odd = FlatPart(ch)
    BY <1>4, <1>5, <1>6
<1>9. ASSUME NEW n \in 1..6 PROVE LabelsOf(ch, q) \cap P[n] = part[n]
    <2>1. part[n] \subseteq LabelsOf(ch, q) /\ part[n] \subseteq P[n]
        BY <1>4, <1>5
    <2>2. ASSUME NEW w \in LabelsOf(ch, q), w \in P[n] PROVE w \in part[n]
        <3>1. w \notin LimitPart(ch) /\ w \notin FlatPart(ch)
            BY <1>5, <1>6, <2>2
        <3>2. PICK m \in 1..6 : w \in part[m]
            BY <1>4, <2>2, <3>1
        <3>3. m = n
            BY <1>5, <1>6, <2>2, <3>2
        <3> QED BY <3>2, <3>3
    <2> QED BY <2>1, <2>2
<1> QED BY <1>1, <1>2, <1>3, <1>7, <1>8, <1>9

(* The text says the parts, each at its place.                             *)
LEMMA PlacesFit ==
    ASSUME NEW n \in 1..6
    PROVE  \E N \in Nat : DOMAIN Places[n] = 1..N /\ \A k \in 1..N : Places[n][k] # NoLabel
<1>1. NoLabel \notin WordsOf(Places[n])
    <2>1. PICK P : P = [k \in 1..6 |-> WordsOf(Places[k])]
        OBVIOUS
    <2>2. P[1] = {"GAP_DOMINANT"} /\ P[2] = {"GAP_UP", "GAP_DOWN"} /\ P[6] = {"DIR_BULL", "DIR_BEAR"}
        BY <2>1, WordsAre
    <2>3. /\ P[3] = {"RANGE_VERY_LARGE", "RANGE_LARGE", "RANGE_SMALL", "RANGE_VERY_SMALL"}
          /\ P[4] = {"WICK_BOTH_LONG", "WICK_BOTH_PRESENT", "WICK_UPPER_LONG", "WICK_LOWER_LONG",
                     "WICK_UPPER_PRESENT", "WICK_LOWER_PRESENT"}
          /\ P[5] = {"DOJI", "BODY_MARUBOZU_LIKE", "BODY_LONG", "BODY_SMALL", "BODY_MIDDLE"}
        BY <2>1, WordsAre
    <2>4. NoLabel \notin {"GAP_DOMINANT", "GAP_UP", "GAP_DOWN", "DIR_BULL", "DIR_BEAR",
                          "RANGE_VERY_LARGE", "RANGE_LARGE", "RANGE_SMALL", "RANGE_VERY_SMALL",
                          "WICK_BOTH_LONG", "WICK_BOTH_PRESENT", "WICK_UPPER_LONG", "WICK_LOWER_LONG",
                          "WICK_UPPER_PRESENT", "WICK_LOWER_PRESENT",
                          "DOJI", "BODY_MARUBOZU_LIKE", "BODY_LONG", "BODY_SMALL", "BODY_MIDDLE"}
        BY DEF NoLabel
    <2>5. NoLabel \notin P[1] /\ NoLabel \notin P[2] /\ NoLabel \notin P[6]
        BY <2>2, <2>4
    <2>6. NoLabel \notin P[3] /\ NoLabel \notin P[4] /\ NoLabel \notin P[5]
        BY <2>3, <2>4
    <2>7. NoLabel \notin P[n]
        BY <2>5, <2>6, SixPlaces
    <2> QED BY <2>1, <2>7
<1>2. \E N \in Nat : DOMAIN Places[n] = 1..N
    <2>1. /\ DOMAIN Places[1] = 1..1 /\ DOMAIN Places[2] = 1..2 /\ DOMAIN Places[3] = 1..4
          /\ DOMAIN Places[4] = 1..6 /\ DOMAIN Places[5] = 1..5 /\ DOMAIN Places[6] = 1..2
        BY DEF Places
    <2>2. 1 \in Nat /\ 2 \in Nat /\ 4 \in Nat /\ 5 \in Nat /\ 6 \in Nat
        OBVIOUS
    <2> QED BY <2>1, <2>2, SixPlaces
<1> QED BY <1>1, <1>2 DEF WordsOf

TextOf(ch, q) ==
    IF LimitPart(ch) # {} THEN <<LimitPart(ch)>>
    ELSE IF FlatPart(ch) # {} THEN <<FlatPart(ch)>>
    ELSE [n \in {k \in 1..6 : Part(ch, q)[k] # {}} |-> Part(ch, q)[n]]

LEMMA TextIs ==
    ASSUME NEW ch, Len(ch) \in Nat, NEW q
    PROVE  PriceText(LabelsOf(ch, q)) = TextOf(ch, q)
<1>1. PICK labels : labels = LabelsOf(ch, q)
    OBVIOUS
<1>2. PICK part : part = Part(ch, q)
    OBVIOUS
<1>3. PICK limit, flat : limit = LimitPart(ch) /\ flat = FlatPart(ch)
    OBVIOUS
<1>4. /\ labels \cap WordsOf(LimitWords) = limit /\ labels \cap WordsOf(OddWords) = flat
      /\ \A n \in 1..6 : labels \cap WordsOf(Places[n]) = part[n]
    BY <1>1, <1>2, <1>3, LabelsDivided
<1>5. /\ limit = {} \/ \E w : limit = {w}
      /\ flat = {} \/ \E w : flat = {w}
      /\ \A n \in 1..6 : part[n] = {} \/ \E w : part[n] = {w}
    <2>1. /\ OneOf(LimitPart(ch), WordsOf(LimitWords)) /\ FlatPart(ch) \subseteq {"INVALID_TR0"}
          /\ \A n \in 1..6 : OneOf(Part(ch, q)[n], WordsOf(Places[n]))
        BY PartsFit
    <2>2. flat = {} \/ flat = {"INVALID_TR0"}
        BY <1>3, <2>1
    <2> QED BY <1>2, <1>3, <2>1, <2>2 DEF OneOf
<1>6. Said(LimitWords, labels) = limit
    <2>1. 8 \in Nat /\ DOMAIN LimitWords = 1..8
        BY DEF LimitWords
    <2>2. NoLabel \notin {"LIMIT_HIGH_TOUCH", "LIMIT_LOW_TOUCH", "LIMIT_HIGH_TOUCH_STUCK",
                "LIMIT_LOW_TOUCH_STUCK", "LIMIT_HIGH_OPEN_ONLY", "LIMIT_LOW_OPEN_ONLY",
                "LIMIT_HIGH_FULL_STUCK", "LIMIT_LOW_FULL_STUCK"}
        BY DEF NoLabel
    <2>3. NoLabel \notin WordsOf(LimitWords)
        BY <2>2, WordsAre
    <2>4. \A n \in 1..8 : LimitWords[n] # NoLabel
        BY <2>1, <2>3 DEF WordsOf
    <2> QED BY <1>4, <1>5, <2>1, <2>4, SaidIs
<1>7. Said(OddWords, labels) = flat
    <2>1. 2 \in Nat /\ DOMAIN OddWords = 1..2
        BY DEF OddWords
    <2>2. NoLabel \notin {"INVALID_TR0", "ACTION_SUSPECT"}
        BY DEF NoLabel
    <2>3. NoLabel \notin WordsOf(OddWords)
        BY <2>2, WordsAre
    <2>4. \A n \in 1..2 : OddWords[n] # NoLabel
        BY <2>1, <2>3 DEF WordsOf
    <2> QED BY <1>4, <1>5, <2>1, <2>4, SaidIs
<1>8. ASSUME NEW n \in 1..6 PROVE Said(Places[n], labels) = part[n]
    <2>1. PICK N \in Nat : DOMAIN Places[n] = 1..N /\ \A k \in 1..N : Places[n][k] # NoLabel
        BY PlacesFit
    <2>2. labels \cap WordsOf(Places[n]) = part[n] /\ (part[n] = {} \/ \E w : part[n] = {w})
        BY <1>4, <1>5
    <2> QED BY <2>1, <2>2, SaidIs
<1>9. [n \in {k \in DOMAIN Places : Said(Places[k], labels) # {}} |-> Said(Places[n], labels)] =
        [n \in {k \in 1..6 : part[k] # {}} |-> part[n]]
    <2>1. {k \in DOMAIN Places : Said(Places[k], labels) # {}} = {k \in 1..6 : part[k] # {}}
        BY <1>8, SixPlaces
    <2> QED BY <1>8, <2>1
<1> QED BY <1>1, <1>2, <1>3, <1>6, <1>7, <1>9 DEF PriceText, TextOf

-----------------------------------------------------------------------------
(* A day is not left without words.                                        *)
LEMMA ShapeHasWords ==
    ASSUME NEW ch, Len(ch) \in Nat, NEW q, Ordered(ch[Len(ch)]), Features(ch).range # 0
    PROVE  BodyPart(ch) # {} \/ DirPart(ch) # {}
<1>1. PICK bar : bar = ch[Len(ch)] /\ Ordered(bar)
    OBVIOUS
<1>2. PICK f : f = Features(ch)
    OBVIOUS
<1>3. f.range = bar.h - bar.l /\ f.body = Apart(bar.c, bar.o)
    BY <1>1, <1>2, FeaturesAre
<1>4. BodyPart(ch) = BodyLabels(f)
    BY <1>2 DEF BodyPart
<1>5. PICK k \in 1..6 : BodyHolds(f)[k] /\ BodyLabels(f) = {BodyWords[k]} \ {NoLabel}
    BY BodyLabelsAre
<1>6. SUFFICES ASSUME BodyPart(ch) = {} PROVE DirPart(ch) # {}
    OBVIOUS
<1>7. k = 3
    <2>1. BodyWords[k] = NoLabel
        BY <1>4, <1>5, <1>6
    <2>2. /\ BodyWords[1] # NoLabel /\ BodyWords[2] # NoLabel /\ BodyWords[4] # NoLabel
          /\ BodyWords[5] # NoLabel /\ BodyWords[6] # NoLabel
        <3>1. /\ BodyWords[1] = "DOJI" /\ BodyWords[2] = "BODY_MARUBOZU_LIKE" /\ BodyWords[4] = "BODY_LONG"
              /\ BodyWords[5] = "BODY_SMALL" /\ BodyWords[6] = "BODY_MIDDLE"
            BY DEF BodyWords
        <3>2. NoLabel \notin {"DOJI", "BODY_MARUBOZU_LIKE", "BODY_LONG", "BODY_SMALL", "BODY_MIDDLE"}
            BY DEF NoLabel
        <3> QED BY <3>1, <3>2
    <2> QED BY <2>1, <2>2, SixPlaces
<1>8. 100 * f.body >= 70 * f.range
    <2>1. BodyHolds(f)[3] = AtLeast(f, f.body, 70)
        BY DEF BodyHolds
    <2> QED BY <1>5, <1>7, <2>1 DEF AtLeast
<1>9. bar.c # bar.o
    BY <1>1, <1>2, <1>3, <1>8 DEF Apart, Ordered
<1>10. DirPart(ch) = DirLabels(bar)
    BY <1>1, <1>6 DEF DirPart
<1>11. bar.c > bar.o \/ bar.c < bar.o
    BY <1>1, <1>9 DEF Ordered
<1> QED BY <1>10, <1>11, DirLabelsAre

LEMMA FlatOnly ==
    ASSUME NEW ch, Len(ch) \in Nat, NEW q
    PROVE  "INVALID_TR0" \in LabelsOf(ch, q) <=> FlatPart(ch) # {}
<1>1. "INVALID_TR0" \in WordsOf(OddWords)
    BY WordsAre
<1>2. FlatPart(ch) \subseteq {"INVALID_TR0"}
    BY PartsFit
<1>3. LabelsOf(ch, q) \cap WordsOf(OddWords) = FlatPart(ch)
    BY LabelsDivided
<1> QED BY <1>1, <1>2, <1>3

LEMMA TextHasWords ==
    ASSUME NEW ch, Len(ch) \in Nat, NEW q, Ordered(ch[Len(ch)]),
           NEW text, text = PriceText(LabelsOf(ch, q))
    PROVE  /\ DOMAIN text # {}
           /\ "INVALID_TR0" \in LabelsOf(ch, q) <=> text = <<{"INVALID_TR0"}>>
<1> DEFINE limit == LimitPart(ch)
           flat == FlatPart(ch)
           part == Part(ch, q)
<1>0. PriceText(LabelsOf(ch, q)) =
        IF limit # {} THEN <<limit>> ELSE IF flat # {} THEN <<flat>>
        ELSE [n \in {k \in 1..6 : part[k] # {}} |-> part[n]]
    <2>1. PriceText(LabelsOf(ch, q)) = TextOf(ch, q)
        BY TextIs
    <2> QED BY <2>1 DEF TextOf
<1>3. /\ limit # {} => text = <<limit>>
      /\ limit = {} /\ flat # {} => text = <<flat>>
      /\ limit = {} /\ flat = {} => text = [n \in {k \in 1..6 : part[k] # {}} |-> part[n]]
    <2> HIDE DEF limit, flat, part
    <2> QED BY <1>0
<1>4. /\ limit = {} \/ \E w \in WordsOf(LimitWords) : limit = {w}
      /\ flat \subseteq {"INVALID_TR0"} /\ part[1] = {}
    BY PartsFit, PartIs DEF OneOf
<1>1. part[5] = BodyPart(ch) /\ part[6] = DirPart(ch)
    BY PartIs
<1>2. (flat # {} => limit = {}) /\ (flat = {} /\ limit = {} => Features(ch).range # 0)
    BY DEF FlatPart, FlatLabels
<1>7. "INVALID_TR0" \in LabelsOf(ch, q) <=> flat # {}
    BY FlatOnly
<1> HIDE DEF limit, flat, part
<1>5. flat # {} => limit = {}
    BY <1>2
<1>6. "INVALID_TR0" \notin WordsOf(LimitWords)
    BY WordsAre
<1>8. CASE limit # {}
    <2>1. text = <<limit>> /\ limit # {"INVALID_TR0"}
        BY <1>3, <1>4, <1>6, <1>8
    <2>2. text[1] # {"INVALID_TR0"} /\ DOMAIN text = 1..1
        BY <2>1
    <2> QED BY <1>5, <1>7, <1>8, <2>2
<1>9. CASE flat # {}
    <2>1. text = <<{"INVALID_TR0"}>>
        BY <1>3, <1>4, <1>5, <1>9
    <2>2. DOMAIN text = 1..1
        BY <2>1
    <2> QED BY <1>7, <1>9, <2>1, <2>2
<1>10. CASE limit = {} /\ flat = {}
    <2>1. text = [n \in {k \in 1..6 : part[k] # {}} |-> part[n]]
        BY <1>3, <1>10
    <2>2. Features(ch).range # 0
        BY <1>2, <1>10
    <2>3. part[5] # {} \/ part[6] # {}
        BY <1>1, <2>2, ShapeHasWords
    <2>4. DOMAIN text # {} /\ 1 \notin DOMAIN text
        BY <1>4, <2>1, <2>3
    <2>5. text # <<{"INVALID_TR0"}>>
        <3>1. 1 \in DOMAIN <<{"INVALID_TR0"}>>
            OBVIOUS
        <3> QED BY <2>4, <3>1
    <2> QED BY <1>7, <1>10, <2>4, <2>5
<1> QED BY <1>8, <1>9, <1>10

LEMMA FlatDayText ==
    ASSUME NEW ch, Len(ch) \in Nat, NEW q, NEW bar, Ordered(bar), bar.h = bar.l,
           NEW close \in Int, ch[Len(ch)] = bar, ch[Len(ch) - 1].c = close
    PROVE  PriceText(LabelsOf(ch, q)) =
             << {IF Apart(bar.c, close) < LimitRange(close) THEN "INVALID_TR0"
                 ELSE IF bar.c > close THEN "LIMIT_HIGH_FULL_STUCK"
                 ELSE "LIMIT_LOW_FULL_STUCK"} >>
<1>1. PICK R \in Nat : R = LimitRange(close)
    BY LimitRangeIs
<1>2. PICK on : on = Reached(bar, close)
    OBVIOUS
<1>3. PICK p \in Int : p = bar.c /\ p = bar.o /\ p = bar.h /\ p = bar.l
    BY DEF Ordered
<1>4. /\ on[1] <=> p >= close + R
      /\ on[2] <=> p <= close - R
      /\ on[3] <=> p >= close + R
      /\ on[4] <=> p <= close - R
      /\ on[5] <=> p >= close + R /\ p < close + R
      /\ on[6] <=> p <= close - R /\ p > close - R
      /\ on[7] <=> p >= close + R
      /\ on[8] <=> p <= close - R
    <2>1. /\ Reached(bar, close)[1] <=> bar.h >= close + R
          /\ Reached(bar, close)[2] <=> bar.l <= close - R
          /\ Reached(bar, close)[3] <=> bar.c >= close + R
          /\ Reached(bar, close)[4] <=> bar.c <= close - R
          /\ Reached(bar, close)[5] <=> bar.o >= close + R /\ bar.c < close + R
          /\ Reached(bar, close)[6] <=> bar.o <= close - R /\ bar.c > close - R
          /\ Reached(bar, close)[7] <=> bar.l >= close + R
          /\ Reached(bar, close)[8] <=> bar.h <= close - R
        BY <1>1, ReachedIs, Zenon
    <2> QED BY <1>2, <1>3, <2>1
<1>5. LimitPart(ch) = LimitLabels(bar, close)
    BY DEF LimitPart
<1>6. \/ (\A n \in 1..8 : ~on[n]) /\ LimitPart(ch) = {}
      \/ \E k \in 1..8 : /\ on[k] /\ LimitPart(ch) = {LimitWords[k]}
                         /\ \A n \in 1..8 : k < n => ~on[n]
    BY <1>2, <1>5, LimitLabelsAre
<1>7. \A n \in 1..8 : n = 1 \/ n = 2 \/ n = 3 \/ n = 4 \/ n = 5 \/ n = 6 \/ n = 7 \/ n = 8
    OBVIOUS
<1>8. LimitWords[7] = "LIMIT_HIGH_FULL_STUCK" /\ LimitWords[8] = "LIMIT_LOW_FULL_STUCK"
    BY DEF LimitWords
<1>9. PICK away : away = Apart(p, close)
    OBVIOUS
<1>. away = (IF p < close THEN close - p ELSE p - close) /\ away \in Int
    BY <1>9 DEF Apart
<1>10. CASE away < R
    <2>1. \A n \in 1..8 : ~on[n]
        <3>1. ~(p >= close + R) /\ ~(p <= close - R)
            BY <1>9, <1>10
        <3> QED BY <1>4, <1>7, <3>1
    <2>2. LimitPart(ch) = {}
        BY <1>6, <2>1
    <2>3. Features(ch).range = 0
        BY <1>3, FeaturesAre
    <2>4. FlatPart(ch) = {"INVALID_TR0"}
        BY <2>2, <2>3 DEF FlatPart, FlatLabels
    <2> QED BY <1>1, <1>3, <1>9, <1>10, <2>2, <2>4, TextIs DEF TextOf
<1>11. CASE ~(away < R) /\ p > close
    <2>1. on[7] /\ ~on[8]
        <3>1. p >= close + R /\ ~(p <= close - R)
            BY <1>9, <1>11
        <3> QED BY <1>4, <3>1
    <2>2. LimitPart(ch) = {LimitWords[7]}
        BY <1>6, <1>7, <2>1
    <2> QED BY <1>1, <1>3, <1>8, <1>9, <1>11, <2>2, TextIs DEF TextOf
<1>12. CASE ~(away < R) /\ ~(p > close)
    <2>1. on[8]
        <3>1. p <= close - R
            BY <1>9, <1>12
        <3> QED BY <1>4, <3>1
    <2>2. LimitPart(ch) = {LimitWords[8]}
        BY <1>6, <1>7, <2>1
    <2> QED BY <1>1, <1>3, <1>8, <1>9, <1>12, <2>2, TextIs DEF TextOf
<1> QED BY <1>10, <1>11, <1>12

-----------------------------------------------------------------------------
(* A chart upside down.                                                    *)
LEMMA OppositeOfSome ==
    ASSUME NEW L
    PROVE  Opposite(L) = {} <=> L = {}
<1>1. ASSUME NEW w \in L PROVE Opposite(L) # {}
    <2>1. CASE \A t \in Twins : w # t[1] /\ w # t[2]
        BY <2>1, OppositeHas
    <2>2. CASE \E t \in Twins : w = t[1] \/ w = t[2]
        <3>1. PICK t \in Twins : w = t[1] \/ w = t[2]
            BY <2>2
        <3>2. t[1] \in Opposite(L) \/ t[2] \in Opposite(L)
            BY <3>1, OppositeHas
        <3> QED BY <3>2
    <2> QED BY <2>1, <2>2
<1> QED BY <1>1, OppositeOfNone

LEMMA OppositeOfAll ==
    ASSUME NEW P, NEW S
    PROVE  Opposite(UNION {P[n] : n \in S}) = UNION {Opposite(P[n]) : n \in S}
<1>1. ASSUME NEW w
      PROVE  w \in Opposite(UNION {P[n] : n \in S}) <=> \E n \in S : w \in Opposite(P[n])
    BY OppositeHas
<1> QED BY <1>1

LEMMA OppositeOfPlain ==
    ASSUME NEW L, NEW W, OneOf(L, W), \A w \in W : \A t \in Twins : w # t[1] /\ w # t[2]
    PROVE  Opposite(L) = L
<1>1. CASE L = {}
    BY <1>1, OppositeOfNone
<1>2. ASSUME NEW w \in W, L = {w} PROVE Opposite(L) = L
    <2>1. Opposite({w}) = {w}
        BY OppositeOfOther
    <2> QED BY <1>2, <2>1
<1> QED BY <1>1, <1>2 DEF OneOf

LEMMA PlainWords ==
    /\ \A w \in WordsOf(Places[3]) : \A t \in Twins : w # t[1] /\ w # t[2]
    /\ \A w \in WordsOf(Places[5]) : \A t \in Twins : w # t[1] /\ w # t[2]
    /\ \A t \in Twins : "INVALID_TR0" # t[1] /\ "INVALID_TR0" # t[2]
<1>1. PICK sizes, bodies : sizes = WordsOf(Places[3]) /\ bodies = WordsOf(Places[5])
    OBVIOUS
<1>2. \A w \in sizes : \A t \in Twins : w # t[1] /\ w # t[2]
    BY <1>1, WordsAre DEF Twins
<1>3. \A w \in bodies : \A t \in Twins : w # t[1] /\ w # t[2]
    BY <1>1, WordsAre DEF Twins
<1>4. \A t \in Twins : "INVALID_TR0" # t[1] /\ "INVALID_TR0" # t[2]
    BY DEF Twins
<1> QED BY <1>1, <1>2, <1>3, <1>4

\* Two charts of which one is the other upside down about its last close.
UpsideDown(ch, turned) ==
    LET n == Len(ch)
    IN /\ n \in Nat /\ Len(turned) = n
       /\ Ordered(ch[n]) /\ Ordered(ch[n - 1])
       /\ turned[n] = Turned(ch[n], ch[n - 1].c) /\ turned[n - 1] = Turned(ch[n - 1], ch[n - 1].c)

LEMMA PartsTurned ==
    ASSUME NEW ch, NEW turned, UpsideDown(ch, turned), NEW q,
           ~TouchesBothLimits(ch[Len(ch)], ch[Len(ch) - 1].c)
    PROVE  /\ LimitPart(turned) = Opposite(LimitPart(ch))
           /\ FlatPart(turned) = Opposite(FlatPart(ch))
           /\ \A n \in 1..6 : Part(turned, q)[n] = Opposite(Part(ch, q)[n])
<1>1. PICK bar, old : bar = ch[Len(ch)] /\ old = ch[Len(ch) - 1]
    OBVIOUS
<1>2. PICK close \in Int : close = old.c
    BY <1>1 DEF UpsideDown, Ordered
<1>3. PICK barT, oldT : barT = Turned(bar, close) /\ oldT = Turned(old, close)
    OBVIOUS
<1>4. /\ Ordered(bar) /\ Ordered(old) /\ Len(ch) \in Nat /\ Len(turned) \in Nat /\ Len(turned) = Len(ch)
      /\ turned[Len(turned)] = barT /\ turned[Len(turned) - 1] = oldT
    BY <1>1, <1>2, <1>3 DEF UpsideDown
<1>5. oldT.c = close
    <2>1. oldT.c = 2 * close - old.c
        BY <1>3, <1>4, TurnedIs
    <2> QED BY <1>2, <2>1
<1>6. LimitPart(turned) = Opposite(LimitPart(ch))
    <2>1. LimitPart(turned) = LimitLabels(barT, close) /\ LimitPart(ch) = LimitLabels(bar, close)
        BY <1>1, <1>2, <1>4, <1>5 DEF LimitPart
    <2>2. ~TouchesBothLimits(bar, close)
        BY <1>1, <1>2
    <2> QED BY <1>3, <1>4, <2>1, <2>2, LimitsTurned
<1>7. PICK f, g : f = Features(ch) /\ g = Features(turned)
    OBVIOUS
<1>8. LikeTurned(f, g) /\ f.range = g.range
    <2>1. LikeTurned(f, g)
        BY <1>1, <1>3, <1>4, <1>7, FeaturesTurned
    <2> QED BY <2>1 DEF LikeTurned
<1>9. FlatPart(turned) = Opposite(FlatPart(ch))
    <2>1. FlatPart(ch) = IF f.range = 0 /\ LimitPart(ch) = {} THEN {"INVALID_TR0"} ELSE {}
        BY <1>7 DEF FlatPart, FlatLabels
    <2>2. FlatPart(turned) = IF g.range = 0 /\ LimitPart(turned) = {} THEN {"INVALID_TR0"} ELSE {}
        BY <1>7 DEF FlatPart, FlatLabels
    <2>3. FlatPart(turned) = FlatPart(ch)
        BY <1>6, <1>8, <2>1, <2>2, OppositeOfSome
    <2>4. Opposite(FlatPart(ch)) = FlatPart(ch)
        <3>1. Opposite({"INVALID_TR0"}) = {"INVALID_TR0"}
            BY PlainWords, OppositeOfOther
        <3> QED BY <2>1, <3>1, OppositeOfNone
    <2> QED BY <2>3, <2>4
<1>10. WickPart(turned) = Opposite(WickPart(ch))
    <2>1. WickLabels(g) = Opposite(WickLabels(f))
        BY <1>8, WickTurned
    <2> QED BY <1>7, <1>8, <2>1, OppositeOfNone DEF WickPart
<1>11. BodyPart(turned) = BodyPart(ch)
    <2>1. BodyLabels(g) = BodyLabels(f)
        BY <1>8, BodyTurned
    <2> QED BY <1>7, <1>8, <2>1 DEF BodyPart
<1>12. Opposite(BodyPart(ch)) = BodyPart(ch) /\ Opposite(SizeLabels(q)) = SizeLabels(q)
    <2>1. OneOf(BodyPart(ch), WordsOf(Places[5])) /\ OneOf(SizeLabels(q), WordsOf(Places[3]))
        <3>1. 3 \in 1..6 /\ 5 \in 1..6
            OBVIOUS
        <3>2. OneOf(Part(ch, q)[5], WordsOf(Places[5])) /\ OneOf(Part(ch, q)[3], WordsOf(Places[3]))
            BY <3>1, PartsFit
        <3> QED BY <3>2, PartIs
    <2> QED BY <2>1, PlainWords, OppositeOfPlain
<1>13. DirPart(turned) = Opposite(DirPart(ch))
    <2>1. DirLabels(barT) = Opposite(DirLabels(bar))
        BY <1>3, <1>4, DirTurned
    <2>2. /\ DirPart(ch) = IF "DOJI" \in BodyPart(ch) THEN {} ELSE DirLabels(bar)
          /\ DirPart(turned) = IF "DOJI" \in BodyPart(turned) THEN {} ELSE DirLabels(barT)
        BY <1>1, <1>4 DEF DirPart
    <2> QED BY <1>11, <2>1, <2>2, OppositeOfNone
<1>14. WindowLabels(oldT, barT) = Opposite(WindowLabels(old, bar))
    BY <1>3, <1>4, WindowTurned
<1>15. ASSUME NEW n \in 1..6 PROVE Part(turned, q)[n] = Opposite(Part(ch, q)[n])
    <2>1. /\ Part(ch, q)[1] = {} /\ Part(ch, q)[2] = WindowLabels(old, bar) /\ Part(ch, q)[3] = SizeLabels(q)
          /\ Part(ch, q)[4] = WickPart(ch) /\ Part(ch, q)[5] = BodyPart(ch) /\ Part(ch, q)[6] = DirPart(ch)
        BY <1>1, PartIs
    <2>2. /\ Part(turned, q)[1] = {} /\ Part(turned, q)[2] = WindowLabels(oldT, barT)
          /\ Part(turned, q)[3] = SizeLabels(q) /\ Part(turned, q)[4] = WickPart(turned)
          /\ Part(turned, q)[5] = BodyPart(turned) /\ Part(turned, q)[6] = DirPart(turned)
        BY <1>4, PartIs
    <2> QED BY <1>10, <1>11, <1>12, <1>13, <1>14, <2>1, <2>2, OppositeOfNone, SixPlaces
<1> QED BY <1>6, <1>9, <1>15

LEMMA LabelsTurned ==
    ASSUME NEW ch, NEW turned, UpsideDown(ch, turned), NEW q,
           ~TouchesBothLimits(ch[Len(ch)], ch[Len(ch) - 1].c)
    PROVE  /\ LabelsOf(turned, q) = Opposite(LabelsOf(ch, q))
           /\ TextOf(turned, q) = [n \in DOMAIN TextOf(ch, q) |-> Opposite(TextOf(ch, q)[n])]
<1>1. PICK P, Q : P = Part(ch, q) /\ Q = Part(turned, q)
    OBVIOUS
<1>2. PICK limit, limitT : limit = LimitPart(ch) /\ limitT = LimitPart(turned)
    OBVIOUS
<1>3. PICK flat, flatT : flat = FlatPart(ch) /\ flatT = FlatPart(turned)
    OBVIOUS
<1>4. limitT = Opposite(limit) /\ flatT = Opposite(flat) /\ \A n \in 1..6 : Q[n] = Opposite(P[n])
    BY <1>1, <1>2, <1>3, PartsTurned
<1>5. Len(ch) \in Nat /\ Len(turned) \in Nat
    BY DEF UpsideDown
<1>6. LabelsOf(turned, q) = Opposite(LabelsOf(ch, q))
    <2>1. LabelsOf(ch, q) = limit \cup flat \cup UNION {P[n] : n \in 1..6}
        BY <1>1, <1>2, <1>3, <1>5, LabelsAre
    <2>2. LabelsOf(turned, q) = limitT \cup flatT \cup UNION {Q[n] : n \in 1..6}
        BY <1>1, <1>2, <1>3, <1>5, LabelsAre
    <2>3. UNION {Q[n] : n \in 1..6} = UNION {Opposite(P[n]) : n \in 1..6}
        BY <1>4
    <2>4. PICK rest : rest = UNION {P[n] : n \in 1..6}
        OBVIOUS
    <2>5. Opposite(rest) = UNION {Q[n] : n \in 1..6}
        <3>1. Opposite(UNION {P[n] : n \in 1..6}) = UNION {Opposite(P[n]) : n \in 1..6}
            BY OppositeOfAll, Zenon
        <3> QED BY <2>3, <2>4, <3>1
    <2>6. Opposite((limit \cup flat) \cup rest) = Opposite(limit \cup flat) \cup Opposite(rest)
        BY OppositeOfBoth
    <2>7. Opposite(limit \cup flat) = Opposite(limit) \cup Opposite(flat)
        BY OppositeOfBoth
    <2> QED BY <1>4, <2>1, <2>2, <2>4, <2>5, <2>6, <2>7
<1>7. /\ (limitT = {} <=> limit = {}) /\ (flatT = {} <=> flat = {})
      /\ \A n \in 1..6 : Q[n] = {} <=> P[n] = {}
    BY <1>4, OppositeOfSome
<1>8. PICK text, textT : text = TextOf(ch, q) /\ textT = TextOf(turned, q)
    OBVIOUS
<1>9. CASE limit # {}
    <2>1. text = <<limit>> /\ textT = <<Opposite(limit)>>
        BY <1>2, <1>4, <1>7, <1>8, <1>9 DEF TextOf
    <2>2. textT = [n \in DOMAIN text |-> Opposite(text[n])]
        BY <2>1
    <2> QED BY <1>6, <1>8, <2>2
<1>10. CASE limit = {} /\ flat # {}
    <2>1. text = <<flat>> /\ textT = <<Opposite(flat)>>
        BY <1>2, <1>3, <1>4, <1>7, <1>8, <1>10 DEF TextOf
    <2>2. textT = [n \in DOMAIN text |-> Opposite(text[n])]
        BY <2>1
    <2> QED BY <1>6, <1>8, <2>2
<1>11. CASE limit = {} /\ flat = {}
    <2>1. text = [n \in {k \in 1..6 : P[k] # {}} |-> P[n]] /\ textT = [n \in {k \in 1..6 : Q[k] # {}} |-> Q[n]]
        BY <1>1, <1>2, <1>3, <1>7, <1>8, <1>11 DEF TextOf
    <2>2. {k \in 1..6 : P[k] # {}} = {k \in 1..6 : Q[k] # {}}
        BY <1>7
    <2>3. textT = [n \in DOMAIN text |-> Opposite(text[n])]
        BY <1>4, <2>1, <2>2
    <2> QED BY <1>6, <1>8, <2>3
<1> QED BY <1>9, <1>10, <1>11

LEMMA FlippedIs ==
    ASSUME NEW ch \in Seq(Bar), Len(ch) > 1
    PROVE  UpsideDown(ch, Flipped(ch))
<1>1. PICK N \in Nat : N = Len(ch) /\ N > 1 /\ DOMAIN ch = 1..N
    OBVIOUS
<1>2. N \in 1..N /\ N - 1 \in 1..N
    BY <1>1
<1>3. PICK close : close = ch[N - 1].c
    OBVIOUS
<1>4. PICK turned : turned = Flipped(ch)
    OBVIOUS
<1>5. turned = [n \in 1..N |-> Turned(ch[n], close)]
    BY <1>1, <1>3, <1>4 DEF Flipped, Turned
<1>6. Len(turned) = N
    BY <1>1, <1>5
<1>7. turned[N] = Turned(ch[N], close) /\ turned[N - 1] = Turned(ch[N - 1], close)
    BY <1>2, <1>5
<1>8. Ordered(ch[N]) /\ Ordered(ch[N - 1])
    <2>1. ch[N] \in Bar /\ ch[N - 1] \in Bar
        BY <1>1, <1>2
    <2> QED BY <2>1, BarIs DEF Ordered
<1> QED BY <1>1, <1>3, <1>4, <1>6, <1>7, <1>8 DEF UpsideDown

(* A reading is of the chart as it is: what is proved of the labels and of *)
(* the text of any chart holds of it.                                      *)
CandleInv ==
    /\ chart \in Seq(Bar) /\ Len(chart) \in 1..MaxBars
    /\ rank \in Ranks \cup {Unknown}
    /\ reading = Descriptors(chart, rank)

LEMMA DescriptorsAre ==
    ASSUME NEW ch \in Seq(Bar), NEW q
    PROVE  /\ Len(ch) > 1 => /\ Descriptors(ch, q).labels = LabelsOf(ch, q)
                             /\ Descriptors(ch, q).text = TextOf(ch, q)
           /\ ~(Len(ch) > 1) => Descriptors(ch, q) = [labels |-> {}, text |-> <<>>]
<1>1. Len(ch) \in Nat
    OBVIOUS
<1>2. CASE Len(ch) > 1
    <2>1. Descriptors(ch, q) = [labels |-> LabelsOf(ch, q), text |-> PriceText(LabelsOf(ch, q))]
        BY <1>1, <1>2 DEF Descriptors, LabelsOf
    <2>2. PriceText(LabelsOf(ch, q)) = TextOf(ch, q)
        BY <1>1, TextIs
    <2> QED BY <1>2, <2>1, <2>2
<1>3. CASE ~(Len(ch) > 1)
    BY <1>1, <1>3 DEF Descriptors
<1> QED BY <1>2, <1>3

LEMMA CandleInitHolds ==
    ASSUME CandleInit
    PROVE  CandleInv
<1>1. PICK b \in OldBars : chart = <<b>>
    BY DEF CandleInit
<1>2. b \in Bar
    BY CandleAssumption
<1>3. chart \in Seq(Bar) /\ Len(chart) = 1
    BY <1>1, <1>2
<1>4. 1 \in 1..MaxBars
    BY CandleAssumption
<1> QED BY <1>3, <1>4 DEF CandleInit, CandleInv

LEMMA CandleStepKeeps ==
    ASSUME CandleInv, [CandleNext]_candleVars
    PROVE  CandleInv'
<1>1. CASE UNCHANGED candleVars
    BY <1>1 DEF CandleInv, candleVars
<1>2. CASE CandleNext
    <2>1. PICK bar \in Bar, q \in Ranks : Len(chart) < MaxBars /\ Trade(bar, q)
        BY <1>2 DEF CandleNext
    <2>2. chart' = Append(chart, bar) /\ rank' = q /\ reading' = Descriptors(chart', rank')
        BY <2>1 DEF Trade
    <2>3. chart' \in Seq(Bar) /\ Len(chart') = Len(chart) + 1
        BY <2>2 DEF CandleInv
    <2>4. Len(chart') \in 1..MaxBars
        BY <2>1, <2>3, CandleAssumption DEF CandleInv
    <2> QED BY <2>2, <2>3, <2>4 DEF CandleInv
<1> QED BY <1>1, <1>2

LEMMA CandleTyped ==
    ASSUME CandleInv
    PROVE  CandleTypeOK
<1>1. PICK labels, text : labels = reading.labels /\ text = reading.text
    OBVIOUS
<1>2. text \in [DOMAIN text -> SUBSET labels] /\ DOMAIN text \subseteq 1..6
    <2>1. CASE Len(chart) > 1
        <3>1. PICK ch : ch = chart /\ ch \in Seq(Bar) /\ Len(ch) \in Nat
            BY DEF CandleInv
        <3>2. PICK q : q = rank
            OBVIOUS
        <3>3. labels = LabelsOf(ch, q) /\ text = TextOf(ch, q)
            BY <1>1, <2>1, <3>1, <3>2, DescriptorsAre DEF CandleInv
        <3>4. PICK limit, flat, part : limit = LimitPart(ch) /\ flat = FlatPart(ch) /\ part = Part(ch, q)
            OBVIOUS
        <3>5. labels = limit \cup flat \cup UNION {part[n] : n \in 1..6}
            BY <3>1, <3>3, <3>4, LabelsAre
        <3>6. CASE limit # {}
            <4>1. text = <<limit>>
                BY <3>3, <3>4, <3>6 DEF TextOf
            <4>2. DOMAIN text = 1..1 /\ text[1] = limit
                BY <4>1
            <4> QED BY <3>5, <4>1, <4>2
        <3>7. CASE limit = {} /\ flat # {}
            <4>1. text = <<flat>>
                BY <3>3, <3>4, <3>7 DEF TextOf
            <4>2. DOMAIN text = 1..1 /\ text[1] = flat
                BY <4>1
            <4> QED BY <3>5, <4>1, <4>2
        <3>8. CASE limit = {} /\ flat = {}
            <4>1. text = [n \in {k \in 1..6 : part[k] # {}} |-> part[n]]
                BY <3>3, <3>4, <3>8 DEF TextOf
            <4>2. \A n \in 1..6 : part[n] \subseteq labels
                BY <3>5
            <4> QED BY <4>1, <4>2
        <3> QED BY <3>6, <3>7, <3>8
    <2>2. CASE ~(Len(chart) > 1)
        <3>1. labels = {} /\ text = <<>>
            BY <1>1, <2>2, DescriptorsAre DEF CandleInv
        <3> QED BY <3>1
    <2> QED BY <2>1, <2>2
<1> QED BY <1>1, <1>2, SixPlaces DEF CandleInv, CandleTypeOK

LEMMA TwinsDoAgree ==
    ASSUME CandleInv
    PROVE  TwinsAgree
<1> SUFFICES ASSUME Len(chart) > 1, ~TouchesBothLimits(chart[Len(chart)], chart[Len(chart) - 1].c)
             PROVE  /\ Descriptors(Flipped(chart), rank).labels = Opposite(reading.labels)
                    /\ Descriptors(Flipped(chart), rank).text =
                         [n \in DOMAIN reading.text |-> Opposite(reading.text[n])]
    BY DEF TwinsAgree
<1>1. PICK ch, turned, q : ch = chart /\ turned = Flipped(chart) /\ q = rank
    OBVIOUS
<1>2. ch \in Seq(Bar) /\ Len(ch) > 1 /\ UpsideDown(ch, turned)
    BY <1>1, FlippedIs DEF CandleInv
<1>3. reading.labels = LabelsOf(ch, q) /\ reading.text = TextOf(ch, q)
    BY <1>1, <1>2, DescriptorsAre DEF CandleInv
<1>4. Descriptors(turned, q).labels = LabelsOf(turned, q) /\ Descriptors(turned, q).text = TextOf(turned, q)
    <2>1. Len(turned) \in Nat /\ ~(Len(turned) < 2)
        BY <1>2 DEF UpsideDown
    <2>2. Descriptors(turned, q) = [labels |-> LabelsOf(turned, q), text |-> PriceText(LabelsOf(turned, q))]
        BY <2>1 DEF Descriptors, LabelsOf
    <2>3. PriceText(LabelsOf(turned, q)) = TextOf(turned, q)
        BY <2>1, TextIs
    <2> QED BY <2>2, <2>3
<1>5. /\ LabelsOf(turned, q) = Opposite(LabelsOf(ch, q))
      /\ TextOf(turned, q) = [n \in DOMAIN TextOf(ch, q) |-> Opposite(TextOf(ch, q)[n])]
    BY <1>1, <1>2, LabelsTurned
<1> QED BY <1>1, <1>3, <1>4, <1>5

LEMMA EveryDaySays ==
    ASSUME CandleInv
    PROVE  EveryDayHasWords
<1> SUFFICES ASSUME Len(chart) > 1
             PROVE  /\ DOMAIN reading.text # {}
                    /\ "INVALID_TR0" \in reading.labels <=> reading.text = <<{"INVALID_TR0"}>>
                    /\ chart[Len(chart)].h = chart[Len(chart)].l =>
                         reading.text = << {IF Apart(chart[Len(chart)].c, chart[Len(chart) - 1].c)
                                                 < LimitRange(chart[Len(chart) - 1].c) THEN "INVALID_TR0"
                                            ELSE IF chart[Len(chart)].c > chart[Len(chart) - 1].c
                                                 THEN "LIMIT_HIGH_FULL_STUCK"
                                            ELSE "LIMIT_LOW_FULL_STUCK"} >>
    BY DEF EveryDayHasWords
<1>1. PICK ch, q : ch = chart /\ q = rank
    OBVIOUS
<1>2. ch \in Seq(Bar) /\ Len(ch) > 1 /\ Len(ch) \in Nat
    BY <1>1 DEF CandleInv
<1>3. PICK bar, old : bar = ch[Len(ch)] /\ old = ch[Len(ch) - 1]
    OBVIOUS
<1>4. Ordered(bar) /\ Ordered(old)
    BY <1>2, <1>3, FlippedIs DEF UpsideDown
<1>5. PICK close \in Int : close = old.c
    BY <1>4 DEF Ordered
<1>6. reading.labels = LabelsOf(ch, q) /\ reading.text = TextOf(ch, q)
    BY <1>1, <1>2, DescriptorsAre DEF CandleInv
<1>7. PriceText(LabelsOf(ch, q)) = TextOf(ch, q)
    BY <1>2, TextIs
<1>8. /\ DOMAIN reading.text # {}
      /\ "INVALID_TR0" \in reading.labels <=> reading.text = <<{"INVALID_TR0"}>>
    BY <1>2, <1>3, <1>4, <1>6, <1>7, TextHasWords
<1>9. ASSUME bar.h = bar.l
      PROVE  reading.text = << {IF Apart(bar.c, close) < LimitRange(close) THEN "INVALID_TR0"
                                ELSE IF bar.c > close THEN "LIMIT_HIGH_FULL_STUCK"
                                ELSE "LIMIT_LOW_FULL_STUCK"} >>
    BY <1>2, <1>3, <1>4, <1>5, <1>6, <1>7, <1>9, FlatDayText
<1> QED BY <1>1, <1>3, <1>5, <1>8, <1>9

LEMMA CandleInvMeans ==
    ASSUME CandleInv
    PROVE  CandleSafe
BY CandleTyped, TwinsDoAgree, EveryDaySays DEF CandleSafe

(* Every arm for the high side has its twin for the low side, with the     *)
(* same boundary and the same rank among the others, and no day but the    *)
(* first of a chart is left without words, for any limits, prices and      *)
(* ranks.                                                                  *)
THEOREM CandlesAreSafe == CandleSpec => []CandleSafe
<1>1. CandleInv => CandleSafe
    BY CandleInvMeans
<1> QED BY <1>1, CandleInitHolds, CandleStepKeeps, PTL DEF CandleSpec

(* The two jobs share no state: what holds of each holds of both.          *)
THEOREM WordsAreSafe == WordsSpec => []WordsSafe
<1>1. CandleSafe /\ NamesSafe => WordsSafe
    BY DEF WordsSafe
<1> QED BY <1>1, CandlesAreSafe, NamesAreSafe, PTL DEF WordsSpec
=============================================================================
