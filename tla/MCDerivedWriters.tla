--------------------------- MODULE MCDerivedWriters ---------------------------
(***************************************************************************)
(* Instances of DerivedWriters for TLC.  Of the runs below, those of one   *)
(* scenario go on together: a Daily run and a seed of an older day; the    *)
(* Daily runs of two days; the Daily run, the backfill and the reconcile   *)
(* of one day; the bundles of a day written twice; the seeds of two        *)
(* requests.  A scenario says how often each of its runs is tried.         *)
(***************************************************************************)
EXTENDS DerivedWriters, TLC

CONSTANTS c1, daily, later, backfill, recon, asof1, asof2, seed, seed2

Seeds == {seed, seed2}
Bundles == {asof1, asof2}

MCProfile == [g \in Gens |->
    CASE g \in Seeds -> "series_only"
      [] g \in Bundles -> "web_asof"
      [] g = backfill -> "snapshot_only"
      [] g = recon -> "snapshot_series"
      [] OTHER -> "snapshot_series_latest"]
MCDate == [g \in Gens |-> IF g = seed THEN 1 ELSE IF g = later THEN 3 ELSE 2]
MCGroup == [g \in Gens |->
    CASE g \in {backfill, recon} -> "derived-v1-1"
      [] g = seed -> "mnc-r1"
      [] g = seed2 -> "mnc-r2"
      [] g = asof2 -> "ops"
      [] OTHER -> "daily-indicators"]
MCRequest == [g \in Gens |-> IF g = seed THEN "r1" ELSE IF g = seed2 THEN "r2" ELSE "-"]
MCCodes == [g \in Gens |-> IF g \in Bundles THEN {} ELSE {c1}]

(* Who runs, how often each is tried, and whether the sweeper goes round.  *)
SeedScenes == {<<{daily, seed}, 2, TRUE>>, <<Seeds, 2, TRUE>>}
DayScenes == {<<{daily, later}, 1, TRUE>>, <<Bundles, 1, TRUE>>, <<Bundles, 2, FALSE>>,
              <<{daily, backfill, recon}, 2, FALSE>>}

SeedInit == \E k \in SeedScenes : InitOf(k[1], k[2], k[3])
SeedSpec == SeedInit /\ [][Next]_vars
DayInit == \E k \in DayScenes : InitOf(k[1], k[2], k[3])
DaySpec == DayInit /\ [][Next]_vars
=============================================================================
