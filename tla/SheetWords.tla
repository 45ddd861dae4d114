----------------------------- MODULE SheetWords -----------------------------
(***************************************************************************)
(* What becomes of the words of a sheet: the labels of its candles, and    *)
(* the names its news is looked up by.  The two jobs share no state.       *)
(***************************************************************************)
EXTENDS CandleDescriptor, NameAliases

WordsSpec == CandleSpec /\ NameSpec

\* The words of a bar are those of the bar upside down, turned over, and no
\* day is left without any (compute_candle_descriptors); what is written of
\* the names of a code was read for it, and counted once (update_kabutan_name_aliases.py).
WordsSafe == CandleSafe /\ NamesSafe
=============================================================================
