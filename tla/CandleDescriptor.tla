-------------------------- MODULE CandleDescriptor --------------------------
(***************************************************************************)
(* How the latest bar of a code is put into words                          *)
(* (src/src/stockradar/utils/candle_descriptor.py): the limits the close   *)
(* before it sets, its range, body and wicks, the window between the two   *)
(* days.  A label is its key; a text has, for each place of the sentence   *)
(* that is filled, the key whose words fill it; they are strung together   *)
(* in the order of the places.  The rank of the range among its window, and *)
(* the mean range before today, are inputs: the rolling means themselves   *)
(* are not modelled.  Ratios are compared by cross multiplication, in      *)
(* percent.                                                                *)
(***************************************************************************)
EXTENDS Integers, Sequences, FiniteSetsExt

CONSTANTS
    ConfigTable,     \* the limits of config/jpx_limit_table.yaml, <<threshold, range>>
    DefaultTable,    \* the limits the module falls back to
    LastRange,       \* the range above every threshold
    Prices,          \* the prices a bar may have
    OldBars,         \* the bars a chart may begin with
    Ranks,           \* the percentile ranks in percent, Unknown under 20 days
    MeanRange,       \* the mean true range up to the day before
    MaxBars,         \* bound: the bars of a chart
    Unknown

VARIABLES
    chart,           \* the bars of the code, the latest last
    rank,            \* where the latest range stands among its window
    reading          \* candle_labels and price_text of the latest bar
candleVars == <<chart, rank, reading>>

-----------------------------------------------------------------------------
Bar == {b \in [o : Prices, h : Prices, l : Prices, c : Prices] :
          b.l <= b.o /\ b.l <= b.c /\ b.o <= b.h /\ b.c <= b.h}

ASSUME CandleAssumption ==
    /\ Prices \subseteq Int /\ OldBars \subseteq Bar /\ MaxBars \in Nat \ {0}
    /\ ConfigTable \in Seq(Int \X Nat) /\ DefaultTable \in Seq(Int \X Nat) /\ LastRange \in Nat

Apart(x, y) == IF x < y THEN y - x ELSE x - y
Greater(x, y) == IF x < y THEN y ELSE x
Lesser(x, y) == IF x < y THEN x ELSE y

\* The label of the first arm that holds, none where the arm names none.
NoLabel == ""
FirstArm(arms) ==
    LET on == {n \in DOMAIN arms : arms[n][2]}
    IN IF on = {} THEN {} ELSE {arms[Min(on)][1]} \ {NoLabel}
\* Of several checks that each overwrite the label, the last that holds.
LastCheck(checks) ==
    LET on == {n \in DOMAIN checks : checks[n][2]}
    IN IF on = {} THEN {} ELSE {checks[Max(on)][1]}

-----------------------------------------------------------------------------
(* Limits.                                                                 *)
LimitTable == IF ConfigTable = <<>> THEN DefaultTable ELSE ConfigTable

LimitRange(close) ==
    LET above == {n \in DOMAIN LimitTable : close < LimitTable[n][1]}
    IN IF above = {} THEN LastRange ELSE LimitTable[Min(above)][2]

HitLowPassed(bar, low) == bar.l < low
HitLow(bar, low) == bar.l <= low
HitHigh(bar, high) == bar.h >= high

LimitLabels(bar, close) ==
    LET high == close + LimitRange(close)
        low == close - LimitRange(close)
    IN LastCheck(<<
         <<"LIMIT_HIGH_TOUCH", HitHigh(bar, high)>>,
         <<"LIMIT_LOW_TOUCH", HitLow(bar, low)>>,
         <<"LIMIT_HIGH_TOUCH_STUCK", HitHigh(bar, high) /\ bar.c >= high>>,
         <<"LIMIT_LOW_TOUCH_STUCK", HitLow(bar, low) /\ bar.c <= low>>,
         <<"LIMIT_HIGH_OPEN_ONLY", HitHigh(bar, high) /\ bar.o >= high /\ bar.c < high>>,
         <<"LIMIT_LOW_OPEN_ONLY", HitLow(bar, low) /\ bar.o <= low /\ bar.c > low>>,
         <<"LIMIT_HIGH_FULL_STUCK", \A p \in {bar.h, bar.o, bar.c, bar.l} : p >= high>>,
         <<"LIMIT_LOW_FULL_STUCK", \A p \in {bar.h, bar.o, bar.c, bar.l} : p <= low>>>>)

-----------------------------------------------------------------------------
(* Features.  The closes arrive shifted forward by a day and are shifted   *)
(* back before they are laid beside the bars: each day is beside its own   *)
(* close, and the latest beside nothing.                                   *)
AlignedClose(ch, n) == IF n < Len(ch) THEN ch[n].c ELSE Unknown

TrueRange(ch, n) ==
    LET bar == ch[n]  close == AlignedClose(ch, n)
        own == bar.h - bar.l
    IN IF close = Unknown THEN own
       ELSE Max({own, Apart(bar.h, close), Apart(bar.l, close)})

Features(ch) ==
    LET n == Len(ch)  bar == ch[n]
    IN [range |-> TrueRange(ch, n),
        body  |-> Apart(bar.c, bar.o),
        upper |-> bar.h - Greater(bar.o, bar.c),
        lower |-> Lesser(bar.o, bar.c) - bar.l,
        gap   |-> IF AlignedClose(ch, n) = Unknown THEN Unknown ELSE bar.o - AlignedClose(ch, n)]

-----------------------------------------------------------------------------
(* Labels.  A range of nothing leaves every ratio undefined.               *)
OddLabels(bar, f) ==
    (IF f.gap # Unknown /\ (\/ Apart(f.gap, 0) >= 5 * MeanRange
                            \/ bar.o # f.gap /\ 100 * Apart(f.gap, 0) >= 30 * Apart(bar.o, f.gap))
     THEN {"ACTION_SUSPECT"} ELSE {})
    \cup (IF /\ f.gap # Unknown /\ Apart(f.gap, 0) >= MeanRange
             /\ f.range > 0 /\ 100 * Apart(f.gap, 0) >= 60 * f.range
          THEN {"GAP_DOMINANT"} ELSE {})

SizeLabels(q) ==
    IF q = Unknown THEN {}
    ELSE FirstArm(<<<<"RANGE_VERY_LARGE", q >= 95>>,
                    <<"RANGE_LARGE", q >= 85>>,
                    <<"RANGE_VERY_SMALL", q < 15>>,
                    <<"RANGE_SMALL", q < 40>>>>)

AtLeast(f, part, percent) == 100 * part >= percent * f.range
AtMost(f, part, percent) == 100 * part <= percent * f.range

BodyLabels(f) ==
    FirstArm(<<<<"DOJI", AtMost(f, f.body, 10)>>,
               <<"BODY_MARUBOZU_LIKE", AtLeast(f, f.body, 70) /\ AtMost(f, Greater(f.upper, f.lower), 15)>>,
               <<NoLabel, AtLeast(f, f.body, 70)>>,
               <<"BODY_LONG", AtLeast(f, f.body, 55)>>,
               <<"BODY_SMALL", AtMost(f, f.body, 25)>>,
               <<"BODY_MIDDLE", TRUE>>>>)

WickLabels(f) ==
    FirstArm(<<<<"WICK_BOTH_LONG", AtLeast(f, f.upper, 45) /\ AtLeast(f, f.lower, 45)>>,
               <<"WICK_BOTH_PRESENT", AtLeast(f, f.upper, 25) /\ AtLeast(f, f.lower, 25)>>,
               <<"WICK_UPPER_LONG", AtLeast(f, f.upper, 45)>>,
               <<"WICK_LOWER_LONG", AtLeast(f, f.lower, 45)>>,
               <<"WICK_UPPER_PRESENT", AtLeast(f, f.upper, 25)>>,
               <<"WICK_LOWER_PRESENT", AtLeast(f, f.lower, 25)>>>>)

DirLabels(bar) ==
    FirstArm(<<<<"DIR_BULL", bar.c > bar.o>>, <<"DIR_BEAR", bar.c < bar.o>>>>)

\* An empty range says so, unless a limit explains it.
FlatLabelsFirst(f, limits) == IF f.range = 0 THEN {"INVALID_TR0"} ELSE {}
FlatLabels(f, limits) == IF f.range = 0 /\ limits = {} THEN {"INVALID_TR0"} ELSE {}

CandleLabels(ch, q) ==
    LET bar == ch[Len(ch)]  f == Features(ch)
        limits == LimitLabels(bar, ch[Len(ch) - 1].c)
        shape == IF f.range = 0 THEN {} ELSE BodyLabels(f) \cup WickLabels(f)
    IN limits \cup FlatLabels(f, limits) \cup OddLabels(bar, f) \cup SizeLabels(q) \cup shape
         \cup (IF "DOJI" \in shape THEN {} ELSE DirLabels(bar))

\* The window is named for the side on which it is left open.
WindowLabels(old, bar) ==
    FirstArm(<<<<"GAP_DOWN", old.h < bar.l>>, <<"GAP_UP", old.l > bar.h>>>>)

-----------------------------------------------------------------------------
(* Text.                                                                   *)
LimitWords == <<"LIMIT_HIGH_TOUCH", "LIMIT_LOW_TOUCH", "LIMIT_HIGH_TOUCH_STUCK",
                "LIMIT_LOW_TOUCH_STUCK", "LIMIT_HIGH_OPEN_ONLY", "LIMIT_LOW_OPEN_ONLY",
                "LIMIT_HIGH_FULL_STUCK", "LIMIT_LOW_FULL_STUCK">>
OddWords == <<"INVALID_TR0", "ACTION_SUSPECT">>
\* Each place of the sentence, with the words that may fill it.
Places == <<<<"GAP_DOMINANT">>,
            <<"GAP_UP", "GAP_DOWN">>,
            <<"RANGE_VERY_LARGE", "RANGE_LARGE", "RANGE_SMALL", "RANGE_VERY_SMALL">>,
            <<"WICK_BOTH_LONG", "WICK_BOTH_PRESENT", "WICK_UPPER_LONG", "WICK_LOWER_LONG",
              "WICK_UPPER_PRESENT", "WICK_LOWER_PRESENT">>,
            <<"DOJI", "BODY_MARUBOZU_LIKE", "BODY_LONG", "BODY_SMALL", "BODY_MIDDLE">>,
            <<"DIR_BULL", "DIR_BEAR">>>>

Said(words, labels) == FirstArm([n \in DOMAIN words |-> <<words[n], words[n] \in labels>>])

PriceText(labels) ==
    LET limit == Said(LimitWords, labels)
        odd == Said(OddWords, labels)
    IN IF limit # {} THEN <<limit>>
       ELSE IF odd # {} THEN <<odd>>
       ELSE [n \in {k \in DOMAIN Places : Said(Places[k], labels) # {}} |-> Said(Places[n], labels)]

Descriptors(ch, q) ==
    IF Len(ch) < 2 THEN [labels |-> {}, text |-> <<>>]
    ELSE LET labels == CandleLabels(ch, q) \cup WindowLabels(ch[Len(ch) - 1], ch[Len(ch)])
         IN [labels |-> labels, text |-> PriceText(labels)]

-----------------------------------------------------------------------------
CandleInit ==
    /\ chart \in {<<b>> : b \in OldBars}
    /\ rank = Unknown
    /\ reading = Descriptors(chart, Unknown)

\* A day later the latest bar is described again.
Trade(bar, q) ==
    /\ chart' = Append(chart, bar)
    /\ rank' = q
    /\ reading' = Descriptors(chart', q)

CandleNext == Len(chart) < MaxBars /\ \E bar \in Bar, q \in Ranks : Trade(bar, q)

CandleSpec == CandleInit /\ [][CandleNext]_candleVars

-----------------------------------------------------------------------------
CandleTypeOK ==
    /\ chart \in Seq(Bar) /\ Len(chart) \in 1..MaxBars
    /\ rank \in Ranks \cup {Unknown}
    /\ reading.text \in [DOMAIN reading.text -> SUBSET reading.labels]
    /\ DOMAIN reading.text \subseteq DOMAIN Places

Twins == {<<"LIMIT_HIGH_TOUCH", "LIMIT_LOW_TOUCH">>,
          <<"LIMIT_HIGH_TOUCH_STUCK", "LIMIT_LOW_TOUCH_STUCK">>,
          <<"LIMIT_HIGH_OPEN_ONLY", "LIMIT_LOW_OPEN_ONLY">>,
          <<"LIMIT_HIGH_FULL_STUCK", "LIMIT_LOW_FULL_STUCK">>,
          <<"GAP_UP", "GAP_DOWN">>, <<"DIR_BULL", "DIR_BEAR">>,
          <<"WICK_UPPER_LONG", "WICK_LOWER_LONG">>,
          <<"WICK_UPPER_PRESENT", "WICK_LOWER_PRESENT">>}
\* A word of a pair becomes the other one, a word of none stays.
Opposite(labels) ==
    {w \in labels : \A t \in Twins : w \notin {t[1], t[2]}}
      \cup UNION {{t[2] : w \in {t[1]} \cap labels} \cup {t[1] : w \in {t[2]} \cap labels} : t \in Twins}

\* The chart seen upside down, about the close the latest bar started from.
Flipped(ch) ==
    LET turn(p) == 2 * ch[Len(ch) - 1].c - p
    IN [n \in DOMAIN ch |-> [o |-> turn(ch[n].o), h |-> turn(ch[n].l),
                             l |-> turn(ch[n].h), c |-> turn(ch[n].c)]]
TouchesBothLimits(bar, close) ==
    bar.h >= close + LimitRange(close) /\ bar.l <= close - LimitRange(close)

\* A chart turned upside down is described by the opposite words: every arm
\* of compute_limit_suspect_labels, compute_candle_labels and compute_price_text
\* for the high side has its twin for the low side, with the same boundary and
\* the same rank among the others.  A day that touches both limits is set apart:
\* there the last of the checks wins, which is the low side's.
TwinsAgree ==
    (Len(chart) > 1 /\ ~TouchesBothLimits(chart[Len(chart)], chart[Len(chart) - 1].c)) =>
        LET turned == Descriptors(Flipped(chart), rank)
        IN /\ turned.labels = Opposite(reading.labels)
           /\ turned.text = [n \in DOMAIN reading.text |-> Opposite(reading.text[n])]

\* No day but the first of a chart is left without words, and a day of one price has
\* a single one, which is that the range is nothing only where no limit holds
\* the price (compute_candle_labels, compute_price_text).
EveryDayHasWords ==
    Len(chart) > 1 =>
        LET bar == chart[Len(chart)]  close == chart[Len(chart) - 1].c
            away == Apart(bar.c, close)
        IN /\ DOMAIN reading.text # {}
           /\ "INVALID_TR0" \in reading.labels <=> reading.text = <<{"INVALID_TR0"}>>
           /\ bar.h = bar.l =>
                reading.text = << {IF away < LimitRange(close) THEN "INVALID_TR0"
                                   ELSE IF bar.c > close THEN "LIMIT_HIGH_FULL_STUCK"
                                   ELSE "LIMIT_LOW_FULL_STUCK"} >>

\* The conjunction the run checks.
CandleSafe == CandleTypeOK /\ TwinsAgree /\ EveryDayHasWords
=============================================================================
