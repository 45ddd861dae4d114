---------------------------- MODULE DerivedCatalog ----------------------------
(***************************************************************************)
(* What the derived generations promise their readers: a catalog in which  *)
(* a generation is published at most once, in one step, and takes over     *)
(* exactly the coordinates it writes; in which a write-once coordinate is  *)
(* never taken over; and in which the latest row of a code only moves to a *)
(* generation of the same or a newer trade date.  How the objects are      *)
(* registered, uploaded, checked, displaced and swept is not visible here. *)
(***************************************************************************)
EXTENDS Naturals

CONSTANTS
    Gens, Codes, NoGen,
    TradeDate,               \* trade date of each generation
    Offers,                  \* what each may publish: <<slots, codes it is latest of>>
    WriteOnce,               \* slots whose coordinates are never republished
    SameCoordinate(_, _, _)  \* do two generations compete on a slot

VARIABLES
    published,   \* the generations published so far
    live,        \* the <<generation, slot>> pairs readers are served
    latest       \* the generation behind the latest row of each code

catalog == <<published, live, latest>>

Init ==
    /\ published = {}
    /\ live = {}
    /\ latest = [c \in Codes |-> NoGen]

TakenOver(g, W) == {l \in live : l[2] \in W /\ SameCoordinate(l[2], g, l[1])}

(* g publishes the slots W and offers itself as the latest of the codes T. *)
Publish(g, W, T) ==
    /\ g \notin published
    /\ published' = published \cup {g}
    /\ \A l \in TakenOver(g, W) : l[2] \notin WriteOnce
    /\ live' = (live \ TakenOver(g, W)) \cup ({g} \X W)
    /\ latest' = [c \in Codes |->
                    IF /\ c \in T
                       /\ latest[c] # NoGen => TradeDate[latest[c]] <= TradeDate[g]
                    THEN g ELSE latest[c]]

Next == \E g \in Gens : \E o \in Offers[g] : Publish(g, o[1], o[2])

Spec == Init /\ [][Next]_catalog
=============================================================================
