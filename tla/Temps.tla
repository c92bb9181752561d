------------------------------- MODULE Temps --------------------------------
(***************************************************************************)
(* The temperatures of a polled miner: what detailFromMinerData            *)
(* (internal/poller/asicrs.go) makes of the readings of its boards, with   *)
(* the second request that Axe devices get because their driver copies the *)
(* regulator's reading into those of the chips (internal/axetemp).         *)
(*                                                                         *)
(* A reading is a number of units of 0.04 degrees, or None; readings are   *)
(* the same when they are less than 0.05 degrees, so one unit, apart.      *)
(***************************************************************************)
EXTENDS Integers, FiniteSets, SequencesExt

CONSTANTS
    NoReading,  \* an absent reading
    Readings    \* the readings there are

ASSUME TempsAssumption ==
    /\ Readings \subseteq Int /\ IsFiniteSet(Readings)
    /\ NoReading \notin Int \cup [min : Int, max : Int]

VARIABLE temps  \* the miner polled last and what is shown of it, or NoReading

Maybe == Readings \cup {NoReading}

(* board is the regulator's sensor, chips those of single chips. *)
Board == [board : Maybe, inlet : Maybe, outlet : Maybe, chips : SUBSET Readings]

Present(S) == S \ {NoReading}

(* Mutant: only equal readings are the same. *)
SameReading(a, b) == NoReading \notin {a, b} /\ a = b

SameTemp(a, b) == NoReading \notin {a, b} /\ a - b \in -1..1

(* MinMax. *)
Span(S) ==
    IF S = {} THEN NoReading
    ELSE [min |-> CHOOSE x \in S : \A y \in S : x <= y,
          max |-> CHOOSE x \in S : \A y \in S : y <= x]

-----------------------------------------------------------------------------
(* A chain sensor that repeats the regulator is none. *)
Chain(reading, b) == IF SameTemp(reading, b.board) THEN NoReading ELSE reading

ChipReadings(b) == Present(b.chips \cup {Chain(b.inlet, b), Chain(b.outlet, b)})

(* Ends without a sensor of their own are taken from the board's range. *)
BoardRow(b) ==
    LET span == Span(ChipReadings(b))
        End(sensor, bound) ==
            IF Chain(sensor, b) # NoReading \/ span = NoReading THEN Chain(sensor, b)
            ELSE span[bound]
    IN  [asicIn |-> End(b.inlet, "min"), asicOut |-> End(b.outlet, "max"), vr |-> b.board]

Polled(boards) ==
    [asic |-> Span(UNION { ChipReadings(b) : b \in ToSet(boards) }),
     vr   |-> Span(Present({ b.board : b \in ToSet(boards) })),
     rows |-> [i \in DOMAIN boards |-> BoardRow(boards[i])]]

(* On an Axe device: no chip reading, or one that repeats the regulator.   *)
NeedsFallback(p) ==
    \/ p.asic = NoReading
    \/ /\ p.vr # NoReading
       /\ SameTemp(p.asic.min, p.vr.min) /\ SameTemp(p.asic.max, p.vr.max)

(* Mutant: the board of the detail keeps what was polled. *)
ApplySnapshotOnly(p, info) ==
    [p EXCEPT
        !.asic = IF info.chip = NoReading THEN @ ELSE Span({info.chip}),
        !.vr = IF @ # NoReading \/ info.vr = NoReading THEN @ ELSE Span({info.vr})]

(* applyAxeTemps: the chip replaces what there was, the regulator does not. *)
ApplyAxeTemps(p, info) ==
    LET chip == info.chip # NoReading
        vr   == p.vr = NoReading /\ info.vr # NoReading
        Row(i, r) ==
            IF i > 1 THEN r
            ELSE [asicIn  |-> IF chip THEN info.chip ELSE r.asicIn,
                  asicOut |-> IF chip THEN info.chip ELSE r.asicOut,
                  vr      |-> IF vr THEN info.vr ELSE r.vr]
    IN  [asic |-> IF chip THEN Span({info.chip}) ELSE p.asic,
         vr   |-> IF vr THEN Span({info.vr}) ELSE p.vr,
         rows |-> [i \in DOMAIN p.rows |-> Row(i, p.rows[i])]]

(* info is what the second request gave: nothing when it failed. *)
Converted(boards, axe, info) ==
    LET p == Polled(boards)
    IN  IF axe /\ NeedsFallback(p) THEN ApplyAxeTemps(p, info) ELSE p

(* The headline: the hottest chip, else what was polled, else the regulator. *)
Headline(c, average) ==
    IF c.asic # NoReading THEN c.asic.max
    ELSE IF average \in {NoReading, 0} /\ c.vr # NoReading THEN c.vr.max
    ELSE average

-----------------------------------------------------------------------------
(* An Axe device has one board; others have up to two here.                *)
NoOutlet == { b \in Board : b.outlet = NoReading }

Devices == { <<b>> : b \in Board } \X BOOLEAN \cup (NoOutlet \X NoOutlet) \X {FALSE}

Infos == [chip : Maybe, vr : Maybe]

(* A miner is polled, by itself. *)
TempsInit == temps = NoReading

ConvertPoll ==
    /\ temps = NoReading
    /\ \E d \in Devices, info \in Infos :
          temps' = [boards |-> d[1], axe |-> d[2], info |-> info,
                    shown |-> Converted(d[1], d[2], info)]

NextPoll == temps # NoReading /\ temps' = NoReading

TempsNext == ConvertPoll \/ NextPoll

TempsSpec == TempsInit /\ [][TempsNext]_temps

Within(reading, span) ==
    reading # NoReading => span # NoReading /\ span.min <= reading /\ reading <= span.max

(* What the table shows of a miner and what its detail shows of the boards *)
(* agree (asicrs.go:388, 418, 487): every reading of a board lies in the   *)
(* range of the miner, whichever sensors are missing or copied, and        *)
(* whatever the second request answers.                                    *)
BoardsAgreeWithRange ==
    temps # NoReading =>
        LET c == temps.shown
        IN  \A i \in DOMAIN c.rows :
                /\ Within(c.rows[i].asicIn, c.asic) /\ Within(c.rows[i].asicOut, c.asic)
                /\ Within(c.rows[i].vr, c.vr)

(* What the driver copies of a regulator, sensor noise included.           *)
Copies(b) ==
    IF b.board = NoReading THEN {NoReading}
    ELSE { r \in Readings : r - b.board \in {-1, 0, 1} } \cup {NoReading}

(* "ASIC temps come from real chip sensors only" (asicrs.go:367): when an  *)
(* Axe device gives nothing but copies of its regulator, noise included,   *)
(* and the second request gives no chip, no chip temperature is made up,   *)
(* and the headline still is a reading of the regulator.                   *)
GivesCopies(b) == b.chips = {} /\ {b.inlet, b.outlet} \subseteq Copies(b)

CopiesAreNotChips ==
    /\ temps # NoReading
    /\ temps.axe /\ GivesCopies(temps.boards[1]) /\ temps.info.chip = NoReading
    => LET c == temps.shown
       IN  /\ c.asic = NoReading /\ c.rows[1].asicIn = NoReading
           /\ c.vr # NoReading => Within(Headline(c, NoReading), c.vr)
=============================================================================
