------------------------------- MODULE Charts -------------------------------
(***************************************************************************)
(* What the metrics chart makes of the store: the series /api/history      *)
(* returns, and the lines the browser merges them into (loadHistory in     *)
(* web/static/app.js).  Both only read, so they are operators on the state *)
(* of Store, and what a chart owes is stated as invariants of StoreSpec.   *)
(*                                                                         *)
(* The chart is drawn from the rows and the samples of one state, with no  *)
(* filter set and no more series than the browser draws.                   *)
(***************************************************************************)
EXTENDS Store

CONSTANTS
    BadLabels,  \* names the browser refuses to merge or label by
    ModelName,  \* box |-> the model (or make) its polls report
    Gap         \* samples further apart than this have a hole between them

ASSUME ChartsAssumption ==
    /\ BadLabels \subseteq HostNames
    /\ ModelName \in [Boxes -> Optional(HostNames)]
    /\ Gap \in Nat \ {0}

(* A label is any string: an id, or a bare name or model <<"name", n>>. *)
NoText == NoID

Name(n) == IF n = None THEN NoText ELSE <<"name", n>>

(* a || b || ...: the first text that is not empty. *)
FirstText(texts) ==
    LET some == { i \in DOMAIN texts : texts[i] # NoText }
    IN  IF some = {} THEN NoText ELSE texts[Min(some)]

-----------------------------------------------------------------------------
(* The server: one series per id that has samples. *)

(* A bound of 0 is none. *)
Asked(t, since, until) ==
    /\ since = 0 \/ t >= since
    /\ until = 0 \/ t <= until

SeriesIds(since, until) ==
    IF UseSQLite THEN { r.id : r \in { r \in db : Asked(r.t, since, until) } }
    ELSE DOMAIN history

SeriesPoints(id, since, until) ==
    LET stored == IF UseSQLite
                  THEN { [t |-> r.t, box |-> r.box] : r \in { r \in db : r.id = id } }
                  ELSE ToSet(history[id])
    IN  { p \in stored : Asked(p.t, since, until) }

RowModel(id) ==
    IF id \in DOMAIN miners /\ miners[id].box # None
    THEN ModelName[miners[id].box] ELSE None

(* Id is the label of a series without a row. *)
SeriesLabel(id) ==
    IF id \notin DOMAIN miners THEN id
    ELSE FirstText(<<Name(miners[id].host), Name(RowModel(id))>>)

-----------------------------------------------------------------------------
(* The browser: which row a series belongs to. *)

(* cleanHostname, then toLowerCase. *)
Clean(text) == IF text[1] = "host" THEN Name(text[2]) ELSE text

LowerName(text) ==
    IF Clean(text)[1] = "name" THEN Name(HostFold[Clean(text)[2]]) ELSE Clean(text)

(* Mutant: factory names are good enough to merge by. *)
AddressLike(text) == text = NoText \/ text[1] # "name"

BadLabel(text) ==
    \/ text = NoText
    \/ text[1] # "name"
    \/ HostFold[text[2]] \in BadLabels

RowName(id) == LowerName(Name(miners[id].host))

ById(id) ==
    { i \in DOMAIN miners :
        id # NoID /\ (i = id \/ (id[1] = "host" /\ RowName(i) = Clean(id))) }

(* Mutant: history keyed by MAC is not looked up. *)
NotByMAC(id) == {}

ByMAC(id) == { i \in DOMAIN miners : id[1] = "mac" /\ miners[i].mac = id[2] }

ByIP(id) == { i \in DOMAIN miners : id # NoID /\ id[1] = "ip" /\ miners[i].ip = id[2] }

ByName(text) ==
    { i \in DOMAIN miners : miners[i].host # None /\ RowName(i) = LowerName(text) }

(* The row a series is taken to belong to, as a set: one row, or none.     *)
(* Each lookup table keeps the last row with its key, in the order the     *)
(* rows were sent; any of them here.                                       *)
LiveRows(id) ==
    LET tier == <<ById(id), ByMAC(id), ByIP(id),
                  ByName(FirstText(<<SeriesLabel(id), id>>))>>
        hits == { i \in 1..4 : tier[i] # {} }
    IN  IF hits = {} THEN {{}} ELSE { {row} : row \in tier[Min(hits)] }

(* What is known of the series once that row is attached. *)
Good(text) == IF BadLabel(text) THEN NoText ELSE text

Enriched(id, live) ==
    LET row       == CHOOSE i \in live : TRUE
        canonical == IF live = {} THEN NoText ELSE row
        rowName   == IF live = {} THEN NoText ELSE Name(miners[row].host)
        rowModel  == IF live = {} THEN NoText ELSE Name(RowModel(row))
        hostname  == Clean(FirstText(<<rowName, SeriesLabel(id)>>))
    IN  [id |-> id, canonical |-> canonical, hostname |-> hostname,
         label |-> FirstText(<<Good(rowName), Good(hostname),
                               Good(Clean(SeriesLabel(id))), Good(Clean(canonical)),
                               Good(Clean(id)), rowModel, Name(RowModel(id))>>)]

ChartSeries(id) == { Enriched(id, live) : live \in LiveRows(id) }

-----------------------------------------------------------------------------
(* The browser: which series become one line. *)

MergeKey(s) ==
    LET host == LowerName(FirstText(<<s.hostname, s.label, s.canonical, s.id>>))
    IN  IF BadLabel(host) THEN FirstText(<<s.canonical, s.id>>)
        ELSE <<"h", host[2]>>

LineKeys(id) == { MergeKey(s) : s \in ChartSeries(id) }

Lines(since, until) == UNION { LineKeys(id) : id \in SeriesIds(since, until) }

LineIds(key, since, until) == { id \in SeriesIds(since, until) : key \in LineKeys(id) }

LinePoints(key, since, until) ==
    UNION { SeriesPoints(id, since, until) : id \in LineIds(key, since, until) }

(* A line is dropped when no series of it has a label. *)
Drawn(since, until) ==
    { key \in Lines(since, until) :
        \E id \in LineIds(key, since, until) :
            \E s \in ChartSeries(id) : s.label # NoText }

-----------------------------------------------------------------------------
(* The browser: a line as the segments that are stroked (chartSegments).   *)
(* Samples at one time are one point.  hold is set for metrics that        *)
(* accumulate.                                                             *)

Zero(p) == [t |-> p.t, v |-> 0]

Drop(seg, hold) ==
    IF hold \/ Last(seg).v = 0 THEN seg ELSE Append(seg, Zero(Last(seg)))

Rise(p, hold) == IF hold \/ p.v = 0 THEN <<p>> ELSE <<Zero(p), p>>

(* Mutant: the line drops to zero at a hole, but the path goes on. *)
AddBridging(segs, p, hold) ==
    IF segs = << >> THEN << <<p>> >>
    ELSE IF p.t - Last(Last(segs)).t > Gap
    THEN Append(Front(segs), Drop(Last(segs), hold) \o Rise(p, hold))
    ELSE Append(Front(segs), Append(Last(segs), p))

AddPoint(segs, p, hold) ==
    IF segs = << >> THEN << <<p>> >>
    ELSE IF p.t - Last(Last(segs)).t > Gap
    THEN Front(segs) \o <<Drop(Last(segs), hold), Rise(p, hold)>>
    ELSE Append(Front(segs), Append(Last(segs), p))

ByTime(points) ==
    CHOOSE s \in SetToSeqs(points) : \A i, j \in DOMAIN s : i < j => s[i].t <= s[j].t

(* A sample that is old when the window ends drops the line as well. *)
Segments(points, until, hold) ==
    LET segs == FoldLeft(LAMBDA acc, p : AddPoint(acc, p, hold), << >>, ByTime(points))
    IN  IF segs # << >> /\ until - Last(Last(segs)).t > Gap
        THEN Append(Front(segs), Drop(Last(segs), hold)) ELSE segs

-----------------------------------------------------------------------------
(* A poll that succeeded was answered by a box, and says more than nothing.*)
Identified == \A d \in Reports : StableID(d) # NoID /\ d.box # None

(* The browser merges by no name that does not tell units apart: neither   *)
(* by one that only the server knows to be generic, nor by the model of a  *)
(* box that reports no name.                                               *)
LabelsIdentify ==
    \A d \in Reports :
        /\ d.host # None /\ HostFold[d.host] \notin BadLabels
           => DistinctiveHostname(d.host) # None
        /\ d.host = None /\ d.box # None /\ ModelName[d.box] # None
           => HostFold[ModelName[d.box]] \in BadLabels

(* A box that ever reports a name of its own reports no other, and one MAC *)
(* with each poll.                                                         *)
NamedAreSteady ==
    \A d, e \in Reports :
        DistinctiveHostname(d.host) # None /\ d.box = e.box =>
            /\ NormalizeMAC(d.mac) # None
            /\ NormalizeMAC(e.mac) = NormalizeMAC(d.mac)
            /\ DistinctiveHostname(e.host) \in {None, DistinctiveHostname(d.host)}

(* "Generic factory hostnames ... are ignored for identity so identical    *)
(* defaults don't collapse separate units" (README:96): a line of the      *)
(* chart (app.js:1562) is the history of one box, although lines are       *)
(* merged by name, and a series finds its row through an id, a MAC, an     *)
(* address or a name.                                                      *)
LinesOfOneBox ==
    \A key \in Lines(0, 0) :
        \A p, q \in LinePoints(key, 0, 0) : p.box = q.box

(* "One chart series per physical miner" (app.js:1559): while a box is in  *)
(* the fleet under a name of its own, all its samples are on the line of   *)
(* that name, also those a failed rename or a restart left under an id it  *)
(* had before.                                                             *)
OneLinePerNamedMiner ==
    \A row \in { i \in DOMAIN miners : ~BadLabel(RowName(i)) } :
        \A id \in SeriesIds(0, 0) :
            (\E p \in SeriesPoints(id, 0, 0) : p.box = miners[row].box)
            => LineKeys(id) = {<<"h", RowName(row)[2]>>}

(* "Departed miners stay on charts until retention ages them out"          *)
(* (README:14): whatever window is asked for, each of its samples is on a  *)
(* line that is drawn.                                                     *)
SamplesAreDrawn ==
    \A since \in 0..now :
        \A id \in SeriesIds(since, 0) :
            \A p \in SeriesPoints(id, since, 0) :
                \E key \in Drawn(since, 0) : p \in LinePoints(key, since, 0)

(* "Large gaps in other samples break the line (and drop toward zero)      *)
(* instead of drawing a misleading bridge" (README:98): whatever values    *)
(* the samples of a line have, a stroke never joins points across a hole,  *)
(* it is broken nowhere else, it shows every sample, and it goes to zero   *)
(* on both sides of a hole.  "Cumulative metrics pass hold=true to keep    *)
(* the last value" (app.js:1104): they show every sample too, and are      *)
(* never zero where no sample is.                                          *)
Holes(times) ==
    { t \in times : (\E u \in times : u > t) /\ ~\E u \in times : u > t /\ u <= t + Gap }

Faithful(points, hold) ==
    LET segs   == Segments(points, now, hold)
        shown  == UNION { ToSet(segs[i]) : i \in DOMAIN segs }
        broken ==
            /\ Len(segs) = 1 + Cardinality(Holes({ p.t : p \in points }))
            /\ \A i \in DOMAIN segs :
                  /\ \A j \in 1..(Len(segs[i]) - 1) :
                        segs[i][j + 1].t - segs[i][j].t \in 0..Gap
                  /\ i > 1 => Head(segs[i]).v = 0
                  /\ i < Len(segs) \/ now - Last(segs[i]).t > Gap => Last(segs[i]).v = 0
    IN  /\ points \subseteq shown
        /\ IF hold THEN shown = points ELSE broken

GapsBreakLines ==
    \A key \in Drawn(0, 0) :
        LET times == { p.t : p \in LinePoints(key, 0, 0) }
        IN  \A v \in [times -> 0..1], hold \in BOOLEAN :
                Faithful({ [t |-> t, v |-> v[t]] : t \in times }, hold)
=============================================================================
