----------------------------- MODULE Dashboard ------------------------------
(***************************************************************************)
(* The page in the browser (web/static/app.js): the fleet table, the       *)
(* detail pane, the filters and the chart, each filled by requests that    *)
(* overlap.  A refresh asks for the rows, then for the detail of the       *)
(* selected miner, then for the history; a click or a filter starts such   *)
(* a request by itself.  Nothing is cancelled, and answers arrive in any   *)
(* order.                                                                  *)
(*                                                                         *)
(* The server is the list of the states it goes through.  A call is one    *)
(* asynchronous function that waits for an answer.                         *)
(***************************************************************************)
EXTENDS Preferences, Sequences

CONSTANTS
    Miners,   \* ids of miners
    Makes,    \* the brands they can have
    Worlds,   \* states of the server, in order: rows and samples
    Metrics,  \* what the chart can show; "hashrate_by_type" groups miners by brand
    Visits,   \* how a visit can begin: viewport, stored width and preferences,
              \* and bounds on what the user, the network and the server do in it
    MaxCalls  \* bound on the calls at one time

Row == [id : Miners, make : Makes, err : BOOLEAN]

ASSUME DashboardAssumption ==
    /\ None \notin Miners \cup Makes
    /\ Worlds \in Seq([rows : SUBSET Row, samples : [Miners -> SUBSET (0..Oldest)]])
    /\ Worlds # << >>
    /\ \A w \in DOMAIN Worlds : \A r, s \in Worlds[w].rows : r.id = s.id => r = s
    /\ Visits \subseteq [viewport : Viewports, width : Nat \cup {None}, prefs : Stored,
                         budget : [{"view", "settings", "fail", "world"} -> Nat]]
    /\ "hashrate" \in Metrics /\ MaxCalls \in Nat \ {0}

VARIABLES
    epoch,    \* which of Worlds the server is in
    shown,    \* state.miners
    table,    \* the rows in the table body
    selected, \* state.selectedId
    detail,   \* state.detail
    metric,   \* the value of the metric select
    chart,    \* state.history, and what it was made from
    hidden,   \* state.hiddenSeries
    offered,  \* the options of the brand filter
    picked,   \* those that are selected
    okOnly,   \* the status filter is set to "ok"
    calls,    \* the calls that wait for an answer
    left      \* what is left of the budget

viewVars == <<shown, table, selected, detail, chart, hidden, offered>>
filterVars == <<metric, picked, okOnly>>
prefVars == <<pref, storage>>
dashVars == <<epoch, viewVars, filterVars, prefVars, calls, left, resizerVars>>

Slots == 1..MaxCalls

NoCall == [at |-> "none"]
Free == { s \in Slots : calls[s] = NoCall }

-----------------------------------------------------------------------------
(* What the server answers.                                                *)

RowsOf(id, rows) == { r \in rows : r.id = id }

MakeOf(id, rows) ==
    IF RowsOf(id, rows) = {} THEN None ELSE (CHOOSE r \in RowsOf(id, rows) : TRUE).make

(* A miner without samples in the window has no series (the metrics are    *)
(* in the database); a series has the brand of the row with its id, if     *)
(* there is one.                                                           *)
SeriesIn(world, query) ==
    { [id |-> id, make |-> MakeOf(id, world.rows)] :
        id \in { i \in Miners : \E age \in world.samples[i] :
                    query.window.until <= age /\ age <= query.window.since } }

-----------------------------------------------------------------------------
(* The filters.                                                            *)

RowPasses(r, makes, ok) ==
    /\ makes # {} => r.make \in makes
    /\ ok => ~r.err

Filtered(rows) == { r \in rows : RowPasses(r, picked, okOnly) }

(* A series without a row passes by what it says of itself.                *)
SeriesPasses(s, makes) == makes # {} => s.make \in makes

Kept(series, rows, makes, ok) ==
    { s \in series :
        IF RowsOf(s.id, rows) = {} THEN SeriesPasses(s, makes)
        ELSE \A r \in RowsOf(s.id, rows) : RowPasses(r, makes, ok) }

(* One line per miner, or one per brand (it stands for avg, min and max).  *)
LineOf(s, rows) == IF RowsOf(s.id, rows) = {} THEN s.make ELSE MakeOf(s.id, rows)

LinesFor(query, kept, rows) ==
    IF query.metric = "hashrate_by_type"
    THEN { <<"type", LineOf(s, rows)>> : s \in { t \in kept : LineOf(t, rows) # None } }
    ELSE { <<"miner", s.id>> : s \in kept }

(* The options that an answer leaves: those of the rows when it names none. *)
Facets(series, rows) ==
    LET named == { s.make : s \in series } \ {None}
    IN  IF named # {} THEN named ELSE { r.make : r \in rows }

-----------------------------------------------------------------------------
(* Starting a call. *)

Query == [metric |-> metric, window |-> ServedWindow(TimeParams)]

HistoryCall(refresh, query) ==
    [at |-> "history", refresh |-> refresh, query |-> query, answer |-> None]

DetailCall(refresh, id) ==
    [at |-> "detail", refresh |-> refresh, id |-> id, answer |-> None]

FleetCall == [at |-> "fleet", refresh |-> TRUE, answer |-> None]

Begin(call) ==
    /\ Free # {}
    /\ calls' = [calls EXCEPT ![CHOOSE s \in Free : TRUE] = call]

(* loadHistory, as the handlers that have just changed the page start it.  *)
BeginHistory == Begin(HistoryCall(FALSE, Query'))

-----------------------------------------------------------------------------
(* The network, and the server. *)

Spend(kind) == left[kind] > 0 /\ left' = [left EXCEPT ![kind] = @ - 1]

WorldStep ==
    /\ epoch < Len(Worlds) /\ Spend("world")
    /\ epoch' = epoch + 1
    /\ UNCHANGED <<viewVars, filterVars, prefVars, calls, resizerVars>>

Waits(s) == calls[s] # NoCall /\ calls[s].answer = None

(* The server reads its state now; the page sees the answer later.         *)
Answer(s) ==
    /\ Waits(s)
    /\ calls' = [calls EXCEPT ![s].answer = epoch]
    /\ UNCHANGED <<epoch, viewVars, filterVars, prefVars, left, resizerVars>>

Fail(s) ==
    /\ Waits(s) /\ Spend("fail")
    /\ calls' = [calls EXCEPT ![s].answer = 0]
    /\ UNCHANGED <<epoch, viewVars, filterVars, prefVars, resizerVars>>

-----------------------------------------------------------------------------
(* An answer arrives: the call runs on to its next request, or to its end. *)

Arrived(s, at) == calls[s] # NoCall /\ calls[s].at = at /\ calls[s].answer # None

Failed(s) == calls[s].answer = 0

World(s) == Worlds[calls[s].answer]

(* Mutant: the detail is loaded by a click only. *)
NextPartHistory == HistoryCall(TRUE, Query)

(* Mutant: with a miner selected a refresh ends with its detail. *)
NextPartDetail ==
    IF selected # None THEN DetailCall(FALSE, selected) ELSE HistoryCall(TRUE, Query)

(* refresh, after its first two requests: the rows, the table, and then    *)
(* the detail of a selected miner, or the history at once.                 *)
NextPart ==
    IF selected # None THEN DetailCall(TRUE, selected) ELSE HistoryCall(TRUE, Query)

(* Mutant: rows are updated, and those that are gone are kept. *)
FleetArrivesMerging(s) ==
    /\ Arrived(s, "fleet")
    /\ IF Failed(s)
       THEN calls' = [calls EXCEPT ![s] = NoCall] /\ UNCHANGED <<shown, table>>
       ELSE /\ shown' = World(s).rows
                 \cup { r \in shown : RowsOf(r.id, World(s).rows) = {} }
            /\ table' = Filtered(shown')
            /\ calls' = [calls EXCEPT ![s] = NextPart]
    /\ UNCHANGED <<epoch, selected, detail, chart, hidden, offered, filterVars,
                   prefVars, left, resizerVars>>

FleetArrives(s) ==
    /\ Arrived(s, "fleet")
    /\ IF Failed(s)
       THEN calls' = [calls EXCEPT ![s] = NoCall] /\ UNCHANGED <<shown, table>>
       ELSE /\ shown' = World(s).rows
            /\ table' = Filtered(shown')
            /\ calls' = [calls EXCEPT ![s] = NextPart]
    /\ UNCHANGED <<epoch, selected, detail, chart, hidden, offered, filterVars,
                   prefVars, left, resizerVars>>

(* A miner that is gone, and a request that fails, leave an error.         *)
DetailOf(id, rows) == [id |-> id, rows |-> RowsOf(id, rows)]

DetailArrives(s) ==
    /\ Arrived(s, "detail")
    /\ detail' = DetailOf(calls[s].id, IF Failed(s) THEN {} ELSE World(s).rows)
    /\ calls' = [calls EXCEPT ![s] =
                    IF calls[s].refresh THEN HistoryCall(TRUE, Query) ELSE NoCall]
    /\ UNCHANGED <<epoch, shown, table, selected, chart, hidden, offered, filterVars,
                   prefVars, left, resizerVars>>

(* Mutant: the filters are read before their options are filled. *)
LinesBefore(query, series, makes) ==
    LinesFor(query, Kept(series, shown, picked, okOnly), shown)

(* A series is drawn if it passes the filters there are now, where the     *)
(* brands are those that are still picked.                                 *)
LinesNow(query, series, makes) ==
    LinesFor(query, Kept(series, shown, makes, okOnly), shown)

(* Mutant: legend toggles are kept for when their line comes back. *)
AlwaysHidden(lines) == hidden

(* Legend toggles of lines that are gone are dropped. *)
StillHidden(lines) == hidden \cap lines

(* Mutant: the table was rendered with the rows, and that is enough. *)
TableBefore(refresh, makes) == table

(* A refresh renders the table once more. *)
TableAfter(refresh, makes) ==
    IF refresh THEN { r \in shown : RowPasses(r, makes, okOnly) } ELSE table

(* The rest of loadHistory: the options of the filters, which may drop     *)
(* what was picked, then the lines.                                        *)
HistoryArrives(s) ==
    LET query  == calls[s].query
        series == IF Failed(s) THEN {} ELSE SeriesIn(World(s), query)
    IN  /\ Arrived(s, "history")
        /\ offered' = Facets(series, shown)
        /\ picked' = picked \cap offered'
        /\ chart' = [query |-> query, series |-> series,
                     lines |-> LinesNow(query, series, picked')]
        /\ hidden' = StillHidden(chart'.lines)
        /\ table' = TableAfter(calls[s].refresh, picked')
        /\ calls' = [calls EXCEPT ![s] = NoCall]
        /\ UNCHANGED <<epoch, shown, selected, detail, metric, okOnly, prefVars,
                       left, resizerVars>>

-----------------------------------------------------------------------------
(* The timer, the Refresh button, and the end of a rescan. *)
StartRefresh ==
    /\ Begin(FleetCall)
    /\ UNCHANGED <<epoch, viewVars, filterVars, prefVars, left, resizerVars>>

(* What the user does. *)

RenderTable == table' = { r \in shown : RowPasses(r, picked', okOnly') }

ClickRow(id) ==
    /\ RowsOf(id, table) # {}
    /\ selected' = id
    /\ UNCHANGED filterVars /\ RenderTable
    /\ Begin(DetailCall(FALSE, id))
    /\ UNCHANGED <<shown, detail, chart, hidden, offered>>

PickFilter ==
    \/ \E m \in offered :
          /\ picked' = IF m \in picked THEN picked \ {m} ELSE picked \cup {m}
          /\ UNCHANGED okOnly
    \/ okOnly' = ~okOnly /\ UNCHANGED picked

ClearFilters == picked' = {} /\ okOnly' = FALSE

ChangeFilters ==
    /\ PickFilter \/ ClearFilters
    /\ RenderTable
    /\ UNCHANGED metric /\ BeginHistory
    /\ UNCHANGED <<shown, selected, detail, chart, hidden, offered>>

ChooseMetric ==
    /\ \E m \in Metrics \ {metric} : metric' = m
    /\ BeginHistory
    /\ UNCHANGED <<picked, okOnly, viewVars>>

ToggleLine(line) ==
    /\ line \in chart.lines
    /\ hidden' = IF line \in hidden THEN hidden \ {line} ELSE hidden \cup {line}
    /\ UNCHANGED <<shown, table, selected, detail, chart, offered, filterVars, calls>>

ChangeView ==
    \/ \E id \in Miners : ClickRow(id)
    \/ ChangeFilters
    \/ ChooseMetric
    \/ \E line \in chart.lines : ToggleLine(line)

(* The table is rendered with its new columns or order; a new window asks  *)
(* for the history.                                                        *)
ChangePreferences ==
    \/ /\ ChooseColumns \/ \E c \in Columns : ClickHeader(c)
       /\ RenderTable
       /\ UNCHANGED <<calls, shown, selected, detail, chart, hidden, offered>>
    \/ /\ \E id \in Sections : FoldSection(id)
       /\ UNCHANGED <<calls, viewVars>>
    \/ /\ (\E r \in Ranges : ChooseRange(r)) \/ TypeBounds
       /\ BeginHistory
       /\ UNCHANGED viewVars

(* Crossing the mobile breakpoint loads the history again. *)
ChangeWindow ==
    /\ \E v \in Viewports : ResizeWindow(v)
    /\ IF IsMobile' # IsMobile THEN BeginHistory ELSE UNCHANGED calls

NoChart == [query |-> None, series |-> {}, lines |-> {}]

FirstCalls == [s \in Slots |-> IF s = 1 THEN FleetCall ELSE NoCall]

(* The page is loaded again: what is not stored is lost, calls included,   *)
(* and the first refresh is on its way.                                    *)
Reload ==
    /\ shown' = {} /\ table' = {} /\ selected' = None /\ detail' = None
    /\ metric' = "hashrate" /\ chart' = NoChart /\ hidden' = {}
    /\ offered' = {} /\ picked' = {} /\ okOnly' = FALSE
    /\ calls' = FirstCalls
    /\ ReloadPreferences /\ ReloadResizer

UserStep ==
    /\ UNCHANGED epoch
    /\ \/ /\ Spend("view") /\ UNCHANGED <<prefVars, resizerVars>>
          /\ ChangeView
       \/ /\ Spend("settings") /\ UNCHANGED <<filterVars, resizerVars>>
          /\ ChangePreferences
       \/ /\ Spend("settings") /\ UNCHANGED <<viewVars, filterVars, prefVars>>
          /\ \/ ChangeWindow
             \/ ResizerStep /\ UNCHANGED calls
       \/ Spend("view") /\ Reload

Release ==
    /\ \E p \in down, c \in BOOLEAN : PointerEnds(p, c)
    /\ UNCHANGED <<epoch, viewVars, filterVars, prefVars, calls, left>>

-----------------------------------------------------------------------------
(* The visit begins with a window of some width, and with what an earlier  *)
(* one, or an older build, has stored.                                     *)
DashInit ==
    /\ epoch = 1
    /\ shown = {} /\ table = {} /\ selected = None /\ detail = None
    /\ metric = "hashrate" /\ chart = NoChart /\ hidden = {}
    /\ offered = {} /\ picked = {} /\ okOnly = FALSE
    /\ calls = FirstCalls
    /\ \E v \in Visits :
          /\ LoadedPreferences(v.prefs) /\ LoadResizer(v.viewport, v.width)
          /\ left = v.budget

DashNext ==
    \/ WorldStep
    \/ StartRefresh
    \/ UserStep
    \/ Release
    \/ \E s \in Slots : \/ Answer(s) \/ Fail(s)
                        \/ FleetArrives(s) \/ DetailArrives(s) \/ HistoryArrives(s)

(* setInterval goes on; a request is answered at last, or fails.           *)
DashFairness ==
    /\ WF_dashVars(StartRefresh)
    /\ \A s \in Slots :
          /\ WF_dashVars(Answer(s))
          /\ WF_dashVars(FleetArrives(s))
          /\ WF_dashVars(DetailArrives(s))
          /\ WF_dashVars(HistoryArrives(s))

DashSpec == DashInit /\ [][DashNext]_dashVars /\ DashFairness

-----------------------------------------------------------------------------
Windows == [since : Nat, until : Nat]
Queries == [metric : Metrics, window : Windows]
Lines == {"miner", "type"} \X (Miners \cup Makes)

Answers == {None} \cup 0..Len(Worlds)

Calls ==
    {NoCall}
    \cup [at : {"fleet"}, refresh : {TRUE}, answer : Answers]
    \cup [at : {"detail"}, refresh : BOOLEAN, id : Miners, answer : Answers]
    \cup [at : {"history"}, refresh : BOOLEAN, query : Queries, answer : Answers]

DashTypeOK ==
    /\ epoch \in 1..Len(Worlds)
    /\ shown \subseteq Row /\ table \subseteq Row
    /\ selected \in Miners \cup {None}
    /\ detail = None \/ detail \in [id : Miners, rows : SUBSET Row]
    /\ metric \in Metrics
    /\ chart.query \in Queries \cup {None} /\ chart.lines \subseteq Lines
    /\ picked \subseteq offered /\ offered \subseteq Makes /\ okOnly \in BOOLEAN
    /\ calls \in [Slots -> Calls]
    /\ pref \in Prefs /\ storage \in Stored

(* A loadHistory is out, or will follow what is out. *)
HistoryComes ==
    \E s \in Slots : calls[s].at = "history" \/ (calls[s] # NoCall /\ calls[s].refresh)

(* "Chart the filtered fleet (table filters)" (app.js:1721): once no       *)
(* history is on its way, what is drawn is what passes the filters and the *)
(* rows of now, although both can change while a request is out, and an    *)
(* answer can take a picked brand away.                                    *)
ChartMatchesFilters ==
    chart.query # None /\ ~HistoryComes =>
        chart.lines = LinesFor(chart.query, Kept(chart.series, shown, picked, okOnly), shown)

(* loadSort takes the stored sort order without a look at the columns      *)
(* (app.js:199), so that a visit may begin sorted by a hidden column.  The *)
(* first choice of columns or of a sort order ends that, and from then on  *)
(* the sorted column is shown (app.js:848), reloads included: what one     *)
(* handler stores is never read back beside what another left.             *)
SortStaysShown ==
    [][SortedColumnShown \/ pref'.columns # pref.columns \/ pref'.sort # pref.sort
       => SortedColumnShown']_dashVars

(* A line that a miner leaves and comes back to is "visible by default"    *)
(* (app.js:1748): no legend toggle outlives its line, also when charts     *)
(* that were asked for with another metric or window come in between.      *)
HiddenAreDrawn == hidden \subseteq chart.lines

(* The last part of a refresh ends it. *)
RefreshEnds(s) ==
    calls[s].at = "history" /\ calls[s].refresh /\ calls'[s] = NoCall /\ selected' = selected

(* "Table filter counts depend on filter selects now filled from history"  *)
(* (app.js:1772): the table a refresh leaves is that of the filters which  *)
(* its history left, also when the user changed them while it ran.         *)
RefreshLeavesTableRight ==
    [][(\E s \in Slots : RefreshEnds(s)) => table' = Filtered(shown)']_dashVars

(* What the user sees is right in the end: when the server, the network    *)
(* and the user come to rest, whatever the order in which the answers of   *)
(* overlapping calls came in, and after calls that failed,                 *)
(* - the detail is that of the selected miner (app.js:1346),               *)
DetailSettles ==
    <>[](selected # None => detail = DetailOf(selected, Worlds[epoch].rows))

(* - the chart is for the metric and the window chosen (app.js:1700),      *)
ChartSettles ==
    <>[](chart.query = Query /\ chart.series = SeriesIn(Worlds[epoch], Query))

(* - and the table has the rows of the server (app.js:1758).               *)
TableSettles ==
    <>[](shown = Worlds[epoch].rows /\ table = Filtered(shown))
=============================================================================
