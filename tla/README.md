# hasherdash in TLA+

hasherdash polls ASIC miners on a local network, keeps one row per device in
memory, stores their metrics in SQLite (or in memory), and shows both in a
browser. This directory models the parts of it that are hard to test: the
identity of a device that changes name and address, the history that must follow
it, the poll cycle around both, the rescan protocol between the browser and the
poll loop, the page in the browser with its overlapping requests and stored
preferences, and two pure parts, the settings and the temperatures. TLC checks
the models on small instances, and TLAPS proves the central ones for every value
of their constants.

Paths below are relative to the repository; `store.go` is
`internal/store/store.go`, and so on.

## 1. The system

| Component | State | Operations | Talks to |
|---|---|---|---|
| Stable identity (`models/miner.go`) | none | `StableID`, `ApplyStableID`, `DistinctiveHostname`, `NormalizeMAC`; `identityAliases` in `store.go` | called by the store and the poller |
| Live fleet map (`store.go`) | `miners`: id to row | `Upsert`, `rekeyLocked`, `findMinerLocked`, `Prune` | written by the poll goroutine under `Store.mu`, read by handlers |
| In-memory history (`store.go`) | `history`: id to rings | `push`, `slice`, `pushLocked`, `rekeyLocked` | `Upsert`, when there is no database |
| Metric database (`sqlite.go`) | table `metric_samples` | `renameMetrics`, `insertSamples`, `pruneMetricsBefore`, `historyFromDB` | `Upsert` and `MarkPoll`, after they have unlocked |
| Poll cycle (`poller.go`, `asicrs.go`) | `discovered`, `lastScan`, `forceRescan`, the workers and their channel | `tick`, `Collect`, `resolveIPs`, `scanLocked`, `prune`, `Forget` | calls the miners through asic-rs, and the store |
| Rescan protocol (`poller.go`, `asicrs.go`, `server.go`, `app.js`) | `kick`, `pollMu`, `a.mu`, `forceRescan`, `polling` | `Run`, `RequestRescan`, `handleRescan`, `waitUntilIdle` | browser, handler, poll goroutine |
| History queries (`store.go`, `sqlite.go`, `server.go`) | none of its own | `History`, `parseWindow`, `filterPoints` | the browser |
| Dashboard client (`app.js`) | rows, table, selection, detail, filters and their options, metric, chart and hidden lines; columns, sort order, range, folded sections and width of the filters, each with its copy in `localStorage` | `refresh`, `loadDetail`, `loadHistory`, the handlers of every control, the loaders of stored preferences, the drag of the filter column, `mergeSeriesByMiner`, `aggregateHashrateByType` | the HTTP API |
| Telemetry (`asicrs.go`, `axetemp/temps.go`) | none | `detailFromMinerData`, the second request for temperatures | the miners |
| Configuration (`config.go`) | none after start | `Load`: defaults, file, environment, clamps | everything takes its result |
| Process (`main.go`) | the context | start, signal, shutdown, `Close` | all |

What is hard here, with the property each part owes:

* **Identity flaps.** A device may leave out its name, its MAC or its serial in
  any poll, and its address changes. Whatever the order, it must stay one row,
  under the key its fields give, and no address may be on two rows.
* **Two places to move.** A promotion re-keys the map in one critical section,
  and the samples later, one transaction per old id. A transaction may fail and
  the process may stop between any two. No sample may be lost, or be charted as
  another device's.
* **Results and cancellation.** Workers run at once and end in any order, fail,
  or are cancelled before they start. What they send is all `Upsert` ever knows.
* **Addresses that are forgotten.** Pruned rows return addresses that are no
  longer polled; a row that stays must not lose its address that way.
* **Flag, kick and tick.** A rescan sets a flag, then sends on a channel that
  drops; a tick of the ticker may consume the flag first; a scan holds the mutex
  for minutes; the browser only sees a boolean.
* **Answers out of order.** The page cancels nothing. A refresh is three requests
  in a row, and clicks, filters and timers start more; each answer is about the
  server, the filters, the range and the selection of an earlier moment. When all
  have come, or failed, what is shown must fit together, and be right at last.
* **Preferences of another build.** What is stored may name columns, ranges and
  sections that are gone, and a column of filters that is wider than the window.
* **Limits between settings.** The length of a ring follows from two settings that
  three sources may set to anything.
* **Missing and copied sensors.** Any temperature may be absent, or be a copy of
  the regulator's; the range of a miner and the values of its boards come from
  different places.

`PROJECT.json` lists each hazard at its line with the properties that watch it,
and the ones no property covers yet.

## 2. Modules

```
Identity ── Fleet ─┬─ Store ── Charts ── TypeView ── MCStore    DeviceHistory (abstract)
                   ├─ Poller ── MCPoller
                   └─ FleetProofs ─┬─ StoreProofs   (and Store, Folding)
                                   │    └─ ChartProofs  (and TypeView)
                                   └─ PollerProofs  (and Poller)
Recent ── Ring                                                  HistoryLog (abstract)
Ring, Config, Temps ─┬─ MCParts
                     └─ PartsProofs  (and Folding)
Folding (lemmas about induction, folds and bounded sequences)
Resizer ── Preferences ── Dashboard ─┬─ MCDashboard
                                     └─ DashProofs
Rescan ── RescanProofs
```

**Identity** translates `miner.go`. Strings are members of small sets of
spellings; what the code does to a string is a function on them (`HostFold`,
`MacFold`, `SerialFold` take a spelling to its canonical one, `MacFold` takes an
implausible or all-zero address to the empty string). An id is a pair whose first
component is the prefix. Each report carries `box`, the device that answered; no
definition of the code branches on it. Serial numbers are normalised by
trimming and lower-casing, so `SerialFold` does both at once; trimming is part
of the choice of spellings.

**Fleet** is the map `s.miners` and one clock. An action is a critical section of
`Store.mu`: `UpsertLive` and `UpsertFailed` are the two paths of `Upsert`, `Prune`
is `Prune`. `FindMiner` returns all rows of the first tier that matches, because
Go ranges over the map in any order and takes the first hit. `Folded` is the set
of ids an upsert folds into the new one. `rekeyLocked` may put the old row under
the new id for a moment; `Upsert` overwrites it in the same critical section, so
the effect is `Replace`. An id `""` is never re-keyed (`store.go:314`), which
`Folded` keeps. `Restart` empties the map, which is not persisted.

**Ring** is the ring buffer with its array, `head` and `full`. **HistoryLog** is
what it promises: the last `Size` points under each key. **Recent** holds
`KeepLast`, which both use.

**Store** extends Fleet with the history. In memory mode the history moves with
the row, under the lock. In SQLite mode `UpsertStart` is the critical section, and
`RenameMetrics` and `InsertSamples` are the transactions that follow; `work` is
what is left to do. `RenameFails`, `InsertFails` and `MarkPollFails` are the
transactions that fail, `RestartStore` stops the process between any two steps.
One series stands for the eleven metrics, which are all treated alike.
`RekeyOrders` gives the orders in which the ids of one upsert are moved; only the
swept rows come in any order. `Moved` tells the series after a move. **DeviceHistory**
is what the database promises, told by device: recorded samples stay until retention.

**Charts** is what a chart makes of a state of Store: the series of
`/api/history` in either mode, the row the browser takes each to belong to
(`LiveRows`), the label and name it gives it (`Enriched`), and the lines it
merges them into (`MergeKey`, `LinePoints`, `Drawn`). All of it only reads, so it
is operators, and what a chart owes is stated as invariants of `StoreSpec`. Where
the browser's tables keep the last of several rows, any of them may be the one.
Rows and series come from one state (the code reads them in separate requests),
no filter is set, and the limit of 40 lines is out of the instances' reach.
`ModelName` gives the model a box reports. A line is taken to be drawn when any of its
series has a label; the code needs that of its first series, or of the merged one.
`Segments` is how a line is cut at the holes between its samples, once they are in
order (`ByTime`); `Gap` is the threshold, and `GapsBreakLines` tries every choice of
zero and non-zero values. It asks for breaks and drops to zero where a metric does
not accumulate, as README.md:98 does; the line of one that does must show its samples
and nothing else, and whether its path is broken is left open (finding 10). The module
also names what a device may report for a result about lines to hold (`Identified`,
`LabelsIdentify`, `NamedAreSteady`).

**TypeView** is the other view, one group for each model
(`aggregateHashrateByType`). It takes the series before they are merged, types
each by the row it is taken to belong to, or else by what the server said of it,
and a group is the set of samples its average, minimum and maximum are made of.

**Poller** extends Fleet with the cycle: `BeginTick` to `PruneFleet` are the parts
of `tick` between which something else can happen; the workers end in any order
(`PollAnswered`, `PollFails`, `PollCancelled`). The world around it has leases:
`Move` gives an address to a box, `Stop` cancels the context. A scan finds any
subset of the addresses that answer.

**Rescan** has the poll goroutine as a program counter, and one actor per browser
for its click, its handler and its wait. The mutexes, the kick channel of capacity
one, the ticker and the polling flag are variables; `request` is a history
variable that follows a browser's request. `Exit` is `main` returning after a
shutdown: at any moment, because `httpServer.Shutdown` waits ten seconds at most, and
nothing waits for the poll goroutine. The browser whose request is cut off gets an
error and may click again.

**Resizer** is the column of filters: a drag by any pointer, the arrow keys, a
double click, a change of the window, and the width in `localStorage`. A pointer
may come up outside the page or be cancelled; `down` is the set of pointers that
are down in fact, which the code does not know.

**Preferences** extends it with what else is stored: columns, sort order, range,
custom bounds, folded sections. The `Load` operators are what a load makes of
values that an older build stored, or of none. `TimeParams` is what a request asks
for, `ServedWindow` what the server makes of it (`parseWindow`), and `AxisWindow`
what the axis has room for. Times are ages, and the clock stands still while the
page is open. One tab is open.

**Dashboard** extends Preferences with the page and its requests. A call is one run
of an asynchronous function (`refresh`, `loadDetail`, `loadHistory`) that waits:
`calls` are `MaxCalls` of them. `Answer` is the server reading one of its states
(`Worlds`, in order), and `FleetArrives`, `DetailArrives` and `HistoryArrives` are
what the function does with the answer, later and in any order among calls; the
first two go on to the next request of the refresh. `Fail` is a request that fails,
with what the function's `catch` does. `StartRefresh` is the interval; `UserStep`
is every control, `Reload` and a change of the window. The `budget` of a visit
bounds what the user, the network and the server do in it; refreshes are not bounded.
`chart` keeps beside the lines the query and the series they came from, which only
the properties read.

**Config** is `Load` of `config.go` for the three settings that depend on each other
(poll interval, retention, points of a ring): defaults, file, environment, limits.

**Temps** is the conversion of a miner's readings and the second request of Axe
devices. A reading counts units of 0.04 degrees, so `SameTemp`, less than 0.05
apart, is at most one unit apart. The second request may answer any combination.

**MCParts** checks Ring, Config and Temps in one run. Each moves only while the
other two are where they began, so their states add up and do not multiply.

Four abstractions to know about. The clock counts ticks of `Advance`, so steps at
one time are ordered only by the steps; `PollLag` says how much older than its
upsert a poll may be, and the runs use 0 (a cycle is short against a tick).
Poller uses the map in SQLite mode, where no in-memory history exists and no alias
is folded. A filter of the page fires both `input` and `change`, which start two
loads of the history; here it starts one, and the brand filter and the status filter
stand for the others. A series of `Dashboard` exists only with samples in the
window, as the database answers; without a database an empty one may come too.

## 3. What is checked

| Run | Question | Answer |
|---|---|---|
| `parts` | Do rings keep the last points through wraps, moves and merges? Is a ring long enough whatever is configured? Do the temperatures of a miner and of its boards agree, and does a copied reading stay out? | yes: rings implement HistoryLog |
| `store_sqlite` | Do samples survive renames, a failed transaction and restarts, and are they charted as one line, and in one group, for each box? | yes: healed, attributed, kept until retention; one line for a box with a name, no line with two boxes, no group with two models |
| `store_memory` | Does a box with a MAC and addresses of its own stay one row until its TTL, with its in-memory history whole and in order, and its chart line broken at the holes? Is the fleet unaffected by the history? | yes, for steady identities |
| `store_takeover` | Are samples still a box's own when its address goes to another? | **no** (finding) |
| `charts_models` | Is a line one box when boxes give no name? | **no** (finding) |
| `charts_departed` | Are all samples in the window drawn? | **no** (finding) |
| `poller` | Do cycles, moves, rescans, prunes and a shutdown keep polling what is shown, and the map consistent? | yes, and a cycle writes only fleet steps |
| `poller_cancel` | Does a cancelled worker leave nothing? | **no** (finding) |
| `poller_ghost` | Is one moved box one row? | **no** (finding) |
| `rescan` | Is no rescan lost, no tick skipped, every click answered unless the process stops, the loop ended? | yes, with the fairness below |
| `rescan_ui` | Does the browser refresh only after its rescan? | **no** (finding) |
| `dashboard` | Do chart, legend and table fit together whatever the order of clicks and answers, and is what is shown right in the end? Do preferences come back as they were left, does the axis show what is asked for, does the filter column fit, and does the sorted column stay shown, whatever was stored before? | yes, with the fairness below; the sorted column is shown from the first change on |

`LinesOfOneBox` is checked twice. In `store_sqlite` one box has a name and falls
back to a factory name, the other has a factory name only, and they are of two
models; the server then labels no series of one with what the browser takes for a
name of the other. In `charts_models` both boxes are of one model and give no name.
The assumptions of `MCStore` state the difference: the reports of `store_sqlite` meet
all that the theorems about charts ask for (`RenamesAreOwn`), those of `charts_models`
all but `LabelsIdentify` (`UnnamedAreMerged`), and those of `store_memory` what the
theorems about series in memory ask for (`NamedAreOne`).

Bounds. Two boxes are the least for one to take what was another's; two or three
addresses, one for each box and one to move to. Names: a distinctive name, another
box's name, a factory name; MACs: one in two spellings, and another. `TTL = 1`
with `MaxTime = 3` lets a row expire and its box return. `Retention = 1` likewise
for samples; the runs that are about something else set it to 0, which keeps all.
`store_memory` has rings of three points, which keeps a merge out of order visible
(with two, the trimmed series hides it). One fault reaches every failing
transaction, at any place. In `poller` one move of a lease is enough for a box to
leave an address and for another to get it; reports that break the map's keys are
the business of the proofs, which take any. In `parts` rings of three points wrap,
and two keys move and merge; the settings are absurd (negative, zero), below each
limit, at it, and longer than the default retention; readings are one unit apart,
which is noise, and two and three, which are not. Two browsers are enough for a
kick to be dropped and for one request to be served by another's tick; each
property of Rescan is about one request.

In `dashboard`, two calls at a time are enough for one answer to overtake another,
of the same function or of a different one. The server has two states: two miners
of two brands, then one of them is gone, with its brand, and the other one fails;
the departed one's samples are in the longer window only. A visit has three
acts on the settings, or two on the view while the server changes, or one on the view
while a request fails and the server changes, or one on the settings and one on the
view, a reload among them. It begins in a wide window with nothing stored, or with a
sort order alone, once of a column that is shown and once of one that is not; or in a
narrow window with what an older build stored: a retired column, sort key, range and
section, and a column of filters that is too wide. The narrow one has no two acts on
the view, which does not depend on the window.

Fairness. In Rescan, the goroutines are scheduled, and each scan, poll and
transaction ends, because each has a timeout: weak fairness of the runner's step.
A waiter for a Go mutex is served at last (it turns to first-come order after a
millisecond): strong fairness of the steps that lock `a.mu`. `select` chooses at
random among ready cases: strong fairness of `SelectDone`. The ticker keeps
firing. Nobody has to click, and nobody has to shut down. All of it ends with the
process (`Exit`), and nothing is assumed of when that is: `RescanServed` and
`ClickAnswered` say what happens unless the process is stopping, and `LoopEnds` that
the loop ends after a shutdown however long the process takes to exit.

In Dashboard, the interval keeps firing while the page is open (weak fairness of
`StartRefresh`, which needs a free slot of `calls`), a request is answered or fails,
and the event loop runs the rest of a function whose answer is there: weak fairness
of `Answer`, `FleetArrives`, `DetailArrives` and `HistoryArrives` in each slot. The
three liveness properties say that the page is right from some moment on; they
hold because acts, failures and changes of the server are finitely many, and the
next refresh asks for everything again.

Each property of a passing run has a mutant: an operator such as `NoSweep` or
`KickWhenIdle`, beside the definition it replaces, that a plausible bug would turn
the code into, and that TLC then finds.

## 4. What is proved

Every safety property and every refinement that a passing run checks is also a
theorem, for every value of the constants. Liveness is not (see the end).

`Folding` has no theorems of its own but the lemmas the others rest on. The library's
induction theorems take a predicate as a parameter, which no installed prover can
instantiate, so induction is restated over a set: a set of natural numbers that has 0
and with each number the next has them all (`Induction`, from the least number that
is missing). From it follow the existence of a recursive function on 0..n
(`RecursionExists`), that a finite set has a greatest element and can be listed in
order (`FiniteHasEnds`, `InOrderExists`), what `FoldLeft` of the community modules is,
which is defined through a choice on sets of indices (`FoldsBy`, `FoldExists`,
`FoldSteps`), and what `KeepLast` keeps.

`FleetProofs` (for every set of reports, TTL and clock bound):

* `FleetTypeCorrect`, `RowsKeyedByIdentity`, `AddressesUnique`: the invariant is
  `FleetInv`, the conjunction of the three. They need each other: a failed poll
  writes the address it tried into the row it found, and the row stays under its
  key only because that row was found by that address or by an address key, and
  it is the only row there.
* `OneRowPerDevice`: `OneRowPerMAC` is about MACs whose names come with no other
  (`SteadyMAC`), and is not inductive. The strengthening says where rows come from:
  each is a normalised report, or an error that names only its address. An upsert
  that reports such a MAC then finds the row that has it.
* `BoxesStay`: under `OwnIdentity` (no part of an identity, and no address, is
  shared by two boxes) every step keeps a row for every box that was seen within
  the TTL, except a restart. The trace of `store_takeover` shows that the assumption
  is needed: its last upsert sweeps the row of the other box.
* `ApplyIdempotent`: normalising in the poller and again in the store is harmless.

`PartsProofs`, for the parts that share no state with others:

* Rings. `PushType`, `PushKeepsRecent` and `PushPointRefines`: a push at any fill,
  wrapped or not, is an append to a log of the last `Size` points. `MergeKeepsRecent`
  follows the loop of `rekeyLocked` over the points of the other ring, and
  `RingsKeepRecentPoints` is the refinement as a whole.
* Settings. `RingsCoverRetention`, for any defaults, file and environment. The limits
  are applied in an order, each to the results of the ones before, and `ClampCovers`
  follows them through the division of retention by interval.
* Temperatures. `DetailAgreesWithRange` and `NoChipFromCopies`, for any readings of
  any boards. A range is that of a set of readings (`SpanIs`), and what is shown of a
  board is taken from the same set, before the second request and after it.

`StoreProofs` (for every set of reports and any number of faults):

* `StoreImplementsFleet`: every step of Store, in both modes, is a step of Fleet or
  none, so the results of `FleetProofs` hold of Store too.
* `StoreTypeCorrect`, in both modes: `SqlInv` and `MemInv` add to the shapes what each
  mode leaves of the other's state. `MemInv` says too that series are under ids that
  some report has.
* `UpsertHeals`, with a database. `SqlInv` has the shape of `work` (`WorkOf`): it
  belongs to a report whose row is in the map, and while no rename has failed, every
  sample under another id of that row is still to be renamed.
* Under `OwnIdentity`, `SamplesKeepTheirDevice` in both modes, and `SamplesAreKept` with
  a database. `OwnInv` adds that every sample is under an id its box reports, and that
  every rename in progress is between ids of one box. A rename that keeps one of two
  samples of one time then drops one of the same box, so the log by device loses
  nothing. In memory `MoveAllIs` says what the loop of an upsert leaves of the series:
  the points of those it moved, and the others as they were.
* In memory, `HistoryIsInOnePlace` under `SteadyIdentity`: an upsert moves the series
  of its aliases to an id that is an alias of no other row, because no other row has
  that MAC.
* In memory, `SeriesStayInOrder`, with upserts in the tick of their poll. The property
  itself asks for `OneIdentity`. `OrderInv` adds that when both ids of a device have a
  series, the points under its name are older than those under its MAC: those came
  when its row had left the fleet and a poll gave no name, and no poll has given the
  name since. So the merge of `rekeyLocked`, which appends what it moves, appends
  what is later.

`ChartProofs` (the same, and any bad labels, models and gap):

* `LiveRowsAre`: under `OwnIdentity` and `Identified` (a poll that succeeded was
  answered by a box and gives an id), the row the browser takes a series to belong to
  is one of the box whose samples it has, or there is none. `OriginInv` says where
  that row came from, and an error row has no name or MAC to be found by.
* `GroupsKeepToOneModel` follows, and `LinesKeepToOneBox` where, besides, no name that
  does not tell units apart is merged by (`LabelsIdentify`): the key of a line is then
  an id, or a name, of one box.
* `NamedMinersHaveOneLine` and `NamedMinersAreCounted`: where a box that ever gives a
  name of its own gives no other and always its MAC (`NamedAreSteady`), each of its
  series is under its name or its MAC, and is matched with its row, which is its only
  one (`OneRowPerMAC`).
* `GapsAreShown`, for metrics that accumulate and for others, which asks nothing of
  the reports. `Strokes` says what is drawn after
  the first i samples: as many strokes as there are holes among them and one, each
  unbroken, at zero on both sides of a hole, and every sample on one; `NextStroke` adds
  a sample, `AllStrokes` goes through all, and `SegmentsShow` ends the last stroke.
  That a line has finitely many samples is `NoneLater`: none is later than the clock.

`PollerProofs` (for every network, lease change, failure and cancellation): the
invariant `CycleInv` says what each phase of a cycle has in hand: results only of
addresses that are polled, none outside polling and upserting, none beside an error
of the collection, and the flag down only outside a cycle, at its end, or after such
an error. `FlagDownMeansApplied` follows, and `CyclesImplementFleet` brings the
results of `FleetProofs` to a running poller. `EveryRowIsPolled` needs
`UniqueAddress` among them: only then is the address of a pruned row, which is
forgotten, not that of a row which stays. `SomethingUsable` shows
that the branch of `Collect` for "nothing usable" (`asicrs.go:100`) is never taken
once there is an address to poll.

`RescanProofs` (for any number of browsers): `TicksAreNotSkipped`, because the runner
holds `pollMu` exactly from its `TryLock` to its `Unlock`, and `ForcedScansGoAhead`,
because whoever set the flag has yet to kick, or a kick is in the channel, or a
tick that has not read the flag has begun.

`DashProofs` (for any miners, states of the server, stored preferences, windows and
pointers, and any number of calls and acts): four invariants, one for each layer.
`WidthInv` and `PrefInv` give `ColumnFits`, `NothingIsForgotten` and
`AxisAndQueryAgree`. `SortStays` says that the sorted column is shown from the first
choice of columns or of a sort order on: by `PrefInv` a reload changes nothing, so it
cannot bring back the columns of one moment and the sort order of another. Where the
visit began with both in accord (`VisitsAreSorted`), it is always shown (`SortIsShown`).
`ViewInv` is the types of the page and of its calls (`PageTypes`).
`ChartInv` says that the lines are those of the chart's series, filters and rows, or
that a history is still to come; `LegendFollowsChart` and `ChartFollowsFilters`
follow. `RefreshLeavesTable` is about single steps.

The assumptions are those the modules declare (`IdentityAssumption`,
`FleetAssumption`, `StoreAssumption`, `ChartsAssumption`, `PollerAssumption`,
`RingAssumption`, `TempsAssumption`, `RescanAssumption`, `ConfigAssumption`,
`ResizerAssumption`, `PreferencesAssumption`, `NoneIsNoValue`,
`DashboardAssumption`), which TLC evaluates on every instance, and those a theorem
names. Of these `UseSQLite` and `PollLag = 0` choose a mode, `VisitsAreSorted` is about
storage, and the others are about which reports occur: `SteadyIdentity`, `OwnIdentity`,
`OneIdentity`, `Identified`, `LabelsIdentify` and `NamedAreSteady`. Each run that checks
a property under such a hypothesis has reports that meet it (`MCStore`).

Only model-checked: all liveness (`RescanServed`, `ClickAnswered`, `LoopEnds`,
`DetailSettles`, `ChartSettles`, `TableSettles`), which rests on fairness and ENABLED,
and the properties of the runs that expect a violation.

## 5. What the models found

1. `store.go:184`: the sweep of `Upsert` takes any row at an address for a stale
   ghost of the same device. When DHCP gives the address to another box, the first
   box loses its row (README.md:85 promises it until `miner_ttl`), and its samples
   are renamed to the other (README.md:89).
2. `app.js:1576`: `seriesLabel` falls back to the model when a row has no hostname,
   the browser takes that label for a hostname (`app.js:1529`), and merges lines by
   it: miners of one model without names are one line (`charts_models`). What has to
   hold for a line to be one box is `LabelsIdentify`, and `LinesKeepToOneBox` proves
   that nothing else is missing.
3. `app.js:1602`: a series without a live row is labelled by its id, and an id that
   is a MAC, an address or a serial is no label; the line is dropped, although
   README.md:14 and README.md:96 promise that departed miners stay on charts
   (`charts_departed`).
4. `asicrs.go:70`: a worker cancelled before its turn sends a zero `Detail`, which
   `Collect` counts as usable; the fleet gets a row with the empty id. A side
   effect: `Collect` never returns details together with an error, which is why
   `IdleMeansApplied` holds although `tick` marks the poll before its upserts there.
5. `store.go:170`: the address a box left is still polled, fails, and becomes a
   second row for that box, until the TTL.
6. `app.js:445`: when a cycle is running as Rescan is clicked, the browser sees
   the flag down at the end of that cycle and refreshes before its own has begun.
7. Met, without a run: with To alone the request has no lower end (`app.js:324`),
   where the comment above it says that the window is still bounded, and the axis
   shows one day (`app.js:304`). The store sends all it has up to To. `AxisIsQuery`
   leaves this case out (`OnlyTo`).
8. Met, without a run: a box that is renamed, leaves the fleet and is renamed back
   has two rings in memory that are then merged out of time order (`store.go:333`,
   whose comment calls the merge best-effort; the client sorts points before it
   draws). `SeriesStayInOrder` proves that this takes a second name, or no MAC: it
   cannot happen where a device has one of each (`OneIdentity`).
9. Met, without a run: the names the server takes for factory defaults
   (`miner.go:90`) are more than those the browser does (`app.js:1466`): two units
   called `antminer` are two rows and one line, as in finding 2 (`LabelsIdentify`
   excludes it).
10. Met, without a run: README.md:98 says that best and session diff are "held across
    gaps", and `chartSegments` breaks their path at a hole as well (`app.js:1133`).
    What it holds is the value at the break, which does not drop to zero.
    `GapsBreakLines` asks for breaks only of the metrics that do not accumulate.
11. Met, without a run, in the page: a history that fails empties the chart and
    forgets the hidden lines. An answer to `loadHistory` may take a picked brand away without
    drawing the table again, which waits for the next refresh (`app.js:1772`);
    overlapping requests may show an older answer until then. When a miner is
    promoted to another id its selection stays with the old one, and the detail is
    gone. README.md:100 says that Refresh kicks the backend; it only asks again. A
    refresh interval from storage is not checked. A window that gets smaller and
    larger again keeps the smaller width of the filters until a reload. The
    comparator of the table is inconsistent where a flag says that a value is there
    and the value is zero, which the encoding leaves out.
12. Met, without a run: `loadSort` asks whether the stored sort key is one of this build,
    not whether its column is shown (`app.js:207`). A key that an older build stored, of
    a column that is now hidden, sorts the table until the columns or the order are
    changed; app.js:848 falls back to another column only as one is hidden. Two tabs of
    this build come to it as well, since they share the storage key by key. A visit of
    `dashboard` begins that way, and `SortStaysShown` says what holds from there on.
13. Met, without a run: a poll interval above the default retention of seven days
    leaves the retention below the interval (`config.go:262`), as
    `RingCoversRetention` says in its last line. `applyAxeTemps` corrects the first
    board only, which is all an Axe device has.

## 6. Plan

What the plan had is done, except:

1. **Close**: `main` closes the store as it returns (`main.go:44`), while the poll
   goroutine may be in the middle of an upsert. `Close` sets `s.db` to nil under the
   lock, and `Upsert` reads it again after its own (`store.go:220`, `sqlite.go:117` and
   `268`). The rest of that upsert may then skip its renames and its insert, put a
   sample into a ring, or use the nil handle and panic. The process is about to exit,
   so what is left is the database, as a stop between two transactions leaves it:
   `RestartStore` stops the process there, and the properties of `store_sqlite` hold
   after it. The race itself is not modelled.
2. **Proofs**: every safety property of a passing run is proved. What could be added
   is the converse of some hypotheses (that each is needed, as the traces of
   `store_takeover` and `charts_models` show for two of them), and the safety part of
   the liveness arguments: that a request which waits is always in some queue.
3. **Ids that change between two requests**: a miner promoted between the rows and the
   history of one refresh, or between the two reads of `historyFromDB`.
4. **Several tabs**: two copies of Preferences over one storage (finding 12).

Not modelled, and why: telemetry conversion beyond identity and temperatures
(display fields that are copied, no state); drawing on the canvas and in table
cells, the theme, the refresh interval and the collapsed filter panel of the page
(one value each, read by nothing modelled); settings that are limited alone, and
their parsing; opening the database and its pragmas (I/O); encoding of the HTTP
API; packaging, pages and workflows.
