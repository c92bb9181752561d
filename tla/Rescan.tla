------------------------------- MODULE Rescan -------------------------------
(***************************************************************************)
(* The poll loop (Runner.Run, tick), the rescan requests that HTTP         *)
(* handlers make of it, and the browser that waits for one to be done.     *)
(*                                                                         *)
(* Actors: the poll goroutine, and a set of browsers, each with at most    *)
(* one POST /api/rescan in progress (the button is disabled meanwhile), so *)
(* that a browser and the handler that serves it are one sequential actor. *)
(* They share the source's mutex a.mu, forceRescan, the kick channel, and  *)
(* the store's polling flag.  What a cycle does to the fleet is in Poller. *)
(***************************************************************************)
EXTENDS Naturals

CONSTANTS
    Browsers,
    Runner,     \* the poll goroutine, as an owner of the mutex
    Nobody,     \* the owner of a free mutex
    Scannable,  \* whether subnets or ranges are configured
    Periodic    \* whether rescan_interval is positive

ASSUME RescanAssumption ==
    /\ Runner \notin Browsers /\ Nobody \notin Browsers \cup {Runner}
    /\ Scannable \in BOOLEAN /\ Periodic \in BOOLEAN

VARIABLES
    runner,     \* where the poll goroutine is
    ticker,     \* a tick is waiting in t.C
    started,    \* the ticker exists: the first tick has returned
    kick,       \* a kick is waiting in the channel, whose capacity is one
    pollMu,     \* held for the whole of a tick
    mu,         \* owner of a.mu
    force,      \* a.forceRescan
    scanned,    \* a.lastScan is not zero
    polling,    \* s.polling
    stopping,   \* the context is cancelled
    browser,    \* where each browser is
    request     \* what became of each browser's last request

vars == <<runner, ticker, started, kick, pollMu, mu, force, scanned, polling,
          stopping, browser, request>>

(* done: Run has returned; gone: the process has exited. *)
RunnerAt == {"tick", "collect", "resolve", "scan", "poll", "mark", "retention",
             "prune", "forget", "select", "done", "gone"}
BrowserAt == {"idle", "lock", "kick", "wait", "refresh"}

(* asked: forceRescan was set; scanned: a scan has consumed it; shown: the *)
(* cycle of that scan has ended.  A history variable.                      *)
Progress == {"none", "asked", "scanned", "shown"}

RescanInit ==
    /\ runner = "tick"
    /\ ticker = FALSE /\ started = FALSE
    /\ kick = FALSE
    /\ pollMu = FALSE
    /\ mu = Nobody
    /\ force = FALSE /\ scanned = FALSE
    /\ polling = FALSE
    /\ stopping = FALSE
    /\ browser = [b \in Browsers |-> "idle"]
    /\ request = [b \in Browsers |-> "none"]

-----------------------------------------------------------------------------
(* The poll goroutine. *)

(* tick up to SetPolling(true).  Only this goroutine ticks, so pollMu is   *)
(* never found locked.                                                     *)
Tick ==
    /\ runner = "tick"
    /\ IF pollMu \/ stopping
       THEN /\ runner' = "select" /\ started' = TRUE
            /\ UNCHANGED <<pollMu, polling>>
       ELSE /\ runner' = "collect"
            /\ pollMu' = TRUE /\ polling' = TRUE
            /\ UNCHANGED started
    /\ UNCHANGED <<ticker, kick, mu, force, scanned, stopping, browser, request>>

(* Collect returns at once when the context is cancelled. *)
CollectStops ==
    /\ runner = "collect" /\ stopping
    /\ runner' = "mark"
    /\ UNCHANGED <<ticker, started, kick, pollMu, mu, force, scanned, polling,
                   stopping, browser, request>>

LockSource ==
    /\ runner = "collect"
    /\ mu = Nobody
    /\ mu' = Runner
    /\ runner' = "resolve"
    /\ UNCHANGED <<ticker, started, kick, pollMu, force, scanned, polling,
                   stopping, browser, request>>

(* Mutant: forceRescan is not looked at. *)
ScanWhenDue(due) == Scannable /\ (~scanned \/ due)

(* shouldScanLocked: a forced scan, the first one, or one that is due; due *)
(* may be either answer once rescan_interval is positive.                  *)
ShouldScan(due) == Scannable /\ (force \/ ~scanned \/ due)

Consumed ==
    [b \in Browsers |-> IF request[b] = "asked" THEN "scanned" ELSE request[b]]

Resolve ==
    /\ runner = "resolve"
    /\ \E due \in {FALSE, Periodic} :
          IF ShouldScan(due)
          THEN /\ runner' = "scan"
               /\ force' = FALSE
               /\ request' = IF force THEN Consumed ELSE request
               /\ UNCHANGED mu
          ELSE /\ runner' = "poll"
               /\ mu' = Nobody
               /\ UNCHANGED <<force, request>>
    /\ UNCHANGED <<ticker, started, kick, pollMu, scanned, polling, stopping, browser>>

(* Mutant: the mutex is not released after a scan. *)
ScanKeepsLock ==
    /\ runner = "scan"
    /\ scanned' = TRUE
    /\ runner' \in {"poll", "mark"}
    /\ UNCHANGED <<ticker, started, kick, pollMu, mu, force, polling, stopping,
                   browser, request>>

(* The scan runs with a.mu held from beginning to end.  It leads to a poll,*)
(* or, without any address to poll, to the error path.                     *)
Scan ==
    /\ runner = "scan"
    /\ scanned' = TRUE
    /\ mu' = Nobody
    /\ runner' \in {"poll", "mark"}
    /\ UNCHANGED <<ticker, started, kick, pollMu, force, polling, stopping,
                   browser, request>>

(* The workers are joined and their results upserted. *)
PollAll ==
    /\ runner = "poll"
    /\ runner' = "mark"
    /\ UNCHANGED <<ticker, started, kick, pollMu, mu, force, scanned, polling,
                   stopping, browser, request>>

(* MarkPoll lowers the flag first, and then prunes the metrics table. *)
MarkPoll ==
    /\ runner = "mark"
    /\ polling' = FALSE
    /\ request' = [b \in Browsers |->
                     IF request[b] = "scanned" THEN "shown" ELSE request[b]]
    /\ runner' = "retention"
    /\ UNCHANGED <<ticker, started, kick, pollMu, mu, force, scanned, stopping, browser>>

PruneMetrics ==
    /\ runner = "retention"
    /\ runner' = "prune"
    /\ UNCHANGED <<ticker, started, kick, pollMu, mu, force, scanned, polling,
                   stopping, browser, request>>

(* Mutant: pollMu stays locked. *)
EndTickLocked ==
    /\ runner' = "select" /\ started' = TRUE
    /\ UNCHANGED pollMu

(* End of a tick: pollMu is unlocked, and the loop waits again. *)
EndTick ==
    /\ runner' = "select" /\ started' = TRUE
    /\ pollMu' = FALSE

(* prune has rows to forget, or none. *)
PruneFleet ==
    /\ runner = "prune"
    /\ \/ EndTick
       \/ runner' = "forget" /\ UNCHANGED <<started, pollMu>>
    /\ UNCHANGED <<ticker, kick, mu, force, scanned, polling, stopping, browser, request>>

Forget ==
    /\ runner = "forget"
    /\ mu = Nobody
    /\ EndTick
    /\ UNCHANGED <<ticker, kick, mu, force, scanned, polling, stopping, browser, request>>

(* Mutant: the loop looks at the context only when nothing else is ready. *)
DoneWhenQuiet ==
    /\ runner = "select" /\ stopping /\ ~ticker /\ ~kick
    /\ runner' = "done"
    /\ UNCHANGED <<ticker, started, kick, pollMu, mu, force, scanned, polling,
                   stopping, browser, request>>

SelectDone ==
    /\ runner = "select" /\ stopping
    /\ runner' = "done"
    /\ UNCHANGED <<ticker, started, kick, pollMu, mu, force, scanned, polling,
                   stopping, browser, request>>

SelectTicker ==
    /\ runner = "select" /\ ticker
    /\ ticker' = FALSE
    /\ runner' = "tick"
    /\ UNCHANGED <<started, kick, pollMu, mu, force, scanned, polling, stopping,
                   browser, request>>

SelectKick ==
    /\ runner = "select" /\ kick
    /\ kick' = FALSE
    /\ runner' = "tick"
    /\ UNCHANGED <<ticker, started, pollMu, mu, force, scanned, polling, stopping,
                   browser, request>>

(* The ticker drops a tick when one is already waiting. *)
TickerFires ==
    /\ started /\ ~ticker /\ runner \notin {"done", "gone"}
    /\ ticker' = TRUE
    /\ UNCHANGED <<runner, started, kick, pollMu, mu, force, scanned, polling,
                   stopping, browser, request>>

Shutdown ==
    /\ ~stopping
    /\ stopping' = TRUE
    /\ UNCHANGED <<runner, ticker, started, kick, pollMu, mu, force, scanned,
                   polling, browser, request>>

(* main returns when the server has shut down, which takes ten seconds at  *)
(* most, and waits neither for the poll goroutine nor for a handler that   *)
(* is blocked.  A browser whose request is cut off gets an error, and its  *)
(* button back.                                                            *)
Exit ==
    /\ stopping /\ runner # "gone"
    /\ runner' = "gone"
    /\ browser' = [b \in Browsers |->
                     IF browser[b] \in {"lock", "kick"} THEN "idle" ELSE browser[b]]
    /\ UNCHANGED <<ticker, started, kick, pollMu, mu, force, scanned, polling,
                   stopping, request>>

-----------------------------------------------------------------------------
(* A browser, and the handler that serves it. *)

Click(b) ==
    /\ browser[b] = "idle" /\ ~stopping
    /\ browser' = [browser EXCEPT ![b] = "lock"]
    /\ request' = [request EXCEPT ![b] = "none"]
    /\ UNCHANGED <<runner, ticker, started, kick, pollMu, mu, force, scanned,
                   polling, stopping>>

(* AsicSource.RequestRescan, a critical section of a.mu. *)
SetForce(b) ==
    /\ browser[b] = "lock"
    /\ mu = Nobody
    /\ force' = TRUE
    /\ browser' = [browser EXCEPT ![b] = "kick"]
    /\ request' = [request EXCEPT ![b] = "asked"]
    /\ UNCHANGED <<runner, ticker, started, kick, pollMu, mu, scanned, polling, stopping>>

(* Mutant: no kick is sent while a cycle runs. *)
KickWhenIdle(b) ==
    /\ browser[b] = "kick"
    /\ kick' = (kick \/ ~polling)
    /\ browser' = [browser EXCEPT ![b] = "wait"]
    /\ UNCHANGED <<runner, ticker, started, pollMu, mu, force, scanned, polling,
                   stopping, request>>

(* The rest of Runner.RequestRescan: the send does nothing when a kick is  *)
(* already waiting.  The handler answers, and the browser begins to wait.  *)
SendKick(b) ==
    /\ browser[b] = "kick"
    /\ kick' = TRUE
    /\ browser' = [browser EXCEPT ![b] = "wait"]
    /\ UNCHANGED <<runner, ticker, started, pollMu, mu, force, scanned, polling,
                   stopping, request>>

(* waitUntilIdle reads the flag.  It sleeps before its first read ("give   *)
(* the server a moment to flip polling=true"): long enough for an idle     *)
(* loop to take the kick, and to begin its cycle.                          *)
LoopTakesKick == ~(runner = "select" /\ kick) /\ runner # "tick"

SeesIdle(b) ==
    /\ browser[b] = "wait"
    /\ runner # "gone"
    /\ LoopTakesKick
    /\ ~polling
    /\ browser' = [browser EXCEPT ![b] = "refresh"]
    /\ UNCHANGED <<runner, ticker, started, kick, pollMu, mu, force, scanned,
                   polling, stopping, request>>

(* After two minutes it gives up, and refreshes all the same. *)
GivesUp(b) ==
    /\ browser[b] = "wait"
    /\ browser' = [browser EXCEPT ![b] = "idle"]
    /\ UNCHANGED <<runner, ticker, started, kick, pollMu, mu, force, scanned,
                   polling, stopping, request>>

Refresh(b) ==
    /\ browser[b] = "refresh"
    /\ browser' = [browser EXCEPT ![b] = "idle"]
    /\ UNCHANGED <<runner, ticker, started, kick, pollMu, mu, force, scanned,
                   polling, stopping, request>>

-----------------------------------------------------------------------------
RunnerStep ==
    Tick \/ CollectStops \/ LockSource \/ Resolve \/ Scan \/ PollAll \/ MarkPoll
    \/ PruneMetrics \/ PruneFleet \/ Forget \/ SelectDone \/ SelectTicker
    \/ SelectKick

BrowserStep(b) ==
    Click(b) \/ SetForce(b) \/ SendKick(b) \/ SeesIdle(b) \/ GivesUp(b) \/ Refresh(b)

(* Nothing more happens to a process that is gone. *)
Exited == runner = "gone" /\ UNCHANGED vars

RescanNext ==
    RunnerStep \/ TickerFires \/ Shutdown \/ Exit \/ Exited
    \/ \E b \in Browsers : BrowserStep(b)

(* The goroutines keep running, and a scan, a poll and a transaction end   *)
(* (they have timeouts).  A waiter for a mutex is served at last: a Go     *)
(* mutex turns to first-come order when one has waited for a millisecond.  *)
(* select chooses at random among what is ready, so what is ready again    *)
(* and again is chosen.  Nobody has to click, and nobody has to shut down. *)
(* When the process exits after a shutdown is not known: nothing may count *)
(* on that.                                                                *)
RescanFairness ==
    /\ WF_vars(RunnerStep)
    /\ SF_vars(LockSource) /\ SF_vars(Forget) /\ SF_vars(SelectDone)
    /\ WF_vars(TickerFires)
    /\ \A b \in Browsers :
          /\ SF_vars(SetForce(b))
          /\ WF_vars(SendKick(b)) /\ WF_vars(Refresh(b))
          /\ WF_vars(GivesUp(b))

RescanSpec == RescanInit /\ [][RescanNext]_vars
FairRescanSpec == RescanSpec /\ RescanFairness

-----------------------------------------------------------------------------
(* A rescan that was asked for is never left to the next regular tick: as  *)
(* long as forceRescan is set, a kick is waiting, or is about to be sent,  *)
(* or the loop is in a tick that has yet to read the flag (poller.go:61).  *)
(* The kick may be dropped, and may be taken before the flag it was sent   *)
(* for is read by someone else's tick, without breaking this.              *)
ForcedScanNeverWaits ==
    Scannable /\ force =>
        \/ kick
        \/ \E b \in Browsers : browser[b] = "kick"
        \/ runner \in {"tick", "collect", "resolve"}
        \/ stopping

(* The branch "skip tick - already running" (poller.go:93) is never taken: *)
(* no path out of a tick leaves pollMu locked, so that no kick, and with   *)
(* it no rescan, is swallowed by a tick that does nothing.                 *)
NoTickSkipped == runner = "tick" => ~pollMu

(* Every rescan that is asked for is scanned, unless the process stops. *)
RescanServed ==
    \A b \in Browsers :
        (Scannable /\ request[b] = "asked") ~> (request[b] # "asked" \/ stopping)

(* A click is answered unless the process stops, although a scan holds the *)
(* mutex its handler needs from beginning to end (asicrs.go:115, 145).     *)
(* After a shutdown the process may exit while the handler is blocked      *)
(* (main.go:81).                                                           *)
ClickAnswered ==
    \A b \in Browsers : browser[b] = "lock" ~> (browser[b] = "wait" \/ stopping)

(* "Run blocks until ctx is cancelled" (poller.go:72), and no longer: the  *)
(* loop ends after a shutdown, from wherever it is, ticks and kicks or no, *)
(* and without the exit of the process, which need not come first.         *)
LoopEnds == stopping ~> runner \in {"done", "gone"}

(* "Wait until the backend poll cycle finishes" (app.js:442): when the     *)
(* browser refreshes because it saw the flag down, the rescan it asked for *)
(* has been done and its results stored.                                   *)
RefreshShowsRescan ==
    \A b \in Browsers :
        Scannable /\ ~stopping /\ browser[b] = "refresh" => request[b] = "shown"
=============================================================================
