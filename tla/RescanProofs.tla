---------------------------- MODULE RescanProofs ----------------------------
(***************************************************************************)
(* The poll loop and the requests for a rescan, for any number of          *)
(* browsers, with or without addresses to scan, and with regular scans or  *)
(* without them.                                                           *)
(***************************************************************************)
EXTENDS Rescan, TLAPS

(* pollMu is held from the start of a tick to its end, or to that of the   *)
(* process.                                                                *)
InTick == runner \in RunnerAt \ {"tick", "select", "done"}

PollMuInv == pollMu => InTick

ForcedInv ==
    /\ browser \in [Browsers -> BrowserAt]
    /\ force \in BOOLEAN
    /\ PollMuInv
    /\ ForcedScanNeverWaits

LEMMA PollMuIsKept == PollMuInv /\ [RescanNext]_vars => PollMuInv'
<1> SUFFICES ASSUME PollMuInv, [RescanNext]_vars PROVE PollMuInv'
  OBVIOUS
<1> USE DEF PollMuInv, InTick, RunnerAt
<1>1. CASE RunnerStep
  BY <1>1
     DEF RunnerStep, Tick, CollectStops, LockSource, Resolve, Scan, PollAll, MarkPoll,
         PruneMetrics, PruneFleet, Forget, EndTick, SelectDone, SelectTicker, SelectKick
<1>2. CASE UNCHANGED <<runner, pollMu>>
  BY <1>2
<1>3. CASE TickerFires \/ Shutdown \/ Exited \/ UNCHANGED vars
  BY <1>2, <1>3 DEF TickerFires, Shutdown, Exited, vars
<1>4. ASSUME NEW b \in Browsers, BrowserStep(b) PROVE PollMuInv'
  BY <1>2, <1>4 DEF BrowserStep, Click, SetForce, SendKick, SeesIdle, GivesUp, Refresh
<1>5. CASE Exit
  BY <1>5 DEF Exit
<1> QED BY <1>1, <1>3, <1>4, <1>5 DEF RescanNext

(* No tick finds pollMu locked (poller.go:93), whichever way the tick      *)
(* before it ended.                                                        *)
THEOREM TicksAreNotSkipped == RescanSpec => []NoTickSkipped
<1>1. RescanInit => PollMuInv
  BY DEF RescanInit, PollMuInv
<1>2. PollMuInv => NoTickSkipped
  BY DEF PollMuInv, InTick, NoTickSkipped
<1> QED BY <1>1, <1>2, PollMuIsKept, PTL DEF RescanSpec

LEMMA ForcedIsKept == ForcedInv /\ [RescanNext]_vars => ForcedInv'
<1> SUFFICES ASSUME ForcedInv, [RescanNext]_vars PROVE ForcedInv'
  OBVIOUS
<1>1. PollMuInv'
  BY PollMuIsKept DEF ForcedInv
<1>2. /\ browser \in [Browsers -> BrowserAt] /\ force \in BOOLEAN
      /\ ForcedScanNeverWaits /\ NoTickSkipped
  BY DEF ForcedInv, PollMuInv, InTick, NoTickSkipped
<1> DEFINE Inv == /\ browser \in [Browsers -> BrowserAt] /\ force \in BOOLEAN
                  /\ ForcedScanNeverWaits
<1>3. SUFFICES Inv'
  BY <1>1 DEF ForcedInv
<1> USE DEF ForcedScanNeverWaits
<1>12. CASE Tick
  BY <1>2, <1>12 DEF Tick, NoTickSkipped
<1>4. CASE CollectStops
  BY <1>2, <1>4 DEF CollectStops
<1>5. CASE LockSource
  BY <1>2, <1>5 DEF LockSource
<1>6. CASE Resolve
  <2>1. Scannable => ~force'
    BY <1>6 DEF Resolve, ShouldScan
  <2> QED BY <1>2, <1>6, <2>1 DEF Resolve
<1>7. CASE Scan \/ PollAll \/ MarkPoll \/ PruneMetrics \/ PruneFleet \/ Forget
  BY <1>2, <1>7 DEF Scan, PollAll, MarkPoll, PruneMetrics, PruneFleet, Forget, EndTick
<1>8. CASE SelectDone
  BY <1>2, <1>8 DEF SelectDone
<1>9. CASE SelectTicker \/ SelectKick
  BY <1>2, <1>9 DEF SelectTicker, SelectKick
<1>13. CASE Exit
  BY <1>2, <1>13 DEF Exit, BrowserAt
<1>10. CASE TickerFires \/ Shutdown \/ Exited \/ UNCHANGED vars
  BY <1>2, <1>10 DEF TickerFires, Shutdown, Exited, vars
<1>11. ASSUME NEW b \in Browsers, BrowserStep(b) PROVE Inv'
  <2>1. CASE SetForce(b)
    BY <1>2, <2>1 DEF SetForce, BrowserAt
  <2>2. CASE SendKick(b)
    BY <1>2, <2>2 DEF SendKick, BrowserAt
  <2>3. ASSUME NEW at \in BrowserAt, browser[b] # "kick",
               browser' = [browser EXCEPT ![b] = at],
               UNCHANGED <<runner, kick, force, stopping>>
        PROVE  Inv'
    <3>1. \A c \in Browsers : browser[c] = "kick" => browser'[c] = "kick"
      BY <1>2, <2>3
    <3> QED BY <1>2, <2>3, <3>1
  <2> QED BY <1>11, <2>1, <2>2, <2>3
          DEF BrowserStep, BrowserAt, Click, SeesIdle, GivesUp, Refresh
<1> QED
  BY <1>4, <1>5, <1>6, <1>7, <1>8, <1>9, <1>10, <1>11, <1>12,
     <1>13
     DEF RescanNext, RunnerStep

(* A rescan that was asked for is never left to the next regular tick,     *)
(* whoever takes the kick and whoever drops one (poller.go:61).            *)
THEOREM ForcedScansGoAhead == RescanSpec => []ForcedScanNeverWaits
<1>1. RescanInit => ForcedInv
  BY DEF RescanInit, ForcedInv, PollMuInv, ForcedScanNeverWaits, BrowserAt
<1>2. ForcedInv => ForcedScanNeverWaits
  BY DEF ForcedInv
<1> QED BY <1>1, <1>2, ForcedIsKept, PTL DEF RescanSpec
=============================================================================
