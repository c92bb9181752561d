------------------------------- MODULE Poller -------------------------------
(***************************************************************************)
(* One poll cycle after another: Runner.tick with AsicSource.Collect,      *)
(* Forget and the store's fleet map.  The poll goroutine is the only       *)
(* writer; its workers run at once, and their results arrive in any order. *)
(* Around it the network changes: boxes get other addresses, answer or do  *)
(* not, a rescan is requested, the process is told to stop.                *)
(*                                                                         *)
(* The store is in its default mode (SQLite), so no in-memory history      *)
(* joins the folding of rows.                                              *)
(***************************************************************************)
EXTENDS Fleet, Sequences, FiniteSets

CONSTANTS
    Static,         \* MinerIPs: always polled
    Subnet,         \* the addresses a scan covers; empty: nothing to scan
    RescanInterval, \* in ticks; 0: only the first collect scans
    MaxMoves,       \* bound on the changes of address
    CanStop         \* whether the process may be told to stop

ASSUME PollerAssumption ==
    /\ Static \subseteq IPs /\ Subnet \subseteq IPs
    /\ RescanInterval \in Int /\ MaxMoves \in Nat /\ CanStop \in BOOLEAN
    /\ Blank \in Reports

VARIABLES
    lease,      \* which box has each address now (the network)
    moves,      \* how often that has changed
    discovered, \* a.discovered
    lastScan,   \* a.lastScan; 0 is the zero time
    force,      \* a.forceRescan
    phase,      \* where the cycle is
    failed,     \* Collect returned an error
    todo,       \* addresses whose worker has not finished
    results,    \* the details collected and not yet upserted, in order
    polling,    \* s.polling
    stopping    \* the context is cancelled

cycleVars == <<discovered, lastScan, force, phase, failed, todo, results, polling>>
worldVars == <<lease, moves, stopping>>
pollerVars == <<miners, now, discovered, lastScan, force, phase, failed, todo,
                results, polling, lease, moves, stopping>>

(* What a worker sends: the report it got, or the failure of its poll. *)
Result == [d : Report, failed : BOOLEAN]

Phases == {"idle", "resolve", "poll", "mark", "upsert", "prune"}

-----------------------------------------------------------------------------
(* tick, up to the call of Collect. *)
BeginTick ==
    /\ phase = "idle" /\ ~stopping
    /\ polling' = TRUE
    /\ phase' = "resolve"
    /\ UNCHANGED <<miners, now, discovered, lastScan, force, failed, todo, results>>
    /\ UNCHANGED worldVars

(* The error path: MarkPoll comes first, whatever details there are.       *)
FailCollect == phase' = "mark" /\ failed' = TRUE

(* Collect with a context that is cancelled already. *)
CollectStops ==
    /\ phase = "resolve" /\ stopping
    /\ FailCollect
    /\ UNCHANGED <<miners, now, discovered, lastScan, force, todo, results, polling>>
    /\ UNCHANGED worldVars

ShouldScan ==
    /\ Subnet # {}
    /\ \/ force
       \/ lastScan = 0
       \/ RescanInterval > 0 /\ now - lastScan >= RescanInterval

(* What a scan adds: addresses at which a box answered.  A scan that fails *)
(* in part, or altogether, adds fewer.                                     *)
Scanned == { ip \in Subnet : lease[ip] # None }

(* resolveIPs, with the scan it may run; a.mu is held throughout. *)
Resolve ==
    /\ phase = "resolve"
    /\ \E found \in IF ShouldScan THEN SUBSET Scanned ELSE {{}} :
          /\ discovered' = discovered \cup found
          /\ todo' = Static \cup discovered'
    /\ lastScan' = IF ShouldScan THEN now ELSE lastScan
    /\ force' = (force /\ ~ShouldScan)
    /\ IF todo' = {} THEN FailCollect ELSE phase' = "poll" /\ UNCHANGED failed
    /\ UNCHANGED <<miners, now, results, polling>>
    /\ UNCHANGED worldVars

(* What the box at an address may report. *)
Answers(ip) == { d \in Reports : d.ip = ip /\ d.box = lease[ip] /\ d.box # None }

Finish(ip, r) ==
    /\ results' = Append(results, r)
    /\ todo' = todo \ {ip}
    /\ UNCHANGED <<miners, now, discovered, lastScan, force, phase, failed, polling>>
    /\ UNCHANGED worldVars

(* The three ways a worker ends.  A worker still waiting for its turn when *)
(* the context is cancelled sends the error with a zero Detail, and only   *)
(* the Detail is kept.                                                     *)
PollAnswered(ip) ==
    \E d \in Answers(ip) : Finish(ip, [d |-> ApplyStableID(d), failed |-> FALSE])

PollFails(ip) == Finish(ip, [d |-> Failed(ip), failed |-> TRUE])

CancelledResult == [d |-> Blank, failed |-> FALSE]

PollCancelled(ip) == stopping /\ Finish(ip, CancelledResult)

Worker(ip) ==
    /\ phase = "poll" /\ ip \in todo
    /\ PollAnswered(ip) \/ PollFails(ip) \/ PollCancelled(ip)

(* Mutant: a cancelled worker counts as not usable; the rest stays as it is. *)
UsableUnlessBlank(r) == ~r.failed /\ r.d # Blank

(* "Only fail hard if we got nothing usable": an error of a worker that    *)
(* was cancelled, and no detail without an error.                          *)
Usable(r) == ~r.failed

NothingUsable ==
    /\ \A i \in 1..Len(results) : ~Usable(results[i])
    /\ \E i \in 1..Len(results) : results[i].d = Blank

(* Collect returns. *)
Collected ==
    /\ phase = "poll" /\ todo = {}
    /\ IF NothingUsable THEN FailCollect ELSE phase' = "upsert" /\ UNCHANGED failed
    /\ UNCHANGED <<miners, now, discovered, lastScan, force, todo, results, polling>>
    /\ UNCHANGED worldVars

(* Mutant: an error is stored like a good poll. *)
StoreErrorAsLive(r, found) == UpsertLive(r.d, found, {})

StoreResult(r, found) ==
    IF r.failed THEN UpsertFailed(r.d, found) ELSE UpsertLive(r.d, found, {})

UpsertNext ==
    /\ phase = "upsert" /\ results # << >>
    /\ \E found \in Found(Head(results).d) : StoreResult(Head(results), found)
    /\ results' = Tail(results)
    /\ UNCHANGED <<discovered, lastScan, force, phase, failed, todo, polling>>
    /\ UNCHANGED worldVars

(* After the last upsert a good cycle is marked; one that failed has been  *)
(* marked before, and goes on to prune.                                    *)
UpsertsDone ==
    /\ phase = "upsert" /\ results = << >>
    /\ phase' = IF failed THEN "prune" ELSE "mark"
    /\ UNCHANGED <<miners, now, discovered, lastScan, force, failed, todo, results, polling>>
    /\ UNCHANGED worldVars

MarkPoll ==
    /\ phase = "mark"
    /\ polling' = FALSE
    /\ phase' = IF failed THEN "upsert" ELSE "prune"
    /\ UNCHANGED <<miners, now, discovered, lastScan, force, failed, todo, results>>
    /\ UNCHANGED worldVars

(* Mutant: the addresses of rows in error are forgotten, pruned or not. *)
RemovedStale == { miners[id].ip : id \in { id \in DOMAIN miners : miners[id].err } }

(* prune: rows past the TTL go, and the addresses they had are no longer   *)
(* polled unless they are configured.                                      *)
Removed == { miners[id].ip : id \in { id \in DOMAIN miners : Expired(id) } }

Forgotten == Removed \ Static

PruneFleet ==
    /\ phase = "prune"
    /\ Prune
    /\ discovered' = discovered \ Forgotten
    /\ phase' = "idle" /\ failed' = FALSE
    /\ UNCHANGED <<lastScan, force, todo, results, polling>>
    /\ UNCHANGED worldVars

-----------------------------------------------------------------------------
(* The rest of the world. *)

RequestRescan ==
    /\ force' = TRUE
    /\ UNCHANGED <<miners, now, discovered, lastScan, phase, failed, todo, results, polling>>
    /\ UNCHANGED worldVars

(* A box leaves its address for another, or for none; the address may be   *)
(* one that another box had, which is then without.                        *)
Move(b, ip) ==
    /\ moves < MaxMoves
    /\ moves' = moves + 1
    /\ lease' = [i \in IPs |-> IF i = ip THEN b
                               ELSE IF lease[i] = b THEN None ELSE lease[i]]
    /\ UNCHANGED <<miners, now, stopping>>
    /\ UNCHANGED cycleVars

Stop ==
    /\ CanStop /\ ~stopping
    /\ stopping' = TRUE
    /\ UNCHANGED <<miners, now, lease, moves>>
    /\ UNCHANGED cycleVars

Clock ==
    /\ Advance
    /\ UNCHANGED cycleVars
    /\ UNCHANGED worldVars

(* Each address is free, or some box has it; no box has two. *)
Leases ==
    { l \in [IPs -> Optional(Boxes)] :
        \A i, j \in IPs : l[i] = l[j] /\ l[i] # None => i = j }

PollerInit ==
    /\ FleetInit
    /\ lease \in Leases
    /\ moves = 0
    /\ discovered = {} /\ lastScan = 0 /\ force = FALSE
    /\ phase = "idle" /\ failed = FALSE /\ todo = {} /\ results = << >>
    /\ polling = FALSE
    /\ stopping = FALSE

PollerNext ==
    \/ BeginTick
    \/ CollectStops
    \/ Resolve
    \/ \E ip \in IPs : Worker(ip)
    \/ Collected
    \/ UpsertNext
    \/ UpsertsDone
    \/ MarkPoll
    \/ PruneFleet
    \/ RequestRescan
    \/ \E b \in Boxes, ip \in IPs : Move(b, ip)
    \/ Stop
    \/ Clock

PollerSpec == PollerInit /\ [][PollerNext]_pollerVars

-----------------------------------------------------------------------------
(* What a row shows can still change: every row that has an address has    *)
(* one that the next cycle polls.  Forget drops addresses of rows that     *)
(* were pruned; none of them may be the address of a row that stays, or    *)
(* that row would keep its last values until its own TTL (poller.go:123,   *)
(* asicrs.go:122).                                                         *)
FleetIsPolled ==
    \A id \in DOMAIN miners :
        miners[id].ip # None => miners[id].ip \in Static \cup discovered

(* The flag that the browser waits on goes down only when every result of  *)
(* the cycle is in the fleet, although the error path of tick lowers it    *)
(* before its upserts (poller.go:108).                                     *)
IdleMeansApplied == ~polling => results = << >>

(* Everything the cycle wrote is a step of the fleet map. *)
ImplementsFleet == FleetSpec

(* "Partial success is OK; only fail hard if we got nothing usable"        *)
(* (asicrs.go:100): a worker that was cancelled reports nothing, so it     *)
(* leaves no row.                                                          *)
NoPhantom == NoID \notin DOMAIN miners

(* "DHCP IP changes don't split one box into two rows" (README:89): with   *)
(* no address configured by hand, there are never more rows than boxes.    *)
RowsBoundedByBoxes ==
    Static = {} => Cardinality(DOMAIN miners) <= Cardinality(Boxes)
=============================================================================
