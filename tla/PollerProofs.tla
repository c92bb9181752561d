---------------------------- MODULE PollerProofs ----------------------------
(***************************************************************************)
(* Poll cycles, for any network, any reports, any addresses to scan and to *)
(* poll, and any failures: they implement the fleet map, so that all that  *)
(* FleetProofs says of the map holds while cycles run; and the fleet, the  *)
(* addresses that are polled and the polling flag agree.                   *)
(***************************************************************************)
EXTENDS Poller, FleetProofs, SequenceTheorems

(* What a worker may have sent.                                            *)
IsAnswer(r) == \E d \in Reports : r = [d |-> ApplyStableID(d), failed |-> FALSE]
IsFailure(r) == \E ip \in IPs : r = [d |-> Failed(ip), failed |-> TRUE]

Sent == { r \in [d : Report, failed : BOOLEAN] : IsAnswer(r) \/ IsFailure(r) }

LEMMA ReportsAreReport == \A d \in Reports : d \in Report
BY FleetAssumption

LEMMA AnswerSent ==
    ASSUME NEW d \in Reports
    PROVE  [d |-> ApplyStableID(d), failed |-> FALSE] \in Sent
BY ApplyIdempotent, ReportsAreReport DEF Sent, IsAnswer

LEMMA FailureSent ==
    ASSUME NEW ip \in IPs
    PROVE  [d |-> Failed(ip), failed |-> TRUE] \in Sent
BY FailedReport DEF Sent, IsFailure

LEMMA CancelledSent == CancelledResult \in Sent
<1>1. Blank \in Reports
  BY PollerAssumption
<1>2. ApplyStableID(Blank) = Blank
  BY DEF ApplyStableID, Blank, Failed, NormalizeMAC
<1> QED BY <1>1, <1>2, AnswerSent DEF CancelledResult

(* The store cannot tell a report whose id was applied from the report     *)
(* itself: it finds the same rows, folds the same ids and stores the same. *)
LEMMA AppliedIsReported ==
    ASSUME NEW d \in Report, NEW found, NEW held,
           UpsertLive(ApplyStableID(d), found, held)
    PROVE  UpsertLive(d, found, held \cap Aliases(d))
<1> DEFINE e == ApplyStableID(d)
<1>1. /\ e \in Report /\ NormalizeMAC(e.mac) = NormalizeMAC(d.mac)
      /\ StableID(e) = StableID(d)
  BY ApplyIdempotent
<1>2. e.ip = d.ip /\ e.host = d.host /\ e.serial = d.serial
  BY DEF ApplyStableID, Report
<1>3. ApplyStableID(e) = e
  BY <1>1 DEF ApplyStableID, Report
<1>4. Aliases(e) = Aliases(d)
  BY <1>1, <1>2 DEF Aliases, AliasList
<1>5. SameAddress(e) = SameAddress(d)
  BY <1>2 DEF SameAddress
<1> HIDE DEF e
<1>6. Folded(e, found, held) = Folded(d, found, held \cap Aliases(d))
  BY <1>1, <1>4, <1>5 DEF Folded
<1>7. UpsertLive(e, found, held)
  BY DEF e
<1> QED BY <1>1, <1>3, <1>6, <1>7 DEF UpsertLive, e

LEMMA AppliedIsFound ==
    ASSUME NEW d \in Report
    PROVE  Found(ApplyStableID(d)) = Found(d)
<1> DEFINE e == ApplyStableID(d)
<1>1. NormalizeMAC(e.mac) = NormalizeMAC(d.mac) /\ StableID(e) = StableID(d)
  BY ApplyIdempotent
<1>2. e.ip = d.ip /\ e.host = d.host /\ e.serial = d.serial
  BY DEF ApplyStableID, Report
<1>3. Tiers(e) = Tiers(d)
  BY <1>1, <1>2 DEF Tiers, ExactMatch, HostMatch, MacMatch, SerialMatch, IPMatch
<1> HIDE DEF e
<1>4. FindMiner(e) = FindMiner(d)
  BY <1>3 DEF FindMiner
<1> QED BY <1>4 DEF Found, e

-----------------------------------------------------------------------------
(* The invariant of the cycle.  What a phase leaves empty is empty, a      *)
(* collect that failed has nothing to upsert, and the flag is down only    *)
(* outside of a cycle or after such a collect.                             *)

Addresses == Static \cup discovered

From(A) == { r \in Sent : r.d.ip \in A \cup {None} }

CycleInv ==
    /\ phase \in Phases /\ failed \in BOOLEAN /\ polling \in BOOLEAN
    /\ Addresses \subseteq IPs /\ todo \subseteq Addresses
    /\ results \in Seq(From(Addresses))
    /\ phase # "poll" => todo = {}
    /\ phase \notin {"poll", "upsert"} => results = << >>
    /\ phase \in {"idle", "resolve", "poll"} => ~failed
    /\ failed => results = << >>
    /\ ~polling => phase \in {"idle", "prune"} \/ failed

(* A worker that was cancelled counts as usable, and one that failed names *)
(* its address: no collect ends with nothing usable and an error, so that  *)
(* the branch for it (asicrs.go:100) is not taken once there is something  *)
(* to poll.                                                                *)
LEMMA SomethingUsable ==
    ASSUME results \in Seq(Sent)
    PROVE  ~NothingUsable
<1> SUFFICES ASSUME NothingUsable PROVE FALSE
  OBVIOUS
<1>1. PICK i \in 1..Len(results) : results[i].d = Blank
  BY DEF NothingUsable
<1>2. results[i].failed
  BY DEF NothingUsable, Usable
<1>3. results[i] \in Sent
  BY ElementOfSeq
<1>4. PICK ip \in IPs : results[i] = [d |-> Failed(ip), failed |-> TRUE]
  <2>1. CASE IsAnswer(results[i])
    BY <1>2, <2>1 DEF IsAnswer
  <2>2. CASE IsFailure(results[i])
    BY <2>2 DEF IsFailure
  <2> QED BY <1>3, <2>1, <2>2 DEF Sent
<1>5. Failed(ip).ip = ip /\ Blank.ip = None
  BY DEF Failed, Blank
<1>6. None \notin IPs
  BY IdentityAssumption
<1> QED BY <1>1, <1>4, <1>5, <1>6

LEMMA SeqOfFrom == ASSUME NEW A, results \in Seq(From(A)) PROVE results \in Seq(Sent)
<1>1. From(A) \subseteq Sent
  BY DEF From
<1> QED BY <1>1

LEMMA WorkerSends ==
    ASSUME CycleInv, NEW ip \in IPs, Worker(ip)
    PROVE  \E r \in From(Addresses) : Finish(ip, r)
<1>1. ip \in Addresses
  BY DEF Worker, CycleInv
<1>2. CASE PollAnswered(ip)
  <2>1. PICK d \in Answers(ip) : Finish(ip, [d |-> ApplyStableID(d), failed |-> FALSE])
    BY <1>2 DEF PollAnswered
  <2>2. d \in Reports /\ d \in Report /\ d.ip = ip
    BY <2>1, ReportsAreReport DEF Answers
  <2>3. ApplyStableID(d).ip = ip
    BY <2>2 DEF ApplyStableID, Report
  <2> QED BY <1>1, <2>1, <2>2, <2>3, AnswerSent DEF From
<1>3. CASE PollFails(ip)
  <2>1. Failed(ip).ip = ip
    BY DEF Failed
  <2> QED BY <1>1, <1>3, <2>1, FailureSent DEF PollFails, From
<1>4. CASE PollCancelled(ip)
  <2>1. CancelledResult.d.ip = None
    BY DEF CancelledResult, Blank, Failed
  <2> QED BY <1>4, <2>1, CancelledSent DEF PollCancelled, From
<1> QED BY <1>2, <1>3, <1>4 DEF Worker

LEMMA CycleInit == PollerInit => CycleInv
<1> SUFFICES ASSUME PollerInit PROVE CycleInv
  OBVIOUS
<1>1. Addresses \subseteq IPs
  BY PollerAssumption DEF PollerInit, Addresses
<1>2. results \in Seq(From(Addresses))
  BY EmptySeq DEF PollerInit
<1> QED BY <1>1, <1>2 DEF PollerInit, CycleInv, Phases

LEMMA CycleIsKept == CycleInv /\ [PollerNext]_pollerVars => CycleInv'
<1> SUFFICES ASSUME CycleInv, [PollerNext]_pollerVars PROVE CycleInv'
  OBVIOUS
<1> USE DEF CycleInv, Phases
<1>1. ASSUME UNCHANGED discovered PROVE Addresses' = Addresses
  BY <1>1 DEF Addresses
<1>2. ASSUME UNCHANGED cycleVars PROVE CycleInv'
  BY <1>1, <1>2 DEF cycleVars
<1>3. CASE BeginTick
  BY <1>1, <1>3 DEF BeginTick
<1>4. CASE CollectStops
  BY <1>1, <1>4 DEF CollectStops, FailCollect
<1>5. CASE Resolve
  <2>1. Scanned \subseteq IPs
    BY PollerAssumption DEF Scanned
  <2>2. PICK found \in IF ShouldScan THEN SUBSET Scanned ELSE {{}} :
          discovered' = discovered \cup found /\ todo' = Static \cup discovered'
    BY <1>5 DEF Resolve
  <2>3. Addresses' \subseteq IPs /\ todo' = Addresses'
    BY <2>1, <2>2 DEF Addresses
  <2>4. results' = << >> /\ results' \in Seq(From(Addresses'))
    BY <1>5, EmptySeq DEF Resolve
  <2>5. CASE todo' = {}
    BY <1>5, <2>3, <2>4, <2>5 DEF Resolve, FailCollect
  <2>6. CASE todo' # {}
    BY <1>5, <2>3, <2>4, <2>6 DEF Resolve
  <2> QED BY <2>5, <2>6
<1>6. ASSUME NEW ip \in IPs, Worker(ip) PROVE CycleInv'
  <2>1. PICK r \in From(Addresses) : Finish(ip, r)
    BY <1>6, WorkerSends
  <2>2. results' \in Seq(From(Addresses))
    BY <2>1, AppendProperties DEF Finish
  <2>3. phase = "poll" /\ phase' = "poll"
    BY <1>6, <2>1 DEF Worker, Finish
  <2> QED BY <1>1, <2>1, <2>2, <2>3 DEF Finish
<1>7. CASE Collected
  <2>1. ~NothingUsable
    BY SomethingUsable, SeqOfFrom
  <2> QED BY <1>1, <1>7, <2>1 DEF Collected
<1>8. CASE UpsertNext
  <2>1. results' \in Seq(From(Addresses))
    BY <1>8, HeadTailProperties DEF UpsertNext
  <2> QED BY <1>1, <1>8, <2>1 DEF UpsertNext
<1>9. CASE UpsertsDone
  BY <1>1, <1>9 DEF UpsertsDone
<1>10. CASE MarkPoll
  BY <1>1, <1>10 DEF MarkPoll
<1>11. CASE PruneFleet
  <2>1. Addresses' \subseteq IPs
    BY <1>11 DEF PruneFleet, Addresses
  <2>2. results' = << >> /\ results' \in Seq(From(Addresses'))
    BY <1>11, EmptySeq DEF PruneFleet
  <2> QED BY <1>11, <2>1, <2>2 DEF PruneFleet
<1>12. CASE RequestRescan
  BY <1>1, <1>12 DEF RequestRescan
<1>13. CASE (\E b \in Boxes, ip \in IPs : Move(b, ip)) \/ Stop \/ Clock
  BY <1>2, <1>13 DEF Move, Stop, Clock
<1>14. CASE UNCHANGED pollerVars
  BY <1>1, <1>14 DEF pollerVars
<1> QED
  BY <1>3, <1>4, <1>5, <1>6, <1>7, <1>8, <1>9, <1>10, <1>11, <1>12, <1>13, <1>14
     DEF PollerNext

LEMMA CycleHolds == PollerSpec => []CycleInv
BY CycleInit, CycleIsKept, PTL DEF PollerSpec

(* The flag goes down only when nothing is left to upsert, also on the     *)
(* error path, which lowers it before its upserts (poller.go:108).         *)
THEOREM FlagDownMeansApplied == PollerSpec => []IdleMeansApplied
<1>1. CycleInv => IdleMeansApplied
  BY DEF CycleInv, IdleMeansApplied
<1> QED BY <1>1, CycleHolds, PTL

-----------------------------------------------------------------------------
(* Refinement: every step of a cycle is one of the fleet map, or none.     *)

LEMMA FleetStep == CycleInv /\ [PollerNext]_pollerVars => [FleetNext]_fleetVars
<1> SUFFICES ASSUME CycleInv, [PollerNext]_pollerVars PROVE [FleetNext]_fleetVars
  OBVIOUS
<1> DEFINE Same == UNCHANGED fleetVars
<1>1. CASE UpsertNext
  <2> DEFINE r == Head(results)
  <2>1. r \in From(Addresses) /\ r \in Sent
    BY <1>1, HeadTailProperties DEF UpsertNext, CycleInv, From
  <2>2. PICK found \in Found(r.d) : StoreResult(r, found)
    BY <1>1 DEF UpsertNext
  <2> HIDE DEF r
  <2>3. CASE IsAnswer(r)
    <3>1. PICK d \in Reports : r = [d |-> ApplyStableID(d), failed |-> FALSE]
      BY <2>3 DEF IsAnswer
    <3>2. d \in Report
      BY ReportsAreReport
    <3>3. found \in Found(d)
      BY <2>2, <3>1, <3>2, AppliedIsFound
    <3>4. UpsertLive(ApplyStableID(d), found, {})
      BY <2>2, <3>1 DEF StoreResult
    <3>5. UpsertLive(d, found, {} \cap Aliases(d))
      BY <3>2, <3>4, AppliedIsReported
    <3> QED BY <3>3, <3>5 DEF FleetNext
  <2>4. CASE IsFailure(r)
    BY <2>2, <2>4 DEF IsFailure, StoreResult, FleetNext
  <2> QED BY <2>1, <2>3, <2>4 DEF Sent
<1>2. CASE PruneFleet
  BY <1>2 DEF PruneFleet, FleetNext
<1>3. CASE Clock
  BY <1>3 DEF Clock, FleetNext
<1>4. ASSUME NEW ip \in IPs, Worker(ip) PROVE Same
  BY <1>4 DEF Worker, PollAnswered, PollFails, PollCancelled, Finish, fleetVars
<1>5. CASE \/ BeginTick \/ CollectStops \/ Resolve \/ Collected \/ UpsertsDone
           \/ MarkPoll \/ RequestRescan \/ Stop
           \/ \E b \in Boxes, ip \in IPs : Move(b, ip)
  BY <1>5 DEF BeginTick, CollectStops, Resolve, Collected, UpsertsDone, MarkPoll,
              RequestRescan, Stop, Move, fleetVars
<1>6. CASE UNCHANGED pollerVars
  BY <1>6 DEF pollerVars, fleetVars
<1> QED BY <1>1, <1>2, <1>3, <1>4, <1>5, <1>6 DEF PollerNext

(* Whatever the workers report and in whatever order, whatever is scanned, *)
(* forgotten or cancelled, the fleet goes only through steps of its map    *)
(* (tick and Store.Upsert).                                                *)
THEOREM CyclesImplementFleet == PollerSpec => ImplementsFleet
<1>1. PollerInit => FleetInit
  BY DEF PollerInit
<1> QED
  BY <1>1, FleetStep, CycleHolds, PTL DEF PollerSpec, ImplementsFleet, FleetSpec

-----------------------------------------------------------------------------
(* The addresses that are polled. *)

LEMMA PolledIsKept ==
    CycleInv /\ FleetInv /\ FleetIsPolled /\ [PollerNext]_pollerVars => FleetIsPolled'
<1> SUFFICES ASSUME CycleInv, FleetInv, FleetIsPolled, [PollerNext]_pollerVars
             PROVE  FleetIsPolled'
  OBVIOUS
<1>1. ASSUME UNCHANGED miners, discovered \subseteq discovered' PROVE FleetIsPolled'
  BY <1>1 DEF FleetIsPolled
<1>2. CASE UpsertNext
  <2> DEFINE r == Head(results)
  <2>1. r \in From(Addresses)
    BY <1>2, HeadTailProperties DEF UpsertNext, CycleInv
  <2>2. PICK found \in Found(r.d) : StoreResult(r, found)
    BY <1>2 DEF UpsertNext
  <2>3. discovered' = discovered
    BY <1>2 DEF UpsertNext
  <2> HIDE DEF r
  <2>4. r.d.ip \in Static \cup discovered \cup {None} /\ r.d \in Report
    BY <2>1 DEF From, Addresses, Sent
  <2>5. ApplyStableID(r.d).ip = r.d.ip
    BY <2>4 DEF ApplyStableID, Report
  <2>6. \A id \in DOMAIN miners' :
          \/ id \in DOMAIN miners /\ miners'[id].ip = miners[id].ip
          \/ miners'[id].ip = r.d.ip
    <3>1. CASE r.failed
      <4>1. UpsertFailed(r.d, found)
        BY <2>2, <3>1 DEF StoreResult
      <4>2. CASE found = {}
        BY <2>5, <4>1, <4>2 DEF UpsertFailed, Replace, RowOf
      <4>3. CASE found # {}
        <5>1. miners' = [id \in DOMAIN miners |->
                           IF id \in found THEN MergeError(r.d, id) ELSE miners[id]]
          BY <4>1, <4>3 DEF UpsertFailed
        <5>2. \A id \in DOMAIN miners :
                miners[id] \in Row /\ MergeError(r.d, id).ip \in {miners[id].ip, r.d.ip}
          BY DEF FleetInv, FleetTypeOK, Row, MergeError
        <5> QED BY <5>1, <5>2
      <4> QED BY <4>2, <4>3
    <3>2. CASE ~r.failed
      <4>1. UpsertLive(r.d, found, {})
        BY <2>2, <3>2 DEF StoreResult
      <4> QED BY <2>5, <4>1 DEF UpsertLive, Replace, RowOf
    <3> QED BY <3>1, <3>2
  <2> QED BY <2>3, <2>4, <2>6 DEF FleetIsPolled
<1>3. CASE PruneFleet
  <2>1. discovered' = discovered \ Forgotten
    BY <1>3 DEF PruneFleet
  <2>2. /\ DOMAIN miners' = { i \in DOMAIN miners : ~Expired(i) }
        /\ \A id \in DOMAIN miners' : miners'[id] = miners[id]
    BY <1>3 DEF PruneFleet, Prune
  <2>3. ASSUME NEW id \in DOMAIN miners', miners'[id].ip # None
        PROVE  miners'[id].ip \notin Removed
    <3>1. \A j \in DOMAIN miners : miners[j].ip = miners[id].ip => j = id
      BY <2>2, <2>3 DEF FleetInv, UniqueAddress
    <3> QED BY <2>2, <3>1 DEF Removed
  <2> QED BY <2>1, <2>2, <2>3 DEF FleetIsPolled, Forgotten
<1>4. ASSUME NEW ip \in IPs, Worker(ip) PROVE FleetIsPolled'
  BY <1>1, <1>4 DEF Worker, PollAnswered, PollFails, PollCancelled, Finish
<1>5. CASE Resolve
  <2>1. discovered \subseteq discovered'
    BY <1>5 DEF Resolve
  <2> QED BY <1>1, <1>5, <2>1 DEF Resolve
<1>6. CASE \/ BeginTick \/ CollectStops \/ Collected \/ UpsertsDone
           \/ MarkPoll \/ RequestRescan \/ Stop \/ Clock
           \/ \E b \in Boxes, ip \in IPs : Move(b, ip)
  BY <1>1, <1>6 DEF BeginTick, CollectStops, Collected, UpsertsDone, MarkPoll,
                    RequestRescan, Stop, Clock, Advance, Move, cycleVars
<1>7. CASE UNCHANGED pollerVars
  BY <1>1, <1>7 DEF pollerVars
<1> QED BY <1>2, <1>3, <1>4, <1>5, <1>6, <1>7 DEF PollerNext

(* No row is left with an address that no cycle polls: what prune forgets  *)
(* is never the address of a row that stays (poller.go:123, asicrs.go:122).*)
THEOREM EveryRowIsPolled == PollerSpec => []FleetIsPolled
<1>1. PollerSpec => []FleetInv
  BY CyclesImplementFleet, FleetInvAlways, PTL DEF ImplementsFleet
<1>2. PollerInit => FleetIsPolled
  BY DEF PollerInit, FleetInit, NoMiners, FleetIsPolled
<1> QED BY <1>1, <1>2, CycleHolds, PolledIsKept, PTL DEF PollerSpec
=============================================================================
