----------------------------- MODULE FleetProofs -----------------------------
(***************************************************************************)
(* Proofs about module Fleet, for every set of reports, every TTL and      *)
(* every bound on the clock.                                               *)
(***************************************************************************)
EXTENDS Fleet, TLAPS

(* A stored row has the fields of a report. *)
LEMMA RowFields ==
    ASSUME NEW r \in Row
    PROVE  /\ r.ip \in Optional(IPs) /\ r.host \in Optional(HostNames)
           /\ r.mac \in Optional(MACs) /\ r.serial \in Optional(Serials)
           /\ r.box \in Optional(Boxes) /\ r.err \in BOOLEAN /\ r.seen \in Nat
  BY DEF Row

LEMMA ReportFields ==
    ASSUME NEW d \in Report
    PROVE  /\ d.ip \in Optional(IPs) /\ d.host \in Optional(HostNames)
           /\ d.mac \in Optional(MACs) /\ d.serial \in Optional(Serials)
           /\ d.box \in Optional(Boxes)
  BY DEF Report

(* StableID reads four fields, and always returns an id. *)
LEMMA StableIDType ==
    ASSUME NEW d,
           d.ip \in Optional(IPs), d.host \in Optional(HostNames),
           d.mac \in Optional(MACs), d.serial \in Optional(Serials)
    PROVE  StableID(d) \in ID
<1>1. DistinctiveHostname(d.host) \in Optional(HostNames)
  BY IdentityAssumption DEF DistinctiveHostname, Optional
<1>2. NormalizeMAC(d.mac) \in Optional(MACs)
  BY IdentityAssumption DEF NormalizeMAC, Optional
<1>3. d.serial # None => SerialFold[d.serial] \in Optional(Serials)
  BY IdentityAssumption DEF Optional
<1> QED  BY <1>1, <1>2, <1>3 DEF StableID, ID

(* Normalising twice is normalising once (ApplyStableID runs in the poller *)
(* and again in Upsert), and it changes no id.                             *)
THEOREM ApplyIdempotent ==
    ASSUME NEW d \in Report
    PROVE  /\ ApplyStableID(d) \in Report
           /\ NormalizeMAC(ApplyStableID(d).mac) = NormalizeMAC(d.mac)
           /\ StableID(ApplyStableID(d)) = StableID(d)
           /\ ApplyStableID(ApplyStableID(d)) = ApplyStableID(d)
<1> DEFINE a == ApplyStableID(d)
<1>1. /\ a.ip = d.ip /\ a.host = d.host /\ a.serial = d.serial
      /\ a.box = d.box
      /\ a.mac = IF NormalizeMAC(d.mac) # None THEN NormalizeMAC(d.mac) ELSE d.mac
  BY DEF ApplyStableID, Report
<1>2. NormalizeMAC(d.mac) \in Optional(MACs)
  BY ReportFields, IdentityAssumption DEF NormalizeMAC, Optional
<1>3. a \in Report
  BY <1>2 DEF ApplyStableID, Report
<1>4. NormalizeMAC(a.mac) = NormalizeMAC(d.mac)
  BY <1>1, ReportFields, IdentityAssumption DEF NormalizeMAC, Optional
<1>5. StableID(a) = StableID(d)
  BY <1>1, <1>4 DEF StableID
<1>6. ApplyStableID(a) = a
  BY <1>1, <1>3, <1>4 DEF ApplyStableID, Report
<1> QED  BY <1>3, <1>4, <1>5, <1>6

(* What RowOf makes of a normalised report. *)
LEMMA RowOfReport ==
    ASSUME NEW d \in Report, NEW failed \in BOOLEAN, NEW t \in Nat
    PROVE  LET r == RowOf(ApplyStableID(d), failed, t)
           IN  /\ r \in Row
               /\ r.ip = d.ip /\ r.host = d.host /\ r.serial = d.serial
               /\ r.box = d.box /\ r.seen = t
               /\ NormalizeMAC(r.mac) = NormalizeMAC(d.mac)
               /\ StableID(r) = StableID(d)
<1> DEFINE a == ApplyStableID(d)
           r == RowOf(a, failed, t)
<1>1. /\ r.ip = a.ip /\ r.host = a.host /\ r.mac = a.mac
      /\ r.serial = a.serial /\ r.box = a.box /\ r.seen = t /\ r.err = failed
  BY DEF RowOf
<1>2. a \in Report /\ NormalizeMAC(a.mac) = NormalizeMAC(d.mac) /\ StableID(a) = StableID(d)
  BY ApplyIdempotent
<1>3. a.ip = d.ip /\ a.host = d.host /\ a.serial = d.serial /\ a.box = d.box
  BY DEF ApplyStableID, Report
<1>4. r \in Row
  BY <1>2, ReportFields DEF RowOf, Row
<1>5. StableID(r) = StableID(a)
  BY <1>1 DEF StableID
<1> QED  BY <1>1, <1>2, <1>3, <1>4, <1>5

(* A failed poll is a report, and its id is the address it tried. *)
LEMMA FailedReport ==
    ASSUME NEW ip \in IPs
    PROVE  Failed(ip) \in Report /\ StableID(Failed(ip)) = <<"ip", ip>>
  BY IdentityAssumption
  DEF Failed, Report, Optional, StableID, DistinctiveHostname, NormalizeMAC

(* The row findMinerLocked returns is in the map. *)
LEMMA FoundInMap ==
    ASSUME NEW d, NEW found \in Found(d)
    PROVE  found \subseteq DOMAIN miners
<1>1. \A i \in 1..5 : Tiers(d)[i] \subseteq DOMAIN miners
  <2>1. /\ ExactMatch(d) \subseteq DOMAIN miners
        /\ HostMatch(d) \subseteq DOMAIN miners
        /\ MacMatch(d) \subseteq DOMAIN miners
        /\ SerialMatch(d) \subseteq DOMAIN miners
        /\ IPMatch(d) \subseteq DOMAIN miners
    BY DEF ExactMatch, HostMatch, MacMatch, SerialMatch, IPMatch
  <2>2. \A i \in 1..5 : i = 1 \/ i = 2 \/ i = 3 \/ i = 4 \/ i = 5
    OBVIOUS
  <2> QED  BY <2>1, <2>2 DEF Tiers
<1>2. FindMiner(d) \subseteq DOMAIN miners
  BY <1>1 DEF FindMiner
<1> QED  BY <1>2 DEF Found

(* Nothing found means that no tier has a match. *)
LEMMA NothingFound ==
    ASSUME NEW d, {} \in Found(d)
    PROVE  \A i \in 1..5 : Tiers(d)[i] = {}
<1>1. FindMiner(d) = {}
  BY DEF Found
<1>2. ASSUME NEW i \in 1..5, \A j \in 1..(i - 1) : Tiers(d)[j] = {}
      PROVE  Tiers(d)[i] = {}
  BY <1>1, <1>2 DEF FindMiner
<1>3. Tiers(d)[1] = {}
  BY <1>2
<1>4. Tiers(d)[2] = {}
  BY <1>2, <1>3
<1>5. Tiers(d)[3] = {}
  BY <1>2, <1>3, <1>4
<1>6. Tiers(d)[4] = {}
  BY <1>2, <1>3, <1>4, <1>5
<1>7. Tiers(d)[5] = {}
  BY <1>2, <1>3, <1>4, <1>5, <1>6
<1> QED  BY <1>3, <1>4, <1>5, <1>6, <1>7

(* A row that is found is in the first tier that has a match. *)
LEMMA FoundTier ==
    ASSUME NEW d, NEW found \in Found(d), found # {}
    PROVE  \E id \in DOMAIN miners, i \in 1..5 :
              /\ found = {id}
              /\ id \in Tiers(d)[i]
              /\ \A j \in 1..(i - 1) : Tiers(d)[j] = {}
<1>1. PICK id \in FindMiner(d) : found = {id}
  BY DEF Found
<1>2. id \in DOMAIN miners
  BY <1>1, FoundInMap
<1> QED  BY <1>1, <1>2 DEF FindMiner

(* A row keyed by an address has that address. *)
LEMMA KeyedByAddress ==
    ASSUME NEW r, NEW x, StableID(r) = <<"ip", x>>
    PROVE  r.ip = x
  BY DEF StableID

-----------------------------------------------------------------------------
(* The inductive invariant: each part needs the ones before it. *)
FleetInv == FleetTypeOK /\ KeyedByIdentity /\ UniqueAddress

LEMMA FleetInvInit == FleetInit => FleetInv
  BY FleetAssumption
  DEF FleetInit, NoMiners, FleetInv, FleetTypeOK, KeyedByIdentity, UniqueAddress

(* A successful upsert preserves the invariant. *)
LEMMA UpsertLiveInv ==
    ASSUME FleetInv, NEW d \in Report, NEW found, NEW held,
           UpsertLive(d, found, held)
    PROVE  FleetInv'
<1> DEFINE gone == Folded(d, found, held)
           id == StableID(d)
           r == RowOf(ApplyStableID(d), FALSE, now)
<1>0. miners' = Replace(gone, id, r) /\ now' = now
  BY DEF UpsertLive
<1>2. now \in 1..MaxTime /\ now \in Nat
  BY FleetAssumption DEF FleetInv, FleetTypeOK
<1>3. /\ r \in Row /\ r.ip = d.ip /\ r.seen = now /\ StableID(r) = id
  BY <1>2, RowOfReport
<1>4. id \in ID
  BY ReportFields, StableIDType
<1> HIDE DEF gone, id, r
<1>1. /\ DOMAIN miners' = (DOMAIN miners \ gone) \cup {id}
      /\ miners'[id] = r
      /\ \A i \in DOMAIN miners \ gone : i # id => miners'[i] = miners[i]
      /\ now' = now
  BY <1>0 DEF Replace
<1>5. FleetTypeOK'
  BY <1>1, <1>2, <1>3, <1>4 DEF FleetInv, FleetTypeOK
<1>6. KeyedByIdentity'
  <2>1. ASSUME NEW i \in DOMAIN miners'
        PROVE  StableID(miners'[i]) = i
    BY <1>1, <1>3 DEF FleetInv, KeyedByIdentity
  <2> QED  BY <2>1 DEF KeyedByIdentity
<1>7. ASSUME NEW j \in DOMAIN miners \ gone, j # id, d.ip # None
      PROVE  miners[j].ip # d.ip
  <2>1. SUFFICES ASSUME miners[j].ip = d.ip PROVE FALSE
    OBVIOUS
  <2>2. j \in SameAddress(d)
    BY <1>7, <2>1 DEF SameAddress
  <2>3. j = NoID
    BY <1>7, <2>2 DEF Folded, gone, id
  <2>4. miners[j].ip = None
    BY <2>3, KeyedByAddress DEF NoID, FleetInv, KeyedByIdentity
  <2> QED  BY <1>7, <2>1, <2>4
<1>8. UniqueAddress'
  <2> SUFFICES ASSUME NEW i \in DOMAIN miners', NEW j \in DOMAIN miners',
                      miners'[i].ip = miners'[j].ip, miners'[i].ip # None,
                      i # j
               PROVE  FALSE
    BY DEF UniqueAddress
  <2>1. CASE i = id
    <3>1. j \in DOMAIN miners \ gone /\ miners'[j] = miners[j]
      BY <1>1, <2>1
    <3> QED  BY <1>1, <1>3, <1>7, <2>1, <3>1
  <2>2. CASE j = id
    <3>1. i \in DOMAIN miners \ gone /\ miners'[i] = miners[i]
      BY <1>1, <2>2
    <3> QED  BY <1>1, <1>3, <1>7, <2>2, <3>1
  <2>3. CASE i # id /\ j # id
    <3>1. /\ i \in DOMAIN miners /\ j \in DOMAIN miners
          /\ miners'[i] = miners[i] /\ miners'[j] = miners[j]
      BY <1>1, <2>3
    <3> QED  BY <3>1 DEF FleetInv, UniqueAddress
  <2> QED  BY <2>1, <2>2, <2>3
<1> QED  BY <1>5, <1>6, <1>8 DEF FleetInv

(* A failed upsert that finds a row finds one that has its address: it     *)
(* rewrites the address with the one already there.                        *)
LEMMA FailedKeepsAddress ==
    ASSUME KeyedByIdentity, NEW ip \in IPs, NEW found \in Found(Failed(ip)),
           NEW id \in found
    PROVE  id \in DOMAIN miners /\ miners[id].ip = ip
<1> DEFINE d == Failed(ip)
<1>1. PICK k \in DOMAIN miners, i \in 1..5 : found = {k} /\ k \in Tiers(d)[i]
  BY FoundTier
<1>2. id = k /\ id \in DOMAIN miners
  BY <1>1
<1>3. /\ HostMatch(d) = {} /\ MacMatch(d) = {} /\ SerialMatch(d) = {}
  BY DEF Failed, HostMatch, MacMatch, SerialMatch, DistinctiveHostname, NormalizeMAC
<1>4. id \in ExactMatch(d) \/ id \in IPMatch(d)
  <2>1. i = 1 \/ i = 2 \/ i = 3 \/ i = 4 \/ i = 5
    OBVIOUS
  <2> QED  BY <1>1, <1>2, <1>3, <2>1 DEF Tiers
<1>5. CASE id \in ExactMatch(d)
  <2>1. id = <<"ip", ip>>
    BY <1>5, FailedReport DEF ExactMatch
  <2> QED  BY <1>2, <2>1, KeyedByAddress DEF KeyedByIdentity
<1>6. CASE id \in IPMatch(d)
  BY <1>2, <1>6 DEF IPMatch, Failed
<1> QED  BY <1>4, <1>5, <1>6

LEMMA UpsertFailedInv ==
    ASSUME FleetInv, NEW ip \in IPs, NEW found \in Found(Failed(ip)),
           UpsertFailed(Failed(ip), found)
    PROVE  FleetInv'
<1> DEFINE d == Failed(ip)
<1>1. now \in 1..MaxTime /\ now \in Nat /\ now' = now
  BY FleetAssumption DEF FleetInv, FleetTypeOK, UpsertFailed
<1>2. d \in Report /\ StableID(d) = <<"ip", ip>> /\ d.ip = ip /\ ip # None
  BY FailedReport, IdentityAssumption DEF Failed
<1>3. CASE found = {}
  <2> DEFINE id == StableID(d)
             r == RowOf(ApplyStableID(d), TRUE, now)
  <2>0. miners' = Replace({}, id, r)
    BY <1>3 DEF UpsertFailed
  <2>2. /\ r \in Row /\ r.ip = ip /\ r.seen = now /\ StableID(r) = id
    BY <1>1, <1>2, RowOfReport
  <2>3. IPMatch(d) = {}
    BY <1>3, NothingFound DEF Tiers
  <2>4. \A j \in DOMAIN miners : miners[j].ip # ip
    BY <1>2, <2>3 DEF IPMatch
  <2>5. id \in ID
    BY <1>2, ReportFields, StableIDType
  <2> HIDE DEF id, r
  <2>1. /\ DOMAIN miners' = DOMAIN miners \cup {id}
        /\ miners'[id] = r
        /\ \A i \in DOMAIN miners : i # id => miners'[i] = miners[i]
    BY <2>0 DEF Replace
  <2>6. FleetTypeOK'
    BY <1>1, <2>1, <2>2, <2>5 DEF FleetInv, FleetTypeOK
  <2>7. KeyedByIdentity'
    <3>1. ASSUME NEW i \in DOMAIN miners'
          PROVE  StableID(miners'[i]) = i
      BY <2>1, <2>2 DEF FleetInv, KeyedByIdentity
    <3> QED  BY <3>1 DEF KeyedByIdentity
  <2>8. UniqueAddress'
    BY <2>1, <2>2, <2>4 DEF FleetInv, UniqueAddress
  <2> QED  BY <2>6, <2>7, <2>8 DEF FleetInv
<1>4. CASE found # {}
  <2>1. /\ DOMAIN miners' = DOMAIN miners
        /\ \A id \in DOMAIN miners :
              miners'[id] = IF id \in found THEN MergeError(d, id) ELSE miners[id]
    BY <1>4 DEF UpsertFailed
  <2>2. ASSUME NEW id \in DOMAIN miners
        PROVE  /\ miners'[id] \in Row
               /\ miners'[id].ip = miners[id].ip
               /\ miners'[id].seen = miners[id].seen
               /\ StableID(miners'[id]) = StableID(miners[id])
    <3>1. miners[id] \in Row
      BY DEF FleetInv, FleetTypeOK
    <3>2. CASE id \notin found
      BY <2>1, <3>1, <3>2
    <3>3. CASE id \in found
      <4>1. miners[id].ip = ip
        BY <3>3, FailedKeepsAddress DEF FleetInv
      <4>2. miners'[id] = [miners[id] EXCEPT !.err = TRUE, !.ip = ip]
        BY <1>2, <2>1, <3>3 DEF MergeError
      <4>3. ip \in Optional(IPs)
        BY DEF Optional
      <4>4. /\ miners'[id] \in Row
            /\ miners'[id].ip = miners[id].ip
            /\ miners'[id].host = miners[id].host
            /\ miners'[id].mac = miners[id].mac
            /\ miners'[id].serial = miners[id].serial
            /\ miners'[id].seen = miners[id].seen
        BY <3>1, <4>1, <4>2, <4>3 DEF Row
      <4> QED  BY <4>4 DEF StableID
    <3> QED  BY <3>2, <3>3
  <2>3. FleetTypeOK'
    BY <1>1, <2>1, <2>2 DEF FleetInv, FleetTypeOK
  <2>4. KeyedByIdentity'
    BY <2>1, <2>2 DEF FleetInv, KeyedByIdentity
  <2>5. UniqueAddress'
    BY <2>1, <2>2 DEF FleetInv, UniqueAddress
  <2> QED  BY <2>3, <2>4, <2>5 DEF FleetInv
<1> QED  BY <1>3, <1>4

(* Pruning, restarting and the clock only remove rows or let time pass. *)
LEMMA OtherStepsInv ==
    ASSUME FleetInv, Prune \/ Restart \/ Advance \/ UNCHANGED fleetVars
    PROVE  FleetInv'
<1>1. CASE Prune
  <2>1. /\ DOMAIN miners' \subseteq DOMAIN miners
        /\ \A id \in DOMAIN miners' : miners'[id] = miners[id]
        /\ now' = now
    BY <1>1 DEF Prune
  <2> QED  BY <2>1 DEF FleetInv, FleetTypeOK, KeyedByIdentity, UniqueAddress
<1>2. CASE Restart
  <2>1. DOMAIN miners' = {} /\ now' = now
    BY <1>2 DEF Restart, NoMiners
  <2> QED  BY <2>1 DEF FleetInv, FleetTypeOK, KeyedByIdentity, UniqueAddress
<1>3. CASE Advance
  <2>1. miners' = miners /\ now' = now + 1 /\ now < MaxTime
    BY <1>3 DEF Advance
  <2>2. now' \in 1..MaxTime /\ 1..now \subseteq 1..now'
    BY <2>1, FleetAssumption DEF FleetInv, FleetTypeOK
  <2> QED  BY <2>1, <2>2 DEF FleetInv, FleetTypeOK, KeyedByIdentity, UniqueAddress
<1>4. CASE UNCHANGED fleetVars
  BY <1>4 DEF fleetVars, FleetInv, FleetTypeOK, KeyedByIdentity, UniqueAddress
<1> QED  BY <1>1, <1>2, <1>3, <1>4

LEMMA FleetInvStep == FleetInv /\ [FleetNext]_fleetVars => FleetInv'
<1> SUFFICES ASSUME FleetInv, [FleetNext]_fleetVars
             PROVE  FleetInv'
  OBVIOUS
<1>1. ASSUME NEW d \in Reports, NEW found \in Found(d),
             NEW held \in SUBSET Aliases(d), UpsertLive(d, found, held)
      PROVE  FleetInv'
  BY <1>1, UpsertLiveInv, FleetAssumption
<1>2. ASSUME NEW ip \in IPs, NEW found \in Found(Failed(ip)),
             UpsertFailed(Failed(ip), found)
      PROVE  FleetInv'
  BY <1>2, UpsertFailedInv
<1>3. CASE Prune \/ Restart \/ Advance \/ UNCHANGED fleetVars
  BY <1>3, OtherStepsInv
<1> QED  BY <1>1, <1>2, <1>3 DEF FleetNext

LEMMA FleetInvAlways == FleetSpec => []FleetInv
  BY FleetInvInit, FleetInvStep, PTL DEF FleetSpec

(* Every row is well formed and never seen in the future. *)
THEOREM FleetTypeCorrect == FleetSpec => []FleetTypeOK
  BY FleetInvAlways, PTL DEF FleetInv

(* Every row stays under the key its fields give, through failed polls,    *)
(* promotions, merges and prunes.                                          *)
THEOREM RowsKeyedByIdentity == FleetSpec => []KeyedByIdentity
  BY FleetInvAlways, PTL DEF FleetInv

(* No address is ever shown by two rows, whatever the miners report.       *)
THEOREM AddressesUnique == FleetSpec => []UniqueAddress
  BY FleetInvAlways, PTL DEF FleetInv

-----------------------------------------------------------------------------
(* Where rows come from: a row is a report that some poll returned, or the *)
(* ghost of a poll that failed at an address no row had.                   *)
FromReport(r) ==
    \/ \E d \in Reports :
          /\ r.ip = d.ip /\ r.host = d.host /\ r.serial = d.serial
          /\ NormalizeMAC(r.mac) = NormalizeMAC(d.mac)
          /\ r.box = d.box
    \/ r.host = None /\ r.mac = None /\ r.serial = None /\ r.box = None

RowsReported == \A id \in DOMAIN miners : FromReport(miners[id])

OriginInv == FleetInv /\ RowsReported

LEMMA OriginInvInit == FleetInit => OriginInv
  BY FleetInvInit DEF FleetInit, NoMiners, OriginInv, RowsReported

(* A row merged with an error keeps the report it came from. *)
LEMMA MergeErrorFields ==
    ASSUME FleetInv, NEW ip \in IPs, NEW found \in Found(Failed(ip)),
           NEW id \in found
    PROVE  LET r == MergeError(Failed(ip), id)
           IN  /\ r.ip = miners[id].ip /\ r.host = miners[id].host
               /\ r.mac = miners[id].mac /\ r.serial = miners[id].serial
               /\ r.box = miners[id].box
<1>1. id \in DOMAIN miners /\ miners[id].ip = ip /\ miners[id] \in Row
  BY FailedKeepsAddress DEF FleetInv, FleetTypeOK
<1>2. MergeError(Failed(ip), id) = [miners[id] EXCEPT !.err = TRUE, !.ip = ip]
  BY IdentityAssumption DEF MergeError, Failed
<1> QED  BY <1>1, <1>2 DEF Row

LEMMA OriginInvStep == OriginInv /\ [FleetNext]_fleetVars => OriginInv'
<1> SUFFICES ASSUME OriginInv, [FleetNext]_fleetVars
             PROVE  RowsReported'
  BY FleetInvStep DEF OriginInv
<1>1. ASSUME NEW d \in Reports, NEW found \in Found(d),
             NEW held \in SUBSET Aliases(d), UpsertLive(d, found, held)
      PROVE  RowsReported'
  <2> DEFINE r == RowOf(ApplyStableID(d), FALSE, now)
  <2>1. miners' = Replace(Folded(d, found, held), StableID(d), r)
    BY <1>1 DEF UpsertLive
  <2>2. now \in Nat /\ d \in Report
    BY FleetAssumption DEF OriginInv, FleetInv, FleetTypeOK
  <2>3. /\ r.ip = d.ip /\ r.host = d.host /\ r.serial = d.serial
        /\ NormalizeMAC(r.mac) = NormalizeMAC(d.mac) /\ r.box = d.box
    BY <2>2, RowOfReport
  <2>4. FromReport(r)
    BY <2>3 DEF FromReport
  <2> HIDE DEF r
  <2>5. \A id \in DOMAIN miners' : miners'[id] = r \/ (id \in DOMAIN miners /\ miners'[id] = miners[id])
    BY <2>1 DEF Replace
  <2>6. ASSUME NEW id \in DOMAIN miners' PROVE FromReport(miners'[id])
    BY <2>4, <2>5 DEF OriginInv, RowsReported
  <2> QED  BY <2>6 DEF RowsReported
<1>2. ASSUME NEW ip \in IPs, NEW found \in Found(Failed(ip)),
             UpsertFailed(Failed(ip), found)
      PROVE  RowsReported'
  <2>1. CASE found = {}
    <3> DEFINE r == RowOf(ApplyStableID(Failed(ip)), TRUE, now)
    <3>1. miners' = Replace({}, StableID(Failed(ip)), r)
      BY <1>2, <2>1 DEF UpsertFailed
    <3>2. FromReport(r)
      BY DEF FromReport, RowOf, ApplyStableID, Failed, NormalizeMAC
    <3> HIDE DEF r
    <3>3. \A id \in DOMAIN miners' : miners'[id] = r \/ (id \in DOMAIN miners /\ miners'[id] = miners[id])
      BY <3>1 DEF Replace
    <3>4. ASSUME NEW id \in DOMAIN miners' PROVE FromReport(miners'[id])
      BY <3>2, <3>3 DEF OriginInv, RowsReported
    <3> QED  BY <3>4 DEF RowsReported
  <2>2. CASE found # {}
    <3>1. /\ DOMAIN miners' = DOMAIN miners
          /\ \A id \in DOMAIN miners :
                miners'[id] = IF id \in found THEN MergeError(Failed(ip), id) ELSE miners[id]
      BY <1>2, <2>2 DEF UpsertFailed
    <3>2. ASSUME NEW id \in DOMAIN miners' PROVE FromReport(miners'[id])
      <4>1. FromReport(miners[id])
        BY <3>1 DEF OriginInv, RowsReported
      <4>2. CASE id \in found
        <5>1. /\ miners'[id].ip = miners[id].ip /\ miners'[id].host = miners[id].host
              /\ miners'[id].mac = miners[id].mac /\ miners'[id].serial = miners[id].serial
              /\ miners'[id].box = miners[id].box
          BY <3>1, <4>2, MergeErrorFields DEF OriginInv
        <5> QED  BY <4>1, <5>1 DEF FromReport
      <4>3. CASE id \notin found
        BY <3>1, <4>1, <4>3
      <4> QED  BY <4>2, <4>3
    <3> QED  BY <3>2 DEF RowsReported
  <2> QED  BY <2>1, <2>2
<1>3. CASE Prune \/ Restart \/ Advance \/ UNCHANGED fleetVars
  <2>1. \A id \in DOMAIN miners' : id \in DOMAIN miners /\ miners'[id] = miners[id]
    BY <1>3 DEF Prune, Restart, NoMiners, Advance, fleetVars
  <2>2. ASSUME NEW id \in DOMAIN miners' PROVE FromReport(miners'[id])
    BY <2>1 DEF OriginInv, RowsReported
  <2> QED  BY <2>2 DEF RowsReported
<1> QED  BY <1>1, <1>2, <1>3 DEF FleetNext

LEMMA OriginInvAlways == FleetSpec => []OriginInv
  BY OriginInvInit, OriginInvStep, PTL DEF FleetSpec

-----------------------------------------------------------------------------
(* One row per device.  The step that matters is a successful upsert of a  *)
(* report with MAC m: if a row with m is already there, findMinerLocked    *)
(* returns that very row, so it is folded into the new one.                *)
SteadyInv == OriginInv /\ OneRowPerMAC

LEMMA KeyTags ==
    ASSUME NEW r
    PROVE  /\ DistinctiveHostname(r.host) # None
              => StableID(r) = <<"host", DistinctiveHostname(r.host)>>
           /\ DistinctiveHostname(r.host) = None /\ NormalizeMAC(r.mac) # None
              => StableID(r) = <<"mac", NormalizeMAC(r.mac)>>
           /\ \A h : StableID(r) = <<"host", h>> => DistinctiveHostname(r.host) = h /\ h # None
           /\ \A m : StableID(r) = <<"mac", m>> => NormalizeMAC(r.mac) = m /\ m # None
           /\ \A x : StableID(r) = <<"sn", x>> => r.serial # None /\ SerialKey(r.serial) = x
           /\ \A x : StableID(r) # <<"name", x>>
  BY DEF StableID, SerialKey

LEMMA SameMacFound ==
    ASSUME SteadyInv, NEW d \in Reports, NEW found \in Found(d),
           NormalizeMAC(d.mac) # None, SteadyMAC(NormalizeMAC(d.mac)),
           NEW j \in DOMAIN miners,
           NormalizeMAC(miners[j].mac) = NormalizeMAC(d.mac)
    PROVE  j \in found \cup {StableID(d)}
<1> DEFINE m == NormalizeMAC(d.mac)
           h == DistinctiveHostname(d.host)
<1>1. m # None
  OBVIOUS
<1>2. StableID(d) # NoID
  BY <1>1 DEF StableID, NoID
<1>3. \A k \in DOMAIN miners : NormalizeMAC(miners[k].mac) = m => k = j
  BY <1>1 DEF SteadyInv, OneRowPerMAC
<1>4. \A k \in DOMAIN miners : StableID(miners[k]) = k
  BY DEF SteadyInv, OriginInv, FleetInv, KeyedByIdentity
<1>5. \A k \in DOMAIN miners : h # None /\ DistinctiveHostname(miners[k].host) = h
                               => NormalizeMAC(miners[k].mac) = m
  <2>1. SUFFICES ASSUME NEW k \in DOMAIN miners, h # None,
                        DistinctiveHostname(miners[k].host) = h
                 PROVE  NormalizeMAC(miners[k].mac) = m
    OBVIOUS
  <2>2. miners[k].host # None
    BY <2>1 DEF DistinctiveHostname
  <2>3. PICK e \in Reports : /\ miners[k].host = e.host
                             /\ NormalizeMAC(miners[k].mac) = NormalizeMAC(e.mac)
    BY <2>2 DEF SteadyInv, OriginInv, RowsReported, FromReport
  <2> QED  BY <2>1, <2>3 DEF SteadyMAC
<1>6. CASE StableID(d) \in DOMAIN miners
  <2>1. NormalizeMAC(miners[StableID(d)].mac) = m
    <3>1. CASE h # None
      <4>1. StableID(d) = <<"host", h>>
        BY <3>1 DEF StableID
      <4>2. StableID(miners[StableID(d)]) = <<"host", h>>
        BY <1>4, <1>6, <4>1
      <4> QED  BY <1>5, <1>6, <3>1, <4>2, KeyTags
    <3>2. CASE h = None
      <4>1. StableID(d) = <<"mac", m>>
        BY <1>1, <3>2 DEF StableID
      <4>2. StableID(miners[StableID(d)]) = <<"mac", m>>
        BY <1>4, <1>6, <4>1
      <4> QED  BY <4>2, KeyTags
    <3> QED  BY <3>1, <3>2
  <2> QED  BY <1>3, <1>6, <2>1
<1>7. CASE StableID(d) \notin DOMAIN miners
  <2>1. ExactMatch(d) = {}
    BY <1>7 DEF ExactMatch
  <2>2. HostMatch(d) = {}
    <3>1. SUFFICES ASSUME NEW k \in DOMAIN miners, h # None,
                          DistinctiveHostname(miners[k].host) = h
                   PROVE  FALSE
      BY DEF HostMatch
    <3>2. StableID(miners[k]) = <<"host", h>> /\ StableID(d) = <<"host", h>>
      BY <3>1 DEF StableID
    <3> QED  BY <1>4, <1>7, <3>2
  <2>3. j \in MacMatch(d)
    BY <1>1 DEF MacMatch
  <2>4. found # {}
    <3>1. Tiers(d)[3] # {}
      BY <2>3 DEF Tiers
    <3> QED  BY <3>1, NothingFound
  <2>5. PICK k \in DOMAIN miners, i \in 1..5 :
            found = {k} /\ k \in Tiers(d)[i] /\ \A l \in 1..(i - 1) : Tiers(d)[l] = {}
    BY <2>4, FoundTier
  <2>6. i = 3
    <3>1. Tiers(d)[1] = {} /\ Tiers(d)[2] = {} /\ Tiers(d)[3] # {}
      BY <2>1, <2>2, <2>3 DEF Tiers
    <3>2. i # 1 /\ i # 2
      BY <2>5, <3>1
    <3>3. ~ (i > 3)
      BY <2>5, <3>1
    <3> QED  BY <3>2, <3>3
  <2>7. k \in MacMatch(d)
    BY <2>5, <2>6 DEF Tiers
  <2>8. k = j
    BY <1>3, <2>7 DEF MacMatch
  <2> QED  BY <2>5, <2>8
<1> QED  BY <1>6, <1>7

LEMMA SteadyInvStep == SteadyInv /\ [FleetNext]_fleetVars => SteadyInv'
<1> SUFFICES ASSUME SteadyInv, [FleetNext]_fleetVars,
                    NEW i \in DOMAIN miners', NEW j \in DOMAIN miners',
                    NEW m, m # None, SteadyMAC(m),
                    NormalizeMAC(miners'[i].mac) = m, NormalizeMAC(miners'[j].mac) = m
             PROVE  i = j
  BY OriginInvStep DEF SteadyInv, OneRowPerMAC, SteadyMAC
<1>1. ASSUME NEW k \in DOMAIN miners, NEW l \in DOMAIN miners,
             NormalizeMAC(miners[k].mac) = m, NormalizeMAC(miners[l].mac) = m
      PROVE  k = l
  BY <1>1 DEF SteadyInv, OneRowPerMAC
<1>2. ASSUME NEW d \in Reports, NEW found \in Found(d),
             NEW held \in SUBSET Aliases(d), UpsertLive(d, found, held)
      PROVE  i = j
  <2> DEFINE gone == Folded(d, found, held)
             id == StableID(d)
             r == RowOf(ApplyStableID(d), FALSE, now)
  <2>1. miners' = Replace(gone, id, r)
    BY <1>2 DEF UpsertLive
  <2>2. now \in Nat /\ d \in Report
    BY FleetAssumption DEF SteadyInv, OriginInv, FleetInv, FleetTypeOK
  <2>3. NormalizeMAC(r.mac) = NormalizeMAC(d.mac)
    BY <2>2, RowOfReport
  <2>4. ASSUME NEW k \in DOMAIN miners, k \notin gone, k # id,
               NormalizeMAC(miners[k].mac) = m, NormalizeMAC(d.mac) = m
        PROVE  FALSE
    <3>1. k \in found
      BY <2>4, SameMacFound
    <3>2. k = NoID
      BY <2>4, <3>1 DEF Folded
    <3>3. StableID(miners[k]) = NoID
      BY <3>2 DEF SteadyInv, OriginInv, FleetInv, KeyedByIdentity
    <3>4. NormalizeMAC(miners[k].mac) = None
      BY <3>3 DEF StableID, NoID
    <3> QED  BY <2>4, <3>4
  <2> HIDE DEF gone, id, r
  <2>5. /\ DOMAIN miners' = (DOMAIN miners \ gone) \cup {id}
        /\ miners'[id] = r
        /\ \A k \in DOMAIN miners \ gone : k # id => miners'[k] = miners[k]
    BY <2>1 DEF Replace
  <2>6. CASE i = id /\ j # id
    <3>1. j \in DOMAIN miners /\ j \notin gone /\ miners'[j] = miners[j] /\ miners'[i] = r
      BY <2>5, <2>6
    <3>2. NormalizeMAC(miners[j].mac) = m /\ NormalizeMAC(d.mac) = m
      BY <2>3, <3>1
    <3> QED  BY <2>4, <2>6, <3>1, <3>2
  <2>7. CASE i # id /\ j = id
    <3>1. i \in DOMAIN miners /\ i \notin gone /\ miners'[i] = miners[i] /\ miners'[j] = r
      BY <2>5, <2>7
    <3>2. NormalizeMAC(miners[i].mac) = m /\ NormalizeMAC(d.mac) = m
      BY <2>3, <3>1
    <3> QED  BY <2>4, <2>7, <3>1, <3>2
  <2>8. CASE i # id /\ j # id
    <3>1. /\ i \in DOMAIN miners /\ j \in DOMAIN miners
          /\ miners'[i] = miners[i] /\ miners'[j] = miners[j]
      BY <2>5, <2>8
    <3> QED  BY <1>1, <3>1
  <2> QED  BY <2>6, <2>7, <2>8
<1>3. ASSUME NEW ip \in IPs, NEW found \in Found(Failed(ip)),
             UpsertFailed(Failed(ip), found)
      PROVE  i = j
  <2>1. CASE found = {}
    <3> DEFINE r == RowOf(ApplyStableID(Failed(ip)), TRUE, now)
               id == StableID(Failed(ip))
    <3>1. miners' = Replace({}, id, r)
      BY <1>3, <2>1 DEF UpsertFailed
    <3>2. NormalizeMAC(r.mac) = None
      BY DEF RowOf, ApplyStableID, Failed, NormalizeMAC
    <3> HIDE DEF r, id
    <3>3. \A k \in DOMAIN miners' :
             miners'[k] = r \/ (k \in DOMAIN miners /\ miners'[k] = miners[k])
      BY <3>1 DEF Replace
    <3>4. /\ i \in DOMAIN miners /\ miners'[i] = miners[i]
          /\ j \in DOMAIN miners /\ miners'[j] = miners[j]
      BY <3>2, <3>3
    <3> QED  BY <1>1, <3>4
  <2>2. CASE found # {}
    <3>1. /\ DOMAIN miners' = DOMAIN miners
          /\ \A id \in DOMAIN miners :
                miners'[id] = IF id \in found THEN MergeError(Failed(ip), id) ELSE miners[id]
      BY <1>3, <2>2 DEF UpsertFailed
    <3>2. \A id \in DOMAIN miners : miners'[id].mac = miners[id].mac
      BY <3>1, MergeErrorFields DEF SteadyInv, OriginInv
    <3>3. NormalizeMAC(miners[i].mac) = m /\ NormalizeMAC(miners[j].mac) = m
      BY <3>1, <3>2
    <3> QED  BY <1>1, <3>1, <3>3
  <2> QED  BY <2>1, <2>2
<1>4. CASE Prune \/ Restart \/ Advance \/ UNCHANGED fleetVars
  <2>1. \A id \in DOMAIN miners' : id \in DOMAIN miners /\ miners'[id] = miners[id]
    BY <1>4 DEF Prune, Restart, NoMiners, Advance, fleetVars
  <2> QED  BY <1>1, <2>1
<1> QED  BY <1>2, <1>3, <1>4 DEF FleetNext

(* DHCP moves and names that come and go never split a device whose MAC is *)
(* always reported into two rows.                                          *)
THEOREM OneRowPerDevice == FleetSpec => []OneRowPerMAC
<1>1. FleetInit => SteadyInv
  BY OriginInvInit DEF FleetInit, NoMiners, SteadyInv, OneRowPerMAC
<1>2. SteadyInv => OneRowPerMAC
  BY DEF SteadyInv
<1> QED  BY <1>1, <1>2, SteadyInvStep, PTL DEF FleetSpec

-----------------------------------------------------------------------------
(* No box leaves the fleet early.  A row that an upsert folds away shares  *)
(* part of its identity, or its address, with the report that replaces it, *)
(* so when these belong to one box each, the new row is the same box's.    *)
LEMMA FoldedShares ==
    ASSUME OriginInv, NEW d \in Reports, NEW found \in Found(d), NEW held,
           NEW id \in DOMAIN miners, miners[id].box # None,
           id \in Folded(d, found, held) \cup {StableID(d)}
    PROVE  \E e \in Reports : e.box = miners[id].box /\ Shares(d, e)
<1> DEFINE r == miners[id]
<1>1. PICK e \in Reports :
          /\ r.ip = e.ip /\ r.host = e.host /\ r.serial = e.serial
          /\ NormalizeMAC(r.mac) = NormalizeMAC(e.mac)
          /\ r.box = e.box
  BY DEF OriginInv, RowsReported, FromReport
<1>2. StableID(r) = id
  BY DEF OriginInv, FleetInv, KeyedByIdentity
<1>3. StableID(e) = id
  BY <1>1, <1>2 DEF StableID
<1>4. SUFFICES Shares(d, e)
  BY <1>1
<1> HIDE DEF r
<1>5. CASE id = StableID(d)
  BY <1>3, <1>5 DEF Shares
<1>6. CASE id \in found
  <2>1. PICK k \in DOMAIN miners, i \in 1..5 : found = {k} /\ k \in Tiers(d)[i]
    BY <1>6, FoundTier
  <2>2. i = 1 \/ i = 2 \/ i = 3 \/ i = 4 \/ i = 5
    OBVIOUS
  <2>3. \/ id \in ExactMatch(d) \/ id \in HostMatch(d) \/ id \in MacMatch(d)
        \/ id \in SerialMatch(d) \/ id \in IPMatch(d)
    BY <1>6, <2>1, <2>2 DEF Tiers
  <2>4. CASE id \in ExactMatch(d)
    BY <1>3, <2>4 DEF ExactMatch, Shares
  <2>5. CASE id \in HostMatch(d)
    BY <1>1, <2>5 DEF HostMatch, Shares, r
  <2>6. CASE id \in MacMatch(d)
    BY <1>1, <2>6 DEF MacMatch, Shares, r
  <2>7. CASE id \in SerialMatch(d)
    BY <1>1, <2>7 DEF SerialMatch, Shares, r
  <2>8. CASE id \in IPMatch(d)
    BY <1>1, <2>8 DEF IPMatch, Shares, r
  <2> QED  BY <2>3, <2>4, <2>5, <2>6, <2>7, <2>8
<1>7. CASE id \in SameAddress(d)
  BY <1>1, <1>7 DEF SameAddress, Shares, r
<1>8. CASE id \in Aliases(d)
  <2>1. PICK i \in 1..5 : id = AliasList(d)[i] /\ id[2] # None
    BY <1>8 DEF Aliases
  <2>2. i = 1 \/ i = 2 \/ i = 3 \/ i = 4 \/ i = 5
    OBVIOUS
  <2>3. CASE i = 1
    <3>1. StableID(e) = <<"ip", d.ip>> /\ d.ip # None
      BY <1>3, <2>1, <2>3 DEF AliasList
    <3> QED  BY <3>1, KeyedByAddress DEF Shares
  <2>4. CASE i = 2
    <3>1. StableID(e) = <<"host", DistinctiveHostname(d.host)>>
      BY <1>3, <2>1, <2>4 DEF AliasList
    <3> QED  BY <3>1, KeyTags DEF Shares
  <2>5. CASE i = 3
    <3>1. StableID(e) = <<"name", DistinctiveHostname(d.host)>>
      BY <1>3, <2>1, <2>5 DEF AliasList
    <3> QED  BY <3>1, KeyTags
  <2>6. CASE i = 4
    <3>1. StableID(e) = <<"mac", NormalizeMAC(d.mac)>>
      BY <1>3, <2>1, <2>6 DEF AliasList
    <3> QED  BY <3>1, KeyTags DEF Shares
  <2>7. CASE i = 5
    <3>1. StableID(e) = <<"sn", SerialKey(d.serial)>> /\ SerialKey(d.serial) # None
      BY <1>3, <2>1, <2>7 DEF AliasList
    <3>2. d.serial # None
      BY <3>1 DEF SerialKey
    <3> QED  BY <3>1, <3>2, KeyTags DEF Shares
  <2> QED  BY <2>2, <2>3, <2>4, <2>5, <2>6, <2>7
<1> QED  BY <1>5, <1>6, <1>7, <1>8 DEF Folded

LEMMA KeepsBoxStep ==
    ASSUME OwnIdentity, OriginInv, [FleetNext]_fleetVars, ~Restart,
           NEW id \in DOMAIN miners, miners[id].box # None,
           TTL <= 0 \/ miners[id].seen >= now - TTL
    PROVE  KeepsBox(id)
<1>1. ASSUME NEW d \in Reports, NEW found \in Found(d),
             NEW held \in SUBSET Aliases(d), UpsertLive(d, found, held)
      PROVE  KeepsBox(id)
  <2> DEFINE gone == Folded(d, found, held)
             key == StableID(d)
             r == RowOf(ApplyStableID(d), FALSE, now)
  <2>1. miners' = Replace(gone, key, r)
    BY <1>1 DEF UpsertLive
  <2>2. now \in Nat /\ d \in Report
    BY FleetAssumption DEF OriginInv, FleetInv, FleetTypeOK
  <2>3. r.box = d.box
    BY <2>2, RowOfReport
  <2>4. id \in gone \cup {key} => miners[id].box = d.box
    BY FoldedShares DEF OwnIdentity
  <2> HIDE DEF gone, key, r
  <2>5. /\ DOMAIN miners' = (DOMAIN miners \ gone) \cup {key}
        /\ miners'[key] = r
        /\ \A k \in DOMAIN miners \ gone : k # key => miners'[k] = miners[k]
    BY <2>1 DEF Replace
  <2>6. CASE id \in gone \cup {key}
    BY <2>3, <2>4, <2>5, <2>6 DEF KeepsBox
  <2>7. CASE id \notin gone \cup {key}
    BY <2>5, <2>7 DEF KeepsBox
  <2> QED  BY <2>6, <2>7
<1>2. ASSUME NEW ip \in IPs, NEW found \in Found(Failed(ip)),
             UpsertFailed(Failed(ip), found)
      PROVE  KeepsBox(id)
  <2>1. CASE found = {}
    <3> DEFINE r == RowOf(ApplyStableID(Failed(ip)), TRUE, now)
               key == StableID(Failed(ip))
    <3>1. miners' = Replace({}, key, r)
      BY <1>2, <2>1 DEF UpsertFailed
    <3>2. ExactMatch(Failed(ip)) = {}
      BY <2>1, NothingFound DEF Tiers
    <3>3. key = <<"ip", ip>> /\ key # NoID
      BY FailedReport, IdentityAssumption DEF NoID
    <3>4. key \notin DOMAIN miners
      BY <3>2, <3>3 DEF ExactMatch
    <3> HIDE DEF r, key
    <3>5. id \in DOMAIN miners' /\ miners'[id] = miners[id]
      BY <3>1, <3>4 DEF Replace
    <3> QED  BY <3>5 DEF KeepsBox
  <2>2. CASE found # {}
    <3>1. /\ id \in DOMAIN miners'
          /\ miners'[id] = IF id \in found THEN MergeError(Failed(ip), id) ELSE miners[id]
      BY <1>2, <2>2 DEF UpsertFailed
    <3>2. miners'[id].box = miners[id].box
      BY <3>1, MergeErrorFields DEF OriginInv
    <3> QED  BY <3>1, <3>2 DEF KeepsBox
  <2> QED  BY <2>1, <2>2
<1>3. CASE Prune
  <2>1. miners[id].seen \in Nat /\ now \in Nat /\ TTL \in Int
    BY FleetAssumption DEF OriginInv, FleetInv, FleetTypeOK
  <2>2. ~Expired(id)
    BY <2>1 DEF Expired
  <2> QED  BY <1>3, <2>2 DEF Prune, KeepsBox
<1>4. CASE Advance \/ UNCHANGED fleetVars
  <2>1. miners' = miners
    BY <1>4 DEF Advance, fleetVars
  <2> QED  BY <2>1 DEF KeepsBox
<1> QED  BY <1>1, <1>2, <1>3, <1>4 DEF FleetNext

(* When names, serials and addresses belong to one box each, a box that    *)
(* answered within the TTL keeps its row: only a restart, or TTL, removes  *)
(* it.  The run store_takeover shows the assumption is needed.             *)
THEOREM BoxesStay == OwnIdentity => (FleetSpec => StaysUntilTTL)
<1> SUFFICES ASSUME OwnIdentity
             PROVE  FleetSpec => StaysUntilTTL
  OBVIOUS
<1> DEFINE A == Restart \/ \A id \in DOMAIN miners :
                   /\ miners[id].box # None
                   /\ TTL <= 0 \/ miners[id].seen >= now - TTL
                   => KeepsBox(id)
<1>1. OriginInv /\ [FleetNext]_fleetVars => [A]_fleetVars
  BY KeepsBoxStep
<1> QED  BY <1>1, OriginInvAlways, PTL DEF FleetSpec, StaysUntilTTL
=============================================================================
