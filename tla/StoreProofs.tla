---------------------------- MODULE StoreProofs -----------------------------
(***************************************************************************)
(* The store, for any reports, any failed transactions and any restarts:   *)
(* its rows go through the steps of the fleet map; with a database, no     *)
(* upsert leaves samples under an id the miner had before, no sample is    *)
(* given to another device, and none is lost before its retention; and     *)
(* without one, the series stay bounded, with their device, in one place   *)
(* and in the order of time through any merges.                            *)
(***************************************************************************)
EXTENDS Store, FleetProofs, Folding, SequenceTheorems

LEMMA StoreStep == [StoreNext]_storeVars => [FleetNext]_fleetVars
<1> SUFFICES ASSUME [StoreNext]_storeVars PROVE [FleetNext]_fleetVars
  OBVIOUS
<1>1. ASSUME NEW d \in Reports, NEW found \in Found(d), NEW order, NEW at,
             UpsertStart(d, found, order, at)
      PROVE  FleetNext
  BY <1>1 DEF UpsertStart, FleetNext
<1>2. ASSUME NEW ip \in IPs, NEW found \in Found(Failed(ip)), UpsertError(ip, found)
      PROVE  FleetNext
  BY <1>2 DEF UpsertError, FleetNext
<1>3. CASE \/ RenameMetrics \/ RenameFails \/ InsertSamples \/ InsertFails
           \/ MarkPoll \/ MarkPollFails
  BY <1>3 DEF RenameMetrics, RenameFails, InsertSamples, InsertFails, MarkPoll,
              MarkPollFails, fleetVars
<1>4. CASE PruneFleet \/ RestartStore \/ AdvanceStore
  BY <1>4 DEF PruneFleet, RestartStore, AdvanceStore, FleetNext
<1>5. CASE UNCHANGED storeVars
  BY <1>5 DEF storeVars, fleetVars
<1> QED BY <1>1, <1>2, <1>3, <1>4, <1>5 DEF StoreNext

(* History, in memory or in a database, with failures and restarts at any  *)
(* point, does not change what happens to the rows: all that is proved of  *)
(* the fleet map holds of the store (Store.Upsert, Prune).                 *)
THEOREM StoreImplementsFleet == StoreSpec => ImplementsFleet
<1>1. StoreInit => FleetInit
  BY DEF StoreInit
<1> QED BY <1>1, StoreStep, PTL DEF StoreSpec, ImplementsFleet, FleetSpec

LEMMA StoreOrigin == StoreSpec => []OriginInv
BY StoreImplementsFleet, OriginInvAlways, PTL DEF ImplementsFleet

-----------------------------------------------------------------------------
(* The orders in which ids are moved. *)

LEMMA FleetIsFinite ==
    /\ FleetInit => IsFiniteSet(DOMAIN miners)
    /\ IsFiniteSet(DOMAIN miners) /\ [FleetNext]_fleetVars
         => IsFiniteSet(DOMAIN miners')
<1>1. FleetInit => IsFiniteSet(DOMAIN miners)
  BY FS_EmptySet DEF FleetInit, NoMiners
<1>2. ASSUME IsFiniteSet(DOMAIN miners), [FleetNext]_fleetVars
      PROVE  IsFiniteSet(DOMAIN miners')
  <2>1. \A x : \A S \in SUBSET DOMAIN miners :
            IsFiniteSet(S) /\ IsFiniteSet(S \cup {x})
    BY <1>2, FS_Subset, FS_AddElement
  <2>2. ASSUME NEW d, NEW found, NEW held, UpsertLive(d, found, held)
        PROVE  IsFiniteSet(DOMAIN miners')
    <3>1. DOMAIN miners' = (DOMAIN miners \ Folded(d, found, held)) \cup {StableID(d)}
      BY <2>2 DEF UpsertLive, Replace
    <3> QED BY <2>1, <3>1
  <2>3. ASSUME NEW d, NEW found, UpsertFailed(d, found)
        PROVE  IsFiniteSet(DOMAIN miners')
    <3>1. CASE found = {}
      <4>1. DOMAIN miners' = (DOMAIN miners \ {}) \cup {StableID(d)}
        BY <2>3, <3>1 DEF UpsertFailed, Replace
      <4> QED BY <2>1, <4>1
    <3>2. CASE found # {}
      BY <1>2, <2>3, <3>2 DEF UpsertFailed
    <3> QED BY <3>1, <3>2
  <2>4. CASE Prune \/ Restart \/ Advance \/ UNCHANGED fleetVars
    <3>1. DOMAIN miners' \in SUBSET DOMAIN miners
      BY <2>4 DEF Prune, Restart, NoMiners, Advance, fleetVars
    <3> QED BY <2>1, <3>1
  <2> QED BY <1>2, <2>2, <2>3, <2>4 DEF FleetNext
<1> QED BY <1>1, <1>2

LEMMA AliasesAreFinite == ASSUME NEW d PROVE IsFiniteSet(Aliases(d))
<1> DEFINE f == [i \in 1..5 |-> AliasList(d)[i]]
           A == { AliasList(d)[i] : i \in 1..5 }
<1>1. f \in Surjection(1..5, A)
  BY DEF Surjection
<1>2. IsFiniteSet(1..5)
  <2>1. 1 \in Int /\ 5 \in Int
    OBVIOUS
  <2> HIDE DEF f, A
  <2> QED BY ONLY <2>1, FS_Interval
<1>3. IsFiniteSet(A)
  <2> HIDE DEF f, A
  <2> QED BY <1>1, <1>2, FS_Surjection
<1>4. Aliases(d) \subseteq A
  BY DEF Aliases
<1> QED BY <1>3, <1>4, FS_Subset

LEMMA AliasesAreIDs == ASSUME NEW d \in Report PROVE Aliases(d) \subseteq ID
<1>1. /\ DistinctiveHostname(d.host) \in Optional(HostNames)
      /\ NormalizeMAC(d.mac) \in Optional(MACs)
      /\ SerialKey(d.serial) \in Optional(Serials)
      /\ d.ip \in Optional(IPs)
  BY IdentityAssumption
  DEF Report, Optional, DistinctiveHostname, NormalizeMAC, SerialKey
<1>2. ASSUME NEW i \in 1..5 PROVE AliasList(d)[i] \in ID
  <2>1. i = 1 \/ i = 2 \/ i = 3 \/ i = 4 \/ i = 5
    OBVIOUS
  <2> QED BY <1>1, <2>1 DEF AliasList, ID
<1> QED BY <1>2 DEF Aliases

(* An order is a sequence of the moved ids, and has each of them.          *)
LEMMA OrderIsOfMoved ==
    ASSUME IsFiniteSet(DOMAIN miners), DOMAIN miners \subseteq ID,
           NEW d \in Report, NEW found \in Found(d), NEW order \in RekeyOrders(d, found)
    PROVE  order \in Seq(ID) /\ ToSet(order) = Moved(d, found)
<1> DEFINE M == Moved(d, found)
           n == Cardinality(M)
<1>1. found \subseteq DOMAIN miners /\ SameAddress(d) \subseteq DOMAIN miners
  BY FoundInMap DEF SameAddress
<1>2. IsFiniteSet(found) /\ IsFiniteSet(SameAddress(d)) /\ IsFiniteSet(Aliases(d))
  BY <1>1, FS_Subset, AliasesAreFinite
<1>3. IsFiniteSet(found \cup SameAddress(d) \cup Aliases(d))
  BY <1>2, FS_Union
<1>4. IsFiniteSet(M) /\ M \subseteq ID
  BY <1>1, <1>3, FS_Subset, AliasesAreIDs DEF Moved
<1> HIDE DEF M
<1>5. order \in [1..n -> M] /\ \A i, j \in 1..n : i # j => order[i] # order[j]
  BY DEF RekeyOrders, SetToSeqs, M
<1>6. n \in Nat
  BY <1>4, FS_CardinalityType
<1>7. order \in Seq(ID)
  BY <1>4, <1>5, <1>6, SeqDef
<1>8. order \in Injection(1..n, M)
  BY <1>5 DEF Injection, IsInjective
<1>9. IsFiniteSet(1..n) /\ Cardinality(1..n) = n
  BY <1>6, FS_Interval
<1>10. order \in Surjection(1..n, M)
  BY <1>4, <1>8, <1>9, FS_Injection
<1>11. ToSet(order) = M
  BY <1>5, <1>10 DEF Surjection, ToSet
<1> QED BY <1>7, <1>11 DEF M

-----------------------------------------------------------------------------
(* The store with a database.  The series in memory stay empty; the work   *)
(* in progress is that of a report whose row is in the map; and while none *)
(* of its renames has failed, the samples under its other ids are those    *)
(* that are still to be renamed.                                           *)

WorkOf(d) ==
    /\ work \in Work
    /\ work.id = StableID(d)
    /\ work.point.t \in 1..now /\ work.point.box = d.box
    /\ work.id \notin ToSet(work.renames)
    /\ work.id \in DOMAIN miners /\ Aliases(miners[work.id]) = Aliases(d)
    /\ ~work.missed =>
          \A r \in db : r.id \in Aliases(d) => r.id \in ToSet(work.renames)

TableInv ==
    /\ db \subseteq Sample
    /\ \A r, q \in db : r.id = q.id /\ r.t = q.t => r = q

SqlInv ==
    /\ IsFiniteSet(DOMAIN miners)
    /\ history = NoHistory
    /\ faults \in 0..MaxFaults
    /\ TableInv
    /\ work = Idle \/ \E d \in Reports : WorkOf(d)

LEMMA SampleFields ==
    ASSUME NEW r \in Sample
    PROVE  /\ r = [id |-> r.id, t |-> r.t, box |-> r.box]
           /\ r.id \in ID /\ r.t \in Nat /\ r.box \in Optional(Boxes)
           /\ \A x : [r EXCEPT !.id = x] = [id |-> x, t |-> r.t, box |-> r.box]
BY DEF Sample

LEMMA RenamedTable ==
    ASSUME TableInv, NEW src, NEW dst \in ID,
           NEW new, new = Renamed(db, src, dst)
    PROVE  /\ new \subseteq Sample
           /\ \A r, q \in new : r.id = q.id /\ r.t = q.t => r = q
           /\ \A r \in new :
                 \/ r \in db /\ r.id # src
                 \/ r.id = dst /\ \E q \in db : q.id = src /\ q.t = r.t /\ q.box = r.box
<1> DEFINE Copied == { r \in db : /\ r.id = src
                                 /\ \A q \in db : ~(q.id = dst /\ q.t = r.t) }
<1>1. new = { r \in db : r.id # src } \cup { [r EXCEPT !.id = dst] : r \in Copied }
  BY DEF Renamed
<1>2. db \subseteq Sample
  BY DEF TableInv
<1>3. ASSUME NEW x \in new
      PROVE  \/ x \in db /\ x.id # src
             \/ \E q \in Copied : x = [id |-> dst, t |-> q.t, box |-> q.box]
  <2>1. CASE x \in db /\ x.id # src
    BY <2>1
  <2>2. CASE x \in { [r EXCEPT !.id = dst] : r \in Copied }
    <3>1. PICK q \in Copied : x = [q EXCEPT !.id = dst]
      BY <2>2
    <3>2. q \in Sample
      BY <1>2
    <3> QED BY <3>1, <3>2, SampleFields
  <2> QED BY <1>1, <2>1, <2>2
<1>4. new \subseteq Sample
  <2> SUFFICES ASSUME NEW x \in new PROVE x \in Sample
    OBVIOUS
  <2>1. CASE x \in db
    BY <1>2, <2>1
  <2>2. ASSUME NEW q \in Copied, x = [id |-> dst, t |-> q.t, box |-> q.box]
        PROVE  x \in Sample
    <3>1. q.t \in Nat /\ q.box \in Optional(Boxes)
      BY <1>2, SampleFields
    <3> QED BY <2>2, <3>1 DEF Sample
  <2> QED BY <1>3, <2>1, <2>2
<1>5. ASSUME NEW r \in new, NEW q \in new, r.id = q.id, r.t = q.t PROVE r = q
  <2>1. ASSUME NEW x \in db, NEW y \in Copied, x.id = dst, x.t = y.t PROVE FALSE
    BY <2>1
  <2>2. ASSUME NEW x \in Copied, NEW y \in Copied, x.t = y.t PROVE x = y
    BY <2>2 DEF TableInv
  <2>3. CASE r \in db /\ q \in db
    BY <1>5, <2>3 DEF TableInv
  <2>4. CASE ~(r \in db /\ r.id # src)
    <3>1. PICK x \in Copied : r = [id |-> dst, t |-> x.t, box |-> x.box]
      BY <1>3, <2>4
    <3>2. CASE q \in db /\ q.id # src
      BY <1>5, <2>1, <3>1, <3>2
    <3>3. CASE ~(q \in db /\ q.id # src)
      <4>1. PICK y \in Copied : q = [id |-> dst, t |-> y.t, box |-> y.box]
        BY <1>3, <3>3
      <4> QED BY <1>5, <2>2, <3>1, <4>1
    <3> QED BY <3>2, <3>3
  <2>5. CASE r \in db /\ ~(q \in db /\ q.id # src)
    <3>1. PICK y \in Copied : q = [id |-> dst, t |-> y.t, box |-> y.box]
      BY <1>3, <2>5
    <3> QED BY <1>5, <2>1, <2>5, <3>1
  <2> QED BY <2>3, <2>4, <2>5
<1>6. ASSUME NEW r \in new
      PROVE  \/ r \in db /\ r.id # src
             \/ r.id = dst /\ \E q \in db : q.id = src /\ q.t = r.t /\ q.box = r.box
  BY <1>3
<1> QED BY <1>4, <1>5, <1>6

LEMMA InsertedTable ==
    ASSUME TableInv, NEW id \in ID, NEW p, p.t \in Nat, p.box \in Optional(Boxes),
           NEW new, new = Inserted(db, id, p)
    PROVE  /\ new \subseteq Sample
           /\ \A r, q \in new : r.id = q.id /\ r.t = q.t => r = q
           /\ \A r \in new : r \in db \/ r = [id |-> id, t |-> p.t, box |-> p.box]
<1> DEFINE s == [id |-> id, t |-> p.t, box |-> p.box]
<1>1. s \in Sample
  BY DEF Sample
<1>2. new = { r \in db : ~(r.id = id /\ r.t = p.t) } \cup {s}
  BY DEF Inserted
<1> QED BY <1>1, <1>2 DEF TableInv

(* What becomes of the first rename, done or failed. *)
LEMMA NextRename ==
    ASSUME NEW d \in Reports, WorkOf(d), work.renames # << >>
    PROVE  /\ Head(work.renames) \in ID
           /\ Head(work.renames) # work.id
           /\ Tail(work.renames) \in Seq(ID)
           /\ ToSet(Tail(work.renames)) \subseteq ToSet(work.renames)
           /\ \A x \in ToSet(work.renames) :
                 x = Head(work.renames) \/ x \in ToSet(Tail(work.renames))
<1> DEFINE s == work.renames
<1>1. s \in Seq(ID) /\ s # << >>
  BY DEF WorkOf, Work
<1> HIDE DEF s
<1>2. /\ Head(s) = s[1] /\ Head(s) \in ID /\ Tail(s) \in Seq(ID) /\ 1 \in 1..Len(s)
      /\ Len(Tail(s)) = Len(s) - 1 /\ \A i \in 1..Len(Tail(s)) : Tail(s)[i] = s[i + 1]
  BY <1>1, HeadTailProperties
<1>3. DOMAIN s = 1..Len(s) /\ DOMAIN Tail(s) = 1..Len(Tail(s)) /\ Len(s) \in Nat
  BY <1>1, <1>2
<1>4. Head(s) \in ToSet(s)
  BY <1>2, <1>3 DEF ToSet
<1>5. ASSUME NEW x \in ToSet(Tail(s)) PROVE x \in ToSet(s)
  <2>1. PICK i \in 1..Len(Tail(s)) : x = Tail(s)[i]
    BY <1>3, <1>5 DEF ToSet
  <2>2. x = s[i + 1] /\ i + 1 \in 1..Len(s)
    BY <1>2, <1>3, <2>1
  <2> QED BY <1>3, <2>2 DEF ToSet
<1>6. ASSUME NEW x \in ToSet(s) PROVE x = Head(s) \/ x \in ToSet(Tail(s))
  <2>1. PICK i \in 1..Len(s) : x = s[i]
    BY <1>3, <1>6 DEF ToSet
  <2>2. CASE i = 1
    BY <1>2, <2>1, <2>2
  <2>3. CASE i # 1
    <3>1. i - 1 \in 1..Len(Tail(s)) /\ Tail(s)[i - 1] = s[i]
      BY <1>2, <1>3, <2>3
    <3> QED BY <1>3, <2>1, <3>1 DEF ToSet
  <2> QED BY <2>2, <2>3
<1>7. work.id \notin ToSet(s)
  BY DEF WorkOf, s
<1> QED BY <1>2, <1>4, <1>5, <1>6, <1>7 DEF s

LEMMA StartedWork ==
    ASSUME UseSQLite, FleetInv, SqlInv,
           NEW d \in Reports, NEW found \in Found(d), NEW order \in RekeyOrders(d, found),
           NEW at \in PollTimes, UpsertStart(d, found, order, at)
    PROVE  /\ history' = NoHistory
           /\ ToSet(work'.renames) = Moved(d, found)
           /\ WorkOf(d)'
<1> DEFINE p == [t |-> at, box |-> d.box]
<1>1. d \in Report /\ now \in Nat /\ DOMAIN miners \subseteq ID
  BY FleetAssumption DEF FleetInv, FleetTypeOK
<1>2. order \in Seq(ID) /\ ToSet(order) = Moved(d, found)
  BY <1>1, OrderIsOfMoved DEF SqlInv
<1>3. work' = [id |-> StableID(d), renames |-> order, point |-> p, missed |-> FALSE]
  BY DEF UpsertStart
<1>4. p \in Point /\ at \in 1..now /\ now' = now
  BY <1>1 DEF Point, PollTimes, Report, UpsertStart, UpsertLive
<1>5. work' \in Work
  <2>1. StableID(d) \in ID
    BY <1>1, ReportFields, StableIDType
  <2> HIDE DEF p
  <2> QED BY <1>2, <1>3, <1>4, <2>1 DEF Work
<1>6. StableID(d) \notin Moved(d, found)
  BY DEF Moved
<1>7. Aliases(d) \subseteq Moved(d, found)
  BY DEF Aliases, Moved, NoID
<1>8. StableID(d) \in DOMAIN miners' /\ Aliases(miners'[StableID(d)]) = Aliases(d)
  <2> DEFINE r == RowOf(ApplyStableID(d), FALSE, now)
  <2>1. miners' = Replace(Folded(d, found, Aliases(d) \cap DOMAIN history), StableID(d), r)
    BY DEF UpsertStart, UpsertLive
  <2>2. StableID(d) \in DOMAIN miners' /\ miners'[StableID(d)] = r
    BY <2>1 DEF Replace
  <2>3. /\ r.ip = d.ip /\ r.host = d.host /\ r.serial = d.serial
        /\ NormalizeMAC(r.mac) = NormalizeMAC(d.mac)
        /\ StableID(r) = StableID(d)
    BY <1>1, RowOfReport
  <2> HIDE DEF r
  <2>4. Aliases(r) = Aliases(d)
    BY <2>3 DEF Aliases, AliasList
  <2> QED BY <2>2, <2>4
<1>9. history' = NoHistory
  <2>1. DOMAIN history = {}
    BY DEF SqlInv, NoHistory
  <2>2. MoveAll(order, StableID(d)) = history
    BY <2>1 DEF MoveAll
  <2> QED BY <2>2 DEF UpsertStart, SqlInv
<1>10. db' = db
  BY DEF UpsertStart
<1> HIDE DEF p
<1>11. /\ work'.id = StableID(d) /\ work'.renames = order /\ work'.point = p
       /\ ~work'.missed
  BY <1>3
<1>12. p.t = at /\ p.box = d.box
  BY DEF p
<1>13. WorkOf(d)'
  BY <1>2, <1>4, <1>5, <1>6, <1>7, <1>8, <1>10, <1>11, <1>12 DEF WorkOf
<1> QED BY <1>2, <1>9, <1>11, <1>13

(* One rename, done or failed, of the work of a report.                    *)
LEMMA RenameKeepsWork ==
    ASSUME TableInv, NEW d \in Reports, WorkOf(d), RenameMetrics \/ RenameFails
    PROVE  WorkOf(d)'
<1> DEFINE src == Head(work.renames)
<1>0. work.renames # << >>
  BY DEF RenameMetrics, RenameFails
<1>1. /\ src \in ID /\ src # work.id /\ Tail(work.renames) \in Seq(ID)
      /\ ToSet(Tail(work.renames)) \subseteq ToSet(work.renames)
      /\ \A x \in ToSet(work.renames) : x = src \/ x \in ToSet(Tail(work.renames))
  BY <1>0, NextRename
<1>2. work \in Work /\ work.id \in ID
  BY DEF WorkOf, Work
<1>3. /\ work' \in Work /\ work'.id = work.id /\ work'.renames = Tail(work.renames)
      /\ work'.point = work.point
      /\ work'.missed = (work.missed \/ RenameFails)
  <2>1. CASE RenameMetrics /\ ~RenameFails
    BY <1>1, <1>2, <2>1 DEF RenameMetrics, Work
  <2>2. CASE RenameFails
    BY <1>1, <1>2, <2>2 DEF RenameFails, Work
  <2> QED BY <2>1, <2>2
<1>4. miners' = miners /\ now' = now
  BY DEF RenameMetrics, RenameFails
<1>5. ASSUME ~work'.missed, NEW r \in db', r.id \in Aliases(d)
      PROVE  r.id \in ToSet(work'.renames)
  <2>1. ~work.missed /\ RenameMetrics
    BY <1>3, <1>5
  <2>2. db' = Renamed(db, src, work.id)
    BY <2>1 DEF RenameMetrics
  <2>3. work.id \notin Aliases(d)
    BY DEF WorkOf, Aliases
  <2>4. r \in db /\ r.id # src
    BY <1>2, <1>5, <2>2, <2>3, RenamedTable
  <2>5. r.id \in ToSet(work.renames)
    BY <1>5, <2>1, <2>4 DEF WorkOf
  <2> QED BY <1>1, <1>3, <2>4, <2>5
<1> HIDE DEF src
<1> QED BY <1>1, <1>3, <1>4, <1>5 DEF WorkOf

LEMMA SqlInvInit == StoreInit => SqlInv
<1> SUFFICES ASSUME StoreInit PROVE SqlInv
  OBVIOUS
<1>1. IsFiniteSet(DOMAIN miners)
  BY FleetIsFinite DEF StoreInit
<1>2. faults \in 0..MaxFaults
  BY StoreAssumption DEF StoreInit
<1> QED BY <1>1, <1>2 DEF StoreInit, SqlInv, TableInv

LEMMA SqlInvStep ==
    ASSUME UseSQLite
    PROVE  FleetInv /\ SqlInv /\ [StoreNext]_storeVars => SqlInv'
<1> SUFFICES ASSUME FleetInv, SqlInv, [StoreNext]_storeVars PROVE SqlInv'
  OBVIOUS
<1>0. IsFiniteSet(DOMAIN miners')
  BY StoreStep, FleetIsFinite DEF SqlInv
<1>1. ASSUME NEW d \in Reports, NEW found \in Found(d),
             NEW order \in RekeyOrders(d, found), NEW at \in PollTimes,
             UpsertStart(d, found, order, at)
      PROVE  SqlInv'
  <2>1. history' = NoHistory /\ WorkOf(d)'
    BY <1>1, StartedWork
  <2>2. db' = db /\ faults' = faults
    BY <1>1 DEF UpsertStart
  <2> QED BY <1>0, <2>1, <2>2 DEF SqlInv, TableInv
<1>2. ASSUME NEW ip \in IPs, NEW found \in Found(Failed(ip)), UpsertError(ip, found)
      PROVE  SqlInv'
  BY <1>0, <1>2 DEF UpsertError, SqlInv, TableInv
<1>3. CASE RenameMetrics \/ RenameFails
  <2>0. work.renames # << >> /\ history' = history
    BY <1>3 DEF RenameMetrics, RenameFails
  <2>1. PICK d \in Reports : WorkOf(d)
    BY <2>0 DEF SqlInv, Idle
  <2>2. WorkOf(d)'
    BY <1>3, <2>1, RenameKeepsWork DEF SqlInv
  <2>3. TableInv' /\ faults' \in 0..MaxFaults
    <3>1. CASE RenameMetrics
      <4>1. work.id \in ID
        BY <2>1 DEF WorkOf, Work
      <4>2. db' = Renamed(db, Head(work.renames), work.id) /\ faults' = faults
        BY <3>1 DEF RenameMetrics
      <4>3. /\ db' \subseteq Sample
            /\ \A r, q \in db' : r.id = q.id /\ r.t = q.t => r = q
        BY <4>1, <4>2, RenamedTable DEF SqlInv
      <4> QED BY <4>2, <4>3 DEF TableInv, SqlInv
    <3>2. CASE RenameFails
      BY <3>2, StoreAssumption DEF RenameFails, SqlInv, TableInv
    <3> QED BY <1>3, <3>1, <3>2
  <2> QED BY <1>0, <2>0, <2>2, <2>3 DEF SqlInv
<1>4. CASE InsertSamples
  <2>1. PICK d \in Reports : WorkOf(d)
    BY <1>4 DEF InsertSamples, SqlInv
  <2>2. work.id \in ID /\ work.point.t \in Nat /\ work.point.box \in Optional(Boxes)
    BY <2>1 DEF WorkOf, Work, Point
  <2>3. db' = Inserted(db, work.id, work.point)
    BY <1>4 DEF InsertSamples
  <2>4. TableInv'
    <3>1. /\ db' \subseteq Sample
          /\ \A r, q \in db' : r.id = q.id /\ r.t = q.t => r = q
      BY <2>2, <2>3, InsertedTable DEF SqlInv
    <3> QED BY <3>1 DEF TableInv
  <2> QED BY <1>0, <1>4, <2>4 DEF InsertSamples, SqlInv
<1>5. CASE InsertFails
  BY <1>0, <1>5, StoreAssumption DEF InsertFails, SqlInv, TableInv
<1>6. CASE MarkPoll
  BY <1>0, <1>6 DEF MarkPoll, SqlInv, TableInv
<1>7. CASE MarkPollFails
  BY <1>0, <1>7, StoreAssumption DEF MarkPollFails, SqlInv, TableInv
<1>8. CASE PruneFleet
  BY <1>0, <1>8 DEF PruneFleet, SqlInv, TableInv
<1>9. CASE RestartStore
  BY <1>0, <1>9 DEF RestartStore, SqlInv, TableInv
<1>10. CASE AdvanceStore
  <2>1. /\ miners' = miners /\ now' = now + 1 /\ now \in Nat
        /\ history' = history /\ db' = db /\ work' = work /\ faults' = faults
    BY <1>10, FleetAssumption DEF AdvanceStore, Advance, FleetInv, FleetTypeOK
  <2>2. ASSUME NEW d \in Reports, WorkOf(d) PROVE WorkOf(d)'
    <3>1. work.point.t \in 1..now'
      BY <2>1, <2>2 DEF WorkOf
    <3> QED BY <2>1, <2>2, <3>1 DEF WorkOf
  <2>3. work' = Idle \/ \E d \in Reports : WorkOf(d)'
    BY <2>1, <2>2 DEF SqlInv
  <2> QED BY <1>0, <2>1, <2>3 DEF SqlInv, TableInv
<1>11. CASE UNCHANGED storeVars
  <2>1. ASSUME NEW d \in Reports, WorkOf(d) PROVE WorkOf(d)'
    BY <1>11, <2>1 DEF storeVars, WorkOf
  <2>2. work' = Idle \/ \E d \in Reports : WorkOf(d)'
    BY <1>11, <2>1 DEF storeVars, SqlInv
  <2> QED BY <1>0, <1>11, <2>2 DEF storeVars, SqlInv, TableInv
<1> QED BY <1>1, <1>2, <1>3, <1>4, <1>5, <1>6, <1>7, <1>8, <1>9, <1>10, <1>11 DEF StoreNext

LEMMA SqlInvAlways ==
    ASSUME UseSQLite
    PROVE  StoreSpec => []SqlInv
<1>1. StoreSpec => []FleetInv
  BY StoreOrigin, PTL DEF OriginInv
<1> QED BY <1>1, SqlInvInit, SqlInvStep, PTL DEF StoreSpec

(* One row per id and time in the table (its primary key), and well formed *)
(* renames in progress, at any point of an upsert (sqlite.go, store.go).   *)
LEMMA TableIsKeyed == UseSQLite => (StoreSpec => []StoreTypeOK)
<1> SUFFICES ASSUME UseSQLite PROVE StoreSpec => []StoreTypeOK
  OBVIOUS
<1>1. SqlInv => StoreTypeOK
  <2> SUFFICES ASSUME SqlInv PROVE StoreTypeOK
    OBVIOUS
  <2>1. DOMAIN history = {}
    BY DEF SqlInv, NoHistory
  <2>2. work \in Work
    <3>1. NoID \in ID /\ << >> \in Seq(ID) /\ [t |-> 0, box |-> None] \in Point
      BY DEF NoID, ID, Optional, Point
    <3>2. Idle \in Work
      BY <3>1 DEF Idle, Work
    <3> QED BY <3>2 DEF SqlInv, WorkOf
  <2> QED BY <2>1, <2>2 DEF SqlInv, TableInv, StoreTypeOK
<1> QED BY <1>1, SqlInvAlways, PTL

(* When an upsert has gone through its renames and none of them failed, no *)
(* sample is left under another id of its miner, also when that id is not  *)
(* in the fleet any more (Store.Upsert, store.go:198).                     *)
THEOREM UpsertHeals == UseSQLite => (StoreSpec => []HealedByUpsert)
<1> SUFFICES ASSUME UseSQLite PROVE StoreSpec => []HealedByUpsert
  OBVIOUS
<1>1. SqlInv => HealedByUpsert
  <2> SUFFICES ASSUME SqlInv, work # Idle, work.renames = << >>, ~work.missed,
                      NEW r \in db
               PROVE  r.id \notin Aliases(miners[work.id])
    BY DEF HealedByUpsert
  <2>1. PICK d \in Reports : WorkOf(d)
    BY DEF SqlInv
  <2>2. ToSet(work.renames) = {}
    BY DEF ToSet
  <2> QED BY <2>1, <2>2 DEF WorkOf
<1> QED BY <1>1, SqlInvAlways, PTL

-----------------------------------------------------------------------------
(* An id that an upsert moves shares a part of an identity with a report   *)
(* that shares one with what was polled.  Where names, serials and         *)
(* addresses belong to one device each, it is an id of that device.        *)

LEMMA MovedIsShared ==
    ASSUME OriginInv,
           NEW d \in Reports, NEW found \in Found(d), NEW e \in Reports,
           StableID(e) \in Moved(d, found)
    PROVE  \E c \in Reports : Shares(d, c) /\ Shares(c, e)
<1> DEFINE id == StableID(e)
<1>1. ASSUME Shares(d, e) PROVE \E c \in Reports : Shares(d, c) /\ Shares(c, e)
  BY <1>1 DEF Shares
<1>2. CASE id \in Aliases(d)
  <2>1. PICK i \in 1..5 : id = AliasList(d)[i] /\ id[2] # None
    BY <1>2 DEF Aliases
  <2>2. i = 1 \/ i = 2 \/ i = 3 \/ i = 4 \/ i = 5
    OBVIOUS
  <2>3. CASE i = 1
    <3>1. StableID(e) = <<"ip", d.ip>> /\ d.ip # None
      BY <2>1, <2>3 DEF AliasList
    <3> QED BY <1>1, <3>1, KeyedByAddress DEF Shares
  <2>4. CASE i = 2
    <3>1. StableID(e) = <<"host", DistinctiveHostname(d.host)>>
      BY <2>1, <2>4 DEF AliasList
    <3> QED BY <1>1, <3>1, KeyTags DEF Shares
  <2>5. CASE i = 3
    <3>1. StableID(e) = <<"name", DistinctiveHostname(d.host)>>
      BY <2>1, <2>5 DEF AliasList
    <3> QED BY <3>1, KeyTags
  <2>6. CASE i = 4
    <3>1. StableID(e) = <<"mac", NormalizeMAC(d.mac)>>
      BY <2>1, <2>6 DEF AliasList
    <3> QED BY <1>1, <3>1, KeyTags DEF Shares
  <2>7. CASE i = 5
    <3>1. StableID(e) = <<"sn", SerialKey(d.serial)>> /\ SerialKey(d.serial) # None
      BY <2>1, <2>7 DEF AliasList
    <3>2. d.serial # None
      BY <3>1 DEF SerialKey
    <3> QED BY <1>1, <3>1, <3>2, KeyTags DEF Shares
  <2> QED BY <2>2, <2>3, <2>4, <2>5, <2>6, <2>7
<1>3. CASE id \in found \cup SameAddress(d)
  <2> DEFINE r == miners[id]
  <2>1. id \in DOMAIN miners
    BY <1>3, FoundInMap DEF SameAddress
  <2>2. StableID(r) = id /\ FromReport(r)
    BY <2>1 DEF OriginInv, RowsReported, FleetInv, KeyedByIdentity
  <2>3. \/ id \in ExactMatch(d) \/ id \in HostMatch(d) \/ id \in MacMatch(d)
        \/ id \in SerialMatch(d) \/ id \in IPMatch(d)
    <3>1. CASE id \in found
      <4>1. PICK k \in DOMAIN miners, i \in 1..5 : found = {k} /\ k \in Tiers(d)[i]
        BY <3>1, FoundTier
      <4>2. i = 1 \/ i = 2 \/ i = 3 \/ i = 4 \/ i = 5
        OBVIOUS
      <4> QED BY <3>1, <4>1, <4>2 DEF Tiers
    <3>2. CASE id \in SameAddress(d)
      BY <3>2 DEF SameAddress, IPMatch
    <3> QED BY <1>3, <3>1, <3>2
  <2>4. CASE \E c \in Reports :
               /\ r.ip = c.ip /\ r.host = c.host /\ r.serial = c.serial
               /\ NormalizeMAC(r.mac) = NormalizeMAC(c.mac)
               /\ r.box = c.box
    <3>1. PICK c \in Reports :
               /\ r.ip = c.ip /\ r.host = c.host /\ r.serial = c.serial
               /\ NormalizeMAC(r.mac) = NormalizeMAC(c.mac)
               /\ r.box = c.box
      BY <2>4
    <3>2. StableID(c) = id
      BY <2>2, <3>1 DEF StableID
    <3>3. Shares(c, e)
      BY <3>2 DEF Shares
    <3>4. Shares(d, c)
      <4>1. CASE id \in ExactMatch(d)
        BY <3>2, <4>1 DEF ExactMatch, Shares
      <4>2. CASE id \in HostMatch(d)
        BY <3>1, <4>2 DEF HostMatch, Shares
      <4>3. CASE id \in MacMatch(d)
        BY <3>1, <4>3 DEF MacMatch, Shares
      <4>4. CASE id \in SerialMatch(d)
        BY <3>1, <4>4 DEF SerialMatch, Shares
      <4>5. CASE id \in IPMatch(d)
        BY <3>1, <4>5 DEF IPMatch, Shares
      <4> QED BY <2>3, <4>1, <4>2, <4>3, <4>4, <4>5
    <3> QED BY <3>3, <3>4
  <2>5. CASE r.host = None /\ r.mac = None /\ r.serial = None
    <3>1. id = <<"ip", r.ip>>
      BY <2>2, <2>5 DEF StableID, DistinctiveHostname, NormalizeMAC
    <3>2. id \notin HostMatch(d) /\ id \notin MacMatch(d) /\ id \notin SerialMatch(d)
      <4>1. DistinctiveHostname(r.host) = None /\ NormalizeMAC(r.mac) = None
        BY <2>5 DEF DistinctiveHostname, NormalizeMAC
      <4>2. SerialKey(r.serial) = None /\ (d.serial # None => SerialKey(d.serial) # None)
        BY <2>5, FleetAssumption, ReportFields, IdentityAssumption DEF SerialKey, Optional
      <4> QED BY <4>1, <4>2 DEF HostMatch, MacMatch, SerialMatch
    <3>3. CASE id \in ExactMatch(d)
      BY <1>1, <3>3 DEF ExactMatch, Shares
    <3>4. CASE id \in IPMatch(d)
      <4>1. r.ip = d.ip /\ d.ip # None
        BY <3>4 DEF IPMatch
      <4>2. e.ip = d.ip
        BY <3>1, <4>1, KeyedByAddress
      <4> QED BY <1>1, <4>1, <4>2 DEF Shares
    <3> QED BY <2>3, <3>2, <3>3, <3>4
  <2> QED BY <2>2, <2>4, <2>5 DEF FromReport
<1> QED BY <1>2, <1>3 DEF Moved

LEMMA MovedIsOwn ==
    ASSUME OwnIdentity, OriginInv,
           NEW d \in Reports, NEW found \in Found(d), NEW e \in Reports,
           StableID(e) \in Moved(d, found)
    PROVE  e.box = d.box
BY MovedIsShared DEF OwnIdentity

(* A sample is of the device that has its id; so is one that is to be      *)
(* renamed, or inserted.                                                   *)
OwnSamples == \A r \in db : \E e \in Reports : StableID(e) = r.id /\ e.box = r.box

OwnRenames ==
    work # Idle =>
        \E d \in Reports :
            /\ WorkOf(d)
            /\ \A e \in Reports : StableID(e) \in ToSet(work.renames) => e.box = d.box

OwnInv == OriginInv /\ SqlInv /\ OwnSamples /\ OwnRenames

LEMMA OwnRename ==
    ASSUME OwnIdentity, SqlInv, OwnSamples, OwnRenames, RenameMetrics
    PROVE  /\ OwnSamples'
           /\ { <<r.box, r.t>> : r \in db' } = { <<r.box, r.t>> : r \in db }
<1> DEFINE src == Head(work.renames)
<1>1. work.renames # << >> /\ work # Idle /\ db' = Renamed(db, src, work.id)
  BY DEF RenameMetrics, Idle
<1>2. PICK d \in Reports :
        /\ WorkOf(d)
        /\ \A e \in Reports : StableID(e) \in ToSet(work.renames) => e.box = d.box
  BY <1>1 DEF OwnRenames
<1>3. work.id \in ID /\ work.id = StableID(d)
  BY <1>2 DEF WorkOf, Work
<1>4. src \in ToSet(work.renames)
  <2>1. work.renames \in Seq(ID)
    BY <1>2 DEF WorkOf, Work
  <2>2. src = work.renames[1] /\ 1 \in DOMAIN work.renames
    BY <1>1, <2>1, HeadTailProperties
  <2> QED BY <2>2 DEF ToSet
<1>5. ASSUME NEW q \in db, q.id = src PROVE q.box = d.box
  BY <1>2, <1>4, <1>5 DEF OwnSamples
<1>6. ASSUME NEW q \in db, q.id = work.id PROVE q.box = d.box
  BY <1>3, <1>6 DEF OwnSamples, OwnIdentity, Shares
<1>7. OwnSamples'
  <2> SUFFICES ASSUME NEW r \in db'
               PROVE  \E e \in Reports : StableID(e) = r.id /\ e.box = r.box
    BY DEF OwnSamples
  <2>1. CASE r \in db
    BY <2>1 DEF OwnSamples
  <2>2. CASE r.id = work.id /\ \E q \in db : q.id = src /\ q.t = r.t /\ q.box = r.box
    BY <1>3, <1>5, <2>2
  <2> QED BY <1>1, <1>3, <2>1, <2>2, RenamedTable DEF SqlInv
<1>8. ASSUME NEW r \in db' PROVE \E q \in db : q.t = r.t /\ q.box = r.box
  BY <1>1, <1>3, RenamedTable DEF SqlInv
<1>9. ASSUME NEW q \in db PROVE \E r \in db' : q.t = r.t /\ q.box = r.box
  <2>1. CASE q.id # src
    BY <1>1, <2>1 DEF Renamed
  <2>2. CASE q.id = src /\ \E p \in db : p.id = work.id /\ p.t = q.t
    <3>1. PICK p \in db : p.id = work.id /\ p.t = q.t
      BY <2>2
    <3>2. p.box = q.box
      BY <1>5, <1>6, <2>2, <3>1
    <3>3. work.id # src
      BY <1>1, <1>2, NextRename
    <3>4. p \in db'
      BY <1>1, <3>1, <3>3 DEF Renamed
    <3> QED BY <3>1, <3>2, <3>4
  <2>3. CASE q.id = src /\ ~\E p \in db : p.id = work.id /\ p.t = q.t
    <3>1. [q EXCEPT !.id = work.id] \in db'
      BY <1>1, <2>3 DEF Renamed
    <3>2. q \in Sample
      BY DEF SqlInv, TableInv
    <3>3. [q EXCEPT !.id = work.id] = [id |-> work.id, t |-> q.t, box |-> q.box]
      BY <3>2, SampleFields
    <3> QED BY <3>1, <3>3
  <2> QED BY <2>1, <2>2, <2>3
<1> QED BY <1>7, <1>8, <1>9

LEMMA OwnInsert ==
    ASSUME OwnIdentity, SqlInv, OwnSamples, OwnRenames, InsertSamples
    PROVE  /\ OwnSamples'
           /\ work.point.t \in 1..now /\ work.point.box \in Optional(Boxes)
           /\ { <<r.box, r.t>> : r \in db' }
                = { <<r.box, r.t>> : r \in db } \cup {<<work.point.box, work.point.t>>}
<1> DEFINE s == [id |-> work.id, t |-> work.point.t, box |-> work.point.box]
<1>1. work # Idle /\ db' = Inserted(db, work.id, work.point)
  BY DEF InsertSamples
<1>2. PICK d \in Reports : WorkOf(d)
  BY <1>1 DEF OwnRenames
<1>3. /\ work.id = StableID(d) /\ work.point.box = d.box /\ work.point.t \in 1..now
      /\ work.point.box \in Optional(Boxes)
  BY <1>2 DEF WorkOf, Work, Point
<1>4. ASSUME NEW q \in db, q.id = work.id PROVE q.box = work.point.box
  BY <1>3, <1>4 DEF OwnSamples, OwnIdentity, Shares
<1>5. db' = { r \in db : ~(r.id = work.id /\ r.t = work.point.t) } \cup {s}
  BY <1>1 DEF Inserted
<1>6. OwnSamples'
  BY <1>3, <1>5 DEF OwnSamples
<1>7. ASSUME NEW r \in db'
      PROVE  \/ r.box = work.point.box /\ r.t = work.point.t
             \/ \E q \in db : q.t = r.t /\ q.box = r.box
  BY <1>5
<1>8. ASSUME NEW q \in db PROVE \E r \in db' : q.t = r.t /\ q.box = r.box
  <2>1. CASE q.id = work.id /\ q.t = work.point.t
    <3>1. s \in db' /\ s.t = q.t /\ s.box = q.box
      BY <1>4, <1>5, <2>1
    <3> QED BY <3>1
  <2>2. CASE ~(q.id = work.id /\ q.t = work.point.t)
    BY <1>5, <2>2
  <2> QED BY <2>1, <2>2
<1>9. s \in db' /\ s.box = work.point.box /\ s.t = work.point.t
  BY <1>5
<1> QED BY <1>3, <1>6, <1>7, <1>8, <1>9

LEMMA OwnInvInit == StoreInit => OwnInv
BY OriginInvInit, SqlInvInit DEF StoreInit, OwnInv, OwnSamples, OwnRenames

LEMMA OwnInvStep ==
    ASSUME UseSQLite, OwnIdentity
    PROVE  OwnInv /\ [StoreNext]_storeVars => OwnInv'
<1> SUFFICES ASSUME OwnInv, [StoreNext]_storeVars PROVE OwnInv'
  OBVIOUS
<1>0. OriginInv' /\ SqlInv'
  BY StoreStep, OriginInvStep, SqlInvStep DEF OwnInv, OriginInv
<1>1. ASSUME db' \subseteq db PROVE OwnSamples'
  BY <1>1 DEF OwnInv, OwnSamples
<1>2. ASSUME work' = Idle PROVE OwnRenames'
  BY <1>2 DEF OwnRenames
<1>3. ASSUME NEW d \in Reports, NEW found \in Found(d),
             NEW order \in RekeyOrders(d, found), NEW at \in PollTimes,
             UpsertStart(d, found, order, at)
      PROVE  OwnInv'
  <2>1. WorkOf(d)' /\ ToSet(work'.renames) = Moved(d, found)
    BY <1>3, StartedWork DEF OwnInv, OriginInv
  <2>2. db' = db
    BY <1>3 DEF UpsertStart
  <2>3. OwnRenames'
    BY <2>1, MovedIsOwn DEF OwnRenames, OwnInv
  <2> QED BY <1>0, <1>1, <2>2, <2>3 DEF OwnInv
<1>4. CASE RenameMetrics \/ RenameFails
  <2>1. work.renames # << >> /\ work # Idle
    BY <1>4 DEF RenameMetrics, RenameFails, Idle
  <2>2. PICK d \in Reports :
          /\ WorkOf(d)
          /\ \A e \in Reports : StableID(e) \in ToSet(work.renames) => e.box = d.box
    BY <2>1 DEF OwnInv, OwnRenames
  <2>3. WorkOf(d)'
    BY <1>4, <2>2, RenameKeepsWork DEF OwnInv, SqlInv
  <2>4. ToSet(work'.renames) \subseteq ToSet(work.renames)
    <3>1. work'.renames = Tail(work.renames)
      BY <1>4, <2>2 DEF RenameMetrics, RenameFails, WorkOf, Work
    <3> QED BY <2>1, <2>2, <3>1, NextRename
  <2>5. OwnRenames'
    BY <2>2, <2>3, <2>4 DEF OwnRenames
  <2>6. OwnSamples'
    <3>1. CASE RenameMetrics
      BY <3>1, OwnRename DEF OwnInv
    <3>2. CASE RenameFails
      BY <1>1, <3>2 DEF RenameFails
    <3> QED BY <1>4, <3>1, <3>2
  <2> QED BY <1>0, <2>5, <2>6 DEF OwnInv
<1>5. CASE InsertSamples
  <2>1. OwnSamples'
    BY <1>5, OwnInsert DEF OwnInv
  <2> QED BY <1>0, <1>2, <1>5, <2>1 DEF InsertSamples, OwnInv
<1>6. CASE InsertFails \/ RestartStore
  <2>1. work' = Idle /\ db' \subseteq db
    BY <1>6 DEF InsertFails, RestartStore
  <2> QED BY <1>0, <1>1, <1>2, <2>1 DEF OwnInv
<1>7. CASE \/ MarkPoll \/ MarkPollFails \/ PruneFleet
           \/ \E ip \in IPs : \E found \in Found(Failed(ip)) : UpsertError(ip, found)
  <2>1. work' = Idle /\ db' \subseteq db
    BY <1>7 DEF MarkPoll, MarkPollFails, PruneFleet, UpsertError
  <2> QED BY <1>0, <1>1, <1>2, <2>1 DEF OwnInv
<1>8. CASE AdvanceStore \/ UNCHANGED storeVars
  <2>1. work' = work /\ db' = db /\ miners' = miners
    BY <1>8 DEF AdvanceStore, Advance, storeVars
  <2>2. now \in Nat /\ (now' = now \/ now' = now + 1)
    BY <1>8, FleetAssumption
    DEF AdvanceStore, Advance, storeVars, OwnInv, OriginInv, FleetInv, FleetTypeOK
  <2>3. ASSUME NEW d \in Reports, WorkOf(d) PROVE WorkOf(d)'
    <3>1. work.point.t \in 1..now'
      BY <2>2, <2>3 DEF WorkOf
    <3> QED BY <2>1, <2>3, <3>1 DEF WorkOf
  <2>4. OwnRenames'
    BY <2>1, <2>3 DEF OwnInv, OwnRenames
  <2> QED BY <1>0, <1>1, <2>1, <2>4 DEF OwnInv
<1> QED BY <1>3, <1>4, <1>5, <1>6, <1>7, <1>8 DEF StoreNext

LEMMA OwnInvAlways ==
    ASSUME UseSQLite, OwnIdentity
    PROVE  StoreSpec => []OwnInv
BY OwnInvInit, OwnInvStep, PTL DEF StoreSpec

(* A sample under the id of a device is a sample of that device.           *)
LEMMA TableKeepsDevices ==
    UseSQLite /\ OwnIdentity => (StoreSpec => []Attribution)
<1> SUFFICES ASSUME UseSQLite, OwnIdentity PROVE StoreSpec => []Attribution
  OBVIOUS
<1>1. OwnInv => Attribution
  <2> SUFFICES ASSUME OwnInv, NEW d \in Reports
               PROVE  /\ \A r \in db : r.id = StableID(d) => r.box = d.box
                      /\ StableID(d) \notin DOMAIN history
    BY DEF Attribution
  <2>1. ASSUME NEW r \in db, r.id = StableID(d) PROVE r.box = d.box
    <3>1. PICK e \in Reports : StableID(e) = r.id /\ e.box = r.box
      BY DEF OwnInv, OwnSamples
    <3> QED BY <2>1, <3>1 DEF OwnIdentity, Shares
  <2>2. DOMAIN history = {}
    BY DEF OwnInv, SqlInv, NoHistory
  <2> QED BY <2>1, <2>2
<1> QED BY <1>1, OwnInvAlways, PTL

(* Refinement: the table, told by device, only gains samples until they    *)
(* expire: a rename moves them, a merge drops only a duplicate, and a      *)
(* failure or a restart loses none (renameMetrics, insertSamples).         *)
THEOREM SamplesAreKept ==
    UseSQLite /\ OwnIdentity => (StoreSpec => SamplesStay)
<1> SUFFICES ASSUME UseSQLite, OwnIdentity PROVE StoreSpec => SamplesStay
  OBVIOUS
<1> DEFINE recorded == { <<r.box, r.t>> : r \in db }
<1>1. StoreInit => DH!HistoryInit
  BY DEF StoreInit, FleetInit, DH!HistoryInit
<1>2. OwnInv /\ [StoreNext]_storeVars => [DH!HistoryNext]_<<recorded, now>>
  <2> SUFFICES ASSUME OwnInv, [StoreNext]_storeVars
               PROVE  DH!HistoryNext \/ (recorded' = recorded /\ now' = now)
    OBVIOUS
  <2>1. ASSUME db' = db, now' = now PROVE recorded' = recorded /\ now' = now
    BY <2>1
  <2>2. ASSUME NEW d \in Reports, NEW found \in Found(d), NEW order, NEW at,
               UpsertStart(d, found, order, at)
        PROVE  db' = db /\ now' = now
    BY <2>2 DEF UpsertStart, UpsertLive
  <2>3. ASSUME NEW ip \in IPs, NEW found \in Found(Failed(ip)), UpsertError(ip, found)
        PROVE  db' = db /\ now' = now
    BY <2>3 DEF UpsertError, UpsertFailed
  <2>4. CASE RenameFails \/ InsertFails \/ MarkPollFails \/ PruneFleet
             \/ RestartStore \/ UNCHANGED storeVars
    <3>1. db' = db /\ now' = now
      BY <2>4 DEF RenameFails, InsertFails, MarkPollFails, PruneFleet, Prune,
                  RestartStore, Restart, storeVars
    <3> QED BY <2>1, <3>1
  <2>5. CASE RenameMetrics
    BY <2>5, OwnRename DEF OwnInv, RenameMetrics
  <2>6. CASE InsertSamples
    <3>1. /\ work.point.t \in 1..now /\ work.point.box \in Optional(Boxes)
          /\ recorded' = recorded \cup {<<work.point.box, work.point.t>>}
      BY <2>6, OwnInsert DEF OwnInv
    <3>2. now' = now /\ work.point.t <= now
      BY <2>6, <3>1 DEF InsertSamples
    <3> QED BY <3>1, <3>2 DEF DH!HistoryNext, DH!Record
  <2>7. CASE MarkPoll
    <3>1. db' = { r \in db : r.t >= now - Retention } /\ Retention > 0 /\ now' = now
      BY <2>7 DEF MarkPoll, Kept
    <3>2. recorded' = { x \in recorded : x[2] >= now - Retention }
      BY <3>1
    <3> QED BY <3>1, <3>2 DEF DH!HistoryNext, DH!Expire
  <2>8. CASE AdvanceStore
    BY <2>8 DEF AdvanceStore, Advance, DH!HistoryNext, DH!Tick
  <2> QED BY <2>1, <2>2, <2>3, <2>4, <2>5, <2>6, <2>7, <2>8 DEF StoreNext
<1> QED BY <1>1, <1>2, OwnInvAlways, PTL DEF StoreSpec, SamplesStay, DH!HistorySpec

-----------------------------------------------------------------------------
(* The store without a database: what the moves of an upsert, one after    *)
(* the other, leave of the series.                                         *)

Series == { s \in Seq(Point) : Len(s) \in 1..Points }
Histories == UNION { [D -> Series] : D \in SUBSET ID }

PointsOf(h, id) == IF id \in DOMAIN h THEN ToSet(h[id]) ELSE {}

LEMMA HistoryIs ==
    /\ \A h \in Histories :
          /\ DOMAIN h \in SUBSET ID /\ h \in [DOMAIN h -> Series]
          /\ \A id \in DOMAIN h : h[id] \in Seq(Point) /\ Len(h[id]) \in 1..Points
    /\ \A D \in SUBSET ID : [D -> Series] \subseteq Histories
BY DEF Histories, Series

(* A bounded series is of points of the series that was bounded.           *)
LEMMA KeptPoints ==
    ASSUME NEW s \in Seq(Point), s # << >>
    PROVE  /\ KeepLast(s, Points) \in Series
           /\ ToSet(KeepLast(s, Points)) \subseteq ToSet(s)
<1> DEFINE k == KeepLast(s, Points)
<1>1. Points \in Nat \ {0} /\ Len(s) \in Nat \ {0}
  BY StoreAssumption
<1>2. /\ k \in Seq(Point) /\ Len(k) = IF Len(s) <= Points THEN Len(s) ELSE Points
      /\ \A i \in 1..Len(k) :
            k[i] = IF Len(s) <= Points THEN s[i] ELSE s[Len(s) - Points + i]
  BY <1>1, KeepLastBounds
<1> HIDE DEF k
<1>3. k \in Series
  BY <1>1, <1>2 DEF Series
<1>4. ASSUME NEW i \in DOMAIN k PROVE \E j \in DOMAIN s : k[i] = s[j]
  <2>1. i \in 1..Len(k)
    BY <1>2
  <2>2. CASE Len(s) <= Points
    BY <1>1, <1>2, <2>1, <2>2
  <2>3. CASE ~(Len(s) <= Points)
    <3>1. Len(s) - Points + i \in 1..Len(s)
      BY <1>1, <1>2, <2>1, <2>3
    <3> QED BY <1>2, <2>1, <2>3, <3>1
  <2> QED BY <2>2, <2>3
<1> QED BY <1>3, <1>4 DEF ToSet, k

LEMMA JoinedPoints ==
    ASSUME NEW s \in Series, NEW r \in Series
    PROVE  /\ s \o r \in Seq(Point) /\ s \o r # << >>
           /\ Len(s \o r) = Len(s) + Len(r)
           /\ \A i \in 1..Len(s) : (s \o r)[i] = s[i]
           /\ \A i \in 1..Len(r) : (s \o r)[Len(s) + i] = r[i]
           /\ ToSet(s \o r) = ToSet(s) \cup ToSet(r)
<1>1. s \in Seq(Point) /\ r \in Seq(Point) /\ Len(s) \in Nat \ {0} /\ Len(r) \in Nat \ {0}
  BY DEF Series
<1>2. /\ s \o r \in Seq(Point) /\ Len(s \o r) = Len(s) + Len(r)
      /\ \A i \in 1..Len(s) : (s \o r)[i] = s[i]
      /\ \A i \in 1..Len(r) : (s \o r)[Len(s) + i] = r[i]
  BY <1>1
<1> DEFINE c == s \o r
<1> HIDE DEF c
<1>3. ASSUME NEW i \in DOMAIN c PROVE c[i] \in ToSet(s) \cup ToSet(r)
  <2>1. i \in 1..(Len(s) + Len(r))
    BY <1>2 DEF c
  <2>2. CASE i <= Len(s)
    BY <1>1, <1>2, <2>1, <2>2 DEF c, ToSet
  <2>3. CASE ~(i <= Len(s))
    <3>1. i - Len(s) \in 1..Len(r) /\ Len(s) + (i - Len(s)) = i
      BY <1>1, <2>1, <2>3
    <3>2. c[i] = r[i - Len(s)]
      BY <1>2, <3>1 DEF c
    <3> QED BY <1>1, <3>1, <3>2 DEF ToSet
  <2> QED BY <2>2, <2>3
<1>4. ASSUME NEW i \in DOMAIN s PROVE s[i] \in ToSet(c)
  BY <1>1, <1>2, <1>4 DEF c, ToSet
<1>5. ASSUME NEW i \in DOMAIN r PROVE r[i] \in ToSet(c)
  <2>1. i \in 1..Len(r) /\ Len(s) + i \in DOMAIN c
    BY <1>1, <1>2 DEF c
  <2>2. c[Len(s) + i] = r[i]
    BY <1>2, <2>1 DEF c
  <2> QED BY <2>1, <2>2 DEF ToSet
<1>6. ToSet(c) = ToSet(s) \cup ToSet(r)
  BY <1>3, <1>4, <1>5 DEF ToSet
<1>7. c # << >>
  BY <1>1, <1>2 DEF c
<1> QED BY <1>2, <1>6, <1>7 DEF c

(* One move.                                                               *)
OneMoved(new, h, src, dst) ==
    /\ new \in Histories
    /\ DOMAIN new = (DOMAIN h \ {src}) \cup {dst}
    /\ \A id \in DOMAIN new \ {dst} : new[id] = h[id]
    /\ dst \in DOMAIN h => new[dst] = KeepLast(h[dst] \o h[src], Points)
    /\ dst \notin DOMAIN h => new[dst] = h[src]
    /\ ToSet(new[dst]) \subseteq PointsOf(h, dst) \cup PointsOf(h, src)

LEMMA MoveSeriesIs ==
    ASSUME NEW h \in Histories, NEW src \in DOMAIN h, NEW dst \in ID, src # dst
    PROVE  OneMoved(MoveSeries(h, src, dst), h, src, dst)
<1> DEFINE new == MoveSeries(h, src, dst)
<1>1. /\ DOMAIN new = (DOMAIN h \ {src}) \cup {dst}
      /\ \A id \in DOMAIN new \ {dst} : new[id] = h[id]
      /\ dst \in DOMAIN h => new[dst] = KeepLast(h[dst] \o h[src], Points)
      /\ dst \notin DOMAIN h => new[dst] = h[src]
      /\ new = [i \in DOMAIN new |-> new[i]]
  BY DEF MoveSeries
<1> HIDE DEF new
<1>2. DOMAIN h \in SUBSET ID /\ \A id \in DOMAIN h : h[id] \in Series
  BY HistoryIs
<1>3. new[dst] \in Series /\ ToSet(new[dst]) \subseteq PointsOf(h, dst) \cup PointsOf(h, src)
  <2>1. CASE dst \in DOMAIN h
    <3>1. h[dst] \in Series /\ h[src] \in Series
      BY <1>2, <2>1
    <3> DEFINE c == h[dst] \o h[src]
    <3>2. /\ c \in Seq(Point) /\ c # << >>
          /\ ToSet(c) = ToSet(h[dst]) \cup ToSet(h[src])
      BY <3>1, JoinedPoints
    <3>3. new[dst] = KeepLast(c, Points)
      BY <1>1, <2>1
    <3> HIDE DEF c
    <3>4. new[dst] \in Series /\ ToSet(new[dst]) \subseteq ToSet(c)
      BY <3>2, <3>3, KeptPoints
    <3> QED BY <2>1, <3>2, <3>4 DEF PointsOf
  <2>2. CASE dst \notin DOMAIN h
    BY <1>1, <1>2, <2>2 DEF PointsOf
  <2> QED BY <2>1, <2>2
<1>4. new \in [DOMAIN new -> Series] /\ DOMAIN new \in SUBSET ID
  BY <1>1, <1>2, <1>3
<1> QED BY <1>1, <1>3, <1>4, HistoryIs DEF OneMoved, new

(* The loop of Upsert over the ids it moves is a fold: what holds of the   *)
(* series before it, and after the step of each id when it did before, is  *)
(* true of them after the loop.                                            *)
LEMMA FoldMoves ==
    ASSUME NEW h0 \in Histories, NEW dst \in ID, NEW order \in Seq(ID),
           \A id \in ToSet(order) : id # dst,
           NEW K \in [0..Len(order) -> SUBSET Histories], h0 \in K[0],
           \A i \in 1..Len(order) : \A h \in K[i - 1] :
               MoveSeries(h, order[i], dst) \in K[i]
    PROVE  FoldLeft(LAMBDA h, src : MoveSeries(h, src, dst), h0, order) \in K[Len(order)]
<1> DEFINE n == Len(order)
           step == [i \in 1..n |-> [h \in Histories |-> MoveSeries(h, order[i], dst)]]
           P(f) == f = [s \in SUBSET DOMAIN order |->
                          IF s = {} THEN h0
                          ELSE MoveSeries(f[s \ {Max(s)}], order[Max(s)], dst)]
           f == CHOOSE f : P(f)
<1>1. n \in Nat /\ DOMAIN order = 1..n /\ \A i \in 1..n : order[i] \in ID /\ order[i] # dst
  BY DEF ToSet
<1>2. FoldLeft(LAMBDA h, src : MoveSeries(h, src, dst), h0, order) = f[1..n]
  BY <1>1 DEF FoldLeft, MapThenFoldSet
<1> HIDE DEF n
<1>3. ASSUME NEW i \in 1..n, NEW h \in Histories
      PROVE  MoveSeries(h, order[i], dst) \in Histories
  <2>1. CASE order[i] \in DOMAIN h
    BY <1>1, <2>1, MoveSeriesIs DEF OneMoved
  <2>2. CASE order[i] \notin DOMAIN h
    BY <2>2 DEF MoveSeries
  <2> QED BY <2>1, <2>2
<1>4. step \in [1..n -> [Histories -> Histories]]
  BY <1>3
<1>5. \E g \in [SUBSET (1..n) -> Histories] : FoldsBy(g, n, h0, step)
  <2> HIDE DEF step, P, f
  <2> QED BY <1>1, <1>4, FoldExists
<1>6. PICK g \in [SUBSET (1..n) -> Histories] : FoldsBy(g, n, h0, step)
  BY <1>5
<1>7. ASSUME NEW s \in SUBSET (1..n)
      PROVE  g[s] = IF s = {} THEN h0
                    ELSE MoveSeries(g[s \ {Max(s)}], order[Max(s)], dst)
  <2>1. CASE s = {}
    BY <1>6, <2>1 DEF FoldsBy
  <2>2. CASE s # {}
    <3>1. Max(s) \in 1..n
      BY <1>1, <2>2, MaxIn
    <3>2. g[s \ {Max(s)}] \in Histories
      OBVIOUS
    <3>3. g[s] = step[Max(s)][g[s \ {Max(s)}]]
      BY <1>6, <2>2 DEF FoldsBy
    <3> QED BY <2>2, <3>1, <3>2, <3>3
  <2> QED BY <2>1, <2>2
<1>8. P(g)
  BY <1>1, <1>7
<1>9. P(f)
  <2> HIDE DEF P
  <2> QED BY <1>8
<1> HIDE DEF f, step
<1>10. /\ f[{}] = h0
       /\ \A i \in 1..n : f[1..i] = MoveSeries(f[1..(i - 1)], order[i], dst)
  <2>1. f[{}] = h0
    BY <1>9
  <2>2. ASSUME NEW i \in 1..n PROVE f[1..i] = MoveSeries(f[1..(i - 1)], order[i], dst)
    <3>1. /\ 1..i \in SUBSET (1..n) /\ 1..i # {}
          /\ Max(1..i) = i /\ (1..i) \ {i} = 1..(i - 1)
      BY <1>1, FoldSteps
    <3> QED BY <1>1, <1>9, <3>1
  <2> QED BY <2>1, <2>2
<1> HIDE DEF P
<1> DEFINE S == { i \in 0..n : f[1..i] \in K[i] }
<1>11. 0 \in S
  <2>1. 1..0 = {} /\ 0 \in 0..n
    BY <1>1
  <2> QED BY <1>10, <2>1
<1>12. ASSUME NEW i \in 1..n, i - 1 \in S PROVE i \in S
  <2>1. f[1..(i - 1)] \in K[i - 1] /\ i \in 0..n
    BY <1>1, <1>12
  <2> QED BY <1>10, <2>1 DEF n
<1> HIDE DEF S
<1>13. n \in S
  <2>1. 0..n \subseteq S
    BY <1>1, <1>11, <1>12, InductionUpTo
  <2> QED BY <1>1, <2>1
<1> QED BY <1>2, <1>13 DEF S, n

(* h is the history after the ids in gone were moved to dst.               *)
MovedInto(h, gone, dst) ==
    /\ DOMAIN h = (DOMAIN history \ gone)
                    \cup (IF DOMAIN history \cap gone = {} THEN {} ELSE {dst})
    /\ \A id \in DOMAIN h \ {dst} : h[id] = history[id]
    /\ dst \in DOMAIN h => ToSet(h[dst]) \subseteq
                             UNION { PointsOf(history, id) : id \in gone \cup {dst} }

LEMMA OneMoreMoved ==
    ASSUME NEW dst \in ID, NEW h \in Histories, NEW gone, dst \notin gone,
           MovedInto(h, gone, dst), NEW src, src # dst
    PROVE  MovedInto(MoveSeries(h, src, dst), gone \cup {src}, dst)
<1> DEFINE g == MoveSeries(h, src, dst)
           was == UNION { PointsOf(history, id) : id \in gone \cup {dst} }
           is == UNION { PointsOf(history, id) : id \in (gone \cup {src}) \cup {dst} }
<1>1. was \subseteq is /\ PointsOf(history, src) \subseteq is
  OBVIOUS
<1>2. dst \in DOMAIN h => ToSet(h[dst]) \subseteq was
  BY DEF MovedInto
<1> HIDE DEF was, is
<1>3. CASE src \in DOMAIN h
  <2>1. /\ DOMAIN g = (DOMAIN h \ {src}) \cup {dst}
        /\ \A id \in DOMAIN g \ {dst} : g[id] = h[id]
        /\ ToSet(g[dst]) \subseteq PointsOf(h, dst) \cup PointsOf(h, src)
    <3>1. OneMoved(g, h, src, dst)
      BY <1>3, MoveSeriesIs
    <3> HIDE DEF g
    <3> QED BY <3>1 DEF OneMoved
  <2> HIDE DEF g
  <2>2. src \in DOMAIN history /\ src \notin gone /\ h[src] = history[src]
    BY <1>3 DEF MovedInto
  <2>3. PointsOf(h, dst) \cup PointsOf(h, src) \subseteq is
    BY <1>1, <1>2, <1>3, <2>2 DEF PointsOf
  <2>4. DOMAIN g = (DOMAIN history \ (gone \cup {src})) \cup {dst}
    BY <2>1, <2>2 DEF MovedInto
  <2>5. DOMAIN history \cap (gone \cup {src}) # {}
    BY <2>2
  <2>6. \A id \in DOMAIN g \ {dst} : g[id] = history[id]
    BY <2>1 DEF MovedInto
  <2>7. ToSet(g[dst]) \subseteq is
    BY <2>1, <2>3
  <2> QED BY <2>4, <2>5, <2>6, <2>7 DEF MovedInto, g, is
<1>4. CASE src \notin DOMAIN h
  <2>1. g = h
    BY <1>4 DEF MoveSeries
  <2>2. src \in DOMAIN history => src \in gone
    BY <1>4 DEF MovedInto
  <2>3. /\ DOMAIN history \ (gone \cup {src}) = DOMAIN history \ gone
        /\ DOMAIN history \cap (gone \cup {src}) = DOMAIN history \cap gone
    BY <2>2
  <2>4. dst \in DOMAIN h => ToSet(h[dst]) \subseteq is
    BY <1>1, <1>2
  <2> HIDE DEF g
  <2>5. DOMAIN g = (DOMAIN history \ (gone \cup {src}))
            \cup (IF DOMAIN history \cap (gone \cup {src}) = {} THEN {} ELSE {dst})
    BY <2>1, <2>3 DEF MovedInto
  <2>6. \A id \in DOMAIN g \ {dst} : g[id] = history[id]
    BY <2>1 DEF MovedInto
  <2>7. dst \in DOMAIN g => ToSet(g[dst]) \subseteq is
    BY <2>1, <2>4
  <2> QED BY <2>5, <2>6, <2>7 DEF MovedInto, g, is
<1> QED BY <1>3, <1>4

(* When nothing is to be moved, the loop changes nothing.                  *)
LEMMA MoveAllFolds ==
    ASSUME history \in Histories, NEW dst \in ID, NEW order \in Seq(ID),
           \A id \in ToSet(order) : id # dst
    PROVE  MoveAll(order, dst) =
             FoldLeft(LAMBDA h, src : MoveSeries(h, src, dst), history, order)
<1> DEFINE F == FoldLeft(LAMBDA h, src : MoveSeries(h, src, dst), history, order)
           K == [i \in 0..Len(order) |-> {history}]
<1>1. CASE DOMAIN history \cap ToSet(order) = {}
  <2>1. Len(order) \in Nat /\ K \in [0..Len(order) -> SUBSET Histories]
    OBVIOUS
  <2>2. history \in K[0]
    BY <2>1
  <2>3. \A i \in 1..Len(order) : \A h \in K[i - 1] : MoveSeries(h, order[i], dst) \in K[i]
    <3> SUFFICES ASSUME NEW i \in 1..Len(order)
                 PROVE  MoveSeries(history, order[i], dst) = history
      BY <2>1
    <3>1. order[i] \notin DOMAIN history
      BY <1>1 DEF ToSet
    <3> QED BY <3>1 DEF MoveSeries
  <2>4. F \in K[Len(order)]
    <3> HIDE DEF K
    <3> QED BY <2>1, <2>2, <2>3, FoldMoves
  <2>5. F = history
    <3> HIDE DEF F
    <3> QED BY <2>1, <2>4
  <2> HIDE DEF F
  <2>6. MoveAll(order, dst) = history
    BY <1>1 DEF MoveAll
  <2> QED BY <2>5, <2>6 DEF F
<1>2. CASE DOMAIN history \cap ToSet(order) # {}
  BY <1>2 DEF MoveAll
<1> QED BY <1>1, <1>2

LEMMA MoveAllIs ==
    ASSUME history \in Histories, NEW dst \in ID, NEW order \in Seq(ID),
           \A id \in ToSet(order) : id # dst
    PROVE  /\ MoveAll(order, dst) \in Histories
           /\ MovedInto(MoveAll(order, dst), ToSet(order), dst)
<1> DEFINE n == Len(order)
           first(i) == { order[j] : j \in 1..i }
           K == [i \in 0..n |-> { h \in Histories : MovedInto(h, first(i), dst) }]
<1>1. n \in Nat /\ K \in [0..n -> SUBSET Histories] /\ first(n) = ToSet(order)
  BY DEF ToSet
<1>2. history \in K[0]
  <2>1. first(0) = {}
    OBVIOUS
  <2>2. dst \in DOMAIN history =>
          ToSet(history[dst]) \subseteq UNION { PointsOf(history, id) : id \in {} \cup {dst} }
    BY DEF PointsOf
  <2>3. MovedInto(history, first(0), dst)
    <3> HIDE DEF first
    <3> QED BY <2>1, <2>2 DEF MovedInto
  <2> HIDE DEF first
  <2>4. 0 \in 0..n
    BY <1>1
  <2> QED BY <2>3, <2>4
<1>3. ASSUME NEW i \in 1..n, NEW h \in K[i - 1]
      PROVE  MoveSeries(h, order[i], dst) \in K[i]
  <2>1. i \in 0..n /\ i - 1 \in 0..n
    BY <1>1
  <2>2. h \in Histories /\ MovedInto(h, first(i - 1), dst)
    BY <2>1
  <2>3. order[i] \in ID /\ order[i] # dst
    BY <1>1 DEF ToSet
  <2>4. first(i) = first(i - 1) \cup {order[i]}
    <3>1. 1..i = 1..(i - 1) \cup {i}
      BY <1>1
    <3> QED BY <3>1
  <2>5. dst \notin first(i - 1)
    BY <1>1 DEF ToSet
  <2> HIDE DEF first
  <2>6. MovedInto(MoveSeries(h, order[i], dst), first(i), dst)
    BY <2>2, <2>3, <2>4, <2>5, OneMoreMoved
  <2>7. MoveSeries(h, order[i], dst) \in Histories
    <3>1. CASE order[i] \in DOMAIN h
      BY <2>2, <2>3, <3>1, MoveSeriesIs DEF OneMoved
    <3>2. CASE order[i] \notin DOMAIN h
      BY <2>2, <3>2 DEF MoveSeries
    <3> QED BY <3>1, <3>2
  <2> QED BY <2>1, <2>6, <2>7
<1> DEFINE F == FoldLeft(LAMBDA h, src : MoveSeries(h, src, dst), history, order)
<1>4. F \in K[n]
  <2> HIDE DEF K
  <2> QED BY <1>1, <1>2, <1>3, FoldMoves
<1>5. MoveAll(order, dst) = F
  BY MoveAllFolds
<1> HIDE DEF F
<1>6. n \in 0..n
  BY <1>1
<1> HIDE DEF n, first
<1> QED BY <1>1, <1>4, <1>5, <1>6

(* When one id of those to be moved has a series, it is moved.             *)
LEMMA OneMove ==
    ASSUME history \in Histories, NEW dst \in ID, NEW order \in Seq(ID),
           \A id \in ToSet(order) : id # dst,
           NEW src \in DOMAIN history \cap ToSet(order),
           \A id \in DOMAIN history \cap ToSet(order) : id = src
    PROVE  MoveAll(order, dst) = MoveSeries(history, src, dst)
<1> DEFINE n == Len(order)
           moved == MoveSeries(history, src, dst)
           K == [i \in 0..n |-> {history, moved}]
           F == FoldLeft(LAMBDA h, id : MoveSeries(h, id, dst), history, order)
<1>1. src \in ID /\ src # dst /\ src \in DOMAIN history
  BY DEF ToSet
<1>2. moved \in Histories /\ DOMAIN moved = (DOMAIN history \ {src}) \cup {dst}
  <2>1. OneMoved(moved, history, src, dst)
    BY <1>1, MoveSeriesIs
  <2> HIDE DEF moved
  <2> QED BY <2>1 DEF OneMoved
<1> HIDE DEF moved
<1>3. n \in Nat /\ K \in [0..n -> SUBSET Histories] /\ history \in K[0]
  BY <1>2
<1>4. ASSUME NEW i \in 1..n, NEW h \in K[i - 1]
      PROVE  MoveSeries(h, order[i], dst) \in K[i]
  <2>1. h \in {history, moved} /\ order[i] \in ToSet(order) /\ order[i] # dst
    BY <1>3 DEF ToSet
  <2>2. K[i] = {history, moved}
    BY <1>3
  <2>3. CASE order[i] \in DOMAIN h
    <3>1. order[i] \in DOMAIN history
      BY <1>2, <2>1, <2>3
    <3>2. order[i] = src
      BY <2>1, <3>1
    <3>3. h = history
      BY <1>1, <1>2, <2>1, <2>3, <3>2
    <3> QED BY <2>2, <3>2, <3>3 DEF moved
  <2>4. CASE order[i] \notin DOMAIN h
    <3>1. MoveSeries(h, order[i], dst) = h
      BY <2>4 DEF MoveSeries
    <3> QED BY <2>1, <2>2, <3>1
  <2> QED BY <2>3, <2>4
<1>5. F \in K[n]
  <2> HIDE DEF K
  <2> QED BY <1>3, <1>4, FoldMoves
<1>6. F \in {history, moved}
  <2> HIDE DEF F
  <2> QED BY <1>3, <1>5
<1>7. MoveAll(order, dst) = F
  BY MoveAllFolds
<1>8. src \notin DOMAIN MoveAll(order, dst)
  <2>1. MovedInto(MoveAll(order, dst), ToSet(order), dst)
    BY MoveAllIs
  <2> QED BY <1>1, <2>1 DEF MovedInto
<1> HIDE DEF F
<1> QED BY <1>6, <1>7, <1>8 DEF moved
-----------------------------------------------------------------------------
(* An upsert in memory: the series of the ids it moves, and the point of   *)
(* the poll, are under the id of the miner.                                *)
PollPoint(d, at) == [t |-> at, box |-> d.box]

OnePushed(new, h, id, p) ==
    /\ new \in Histories
    /\ DOMAIN new = DOMAIN h \cup {id}
    /\ \A k \in DOMAIN new \ {id} : new[k] = h[k]
    /\ id \in DOMAIN h => new[id] = KeepLast(Append(h[id], p), Points)
    /\ id \notin DOMAIN h => new[id] = KeepLast(Append(<< >>, p), Points)
    /\ ToSet(new[id]) \subseteq PointsOf(h, id) \cup {p}

LEMMA PushedPoints ==
    ASSUME NEW h \in Histories, NEW id \in ID, NEW p \in Point
    PROVE  OnePushed(PushSample(h, id, p), h, id, p)
<1> DEFINE new == PushSample(h, id, p)
<1>1. /\ DOMAIN new = DOMAIN h \cup {id}
      /\ \A k \in DOMAIN new \ {id} : new[k] = h[k]
      /\ id \in DOMAIN h => new[id] = KeepLast(Append(h[id], p), Points)
      /\ id \notin DOMAIN h => new[id] = KeepLast(Append(<< >>, p), Points)
      /\ new = [k \in DOMAIN new |-> new[k]]
  BY DEF PushSample
<1> HIDE DEF new
<1>2. DOMAIN h \in SUBSET ID /\ \A k \in DOMAIN h : h[k] \in Series
  BY HistoryIs
<1>3. ASSUME NEW s \in Seq(Point)
      PROVE  /\ KeepLast(Append(s, p), Points) \in Series
             /\ ToSet(KeepLast(Append(s, p), Points)) \subseteq ToSet(s) \cup {p}
  <2> DEFINE a == Append(s, p)
  <2>1. /\ a \in Seq(Point) /\ Len(a) = Len(s) + 1 /\ Len(s) \in Nat
        /\ \A i \in 1..Len(s) : a[i] = s[i]
        /\ a[Len(s) + 1] = p
    BY AppendProperties
  <2> HIDE DEF a
  <2>2. a # << >> /\ DOMAIN a = 1..(Len(s) + 1) /\ DOMAIN s = 1..Len(s)
    BY <2>1
  <2>3. ASSUME NEW i \in DOMAIN a PROVE a[i] \in ToSet(s) \cup {p}
    <3>1. i \in 1..Len(s) \/ i = Len(s) + 1
      BY <2>1, <2>2
    <3> QED BY <2>1, <2>2, <3>1 DEF ToSet
  <2>4. ToSet(a) \subseteq ToSet(s) \cup {p}
    BY <2>3 DEF ToSet
  <2>5. KeepLast(a, Points) \in Series /\ ToSet(KeepLast(a, Points)) \subseteq ToSet(a)
    BY <2>1, <2>2, KeptPoints
  <2> QED BY <2>4, <2>5 DEF a
<1>4. new[id] \in Series /\ ToSet(new[id]) \subseteq PointsOf(h, id) \cup {p}
  <2>1. CASE id \in DOMAIN h
    <3>1. h[id] \in Seq(Point)
      BY <1>2, <2>1 DEF Series
    <3> QED BY <1>1, <1>3, <2>1, <3>1 DEF PointsOf
  <2>2. CASE id \notin DOMAIN h
    <3>1. << >> \in Seq(Point) /\ ToSet(<< >>) = {}
      BY DEF ToSet
    <3> QED BY <1>1, <1>3, <2>2, <3>1
  <2> QED BY <2>1, <2>2
<1>5. new \in [DOMAIN new -> Series] /\ DOMAIN new \in SUBSET ID
  BY <1>1, <1>2, <1>4
<1> QED BY <1>1, <1>4, <1>5, HistoryIs DEF OnePushed, new

LEMMA UpsertedSeries ==
    ASSUME ~UseSQLite, FleetInv, IsFiniteSet(DOMAIN miners), history \in Histories,
           NEW d \in Reports, NEW found \in Found(d), NEW order \in RekeyOrders(d, found),
           NEW at \in PollTimes, UpsertStart(d, found, order, at)
    PROVE  /\ StableID(d) \in ID /\ order \in Seq(ID)
           /\ ToSet(order) = Moved(d, found) /\ StableID(d) \notin Moved(d, found)
           /\ PollPoint(d, at) \in Point
           /\ history' = PushSample(MoveAll(order, StableID(d)), StableID(d), PollPoint(d, at))
           /\ history' \in Histories
           /\ DOMAIN history' = (DOMAIN history \ Moved(d, found)) \cup {StableID(d)}
           /\ \A id \in DOMAIN history' \ {StableID(d)} : history'[id] = history[id]
           /\ \A p \in ToSet(history'[StableID(d)]) :
                 \/ p = PollPoint(d, at)
                 \/ \E id \in DOMAIN history \cap (Moved(d, found) \cup {StableID(d)}) :
                       p \in ToSet(history[id])
<1> DEFINE id == StableID(d)
           p == PollPoint(d, at)
           h == MoveAll(order, id)
<1>1. d \in Report /\ now \in Nat /\ DOMAIN miners \subseteq ID
  BY FleetAssumption DEF FleetInv, FleetTypeOK
<1>2. order \in Seq(ID) /\ ToSet(order) = Moved(d, found)
  BY <1>1, OrderIsOfMoved
<1>3. id \in ID
  BY <1>1, ReportFields, StableIDType
<1>4. p \in Point
  BY <1>1 DEF PollPoint, Point, PollTimes, Report
<1>5. \A k \in ToSet(order) : k # id
  BY <1>2 DEF Moved
<1>6. history' = PushSample(h, id, p)
  BY DEF UpsertStart, PollPoint
<1>7. h \in Histories /\ MovedInto(h, ToSet(order), id)
  BY <1>2, <1>3, <1>5, MoveAllIs
<1> HIDE DEF h, p
<1>8. /\ history' \in Histories
      /\ DOMAIN history' = DOMAIN h \cup {id}
      /\ \A k \in DOMAIN history' \ {id} : history'[k] = h[k]
      /\ ToSet(history'[id]) \subseteq PointsOf(h, id) \cup {p}
  <2>1. OnePushed(PushSample(h, id, p), h, id, p)
    BY <1>3, <1>4, <1>7, PushedPoints
  <2>2. OnePushed(history', h, id, p)
    BY <1>6, <2>1
  <2> QED BY <2>2 DEF OnePushed
<1>9. DOMAIN history' = (DOMAIN history \ Moved(d, found)) \cup {id}
  BY <1>2, <1>7, <1>8 DEF MovedInto
<1>10. \A k \in DOMAIN history' \ {id} : history'[k] = history[k]
  BY <1>7, <1>8 DEF MovedInto
<1>11. ASSUME NEW q \in ToSet(history'[id]), q # p
       PROVE  \E k \in DOMAIN history \cap (Moved(d, found) \cup {id}) : q \in ToSet(history[k])
  <2>1. id \in DOMAIN h /\ q \in ToSet(h[id])
    BY <1>8, <1>11 DEF PointsOf
  <2>2. q \in UNION { PointsOf(history, k) : k \in Moved(d, found) \cup {id} }
    BY <1>2, <1>7, <2>1 DEF MovedInto
  <2> QED BY <2>2 DEF PointsOf
<1> QED BY <1>2, <1>3, <1>4, <1>5, <1>6, <1>8, <1>9, <1>10, <1>11 DEF h, p

-----------------------------------------------------------------------------
(* The store without a database: nothing is left of an upsert when it      *)
(* unlocks, and the series are those of ids that some report has.          *)
MemInv ==
    /\ IsFiniteSet(DOMAIN miners)
    /\ history \in Histories
    /\ db = {}
    /\ work = Idle
    /\ faults \in 0..MaxFaults
    /\ \A id \in DOMAIN history : \E e \in Reports : StableID(e) = id

LEMMA NoHistoryIs == NoHistory \in Histories /\ DOMAIN NoHistory = {}
<1>1. NoHistory \in [{} -> Series] /\ {} \in SUBSET ID
  BY DEF NoHistory
<1> QED BY <1>1, HistoryIs DEF NoHistory

(* A step is an upsert, or leaves the series, or the process restarts.     *)
LEMMA MemoryStep ==
    ASSUME ~UseSQLite, MemInv, [StoreNext]_storeVars
    PROVE  /\ db' = {} /\ work' = Idle /\ faults' = faults
           /\ \/ \E d \in Reports : \E found \in Found(d) :
                    \E order \in RekeyOrders(d, found), at \in PollTimes :
                       UpsertStart(d, found, order, at)
              \/ /\ history' = history
                 /\ \/ \E ip \in IPs : \E found \in Found(Failed(ip)) :
                          UpsertFailed(Failed(ip), found)
                    \/ Prune \/ Advance \/ UNCHANGED fleetVars
              \/ history' = NoHistory /\ Restart
<1>0. work = Idle /\ db = {} /\ Idle.renames = << >>
  BY DEF MemInv, Idle
<1>1. ASSUME NEW d \in Reports, NEW found \in Found(d), NEW order, NEW at,
             UpsertStart(d, found, order, at)
      PROVE  db' = {} /\ work' = Idle /\ faults' = faults
  BY <1>0, <1>1 DEF UpsertStart
<1>2. ~(RenameMetrics \/ RenameFails \/ InsertSamples \/ InsertFails)
  BY <1>0 DEF RenameMetrics, RenameFails, InsertSamples, InsertFails
<1>3. ~(MarkPoll \/ MarkPollFails)
  BY DEF MarkPoll, MarkPollFails
<1>4. CASE UNCHANGED storeVars
  BY <1>0, <1>4 DEF storeVars, fleetVars
<1>5. CASE PruneFleet \/ RestartStore \/ AdvanceStore
  BY <1>0, <1>5 DEF PruneFleet, RestartStore, AdvanceStore
<1>6. ASSUME NEW ip \in IPs, NEW found \in Found(Failed(ip)), UpsertError(ip, found)
      PROVE  /\ db' = {} /\ work' = Idle /\ faults' = faults
             /\ history' = history /\ UpsertFailed(Failed(ip), found)
  BY <1>0, <1>6 DEF UpsertError
<1> QED BY <1>1, <1>2, <1>3, <1>4, <1>5, <1>6 DEF StoreNext

LEMMA MemInvInit == StoreInit => MemInv
<1> SUFFICES ASSUME StoreInit PROVE MemInv
  OBVIOUS
<1>1. IsFiniteSet(DOMAIN miners)
  BY FleetIsFinite DEF StoreInit
<1>2. faults \in 0..MaxFaults
  BY StoreAssumption DEF StoreInit
<1> QED BY <1>1, <1>2, NoHistoryIs DEF StoreInit, MemInv

LEMMA MemInvStep ==
    ASSUME ~UseSQLite
    PROVE  FleetInv /\ MemInv /\ [StoreNext]_storeVars => MemInv'
<1> SUFFICES ASSUME FleetInv, MemInv, [StoreNext]_storeVars PROVE MemInv'
  OBVIOUS
<1>1. IsFiniteSet(DOMAIN miners')
  BY StoreStep, FleetIsFinite DEF MemInv
<1>2. db' = {} /\ work' = Idle /\ faults' \in 0..MaxFaults
  BY MemoryStep DEF MemInv
<1>3. /\ history' \in Histories
      /\ \A id \in DOMAIN history' : \E e \in Reports : StableID(e) = id
  <2>1. CASE history' = history
    BY <2>1 DEF MemInv
  <2>2. CASE history' = NoHistory
    BY <2>2, NoHistoryIs
  <2>3. ASSUME NEW d \in Reports, NEW found \in Found(d),
               NEW order \in RekeyOrders(d, found), NEW at \in PollTimes,
               UpsertStart(d, found, order, at)
        PROVE  /\ history' \in Histories
               /\ DOMAIN history' \subseteq DOMAIN history \cup {StableID(d)}
    BY <2>3, UpsertedSeries DEF MemInv
  <2> QED BY <2>1, <2>2, <2>3, MemoryStep DEF MemInv
<1> QED BY <1>1, <1>2, <1>3 DEF MemInv

LEMMA MemInvAlways ==
    ASSUME ~UseSQLite
    PROVE  StoreSpec => []MemInv
<1>1. StoreSpec => []FleetInv
  BY StoreOrigin, PTL DEF OriginInv
<1> QED BY <1>1, MemInvInit, MemInvStep, PTL DEF StoreSpec

LEMMA WorkIdle == Idle \in Work
<1>1. NoID \in ID /\ << >> \in Seq(ID) /\ [t |-> 0, box |-> None] \in Point
  BY DEF NoID, ID, Optional, Point
<1> QED BY <1>1 DEF Idle, Work

(* In memory and with a database: the series are bounded by the number of  *)
(* history points, through any merges (rekeyLocked, pushLocked), and the   *)
(* table has one row per id and time (its primary key).                    *)
THEOREM StoreTypeCorrect == StoreSpec => []StoreTypeOK
<1>1. CASE UseSQLite
  BY <1>1, TableIsKeyed
<1>2. CASE ~UseSQLite
  <2>1. MemInv => StoreTypeOK
    BY WorkIdle, HistoryIs DEF MemInv, StoreTypeOK
  <2> QED BY <1>2, <2>1, MemInvAlways, PTL
<1> QED BY <1>1, <1>2

(* A point of a series is of the device that has its id.                   *)
OwnPoints ==
    \A id \in DOMAIN history : \A p \in ToSet(history[id]) :
        \E e \in Reports : StableID(e) = id /\ e.box = p.box

LEMMA OwnPointsStep ==
    ASSUME ~UseSQLite, OwnIdentity
    PROVE  OriginInv /\ MemInv /\ OwnPoints /\ [StoreNext]_storeVars => OwnPoints'
<1> SUFFICES ASSUME OriginInv, MemInv, OwnPoints, [StoreNext]_storeVars PROVE OwnPoints'
  OBVIOUS
<1>1. CASE history' = history
  BY <1>1 DEF OwnPoints
<1>2. CASE history' = NoHistory
  BY <1>2, NoHistoryIs DEF OwnPoints
<1>3. ASSUME NEW d \in Reports, NEW found \in Found(d),
             NEW order \in RekeyOrders(d, found), NEW at \in PollTimes,
             UpsertStart(d, found, order, at)
      PROVE  OwnPoints'
  <2> DEFINE id == StableID(d)
  <2>1. /\ DOMAIN history' = (DOMAIN history \ Moved(d, found)) \cup {id}
        /\ \A k \in DOMAIN history' \ {id} : history'[k] = history[k]
        /\ \A p \in ToSet(history'[id]) :
              \/ p = PollPoint(d, at)
              \/ \E k \in DOMAIN history \cap (Moved(d, found) \cup {id}) :
                    p \in ToSet(history[k])
    BY <1>3, UpsertedSeries DEF MemInv, OriginInv
  <2>2. ASSUME NEW p \in ToSet(history'[id]) PROVE d.box = p.box
    <3>1. CASE p = PollPoint(d, at)
      BY <3>1 DEF PollPoint
    <3>2. ASSUME NEW k \in DOMAIN history \cap (Moved(d, found) \cup {id}),
                 p \in ToSet(history[k])
          PROVE  d.box = p.box
      <4>1. PICK e \in Reports : StableID(e) = k /\ e.box = p.box
        BY <3>2 DEF OwnPoints
      <4>2. CASE k = id
        BY <4>1, <4>2 DEF OwnIdentity, Shares
      <4>3. CASE k \in Moved(d, found)
        BY <4>1, <4>3, MovedIsOwn
      <4> QED BY <4>2, <4>3
    <3> QED BY <2>1, <3>1, <3>2
  <2>3. ASSUME NEW k \in DOMAIN history', NEW p \in ToSet(history'[k])
        PROVE  \E e \in Reports : StableID(e) = k /\ e.box = p.box
    <3>1. CASE k = id
      BY <2>2, <2>3, <3>1
    <3>2. CASE k # id
      BY <2>1, <2>3, <3>2 DEF OwnPoints
    <3> QED BY <3>1, <3>2
  <2> QED BY <2>3 DEF OwnPoints
<1> QED BY <1>1, <1>2, <1>3, MemoryStep

LEMMA OwnPointsAlways ==
    ASSUME ~UseSQLite, OwnIdentity
    PROVE  StoreSpec => []OwnPoints
<1>1. StoreInit => OwnPoints
  BY NoHistoryIs DEF StoreInit, OwnPoints
<1> QED BY <1>1, OwnPointsStep, MemInvAlways, StoreOrigin, PTL DEF StoreSpec

(* A sample or a point under the id of a device is of that device, after   *)
(* any promotions, merges, failed renames and restarts, in memory and with *)
(* a database (rekeyLocked, Upsert).                                       *)
THEOREM SamplesKeepTheirDevice == OwnIdentity => (StoreSpec => []Attribution)
<1> SUFFICES ASSUME OwnIdentity PROVE StoreSpec => []Attribution
  OBVIOUS
<1>1. CASE UseSQLite
  BY <1>1, TableKeepsDevices
<1>2. CASE ~UseSQLite
  <2>2. StoreSpec => []OwnPoints
    BY <1>2, OwnPointsAlways
  <2>3. MemInv /\ OwnPoints => Attribution
    <3> SUFFICES ASSUME MemInv, OwnPoints, NEW d \in Reports, StableID(d) \in DOMAIN history,
                        NEW i \in DOMAIN history[StableID(d)]
                 PROVE  history[StableID(d)][i].box = d.box
      BY DEF Attribution, MemInv
    <3>1. PICK e \in Reports :
            StableID(e) = StableID(d) /\ e.box = history[StableID(d)][i].box
      BY DEF OwnPoints, ToSet
    <3> QED BY <3>1 DEF OwnIdentity, Shares
  <2> QED BY <1>2, <2>2, <2>3, MemInvAlways, PTL
<1> QED BY <1>1, <1>2

-----------------------------------------------------------------------------
(* One series per device.  The aliases of a row are an address and, for a  *)
(* row with a name, its MAC; an upsert moves those of its own row, and the *)
(* id it moves them to is an alias of no other row, because no other row   *)
(* has that MAC.                                                           *)

(* A row of a report has its aliases; a row made by an error has none.     *)
LEMMA NewRowAliases ==
    ASSUME NEW d \in Report, NEW failed \in BOOLEAN, NEW t \in Nat
    PROVE  /\ Aliases(RowOf(ApplyStableID(d), failed, t)) = Aliases(d)
           /\ NormalizeMAC(RowOf(ApplyStableID(d), failed, t).mac) = NormalizeMAC(d.mac)
<1> DEFINE r == RowOf(ApplyStableID(d), failed, t)
<1>1. /\ r.ip = d.ip /\ r.host = d.host /\ r.serial = d.serial
      /\ NormalizeMAC(r.mac) = NormalizeMAC(d.mac)
      /\ StableID(r) = StableID(d)
  BY RowOfReport
<1> HIDE DEF r
<1>2. Aliases(r) = Aliases(d)
  BY <1>1 DEF Aliases, AliasList
<1> QED BY <1>1, <1>2 DEF r

LEMMA FailedHasNoAlias == ASSUME NEW ip \in IPs PROVE Aliases(Failed(ip)) = {}
<1>1. StableID(Failed(ip)) = <<"ip", ip>>
  BY FailedReport
<1>2. ASSUME NEW i \in 1..5
      PROVE  AliasList(Failed(ip))[i][2] = None \/ AliasList(Failed(ip))[i] = <<"ip", ip>>
  <2>1. i = 1 \/ i = 2 \/ i = 3 \/ i = 4 \/ i = 5
    OBVIOUS
  <2> QED BY <2>1
      DEF AliasList, Failed, DistinctiveHostname, NormalizeMAC, SerialKey
<1> QED BY <1>1, <1>2 DEF Aliases

(* Where every report has a MAC, the id of a report is an alias of a row   *)
(* only as its MAC.                                                        *)
LEMMA AliasOfRow ==
    ASSUME SteadyIdentity, NEW d \in Reports, NEW r, StableID(d) \in Aliases(r)
    PROVE  /\ StableID(d) = <<"mac", NormalizeMAC(r.mac)>>
           /\ NormalizeMAC(d.mac) = NormalizeMAC(r.mac)
<1>1. NormalizeMAC(d.mac) # None
  BY DEF SteadyIdentity
<1>2. StableID(d)[1] \in {"host", "mac"}
  BY <1>1 DEF StableID
<1>3. PICK i \in 1..5 : StableID(d) = AliasList(r)[i] /\ StableID(d)[2] # None
  BY DEF Aliases
<1>4. i = 1 \/ i = 2 \/ i = 3 \/ i = 4 \/ i = 5
  OBVIOUS
<1>5. CASE i = 2
  <2>1. StableID(d) = <<"host", DistinctiveHostname(r.host)>> /\ DistinctiveHostname(r.host) # None
    BY <1>3, <1>5 DEF AliasList
  <2>2. StableID(r) = StableID(d)
    BY <2>1, KeyTags
  <2> QED BY <2>2 DEF Aliases
<1>6. CASE i = 4
  <2>1. StableID(d) = <<"mac", NormalizeMAC(r.mac)>>
    BY <1>3, <1>6 DEF AliasList
  <2> QED BY <2>1, KeyTags
<1>7. CASE i = 1 \/ i = 3 \/ i = 5
  <2>1. AliasList(r)[i][1] \in {"ip", "name", "sn"}
    BY <1>7 DEF AliasList
  <2> QED BY <1>2, <1>3, <2>1
<1> QED BY <1>4, <1>5, <1>6, <1>7

LEMMA OneSeriesUpsert ==
    ASSUME ~UseSQLite, SteadyIdentity, OriginInv, MemInv, OneSeriesPerRow, OneRowPerMAC',
           NEW d \in Reports, NEW found \in Found(d), NEW order \in RekeyOrders(d, found),
           NEW at \in PollTimes, UpsertStart(d, found, order, at)
    PROVE  OneSeriesPerRow'
<1> DEFINE id == StableID(d)
           row == RowOf(ApplyStableID(d), FALSE, now)
           gone == Folded(d, found, Aliases(d) \cap DOMAIN history)
<1>1. DOMAIN history' = (DOMAIN history \ Moved(d, found)) \cup {id}
  BY UpsertedSeries DEF MemInv, OriginInv
<1>2. miners' = Replace(gone, id, row)
  BY DEF UpsertStart, UpsertLive
<1>3. Aliases(row) = Aliases(d) /\ NormalizeMAC(row.mac) = NormalizeMAC(d.mac)
  <2>1. d \in Report /\ now \in Nat /\ FALSE \in BOOLEAN
    BY FleetAssumption DEF OriginInv, FleetInv, FleetTypeOK
  <2> QED BY <2>1, NewRowAliases
<1>4. NormalizeMAC(d.mac) # None /\ SteadyMAC(NormalizeMAC(d.mac))
  BY DEF SteadyIdentity
<1> HIDE DEF row, gone
<1>5. /\ id \in DOMAIN miners' /\ miners'[id] = row
      /\ \A j \in DOMAIN miners' \ {id} : j \in DOMAIN miners /\ miners'[j] = miners[j]
  BY <1>2 DEF Replace
<1>6. Aliases(miners'[id]) \cap DOMAIN history' = {}
  <2>1. Aliases(d) \subseteq Moved(d, found) /\ id \notin Aliases(d)
    BY DEF Aliases, Moved, NoID
  <2> QED BY <1>1, <1>3, <1>5, <2>1
<1>7. ASSUME NEW j \in DOMAIN miners', j # id
      PROVE  Aliases(miners'[j]) \cap DOMAIN history' = {}
  <2>1. j \in DOMAIN miners /\ miners'[j] = miners[j]
    BY <1>5, <1>7
  <2>2. Aliases(miners[j]) \cap DOMAIN history = {}
    BY <2>1 DEF OneSeriesPerRow
  <2>3. id \notin Aliases(miners[j])
    <3> SUFFICES ASSUME id \in Aliases(miners[j]) PROVE FALSE
      OBVIOUS
    <3>1. NormalizeMAC(miners[j].mac) = NormalizeMAC(d.mac)
      BY AliasOfRow
    <3>2. NormalizeMAC(miners'[j].mac) = NormalizeMAC(miners'[id].mac)
      BY <1>3, <1>5, <2>1, <3>1
    <3>3. NormalizeMAC(miners'[j].mac) # None /\ SteadyMAC(NormalizeMAC(miners'[j].mac))
      BY <1>4, <2>1, <3>1
    <3> QED BY <1>5, <1>7, <3>2, <3>3 DEF OneRowPerMAC, SteadyMAC
  <2> QED BY <1>1, <2>1, <2>2, <2>3
<1> QED BY <1>6, <1>7 DEF OneSeriesPerRow

LEMMA OneSeriesStep ==
    ASSUME ~UseSQLite, SteadyIdentity
    PROVE  OriginInv /\ MemInv /\ OneSeriesPerRow /\ OneRowPerMAC' /\ [StoreNext]_storeVars
             => OneSeriesPerRow'
<1> SUFFICES ASSUME OriginInv, MemInv, OneSeriesPerRow, OneRowPerMAC', [StoreNext]_storeVars
             PROVE  OneSeriesPerRow'
  OBVIOUS
<1>1. ASSUME history' = history, NEW ip \in IPs, NEW found \in Found(Failed(ip)),
             UpsertFailed(Failed(ip), found)
      PROVE  OneSeriesPerRow'
  <2>1. CASE found = {}
    <3> DEFINE row == RowOf(ApplyStableID(Failed(ip)), TRUE, now)
    <3>1. miners' = Replace({}, StableID(Failed(ip)), row)
      BY <1>1, <2>1 DEF UpsertFailed
    <3>2. Aliases(row) = {}
      <4>1. Failed(ip) \in Report /\ now \in Nat
        BY FailedReport, FleetAssumption DEF OriginInv, FleetInv, FleetTypeOK
      <4> QED BY <4>1, NewRowAliases, FailedHasNoAlias
    <3> HIDE DEF row
    <3>3. ASSUME NEW j \in DOMAIN miners'
          PROVE  miners'[j] = row \/ (j \in DOMAIN miners /\ miners'[j] = miners[j])
      BY <3>1 DEF Replace
    <3> QED BY <1>1, <3>2, <3>3 DEF OneSeriesPerRow
  <2>2. CASE found # {}
    <3>1. miners' = [j \in DOMAIN miners |->
                       IF j \in found THEN MergeError(Failed(ip), j) ELSE miners[j]]
      BY <1>1, <2>2 DEF UpsertFailed
    <3>2. ASSUME NEW j \in found
          PROVE  Aliases(MergeError(Failed(ip), j)) = Aliases(miners[j])
      <4> DEFINE r == MergeError(Failed(ip), j)
      <4>1. /\ r.ip = miners[j].ip /\ r.host = miners[j].host
            /\ r.mac = miners[j].mac /\ r.serial = miners[j].serial
        BY MergeErrorFields DEF OriginInv
      <4> HIDE DEF r
      <4>2. StableID(r) = StableID(miners[j])
        BY <4>1 DEF StableID
      <4>3. Aliases(r) = Aliases(miners[j])
        BY <4>1, <4>2 DEF Aliases, AliasList
      <4> QED BY <4>3 DEF r
    <3> QED BY <1>1, <3>1, <3>2 DEF OneSeriesPerRow
  <2> QED BY <2>1, <2>2
<1>2. CASE history' = history /\ (Prune \/ Advance \/ UNCHANGED fleetVars)
  BY <1>2 DEF Prune, Advance, fleetVars, OneSeriesPerRow
<1>3. CASE history' = NoHistory
  BY <1>3, NoHistoryIs DEF OneSeriesPerRow
<1> QED BY <1>1, <1>2, <1>3, MemoryStep, OneSeriesUpsert

LEMMA OneSeriesAlways ==
    ASSUME ~UseSQLite, SteadyIdentity
    PROVE  StoreSpec => []OneSeriesPerRow
<1>1. StoreInit => OneSeriesPerRow
  BY DEF StoreInit, FleetInit, NoMiners, OneSeriesPerRow
<1>2. StoreSpec => []OneRowPerMAC
  BY StoreImplementsFleet, OneRowPerDevice, PTL DEF ImplementsFleet
<1> QED BY <1>1, <1>2, OneSeriesStep, MemInvAlways, StoreOrigin, PTL DEF StoreSpec

(* The history of a row is under its id: none is left under another id it  *)
(* has or had, whatever polls left its name out and wherever its address   *)
(* moved (Upsert, rekeyLocked).                                            *)
THEOREM HistoryIsInOnePlace == SteadyIdentity => (StoreSpec => []OneSeriesPerRow)
<1> SUFFICES ASSUME SteadyIdentity PROVE StoreSpec => []OneSeriesPerRow
  OBVIOUS
<1>1. CASE UseSQLite
  <2>1. SqlInv => OneSeriesPerRow
    BY DEF SqlInv, NoHistory, OneSeriesPerRow
  <2> QED BY <1>1, <2>1, SqlInvAlways, PTL
<1>2. CASE ~UseSQLite
  BY <1>2, OneSeriesAlways
<1> QED BY <1>1, <1>2

-----------------------------------------------------------------------------
(* Series in the order of time.                                            *)
InOrder(s) == \A i, j \in DOMAIN s : i < j => s[i].t <= s[j].t

LEMMA KeptInOrder ==
    ASSUME NEW s \in Seq(Point), InOrder(s)
    PROVE  InOrder(KeepLast(s, Points))
<1> DEFINE k == KeepLast(s, Points)
<1>1. Points \in Nat \ {0} /\ Len(s) \in Nat /\ DOMAIN s = 1..Len(s)
  BY StoreAssumption
<1>2. /\ k \in Seq(Point) /\ Len(k) = IF Len(s) <= Points THEN Len(s) ELSE Points
      /\ \A i \in 1..Len(k) :
            k[i] = IF Len(s) <= Points THEN s[i] ELSE s[Len(s) - Points + i]
  BY <1>1, KeepLastBounds
<1> HIDE DEF k
<1>3. ASSUME NEW i \in DOMAIN k, NEW j \in DOMAIN k, i < j PROVE k[i].t <= k[j].t
  <2>1. i \in 1..Len(k) /\ j \in 1..Len(k)
    BY <1>2
  <2>2. CASE Len(s) <= Points
    BY <1>1, <1>2, <1>3, <2>1, <2>2 DEF InOrder
  <2>3. CASE ~(Len(s) <= Points)
    <3> DEFINE c == Len(s) - Points
    <3>1. c + i \in DOMAIN s /\ c + j \in DOMAIN s /\ c + i < c + j
      BY <1>1, <1>2, <1>3, <2>1, <2>3
    <3>2. k[i] = s[c + i] /\ k[j] = s[c + j]
      BY <1>2, <2>1, <2>3
    <3> HIDE DEF c
    <3> QED BY <3>1, <3>2 DEF InOrder
  <2> QED BY <2>2, <2>3
<1> QED BY <1>3 DEF InOrder, k

LEMMA JoinedInOrder ==
    ASSUME NEW s \in Series, NEW r \in Series, InOrder(s), InOrder(r),
           \A p \in ToSet(s), q \in ToSet(r) : p.t <= q.t
    PROVE  InOrder(s \o r)
<1> DEFINE c == s \o r
<1>1. /\ c \in Seq(Point) /\ Len(c) = Len(s) + Len(r)
      /\ \A i \in 1..Len(s) : c[i] = s[i]
      /\ \A i \in 1..Len(r) : c[Len(s) + i] = r[i]
  BY JoinedPoints
<1>2. /\ Len(s) \in Nat /\ Len(r) \in Nat
      /\ DOMAIN s = 1..Len(s) /\ DOMAIN r = 1..Len(r) /\ DOMAIN c = 1..(Len(s) + Len(r))
  BY <1>1 DEF Series
<1> HIDE DEF c
<1>3. ASSUME NEW i \in DOMAIN c, ~(i <= Len(s))
      PROVE  i - Len(s) \in DOMAIN r /\ c[i] = r[i - Len(s)]
  <2>1. i - Len(s) \in 1..Len(r) /\ Len(s) + (i - Len(s)) = i
    BY <1>2, <1>3
  <2> QED BY <1>1, <1>2, <2>1
<1>4. ASSUME NEW i \in DOMAIN c, i <= Len(s) PROVE i \in DOMAIN s /\ c[i] = s[i]
  BY <1>1, <1>2, <1>4
<1>5. ASSUME NEW i \in DOMAIN c, NEW j \in DOMAIN c, i < j PROVE c[i].t <= c[j].t
  <2>1. i \in Int /\ j \in Int
    BY <1>2
  <2>2. CASE j <= Len(s)
    <3>1. i <= Len(s)
      BY <1>2, <1>5, <2>1, <2>2
    <3> QED BY <1>4, <1>5, <2>2, <3>1 DEF InOrder
  <2>3. CASE i <= Len(s) /\ ~(j <= Len(s))
    <3>1. c[i] \in ToSet(s) /\ c[j] \in ToSet(r)
      BY <1>3, <1>4, <2>3 DEF ToSet
    <3> QED BY <3>1
  <2>4. CASE ~(i <= Len(s)) /\ ~(j <= Len(s))
    <3>1. i - Len(s) < j - Len(s)
      BY <1>2, <1>5, <2>1
    <3> QED BY <1>3, <2>4, <3>1 DEF InOrder
  <2>5. j <= Len(s) => i <= Len(s)
    BY <1>2, <1>5, <2>1
  <2> QED BY <2>2, <2>3, <2>4, <2>5
<1> QED BY <1>5 DEF InOrder, c

LEMMA AppendedInOrder ==
    ASSUME NEW s \in Seq(Point), NEW p \in Point, InOrder(s),
           \A q \in ToSet(s) : q.t <= p.t
    PROVE  Append(s, p) \in Seq(Point) /\ InOrder(Append(s, p))
<1> DEFINE a == Append(s, p)
<1>1. /\ a \in Seq(Point) /\ Len(a) = Len(s) + 1 /\ Len(s) \in Nat
      /\ \A i \in 1..Len(s) : a[i] = s[i]
      /\ a[Len(s) + 1] = p
  BY AppendProperties
<1>2. DOMAIN a = 1..(Len(s) + 1) /\ DOMAIN s = 1..Len(s)
  BY <1>1
<1> HIDE DEF a
<1>3. ASSUME NEW i \in DOMAIN a, NEW j \in DOMAIN a, i < j PROVE a[i].t <= a[j].t
  <2>1. i \in DOMAIN s /\ a[i] = s[i]
    BY <1>1, <1>2, <1>3
  <2>2. CASE j \in DOMAIN s
    BY <1>1, <1>2, <1>3, <2>1, <2>2 DEF InOrder
  <2>3. CASE j \notin DOMAIN s
    <3>1. j = Len(s) + 1
      BY <1>1, <1>2, <2>3
    <3>2. a[i] \in ToSet(s) /\ a[j] = p
      BY <1>1, <2>1, <3>1 DEF ToSet
    <3> QED BY <3>2
  <2> QED BY <2>2, <2>3
<1> QED BY <1>1, <1>3 DEF InOrder, a

(* A point that is not older than those of a series is pushed onto it.     *)
LEMMA PushedInOrder ==
    ASSUME NEW h \in Histories, NEW id \in ID, NEW p \in Point,
           id \in DOMAIN h => InOrder(h[id]) /\ \A q \in ToSet(h[id]) : q.t <= p.t
    PROVE  InOrder(PushSample(h, id, p)[id])
<1> DEFINE new == PushSample(h, id, p)
<1>1. /\ id \in DOMAIN h => new[id] = KeepLast(Append(h[id], p), Points)
      /\ id \notin DOMAIN h => new[id] = KeepLast(Append(<< >>, p), Points)
  <2>1. OnePushed(new, h, id, p)
    BY PushedPoints
  <2> HIDE DEF new
  <2> QED BY <2>1 DEF OnePushed
<1> HIDE DEF new
<1>2. CASE id \in DOMAIN h
  <2>1. h[id] \in Seq(Point)
    BY <1>2, HistoryIs
  <2>2. Append(h[id], p) \in Seq(Point) /\ InOrder(Append(h[id], p))
    BY <1>2, <2>1, AppendedInOrder
  <2> QED BY <1>1, <1>2, <2>2, KeptInOrder DEF new
<1>3. CASE id \notin DOMAIN h
  <2>1. << >> \in Seq(Point) /\ InOrder(<< >>) /\ ToSet(<< >>) = {}
    BY DEF InOrder, ToSet
  <2>2. Append(<< >>, p) \in Seq(Point) /\ InOrder(Append(<< >>, p))
    BY <2>1, AppendedInOrder
  <2> QED BY <1>1, <1>3, <2>2, KeptInOrder DEF new
<1> QED BY <1>2, <1>3

(* Where a device has one MAC and one name, at most one of its two ids has *)
(* a series that an upsert of the other moves; and when both have one, the *)
(* points under its name are older than those under its MAC, which came    *)
(* when its row had left the fleet and a poll gave no name.                *)
NameID(e) == <<"host", DistinctiveHostname(e.host)>>
MacID(e) == <<"mac", NormalizeMAC(e.mac)>>
Named(e) == DistinctiveHostname(e.host) # None

OrderInv ==
    /\ \A id \in DOMAIN history :
          InOrder(history[id]) /\ \A p \in ToSet(history[id]) : p.t <= now
    /\ \A e \in Reports :
          Named(e) /\ NameID(e) \in DOMAIN history /\ MacID(e) \in DOMAIN history =>
              \A p \in ToSet(history[NameID(e)]), q \in ToSet(history[MacID(e)]) : p.t <= q.t

LEMMA OneIsSteady == ASSUME OneIdentity PROVE SteadyIdentity
BY DEF OneIdentity, SteadyIdentity, SteadyMAC, Shares

LEMMA IdOfReport ==
    ASSUME OneIdentity, NEW d \in Reports
    PROVE  StableID(d) = IF Named(d) THEN NameID(d) ELSE MacID(d)
BY DEF OneIdentity, StableID, Named, NameID, MacID

LEMMA SameMacSameName ==
    ASSUME OneIdentity, NEW d \in Reports, NEW e \in Reports,
           MacID(d) = MacID(e), Named(d), Named(e)
    PROVE  NameID(d) = NameID(e)
<1>1. NormalizeMAC(d.mac) = NormalizeMAC(e.mac) /\ NormalizeMAC(d.mac) # None
  BY DEF OneIdentity, MacID
<1>2. Shares(d, e)
  BY <1>1 DEF Shares
<1>3. \/ None \in {DistinctiveHostname(d.host), DistinctiveHostname(e.host)}
      \/ DistinctiveHostname(d.host) = DistinctiveHostname(e.host)
  BY <1>2 DEF OneIdentity
<1> QED BY <1>3 DEF Named, NameID

LEMMA SameNameSameMac ==
    ASSUME OneIdentity, NEW d \in Reports, NEW e \in Reports, Named(d), NameID(d) = NameID(e)
    PROVE  MacID(d) = MacID(e)
BY DEF OneIdentity, Shares, Named, NameID, MacID

(* What an upsert moves is under the other id of the same device.          *)
LEMMA MovedMac ==
    ASSUME OneIdentity, OriginInv, NEW d \in Reports, NEW found \in Found(d),
           NEW e \in Reports, StableID(e) \in Moved(d, found)
    PROVE  MacID(e) = MacID(d)
<1>1. PICK c \in Reports : Shares(d, c) /\ Shares(c, e)
  BY MovedIsShared
<1> QED BY <1>1 DEF OneIdentity, MacID

LEMMA MovedPartner ==
    ASSUME OneIdentity, OriginInv, MemInv, NEW d \in Reports, NEW found \in Found(d),
           NEW id \in DOMAIN history \cap Moved(d, found)
    PROVE  /\ Named(d) => id = MacID(d)
           /\ ~Named(d) => \E e \in Reports : Named(e) /\ MacID(e) = MacID(d) /\ id = NameID(e)
<1>1. PICK e \in Reports : StableID(e) = id
  BY DEF MemInv
<1>2. MacID(e) = MacID(d)
  BY <1>1, MovedMac
<1>3. id # StableID(d)
  BY DEF Moved
<1>4. CASE Named(e)
  <2>1. id = NameID(e)
    BY <1>1, <1>4, IdOfReport
  <2>2. ~Named(d)
    BY <1>2, <1>3, <1>4, <2>1, SameMacSameName, IdOfReport
  <2> QED BY <1>2, <1>4, <2>1, <2>2
<1>5. CASE ~Named(e)
  <2>1. id = MacID(d)
    BY <1>1, <1>2, <1>5, IdOfReport
  <2>2. Named(d)
    BY <1>3, <2>1, IdOfReport
  <2> QED BY <2>1, <2>2
<1> QED BY <1>4, <1>5

(* So at most one id with a series is moved.                               *)
LEMMA OneIsMoved ==
    ASSUME OneIdentity, OriginInv, MemInv, NEW d \in Reports, NEW found \in Found(d),
           NEW i \in DOMAIN history \cap Moved(d, found),
           NEW j \in DOMAIN history \cap Moved(d, found)
    PROVE  i = j
<1>1. CASE Named(d)
  BY <1>1, MovedPartner
<1>2. CASE ~Named(d)
  <2>1. PICK e \in Reports : Named(e) /\ MacID(e) = MacID(d) /\ i = NameID(e)
    BY <1>2, MovedPartner
  <2>2. PICK f \in Reports : Named(f) /\ MacID(f) = MacID(d) /\ j = NameID(f)
    BY <1>2, MovedPartner
  <2> QED BY <2>1, <2>2, SameMacSameName
<1> QED BY <1>1, <1>2

(* A poll without the name finds the row that has it: the series moves to  *)
(* the MAC, which has none.                                                *)
LEMMA MovedToMac ==
    ASSUME OneIdentity, OriginInv, MemInv, OneSeriesPerRow,
           NEW d \in Reports, NEW found \in Found(d), ~Named(d),
           NEW id \in DOMAIN history \cap Moved(d, found)
    PROVE  StableID(d) \notin DOMAIN history
<1>1. PICK e \in Reports : Named(e) /\ MacID(e) = MacID(d) /\ id = NameID(e)
  BY MovedPartner
<1>2. StableID(d) = MacID(d)
  BY IdOfReport
<1>3. id[1] = "host" /\ id[2] # None
  BY <1>1 DEF NameID, Named
<1>4. id \notin Aliases(d)
  <2> SUFFICES ASSUME id \in Aliases(d) PROVE FALSE
    OBVIOUS
  <2>1. PICK i \in 1..5 : id = AliasList(d)[i]
    BY DEF Aliases
  <2>2. i = 1 \/ i = 2 \/ i = 3 \/ i = 4 \/ i = 5
    OBVIOUS
  <2> QED BY <1>3, <2>1, <2>2 DEF AliasList, Named
<1>5. id \in DOMAIN miners
  BY <1>4, FoundInMap DEF Moved, SameAddress
<1> DEFINE r == miners[id]
<1>6. StableID(r) = id /\ FromReport(r)
  BY <1>5 DEF OriginInv, FleetInv, KeyedByIdentity, RowsReported
<1>7. DistinctiveHostname(r.host) = id[2] /\ r.host # None
  <2>1. DistinctiveHostname(r.host) # None
    BY <1>3, <1>6 DEF StableID
  <2> QED BY <1>6, <2>1 DEF StableID, DistinctiveHostname
<1>8. PICK c \in Reports : r.host = c.host /\ NormalizeMAC(r.mac) = NormalizeMAC(c.mac)
  BY <1>6, <1>7 DEF FromReport
<1>9. Named(c) /\ NameID(c) = NameID(e)
  BY <1>1, <1>3, <1>7, <1>8 DEF Named, NameID
<1>10. NormalizeMAC(r.mac) = NormalizeMAC(d.mac) /\ NormalizeMAC(d.mac) # None
  BY <1>1, <1>8, <1>9, SameNameSameMac DEF MacID, OneIdentity
<1>11. MacID(d) \in Aliases(r)
  <2>1. AliasList(r)[4] = MacID(d) /\ MacID(d)[2] # None /\ MacID(d) # StableID(r)
    BY <1>3, <1>6, <1>10 DEF AliasList, MacID
  <2>2. 4 \in 1..5
    OBVIOUS
  <2> QED BY <2>1, <2>2 DEF Aliases
<1> QED BY <1>2, <1>5, <1>11 DEF OneSeriesPerRow

LEMMA UpsertKeepsOrder ==
    ASSUME ~UseSQLite, PollLag = 0, OneIdentity, OriginInv, MemInv, OneSeriesPerRow, OrderInv,
           NEW d \in Reports, NEW found \in Found(d), NEW order \in RekeyOrders(d, found),
           NEW at \in PollTimes, UpsertStart(d, found, order, at)
    PROVE  OrderInv'
<1> DEFINE id == StableID(d)
           p == PollPoint(d, at)
           h == MoveAll(order, id)
           M == DOMAIN history \cap Moved(d, found)
<1>1. /\ id \in ID /\ order \in Seq(ID) /\ p \in Point
      /\ ToSet(order) = Moved(d, found) /\ id \notin Moved(d, found)
      /\ history' = PushSample(h, id, p)
      /\ DOMAIN history' = (DOMAIN history \ Moved(d, found)) \cup {id}
      /\ \A k \in DOMAIN history' \ {id} : history'[k] = history[k]
      /\ \A q \in ToSet(history'[id]) :
            q = p \/ \E k \in DOMAIN history \cap (Moved(d, found) \cup {id}) :
                        q \in ToSet(history[k])
  BY UpsertedSeries DEF MemInv, OriginInv
<1>2. now' = now /\ now \in Nat /\ p.t = now
  <2>1. now' = now /\ now \in Nat
    BY FleetAssumption DEF UpsertStart, UpsertLive, OriginInv, FleetInv, FleetTypeOK
  <2>2. at = now
    BY <2>1 DEF PollTimes
  <2> QED BY <2>1, <2>2 DEF PollPoint
<1>3. history \in Histories
  BY DEF MemInv
<1>4. \A k \in ToSet(order) : k # id
  BY <1>1
<1>5. \A k \in DOMAIN history : /\ history[k] \in Series /\ InOrder(history[k])
                                /\ \A q \in ToSet(history[k]) : q.t <= now
  BY <1>3, HistoryIs DEF OrderInv, Series
<1> HIDE DEF p
<1>6. h \in Histories /\ (id \in DOMAIN h => InOrder(h[id]) /\ \A q \in ToSet(h[id]) : q.t <= now)
  <2>1. CASE M = {}
    <3>1. h = history
      BY <1>1, <2>1 DEF MoveAll
    <3> QED BY <1>3, <1>5, <3>1
  <2>2. CASE M # {}
    <3>1. PICK src \in DOMAIN history \cap ToSet(order) : TRUE
      BY <1>1, <2>2
    <3>2. \A k \in DOMAIN history \cap ToSet(order) : k = src
      BY <1>1, <3>1, OneIsMoved
    <3>3. h = MoveSeries(history, src, id)
      BY <1>1, <1>3, <1>4, <3>2, OneMove
    <3>4. src # id /\ src \in Moved(d, found)
      BY <1>1, <1>4
    <3> HIDE DEF h
    <3>5. /\ h \in Histories
          /\ id \in DOMAIN history => h[id] = KeepLast(history[id] \o history[src], Points)
          /\ id \notin DOMAIN history => h[id] = history[src]
          /\ ToSet(h[id]) \subseteq PointsOf(history, id) \cup PointsOf(history, src)
      <4>1. OneMoved(MoveSeries(history, src, id), history, src, id)
        BY <1>1, <1>3, <3>4, MoveSeriesIs
      <4>2. OneMoved(h, history, src, id)
        BY <3>3, <4>1
      <4> QED BY <4>2 DEF OneMoved
    <3>6. \A q \in ToSet(h[id]) : q.t <= now
      BY <1>5, <3>5 DEF PointsOf
    <3>7. InOrder(h[id])
      <4>1. CASE id \notin DOMAIN history
        BY <1>5, <3>5, <4>1
      <4>2. CASE id \in DOMAIN history
        <5>1. Named(d)
          BY <3>4, <4>2, MovedToMac
        <5>2. id = NameID(d) /\ src = MacID(d)
          BY <3>4, <5>1, MovedPartner, IdOfReport
        <5>3. \A a \in ToSet(history[id]), b \in ToSet(history[src]) : a.t <= b.t
          BY <4>2, <5>1, <5>2 DEF OrderInv
        <5>4. InOrder(history[id] \o history[src]) /\ history[id] \o history[src] \in Seq(Point)
          BY <1>5, <4>2, <5>3, JoinedInOrder, JoinedPoints
        <5> QED BY <3>5, <4>2, <5>4, KeptInOrder
      <4> QED BY <4>1, <4>2
    <3> QED BY <3>5, <3>6, <3>7
  <2> QED BY <2>1, <2>2
<1> HIDE DEF h
<1>7. InOrder(history'[id])
  BY <1>1, <1>2, <1>6, PushedInOrder
<1>8. \A q \in ToSet(history'[id]) : q.t <= now
  BY <1>1, <1>2, <1>5
<1>9. ASSUME NEW k \in DOMAIN history'
      PROVE  InOrder(history'[k]) /\ \A q \in ToSet(history'[k]) : q.t <= now'
  <2>1. CASE k = id
    BY <1>2, <1>7, <1>8, <2>1
  <2>2. CASE k # id
    BY <1>1, <1>2, <1>5, <2>2
  <2> QED BY <2>1, <2>2
<1>10. ASSUME NEW e \in Reports, Named(e),
              NameID(e) \in DOMAIN history', MacID(e) \in DOMAIN history',
              NEW a \in ToSet(history'[NameID(e)]), NEW b \in ToSet(history'[MacID(e)])
       PROVE  a.t <= b.t
  <2>0. NameID(e) # MacID(e)
    BY DEF NameID, MacID
  <2>1. ASSUME NameID(e) = id PROVE FALSE
    <3>1. Named(d) /\ NameID(d) = NameID(e)
      BY <2>1, IdOfReport DEF NameID, MacID
    <3>2. MacID(e) = MacID(d)
      BY <3>1, SameNameSameMac
    <3>3. MacID(d) \in Aliases(d)
      <4>1. AliasList(d)[4] = MacID(d) /\ MacID(d)[2] # None /\ MacID(d) # StableID(d)
        BY <2>0, <2>1, <3>2 DEF AliasList, MacID, OneIdentity
      <4>2. 4 \in 1..5
        OBVIOUS
      <4> QED BY <4>1, <4>2 DEF Aliases
    <3>4. MacID(e) \in Moved(d, found)
      BY <2>0, <2>1, <3>2, <3>3 DEF Moved, MacID, NoID
    <3> QED BY <1>1, <1>10, <2>0, <2>1, <3>4
  <2>2. NameID(e) \in DOMAIN history /\ NameID(e) \notin Moved(d, found)
        /\ a \in ToSet(history[NameID(e)])
    BY <1>1, <1>10, <2>1
  <2>3. CASE MacID(e) # id
    <3>1. MacID(e) \in DOMAIN history /\ b \in ToSet(history[MacID(e)])
      BY <1>1, <1>10, <2>3
    <3> QED BY <1>10, <2>2, <3>1 DEF OrderInv
  <2>4. CASE MacID(e) = id
    <3>1. ~Named(d) /\ MacID(d) = MacID(e)
      BY <2>4, IdOfReport DEF NameID, MacID
    <3>2. b = p \/ \E k \in DOMAIN history \cap (Moved(d, found) \cup {id}) :
                     b \in ToSet(history[k])
      BY <1>1, <1>10, <2>4
    <3>3. CASE b = p
      BY <1>2, <1>5, <2>2, <3>3
    <3>4. ASSUME NEW k \in DOMAIN history \cap (Moved(d, found) \cup {id}),
                 b \in ToSet(history[k])
          PROVE  a.t <= b.t
      <4>1. CASE k = id
        BY <1>10, <2>2, <2>4, <3>4, <4>1 DEF OrderInv
      <4>2. CASE k \in Moved(d, found)
        <5>1. PICK f \in Reports : Named(f) /\ MacID(f) = MacID(d) /\ k = NameID(f)
          BY <3>1, <3>4, <4>2, MovedPartner
        <5>2. k = NameID(e)
          BY <1>10, <3>1, <5>1, SameMacSameName
        <5> QED BY <2>2, <4>2, <5>2
      <4> QED BY <4>1, <4>2
    <3> QED BY <3>2, <3>3, <3>4
  <2> QED BY <2>3, <2>4
<1> QED BY <1>9, <1>10 DEF OrderInv

LEMMA OrderInvStep ==
    ASSUME ~UseSQLite, PollLag = 0, OneIdentity
    PROVE  OriginInv /\ MemInv /\ OneSeriesPerRow /\ OrderInv /\ [StoreNext]_storeVars
             => OrderInv'
<1> SUFFICES ASSUME OriginInv, MemInv, OneSeriesPerRow, OrderInv, [StoreNext]_storeVars
             PROVE  OrderInv'
  OBVIOUS
<1>1. ASSUME history' = history, now' \in Nat, now <= now' PROVE OrderInv'
  <2>1. ASSUME NEW k \in DOMAIN history, NEW q \in ToSet(history[k])
        PROVE  q.t <= now'
    <3>1. history[k] \in Seq(Point)
      BY HistoryIs DEF MemInv
    <3>2. q \in Point
      BY <3>1 DEF ToSet
    <3>3. q.t \in Nat /\ q.t <= now /\ now \in Nat
      BY <3>2, FleetAssumption
      DEF Point, OrderInv, OriginInv, FleetInv, FleetTypeOK
    <3> QED BY <1>1, <3>3
  <2> QED BY <1>1, <2>1 DEF OrderInv
<1>2. now \in Nat
  BY FleetAssumption DEF OriginInv, FleetInv, FleetTypeOK
<1>3. CASE history' = history /\ (Prune \/ Advance \/ UNCHANGED fleetVars)
  BY <1>1, <1>2, <1>3 DEF Prune, Advance, fleetVars
<1>4. ASSUME history' = history, NEW ip \in IPs, NEW found \in Found(Failed(ip)),
             UpsertFailed(Failed(ip), found)
      PROVE  OrderInv'
  BY <1>1, <1>2, <1>4 DEF UpsertFailed
<1>5. CASE history' = NoHistory
  BY <1>5, NoHistoryIs DEF OrderInv
<1> QED BY <1>3, <1>4, <1>5, MemoryStep, UpsertKeepsOrder

(* In memory, and where upserts follow their polls at once, the points of  *)
(* a series are in the order of time, although the points of one id are    *)
(* pushed after those of the other when two ids of a device are merged     *)
(* (rekeyLocked, pushLocked).  SeriesInOrder holds the condition on the    *)
(* reports that this needs.                                                *)
THEOREM SeriesStayInOrder == ~UseSQLite /\ PollLag = 0 => (StoreSpec => []SeriesInOrder)
<1> SUFFICES ASSUME ~UseSQLite, PollLag = 0 PROVE StoreSpec => []SeriesInOrder
  OBVIOUS
<1>1. CASE OneIdentity
  <2>1. StoreInit => OrderInv
    BY NoHistoryIs DEF StoreInit, OrderInv
  <2>2. StoreSpec => []OrderInv
    BY <1>1, <2>1, OneIsSteady, OneSeriesAlways, OrderInvStep, MemInvAlways,
       StoreOrigin, PTL DEF StoreSpec
  <2>3. OrderInv => SeriesInOrder
    BY DEF OrderInv, InOrder, SeriesInOrder
  <2> QED BY <2>2, <2>3, PTL
<1>2. CASE ~OneIdentity
  <2>1. SeriesInOrder
    BY <1>2 DEF SeriesInOrder
  <2> QED BY <2>1, PTL
<1> QED BY <1>1, <1>2
=============================================================================
