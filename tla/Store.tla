------------------------------- MODULE Store --------------------------------
(***************************************************************************)
(* The store with its metric history: Fleet, the in-memory rings (one      *)
(* series per miner stands for the eleven metrics, which are treated       *)
(* alike), and the SQLite table.  Upsert holds Store.mu for its first part *)
(* (UpsertStart), then renames and inserts in SQLite, one transaction per  *)
(* step; a transaction may fail, and the process may stop, between any two *)
(* of them.  Only the poll goroutine writes, so writers do not overlap.    *)
(***************************************************************************)
EXTENDS Fleet, Recent, SequencesExt

CONSTANTS
    UseSQLite,  \* whether sqlite_path names a database
    Points,     \* history_points: length of the in-memory rings
    Retention,  \* history_retention in ticks; 0 keeps samples for ever
    PollLag,    \* bound on the time from a poll to its upsert
    MaxFaults   \* bound on the failed transactions of a behaviour

ASSUME StoreAssumption ==
    /\ UseSQLite \in BOOLEAN
    /\ Points \in Nat \ {0}
    /\ Retention \in Int
    /\ PollLag \in Nat
    /\ MaxFaults \in Nat

VARIABLES
    history,    \* id |-> its ring as a sequence of points (memory mode)
    db,         \* the rows of metric_samples, keyed by (id, t)
    work,       \* what is left of the Upsert in progress after it unlocked
    faults      \* transactions that have failed

storeVars == <<miners, now, history, db, work, faults>>

Point == [t : Nat, box : Optional(Boxes)]
Sample == [id : ID, t : Nat, box : Optional(Boxes)]

(* renames are the ids still to be renamed to id; missed is whether one of *)
(* this Upsert's renames failed.                                           *)
Work == [id : ID, renames : Seq(ID), point : Point, missed : BOOLEAN]
Idle == [id |-> NoID, renames |-> << >>, point |-> [t |-> 0, box |-> None],
         missed |-> FALSE]

-----------------------------------------------------------------------------
(* Mutant: the alias left by builds that keyed by MAC is forgotten. *)
MovedNoMAC(d, found) ==
    (found \cup SameAddress(d) \cup { a \in Aliases(d) : a[1] # "mac" })
    \ {StableID(d), NoID}

(* The ids whose history an upsert of d moves to StableID(d).              *)
Moved(d, found) == (found \cup SameAddress(d) \cup Aliases(d)) \ {StableID(d), NoID}

(* The order of the code: the row it found, the other rows at the address  *)
(* (in any order, a map is ranged over), the aliases as they are listed.   *)
Rank(d, found, a) ==
    IF a \in found THEN 0 ELSE IF a \in SameAddress(d) THEN 1
    ELSE 1 + CHOOSE i \in 1..5 : AliasList(d)[i] = a

RekeyOrders(d, found) ==
    { s \in SetToSeqs(Moved(d, found)) :
        \A i, j \in DOMAIN s : i < j => Rank(d, found, s[i]) <= Rank(d, found, s[j]) }

(* Mutant: points of the older id are put before those that are there. *)
MoveBefore(h, src, dst) ==
    IF src \notin DOMAIN h THEN h
    ELSE [i \in (DOMAIN h \ {src}) \cup {dst} |->
            IF i # dst THEN h[i]
            ELSE IF dst \in DOMAIN h THEN KeepLast(h[src] \o h[dst], Points)
            ELSE h[src]]

(* rekeyLocked on history: a series moves to an id that has none, else its *)
(* points are pushed onto the series that is there.                        *)
MoveSeries(h, src, dst) ==
    IF src \notin DOMAIN h THEN h
    ELSE [i \in (DOMAIN h \ {src}) \cup {dst} |->
            IF i # dst THEN h[i]
            ELSE IF dst \in DOMAIN h THEN KeepLast(h[dst] \o h[src], Points)
            ELSE h[src]]

(* There is nothing to move in a store with a database. *)
MoveAll(order, dst) ==
    IF DOMAIN history \cap ToSet(order) = {} THEN history
    ELSE FoldLeft(LAMBDA h, src : MoveSeries(h, src, dst), history, order)

(* Mutant: the series is not bounded. *)
PushUnbounded(h, id, p) ==
    [i \in DOMAIN h \cup {id} |->
        IF i # id THEN h[i]
        ELSE Append(IF id \in DOMAIN h THEN h[id] ELSE << >>, p)]

(* pushLocked. *)
PushSample(h, id, p) ==
    [i \in DOMAIN h \cup {id} |->
        IF i # id THEN h[i]
        ELSE KeepLast(Append(IF id \in DOMAIN h THEN h[id] ELSE << >>, p), Points)]

(* The part of Upsert that runs under the lock, for a poll made at time at.*)
UpsertStart(d, found, order, at) ==
    LET id == StableID(d)
        p  == [t |-> at, box |-> d.box]
    IN  /\ work = Idle
        /\ UpsertLive(d, found, Aliases(d) \cap DOMAIN history)
        /\ history' = IF UseSQLite THEN MoveAll(order, id)
                      ELSE PushSample(MoveAll(order, id), id, p)
        /\ work' = IF UseSQLite
                   THEN [id |-> id, renames |-> order, point |-> p, missed |-> FALSE]
                   ELSE Idle
        /\ UNCHANGED <<db, faults>>

(* Mutant: an error makes a row even when its miner has one. *)
ErrorAlwaysNew(ip, found) ==
    /\ work = Idle
    /\ UpsertFailed(Failed(ip), {})
    /\ UNCHANGED <<history, db, work, faults>>

UpsertError(ip, found) ==
    /\ work = Idle
    /\ UpsertFailed(Failed(ip), found)
    /\ UNCHANGED <<history, db, work, faults>>

-----------------------------------------------------------------------------
(* Mutant: the old rows are deleted, and not copied. *)
RenamedNoCopy(rows, src, dst) == { r \in rows : r.id # src }

(* renameMetrics: rows that have no counterpart under the new id are       *)
(* copied, then every row of the old id is deleted.                        *)
Renamed(rows, src, dst) ==
    { r \in rows : r.id # src }
    \cup { [r EXCEPT !.id = dst] :
             r \in { r \in rows : /\ r.id = src
                                  /\ \A q \in rows : ~(q.id = dst /\ q.t = r.t) } }

RenameMetrics ==
    /\ work.renames # << >>
    /\ db' = Renamed(db, Head(work.renames), work.id)
    /\ work' = [work EXCEPT !.renames = Tail(@)]
    /\ UNCHANGED <<miners, now, history, faults>>

(* A failed rename is logged and skipped. *)
RenameFails ==
    /\ work.renames # << >>
    /\ faults < MaxFaults
    /\ faults' = faults + 1
    /\ work' = [work EXCEPT !.renames = Tail(@), !.missed = TRUE]
    /\ UNCHANGED <<miners, now, history, db>>

(* insertSamples: a row with the same key is overwritten. *)
Inserted(rows, id, p) ==
    { r \in rows : ~(r.id = id /\ r.t = p.t) }
    \cup {[id |-> id, t |-> p.t, box |-> p.box]}

InsertSamples ==
    /\ work # Idle
    /\ work.renames = << >>
    /\ db' = Inserted(db, work.id, work.point)
    /\ work' = Idle
    /\ UNCHANGED <<miners, now, history, faults>>

InsertFails ==
    /\ work # Idle
    /\ work.renames = << >>
    /\ faults < MaxFaults
    /\ faults' = faults + 1
    /\ work' = Idle
    /\ UNCHANGED <<miners, now, history, db>>

(* The retention prune of MarkPoll. *)
Kept(r) == r.t >= now - Retention

MarkPoll ==
    /\ work = Idle
    /\ UseSQLite /\ Retention > 0
    /\ db' = { r \in db : Kept(r) }
    /\ UNCHANGED <<miners, now, history, work, faults>>

MarkPollFails ==
    /\ work = Idle
    /\ UseSQLite /\ Retention > 0
    /\ faults < MaxFaults
    /\ faults' = faults + 1
    /\ UNCHANGED <<miners, now, history, db, work>>

(* Store.Prune drops rows of the fleet and keeps their history. *)
PruneFleet ==
    /\ work = Idle
    /\ Prune
    /\ UNCHANGED <<history, db, work, faults>>

(* The process stops at any point and starts again: only the database is   *)
(* left.                                                                   *)
NoHistory == [id \in {} |-> << >>]

RestartStore ==
    /\ Restart
    /\ history' = NoHistory
    /\ work' = Idle
    /\ UNCHANGED <<db, faults>>

AdvanceStore ==
    /\ Advance
    /\ UNCHANGED <<history, db, work, faults>>

-----------------------------------------------------------------------------
StoreInit ==
    /\ FleetInit
    /\ history = NoHistory
    /\ db = {}
    /\ work = Idle
    /\ faults = 0

PollTimes == { t \in 1..now : t >= now - PollLag }

StoreNext ==
    \/ /\ work = Idle
       /\ \E d \in Reports : \E found \in Found(d) :
             \E order \in RekeyOrders(d, found), at \in PollTimes :
                UpsertStart(d, found, order, at)
    \/ \E ip \in IPs : \E found \in Found(Failed(ip)) : UpsertError(ip, found)
    \/ RenameMetrics
    \/ RenameFails
    \/ InsertSamples
    \/ InsertFails
    \/ MarkPoll
    \/ MarkPollFails
    \/ PruneFleet
    \/ RestartStore
    \/ AdvanceStore

StoreSpec == StoreInit /\ [][StoreNext]_storeVars

-----------------------------------------------------------------------------
(* The shapes of the history, the table and the work in progress, and the  *)
(* primary key of the table.                                               *)
StoreTypeOK ==
    /\ DOMAIN history \subseteq ID
    /\ \A id \in DOMAIN history :
          history[id] \in Seq(Point) /\ Len(history[id]) \in 1..Points
    /\ db \subseteq Sample
    /\ \A r, q \in db : r.id = q.id /\ r.t = q.t => r = q
    /\ work \in Work
    /\ faults \in 0..MaxFaults

(* Orphan history is healed "even when those keys are no longer in the     *)
(* live fleet map (e.g. after restart)" (store.go:198): once the renames   *)
(* of an upsert are done, and none failed, no sample is left under another *)
(* id this device may have been stored under.                              *)
HealedByUpsert ==
    work # Idle /\ work.renames = << >> /\ ~work.missed =>
        \A r \in db : r.id \notin Aliases(miners[work.id])

(* In memory the same holds of every row at any time: its history is in    *)
(* one place, not split between its id and one it had before.              *)
OneSeriesPerRow ==
    \A id \in DOMAIN miners : Aliases(miners[id]) \cap DOMAIN history = {}

(* "DHCP IP changes don't ... break chart history" (README:89): a sample   *)
(* stored under the id a box has is a sample of that box, after any number *)
(* of promotions, merges, failed renames and restarts.                     *)
Attribution ==
    \A d \in Reports :
        /\ \A r \in db : r.id = StableID(d) => r.box = d.box
        /\ StableID(d) \in DOMAIN history =>
              \A i \in DOMAIN history[StableID(d)] :
                  history[StableID(d)][i].box = d.box

(* A chart line runs forward: the points of a series are in the order of   *)
(* time (historyFromMemory returns a ring as it is, store.go:487), although*)
(* rekeyLocked appends the points of one id after those of the other.      *)
(* Only where a device has one MAC and one name: one that is renamed, out  *)
(* of the fleet in between, and renamed back has two series that are then  *)
(* merged out of order.                                                    *)
SeriesInOrder ==
  OneIdentity =>
    \A id \in DOMAIN history :
        \A i, j \in DOMAIN history[id] :
            i < j => history[id][i].t <= history[id][j].t

(* The store implements the fleet map: history neither blocks nor changes  *)
(* what Upsert and Prune do to the rows.                                   *)
ImplementsFleet == FleetSpec

(* "Samples older than this are deleted" (README:127), and no others: told *)
(* by device, a recorded sample stays until retention, whatever ids it was *)
(* moved through, whichever transactions failed, wherever the process      *)
(* stopped.                                                                *)
DH == INSTANCE DeviceHistory WITH
          Devices <- Optional(Boxes),
          recorded <- { <<r.box, r.t>> : r \in db },
          clock <- now

SamplesStay == DH!HistorySpec
=============================================================================
