------------------------------- MODULE Fleet -------------------------------
(***************************************************************************)
(* The live fleet map of internal/store: Upsert, rekeyLocked,              *)
(* findMinerLocked and Prune.  Each action is one critical section of      *)
(* Store.mu, so it is atomic here; the SQLite work Upsert does after it    *)
(* has unlocked is in module Store.                                        *)
(***************************************************************************)
EXTENDS Identity, Integers

CONSTANTS
    Reports,    \* the successful poll results the miners can produce
    TTL,        \* miner_ttl in ticks; 0 disables pruning
    MaxTime     \* bound on the clock

ASSUME FleetAssumption ==
    /\ Reports \subseteq Report
    /\ TTL \in Int
    /\ MaxTime \in Nat \ {0}

VARIABLES
    miners,     \* id |-> row: the map s.miners
    now         \* the clock

fleetVars == <<miners, now>>

Row == [ip : Optional(IPs), host : Optional(HostNames),
        mac : Optional(MACs), serial : Optional(Serials),
        box : Optional(Boxes), err : BOOLEAN, seen : Nat]

(* Mutant: an error that makes a row does not start its TTL clock. *)
RowOfUnseenError(d, failed, t) ==
    [ip |-> d.ip, host |-> d.host, mac |-> d.mac, serial |-> d.serial,
     box |-> d.box, err |-> failed, seen |-> IF failed THEN 0 ELSE t]

(* A row made from a poll result. *)
RowOf(d, failed, t) ==
    [ip |-> d.ip, host |-> d.host, mac |-> d.mac, serial |-> d.serial,
     box |-> d.box, err |-> failed, seen |-> t]

(* The detail of a worker that could not reach its miner: only the address *)
(* it tried is known.                                                      *)
Failed(ip) ==
    [ip |-> ip, host |-> None, mac |-> None, serial |-> None, box |-> None]

(* The zero Detail of a worker that was cancelled. *)
Blank == Failed(None)

-----------------------------------------------------------------------------
(* findMinerLocked: the tiers it tries, in order.  Within a tier the map   *)
(* is ranged over, so any match may be the one returned.                   *)

ExactMatch(d) == { id \in DOMAIN miners : id = StableID(d) /\ id # NoID }

(* Mutant: rows without a name of their own match a poll without one. *)
HostMatchUnguarded(d) ==
    { id \in DOMAIN miners :
        DistinctiveHostname(miners[id].host) = DistinctiveHostname(d.host) }

HostMatch(d) ==
    { id \in DOMAIN miners :
        /\ DistinctiveHostname(d.host) # None
        /\ DistinctiveHostname(miners[id].host) = DistinctiveHostname(d.host) }

(* Mutant: the MAC is compared as it was reported. *)
MacMatchRaw(d) ==
    { id \in DOMAIN miners : NormalizeMAC(d.mac) # None /\ miners[id].mac = d.mac }

MacMatch(d) ==
    { id \in DOMAIN miners :
        /\ NormalizeMAC(d.mac) # None
        /\ NormalizeMAC(miners[id].mac) = NormalizeMAC(d.mac) }

SerialMatch(d) ==
    { id \in DOMAIN miners :
        /\ d.serial # None
        /\ SerialKey(miners[id].serial) = SerialKey(d.serial) }

IPMatch(d) == { id \in DOMAIN miners : d.ip # None /\ miners[id].ip = d.ip }

Tiers(d) ==
    <<ExactMatch(d), HostMatch(d), MacMatch(d), SerialMatch(d), IPMatch(d)>>

(* The rows of the first tier that has any; empty when nothing matches. *)
FindMiner(d) ==
    LET tier == Tiers(d)
    IN  UNION { tier[i] : i \in { i \in 1..5 :
                   tier[i] # {} /\ \A j \in 1..(i - 1) : tier[j] = {} } }

(* What findMinerLocked may return, as a set: one row, or none. *)
Found(d) ==
    LET matches == FindMiner(d)
    IN  IF matches = {} THEN {{}} ELSE { {id} : id \in matches }

-----------------------------------------------------------------------------
(* Mutant: the sweep of Upsert is left out. *)
NoSweep(d) == {}

(* Rows under another id that still point at the address of d. *)
SameAddress(d) ==
    { id \in DOMAIN miners : d.ip # None /\ miners[id].ip = d.ip }

(* The ids a successful upsert of d folds into StableID(d): the row it     *)
(* found, the rows at its address, and the aliases that hold in-memory     *)
(* history (rekeyLocked runs on an alias only when s.history has it).      *)
Folded(d, found, held) ==
    (found \cup SameAddress(d) \cup (Aliases(d) \cap held)) \ {StableID(d), NoID}

(* s.miners with the ids in gone deleted and row r stored under id. *)
Replace(gone, id, r) ==
    [i \in (DOMAIN miners \ gone) \cup {id} |-> IF i = id THEN r ELSE miners[i]]

(* Upsert of a successful poll: one critical section. *)
UpsertLive(d, found, held) ==
    /\ miners' = Replace(Folded(d, found, held), StableID(d),
                         RowOf(ApplyStableID(d), FALSE, now))
    /\ UNCHANGED now

(* Mutant: a failed poll replaces the snapshot, its identity included. *)
ErrorWipes(d, id) == RowOf(d, TRUE, miners[id].seen)

(* Upsert of a failed poll: the error is merged onto the row it finds, or  *)
(* becomes a row of its own, keyed by the address that was tried.          *)
MergeError(d, id) ==
    [miners[id] EXCEPT !.err = TRUE, !.ip = IF d.ip # None THEN d.ip ELSE @]

UpsertFailed(d, found) ==
    /\ miners' =
         IF found = {}
         THEN Replace({}, StableID(d), RowOf(ApplyStableID(d), TRUE, now))
         ELSE [id \in DOMAIN miners |->
                 IF id \in found THEN MergeError(d, id) ELSE miners[id]]
    /\ UNCHANGED now

(* Mutant: off by one at the cutoff. *)
ExpiredEarly(id) == TTL > 0 /\ miners[id].seen <= now - TTL

(* Prune: a row is dropped when it was last seen before the cutoff. *)
Expired(id) == TTL > 0 /\ miners[id].seen < now - TTL

Prune ==
    /\ miners' = [id \in { i \in DOMAIN miners : ~Expired(i) } |-> miners[id]]
    /\ UNCHANGED now

(* The process restarts: the map is not persisted. *)
NoMiners == [id \in {} |-> Blank]

Restart ==
    /\ miners' = NoMiners
    /\ UNCHANGED now

Advance ==
    /\ now < MaxTime
    /\ now' = now + 1
    /\ UNCHANGED miners

-----------------------------------------------------------------------------
FleetInit ==
    /\ miners = NoMiners
    /\ now = 1

(* Which aliases hold history depends on the store's mode and on earlier   *)
(* polls; here it is left open, so that what holds of FleetSpec holds with *)
(* SQLite and without it.                                                  *)
FleetNext ==
    \/ Prune
    \/ Restart
    \/ Advance
    \/ \E ip \in IPs : \E found \in Found(Failed(ip)) :
          UpsertFailed(Failed(ip), found)
    \/ \E d \in Reports : \E found \in Found(d), held \in SUBSET Aliases(d) :
          UpsertLive(d, found, held)

FleetSpec == FleetInit /\ [][FleetNext]_fleetVars

-----------------------------------------------------------------------------
(* Every row is well formed and was seen no later than now. *)
FleetTypeOK ==
    /\ now \in 1..MaxTime
    /\ DOMAIN miners \subseteq ID
    /\ \A id \in DOMAIN miners :
          /\ miners[id] \in Row
          /\ miners[id].seen \in 1..now

(* A row is stored under the id its own fields give: whatever a failed     *)
(* poll, a promotion or a merge wrote into the row, the next poll of the   *)
(* same miner computes the key the row is already under (store.go Upsert). *)
KeyedByIdentity ==
    \A id \in DOMAIN miners : StableID(miners[id]) = id

(* No address is shown twice: the sweep of Upsert, and the address lookup  *)
(* of a failed poll, leave at most one row at each address (store.go:184). *)
UniqueAddress ==
    \A i, j \in DOMAIN miners :
        miners[i].ip = miners[j].ip /\ miners[i].ip # None => i = j

(* A distinctive name that comes with MAC m comes with no other, and never *)
(* without it.                                                             *)
SteadyMAC(m) ==
    \A d, e \in Reports :
        /\ NormalizeMAC(d.mac) = m
        /\ DistinctiveHostname(d.host) # None
        /\ DistinctiveHostname(d.host) = DistinctiveHostname(e.host)
        => NormalizeMAC(e.mac) = m

(* So it is of all MACs, and every report carries a usable one. *)
SteadyIdentity ==
    \A d \in Reports : NormalizeMAC(d.mac) # None /\ SteadyMAC(NormalizeMAC(d.mac))

(* "DHCP IP changes don't split one box into two rows" (README:89): no two *)
(* rows carry one steady MAC, whatever addresses the device had and        *)
(* whichever polls left its name out.                                      *)
OneRowPerMAC ==
    \A i, j \in DOMAIN miners :
        LET m == NormalizeMAC(miners[i].mac)
        IN  m # None /\ SteadyMAC(m) /\ NormalizeMAC(miners[j].mac) = m => i = j

(* Two reports that share any part of an identity, or an address. *)
Shares(d, e) ==
    \/ StableID(d) = StableID(e)
    \/ DistinctiveHostname(d.host) # None
       /\ DistinctiveHostname(d.host) = DistinctiveHostname(e.host)
    \/ NormalizeMAC(d.mac) # None /\ NormalizeMAC(d.mac) = NormalizeMAC(e.mac)
    \/ d.serial # None /\ SerialKey(d.serial) = SerialKey(e.serial)
    \/ d.ip # None /\ d.ip = e.ip

(* Names, serials and addresses belong to one box each: in particular, no  *)
(* address is ever leased to a second box.                                 *)
OwnIdentity == \A d, e \in Reports : Shares(d, e) => d.box = e.box

(* Every report carries a usable MAC; reports that share any part of an    *)
(* identity, or an address, carry the same one, and the same name if both  *)
(* give one.                                                               *)
OneIdentity ==
    \A d, e \in Reports :
        /\ NormalizeMAC(d.mac) # None
        /\ Shares(d, e) =>
              /\ NormalizeMAC(d.mac) = NormalizeMAC(e.mac)
              /\ None \in {DistinctiveHostname(d.host), DistinctiveHostname(e.host)}
                 \/ DistinctiveHostname(d.host) = DistinctiveHostname(e.host)

(* "Discovered miners stay in the fleet until miner_ttl after last         *)
(* successful poll" (README:85): while the process runs, a box with a row  *)
(* that was last seen within the TTL still has a row after any step.       *)
(* Promotions, merges and the address sweep delete rows; none of them may  *)
(* delete the last row of a box.                                           *)
KeepsBox(id) ==
    \E j \in DOMAIN miners' : miners'[j].box = miners[id].box

StaysUntilTTL ==
    [][ Restart \/ \A id \in DOMAIN miners :
            /\ miners[id].box # None
            /\ TTL <= 0 \/ miners[id].seen >= now - TTL
            => KeepsBox(id) ]_fleetVars
=============================================================================
