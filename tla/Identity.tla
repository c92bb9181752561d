------------------------------ MODULE Identity ------------------------------
(***************************************************************************)
(* How a poll result is turned into the durable key of a fleet row         *)
(* (internal/models/miner.go and identityAliases in internal/store).       *)
(*                                                                         *)
(* Strings are abstracted to small sets of spellings.  What the code does  *)
(* to a string is kept: HostFold, MacFold and SerialFold map a spelling to *)
(* the canonical one (lower case; one separator form), MacFold maps an     *)
(* implausible or all-zero address to None, and GenericHosts are the       *)
(* factory names that may not identify a unit.  None is the empty string.  *)
(***************************************************************************)
EXTENDS Naturals

CONSTANTS
    None,           \* the empty string
    HostNames,      \* spellings of host names
    MACs,           \* spellings of link-layer addresses
    Serials,        \* spellings of serial numbers
    IPs,            \* addresses
    Boxes,          \* the physical devices (known to the model, not to the code)
    HostFold,       \* spelling |-> lower-case spelling
    MacFold,        \* spelling |-> colon form, None when implausible
    SerialFold,     \* spelling |-> lower-case spelling
    GenericHosts    \* lower-case names shipped as factory defaults

(* Folding a folded spelling changes nothing: lower-casing and the colon   *)
(* form are both idempotent.                                               *)
ASSUME IdentityAssumption ==
    /\ None \notin HostNames \cup MACs \cup Serials \cup IPs \cup Boxes
    /\ HostFold \in [HostNames -> HostNames]
    /\ \A h \in HostNames : HostFold[HostFold[h]] = HostFold[h]
    /\ MacFold \in [MACs -> MACs \cup {None}]
    /\ \A m \in MACs : MacFold[m] # None => MacFold[MacFold[m]] = MacFold[m]
    /\ SerialFold \in [Serials -> Serials]
    /\ \A s \in Serials : SerialFold[SerialFold[s]] = SerialFold[s]
    /\ GenericHosts \subseteq HostNames

Optional(S) == S \cup {None}

(* What one poll says of a miner.  box is the hardware that answered: a    *)
(* history variable of the model, which no definition below branches on.   *)
Report == [ip : Optional(IPs), host : Optional(HostNames),
           mac : Optional(MACs), serial : Optional(Serials),
           box : Optional(Boxes)]

-----------------------------------------------------------------------------
(* Ids are strings in the code; the tag stands for the prefix, and keeps   *)
(* apart strings that have none ("name" is the bare host of an old build). *)
ID == {"host", "name"} \X Optional(HostNames)
      \cup {"mac"} \X Optional(MACs)
      \cup {"sn"} \X Optional(Serials)
      \cup {"ip"} \X Optional(IPs)

(* The id "" of a result that names nothing at all. *)
NoID == <<"ip", None>>

DistinctiveHostname(h) ==
    IF h = None \/ HostFold[h] \in GenericHosts THEN None ELSE HostFold[h]

NormalizeMAC(m) == IF m = None THEN None ELSE MacFold[m]

SerialKey(s) == IF s = None THEN None ELSE SerialFold[s]

StableID(d) ==
    IF DistinctiveHostname(d.host) # None THEN <<"host", DistinctiveHostname(d.host)>>
    ELSE IF NormalizeMAC(d.mac) # None THEN <<"mac", NormalizeMAC(d.mac)>>
    ELSE IF d.serial # None THEN <<"sn", SerialFold[d.serial]>>
    ELSE <<"ip", d.ip>>

(* ApplyStableID keeps the raw MAC when it cannot be normalised; the id it *)
(* stores is StableID of the result.                                       *)
ApplyStableID(d) ==
    [d EXCEPT !.mac = IF NormalizeMAC(@) # None THEN NormalizeMAC(@) ELSE @]

(* Every id under which an older build, or an earlier poll of this device, *)
(* may have stored its samples, in the order the code lists them.          *)
AliasList(d) ==
    << <<"ip", d.ip>>,
       <<"host", DistinctiveHostname(d.host)>>,
       <<"name", DistinctiveHostname(d.host)>>,
       <<"mac", NormalizeMAC(d.mac)>>,
       <<"sn", SerialKey(d.serial)>> >>

Aliases(d) ==
    { a \in { AliasList(d)[i] : i \in 1..5 } : a[2] # None /\ a # StableID(d) }
=============================================================================
