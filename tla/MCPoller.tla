------------------------------ MODULE MCPoller ------------------------------
(* Instances of Poller for TLC. *)
EXTENDS Poller

MCHostNames == {"h1"}
MCMACs == {"m1", "m2"}
Same(S) == [x \in S |-> x]
MCHostFold == Same(MCHostNames)
MCMacFold == Same(MCMACs)
MCSerialFold == Same({})

R(box, ip, host, mac) ==
    [ip |-> ip, host |-> host, mac |-> mac, serial |-> "none", box |-> box]

(* b1 has a name, b2 is only known by its address. *)
MCReports ==
    UNION { { R("b1", ip, "h1", "m1"), R("b2", ip, "none", "none") } : ip \in IPs }
    \cup {Blank}

(* One box with a name. *)
MCOneBox == { R("b1", ip, "h1", "m1") : ip \in IPs } \cup {Blank}
=============================================================================
