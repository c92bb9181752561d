------------------------------ MODULE MCStore -------------------------------
(* Instances of Store, Charts and TypeView for TLC. *)
EXTENDS TypeView

MCHostNames == {"h1", "h2", "bitaxe", "gamma", "supra"}
MCHostFold == [h \in MCHostNames |-> h]
MCMACs == {"m1", "M1", "m2"}
MCMacFold == [m \in MCMACs |-> IF m = "M1" THEN "m1" ELSE m]
MCSerialFold == [s \in {} |-> s]

R(box, ip, host, mac) ==
    [ip |-> ip, host |-> host, mac |-> mac, serial |-> "none", box |-> box]

(* b1 has a name, and a factory name after each reset; b2 never has more   *)
(* than a factory name.                                                    *)
MCRenames ==
    { R("b1", "ip1", "h1", "m1"), R("b1", "ip2", "bitaxe", "M1"),
      R("b2", "ip3", "bitaxe", "none") }

(* What is proved of charts and of samples is proved of such reports. *)
ASSUME RenamesAreOwn ==
    Reports = MCRenames =>
        OwnIdentity /\ Identified /\ LabelsIdentify /\ NamedAreSteady

(* Both always report their MAC. *)
MCNamed ==
    { R("b1", "ip1", "h1", "m1"), R("b1", "ip2", "h1", "m1"),
      R("b1", "ip2", "bitaxe", "M1"), R("b2", "ip3", "bitaxe", "m2") }

ASSUME NamedAreOne ==
    Reports = MCNamed => OwnIdentity /\ OneIdentity /\ SteadyIdentity

(* Two boxes with names of their own; the second is given the address the  *)
(* first one had.                                                          *)
MCTakeover ==
    { R("b1", "ip1", "h1", "m1"), R("b1", "ip2", "h1", "m1"),
      R("b2", "ip1", "h2", "none") }

(* Two boxes of one model that report no name. *)
MCUnnamed ==
    { R("b1", "ip1", "none", "m1"), R("b2", "ip2", "none", "m2") }

(* The browser would merge them by their model. *)
ASSUME UnnamedAreMerged ==
    Reports = MCUnnamed => OwnIdentity /\ Identified /\ ~LabelsIdentify

MCTwoModels == [b \in {"b1", "b2"} |-> IF b = "b1" THEN "gamma" ELSE "supra"]

(* Both boxes are of the same model. *)
MCModels == [b \in {"b1", "b2"} |-> "gamma"]
=============================================================================
