---------------------------- MODULE MCDashboard -----------------------------
(* Instances of Dashboard for TLC. *)
EXTENDS Dashboard

MCRow(id, make, err) == [id |-> id, make |-> make, err |-> err]

(* Two brands; then "b" is gone with its brand, and has a sample in the    *)
(* longer window only, and "a" fails.                                      *)
MCWorlds ==
    << [rows |-> {MCRow("a", "m1", FALSE), MCRow("b", "m2", FALSE)},
        samples |-> [a |-> {1}, b |-> {1}]],
       [rows |-> {MCRow("a", "m1", TRUE)},
        samples |-> [a |-> {1}, b |-> {12}]] >>

NothingStored ==
    [columns |-> None, sort |-> None, range |-> None, bounds |-> None, folded |-> None]

(* An older build had a column and a range that are gone, and a wider      *)
(* column of filters than this window has room for.                        *)
Old ==
    [columns |-> {"ip", "old"}, sort |-> [key |-> "old", dir |-> -1],
     range |-> "30d", bounds |-> [from |-> None, to |-> 6], folded |-> {"pools"}]

ByTemp == [key |-> "temp", dir |-> -1]

Sorted == [NothingStored EXCEPT !.sort = ByTemp]

(* Sorted by a column that is not shown; both are columns of this build.   *)
Unsorted == [Sorted EXCEPT !.columns = {"ip"}]

Budget(view, settings, fail, world) ==
    [k \in {"view", "settings", "fail", "world"} |->
        CASE k = "view" -> view [] k = "settings" -> settings
          [] k = "fail" -> fail [] OTHER -> world]

(* Three things done to the settings, or two to the view while the server  *)
(* changes, or one while a request fails as well, or one of each (a reload *)
(* is done to the view).                                                   *)
Settings == Budget(0, 3, 0, 0)
View     == Budget(2, 0, 0, 1)
Failure  == Budget(1, 0, 1, 1)
Both     == Budget(1, 1, 0, 0)

Visit(window, filters, stored, budget) ==
    [viewport |-> window, width |-> filters, prefs |-> stored, budget |-> budget]

MCVisits ==
    { Visit(9, None, NothingStored, b) : b \in {Settings, View, Failure} }
        \cup { Visit(9, None, stored, Both) : stored \in {Sorted, Unsorted} }
        \cup { Visit(5, 8, Old, b) : b \in {Settings, Both} }
=============================================================================
