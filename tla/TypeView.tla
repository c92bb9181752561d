------------------------------ MODULE TypeView ------------------------------
(***************************************************************************)
(* "Hashrate by type": the chart that collapses the series of all miners   *)
(* of a type into average, minimum and maximum (aggregateHashrateByType in *)
(* web/static/app.js).  It takes the series as they come, before any are   *)
(* merged into lines.  A type is a model here, and a group is the set of   *)
(* samples the three numbers are made of, for each bucket of time.         *)
(***************************************************************************)
EXTENDS Charts

(* Mutant: a series is typed by what the server said of its id. *)
TypeAsSent(id, live) == RowModel(id)

(* Mutant: a series without a type goes with those of the first row. *)
TypeOrFirst(id, live) ==
    LET rows == { i \in DOMAIN miners : RowModel(i) # None }
    IN  IF live # {} \/ rows = {} THEN RowModel(id)
        ELSE RowModel(CHOOSE i \in rows : TRUE)

(* The type of a series, by its row where it has one, else by what the     *)
(* server said; None is no type.                                           *)
TypeOf(id, live) ==
    LET rows == { i \in live : RowModel(i) # None }
    IN  IF rows = {} THEN RowModel(id) ELSE RowModel(CHOOSE i \in rows : TRUE)

TypesOf(id) == { TypeOf(id, live) : live \in LiveRows(id) }

(* A series without a type is in no group. *)
Types == (UNION { TypesOf(id) : id \in SeriesIds(0, 0) }) \ {None}

Group(type) ==
    UNION { SeriesPoints(id, 0, 0) : id \in { i \in SeriesIds(0, 0) : type \in TypesOf(i) } }

(* "avg / min / max per make+model" (app.js:1607): what is counted in a    *)
(* group was measured on a box of that model, whatever ids, names and      *)
(* addresses have passed from one box to another.                          *)
GroupsAreOfOneModel ==
    \A type \in Types : \A p \in Group(type) : ModelName[p.box] = type

(* A box that is in the fleet under a name of its own is in the group of   *)
(* its model with all it measured, and in no other: also the samples under *)
(* an id that no row has any more, of which the server does not know the   *)
(* model.                                                                  *)
NamedBoxesCount ==
    \A row \in { i \in DOMAIN miners : ~BadLabel(RowName(i)) } :
        \A id \in SeriesIds(0, 0) :
            (\E p \in SeriesPoints(id, 0, 0) : p.box = miners[row].box)
            => TypesOf(id) = {RowModel(row)}
=============================================================================
