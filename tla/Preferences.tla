---------------------------- MODULE Preferences -----------------------------
(***************************************************************************)
(* What the page keeps in localStorage beside the width of the filters     *)
(* (web/static/app.js): the columns of the table, its sort order, the      *)
(* window of the chart, and which filter sections are folded.  Each is     *)
(* read once when the page loads, and written by the handlers that change  *)
(* it.  One tab is open.                                                   *)
(*                                                                         *)
(* A column stands for its sort key as well.  Times are ages in hours, and *)
(* the clock does not move while the page is open.                         *)
(***************************************************************************)
EXTENDS Resizer

CONSTANTS
    Columns,   \* ids of COLUMNS
    DefaultOn, \* those shown at first
    Texty,     \* those sorted upwards at first
    Retired,   \* columns, sort keys, ranges and sections of an older build
    Presets,   \* the ranges offered beside "custom"
    Ages,      \* what can be typed as From or To
    Oldest,    \* before the first sample
    Sections,  \* the filter sections
    MobileMax  \* the widest window that counts as mobile

VARIABLES pref, storage

(* Only the address cannot be hidden. *)
Locked == {"ip"}

ByAddress == [key |-> "ip", dir |-> 1]

ASSUME PreferencesAssumption ==
    /\ Locked \subseteq DefaultOn /\ DefaultOn \subseteq Columns
    /\ Texty \subseteq Columns /\ "ip" \in Texty
    /\ Retired \cap (Columns \cup Presets \cup {"custom"}) = {}
    /\ "1d" \in Presets /\ Presets \subseteq {"4h", "12h", "1d", "3d", "7d"}
    /\ Ages \subseteq Nat /\ Oldest \in Nat /\ MobileMax \in Nat
    /\ None \notin Columns \cup Retired \cup Presets \cup {"custom"}

Ranges == Presets \cup {"custom"}

Bound == Ages \cup {0, 24, None}

Bounds == [from : Bound, to : Bound]

Prefs == [columns : { c \in SUBSET Columns : Locked \subseteq c },
          sort    : [key : Columns, dir : {1, -1}],
          range   : Ranges,
          bounds  : Bounds,
          folded  : SUBSET Sections]

(* What can be stored, by this build or an older one. *)
StoredColumns == SUBSET (Columns \cup Retired)
StoredSort    == [key : Columns \cup Retired, dir : {1, -1}]
StoredFolded  == SUBSET (Sections \cup Retired)

Stored == [columns : StoredColumns \cup {None}, sort : StoredSort \cup {None},
           range   : Ranges \cup Retired \cup {None}, bounds : Bounds \cup {None},
           folded  : StoredFolded \cup {None}]

ASSUME NoneIsNoValue ==
    /\ \A c \in StoredColumns : c # None
    /\ \A s \in StoredSort : s # None
    /\ \A b \in Bounds : b # None
    /\ \A f \in StoredFolded : f # None

-----------------------------------------------------------------------------
(* What is made of the stored values; None is an absent or corrupt one.    *)
(* Ids that mean nothing to this build are left out.                       *)
LoadColumns(stored) ==
    LET known == IF stored = None THEN {} ELSE stored \cap Columns
    IN  Locked \cup (IF known = {} THEN DefaultOn ELSE known)

LoadSort(stored) ==
    IF stored = None THEN ByAddress
    ELSE [stored EXCEPT !.key = IF @ \in Columns THEN @ ELSE "ip"]

(* Mutant: the stored range is taken as it is. *)
LoadRangeAsIs(stored) == IF stored = None THEN "1d" ELSE stored

LoadRange(stored) == IF stored \in Ranges THEN stored ELSE "1d"

LoadBounds(stored) == IF stored = None THEN [from |-> None, to |-> None] ELSE stored

LoadFolded(stored) == IF stored = None THEN {} ELSE stored \cap Sections

LoadPrefs(s) ==
    [columns |-> LoadColumns(s.columns), sort |-> LoadSort(s.sort),
     range |-> LoadRange(s.range), bounds |-> LoadBounds(s.bounds),
     folded |-> LoadFolded(s.folded)]

-----------------------------------------------------------------------------
(* The window of the chart.                                                *)

WindowMs(range) ==
    CASE range = "4h" -> 4 [] range = "12h" -> 12 [] range = "3d" -> 72
      [] range = "7d" -> 168 [] OTHER -> 24

IsMobile == viewport <= MobileMax

(* "custom" cannot be edited on a narrow window, where it counts as "1d".  *)
EffectiveRange == IF IsMobile /\ pref.range = "custom" THEN "1d" ELSE pref.range

(* The axis: chartWindowBounds. *)
AxisWindow ==
    LET from == pref.bounds.from
        to   == pref.bounds.to
    IN  IF EffectiveRange # "custom" THEN [since |-> WindowMs(EffectiveRange), until |-> 0]
        ELSE [since |-> IF from # None THEN from
                        ELSE WindowMs("1d") + (IF to = None THEN 0 ELSE to),
              until |-> IF to = None THEN 0 ELSE to]

(* Mutant: the request goes by the stored range. *)
TimeParamsAsStored ==
    IF pref.range # "custom"
    THEN [since |-> None, until |-> None, window |-> pref.range]
    ELSE [since |-> pref.bounds.from, until |-> pref.bounds.to,
          window |-> IF pref.bounds = LoadBounds(None) THEN "1d" ELSE None]

(* The request: historyTimeParams. *)
TimeParams ==
    IF EffectiveRange # "custom"
    THEN [since |-> None, until |-> None, window |-> EffectiveRange]
    ELSE [since |-> pref.bounds.from, until |-> pref.bounds.to,
          window |-> IF pref.bounds = LoadBounds(None) THEN "1d" ELSE None]

(* What the server makes of a request: a window counts back from now. *)
ServedWindow(params) ==
    [since |-> IF params.since # None THEN params.since
               ELSE IF params.window # None THEN WindowMs(params.window) ELSE Oldest,
     until |-> IF params.until # None THEN params.until ELSE 0]

-----------------------------------------------------------------------------
LoadedPreferences(s) == storage = s /\ pref = LoadPrefs(s)

(* Mutant: the sort order that takes over is not stored. *)
SetVisibleColumnsOnly(ids) ==
    LET shown == Locked \cup (ids \cap Columns)
    IN  /\ pref' = [pref EXCEPT !.columns = shown,
                       !.sort = IF @.key \in shown THEN @ ELSE ByAddress]
        /\ storage' = [storage EXCEPT !.columns = shown]

(* setVisibleColumns: a sort column that is hidden gives way to the        *)
(* address.                                                                *)
SetVisibleColumns(ids) ==
    LET shown  == Locked \cup (ids \cap Columns)
        sorted == IF pref.sort.key \in shown THEN pref.sort ELSE ByAddress
    IN  /\ pref' = [pref EXCEPT !.columns = shown, !.sort = sorted]
        /\ storage' = [storage EXCEPT !.columns = shown,
                          !.sort = IF pref.sort.key \in shown THEN @ ELSE ByAddress]

(* A checkbox of the panel, All, and Default. *)
ChooseColumns ==
    \/ \E c \in Columns \ Locked :
          SetVisibleColumns(IF c \in pref.columns THEN pref.columns \ {c}
                            ELSE pref.columns \cup {c})
    \/ SetVisibleColumns(Columns)
    \/ SetVisibleColumns(DefaultOn)

ClickHeader(col) ==
    LET dir == IF pref.sort.key = col THEN -pref.sort.dir
               ELSE IF col \in Texty THEN 1 ELSE -1
        sorted == [key |-> col, dir |-> dir]
    IN  /\ col \in pref.columns
        /\ pref' = [pref EXCEPT !.sort = sorted]
        /\ storage' = [storage EXCEPT !.sort = sorted]

(* A section re-reads the stored map before it changes its own entry. *)
FoldSection(id) ==
    LET was   == IF storage.folded = None THEN {} ELSE storage.folded
        folds == id \notin pref.folded
    IN  /\ pref' = [pref EXCEPT !.folded = IF folds THEN @ \cup {id} ELSE @ \ {id}]
        /\ storage' = [storage EXCEPT !.folded =
                          IF folds THEN was \cup {id} ELSE was \ {id}]

(* "custom" seeds the bounds that are empty with the last 24 hours. *)
ChooseRange(range) ==
    LET seeded == [from |-> IF pref.bounds.from = None THEN 24 ELSE pref.bounds.from,
                   to   |-> IF pref.bounds.to = None THEN 0 ELSE pref.bounds.to]
    IN  /\ range # EffectiveRange
        /\ range = "custom" => ~IsMobile
        /\ IF range = "custom" /\ seeded # pref.bounds
           THEN /\ pref' = [pref EXCEPT !.range = range, !.bounds = seeded]
                /\ storage' = [storage EXCEPT !.range = range, !.bounds = seeded]
           ELSE /\ pref' = [pref EXCEPT !.range = range]
                /\ storage' = [storage EXCEPT !.range = range]

(* From and To, which only a wide window with "custom" shows. *)
TypeBounds ==
    \E age \in Ages \cup {None} :
        \E bounds \in { [pref.bounds EXCEPT !.from = age], [pref.bounds EXCEPT !.to = age] } :
            /\ EffectiveRange = "custom"
            /\ bounds # pref.bounds
            /\ pref' = [pref EXCEPT !.bounds = bounds]
            /\ storage' = [storage EXCEPT !.bounds = bounds]

ReloadPreferences == pref' = LoadPrefs(storage) /\ UNCHANGED storage

-----------------------------------------------------------------------------
(* "If current sort column was hidden, fall back to IP" (app.js:848): the  *)
(* table is not sorted by a column that is hidden.                         *)
SortedColumnShown == pref.sort.key \in pref.columns

(* Whatever was chosen, in any order, is what the page would come back     *)
(* with: each handler stores all it changed (app.js:192, 215, 245).        *)
ReloadRestores == LoadPrefs(storage) = pref

(* The samples that are asked for are those the axis has room for          *)
(* (app.js:294, 315), on a narrow window too, where the stored custom      *)
(* range is passed over.  When only To is set the server is not told of    *)
(* the 24 hours the axis shows, so that the case is left out.              *)
OnlyTo == EffectiveRange = "custom" /\ pref.bounds.from = None /\ pref.bounds.to # None

AxisIsQuery == ~OnlyTo => ServedWindow(TimeParams) = AxisWindow
=============================================================================
