----------------------------- MODULE DashProofs -----------------------------
(***************************************************************************)
(* What holds of the page for every set of columns, ranges, filters and    *)
(* pointers, every width of the window, every number of calls at a time    *)
(* and every server: the width of the filters column, and the stored       *)
(* preferences, then the chart and the table under overlapping calls.      *)
(***************************************************************************)
EXTENDS Dashboard, SequenceTheorems, TLAPS

-----------------------------------------------------------------------------
(* The width of the filters column.                                        *)

WidthStep ==
    \/ \E v \in Viewports : ResizeWindow(v)
    \/ ResizerStep
    \/ ReloadResizer
    \/ \E p \in down, c \in BOOLEAN : PointerEnds(p, c)
    \/ UNCHANGED resizerVars

(* A step of the page changes the column in one of these ways. *)
LEMMA WidthFrame == [DashNext]_dashVars => WidthStep
<1> SUFFICES ASSUME [DashNext]_dashVars PROVE WidthStep
  OBVIOUS
<1>1. CASE WorldStep
  BY <1>1 DEF WorldStep, WidthStep
<1>2. CASE StartRefresh
  BY <1>2 DEF StartRefresh, WidthStep
<1>3. CASE UserStep
  BY <1>3 DEF UserStep, ChangeWindow, Reload, WidthStep
<1>4. CASE Release
  BY <1>4 DEF Release, WidthStep
<1>5. ASSUME NEW s \in Slots,
             \/ Answer(s) \/ Fail(s)
             \/ FleetArrives(s) \/ DetailArrives(s) \/ HistoryArrives(s)
      PROVE  WidthStep
  BY <1>5 DEF Answer, Fail, FleetArrives, DetailArrives, HistoryArrives, WidthStep
<1>6. CASE UNCHANGED dashVars
  BY <1>6 DEF dashVars, WidthStep
<1> QED BY <1>1, <1>2, <1>3, <1>4, <1>5, <1>6 DEF DashNext

LEMMA ClampFits ==
    ASSUME NEW px \in Int, NEW v \in Int
    PROVE  Clamp(px, v) \in MinWidth..MaxWidth(v)
<1> DEFINE room == MaxWidth(v)
<1>1. room \in Int /\ room >= MinWidth
  BY ResizerAssumption DEF MaxWidth, Least, Most, Min, Max
<1>2. Least(room, Most(MinWidth, px)) \in MinWidth..room
  <2> HIDE DEF room
  <2> QED BY <1>1, ResizerAssumption DEF Least, Most, Min, Max
<1> QED BY <1>2 DEF Clamp

LEMMA LoadWidthIsInt ==
    ASSUME NEW w \in Int \cup {None}
    PROVE  LoadWidth(w) \in Int
BY ResizerAssumption DEF LoadWidth, Least, Most, Min, Max

WidthInv ==
    /\ viewport \in Nat /\ width \in Int /\ storedWidth \in Int \cup {None}
    /\ WidthFits

LEMMA WidthInit == DashInit => WidthInv
<1> SUFFICES ASSUME DashInit PROVE WidthInv
  OBVIOUS
<1>1. PICK v \in Visits : LoadResizer(v.viewport, v.width)
  BY DEF DashInit
<1>2. v.viewport \in Nat /\ v.width \in Int \cup {None}
  <2>1. v.viewport \in Viewports /\ v.width \in Nat \cup {None}
    BY DashboardAssumption
  <2>2. Viewports \subseteq Nat
    BY ResizerAssumption
  <2>3. v.viewport \in Nat
    BY <2>1, <2>2
  <2>4. Nat \subseteq Int
    OBVIOUS
  <2>5. v.width \in Int \cup {None}
    BY <2>1, <2>4, Zenon
  <2> QED BY <2>3, <2>5
<1>3. LoadWidth(v.width) \in Int
  BY <1>2, LoadWidthIsInt
<1>4. Clamp(LoadWidth(v.width), v.viewport) \in MinWidth..MaxWidth(v.viewport)
  <2>1. v.viewport \in Int
    BY <1>2
  <2> QED BY <1>3, <2>1, ClampFits, Zenon
<1> QED BY <1>1, <1>2, <1>4, ResizerAssumption DEF LoadResizer, WidthInv, WidthFits

LEMMA WidthIsKept == WidthInv /\ WidthStep => WidthInv'
<1> SUFFICES ASSUME WidthInv, WidthStep PROVE WidthInv'
  OBVIOUS
<1> USE DEF WidthInv, WidthFits
<1>1. ASSUME NEW px \in Int, ApplyWidth(px), UNCHANGED viewport
      PROVE  width' \in Int /\ width' \in MinWidth..MaxWidth(viewport')
  BY <1>1, ClampFits, ResizerAssumption DEF ApplyWidth
<1>2. ASSUME NEW v \in Viewports, ResizeWindow(v) PROVE WidthInv'
  <2>1. v \in Nat /\ width' \in MinWidth..MaxWidth(v)
    BY <1>2, ClampFits, ResizerAssumption DEF ResizeWindow
  <2> QED BY <1>2, <2>1, ResizerAssumption DEF ResizeWindow
<1>3. ASSUME NEW p \in Pointers, NEW x \in Positions, PointerDown(p, x)
      PROVE  WidthInv'
  <2>1. x \in Int
    BY ResizerAssumption
  <2> QED BY <1>1, <1>3, <2>1 DEF PointerDown
<1>4. ASSUME NEW x \in Positions, PointerMove(x) PROVE WidthInv'
  <2>1. x \in Int
    BY ResizerAssumption
  <2> QED BY <1>1, <1>4, <2>1 DEF PointerMove
<1>5. ASSUME NEW px \in Int, SetWidth(px) PROVE WidthInv'
  BY <1>1, <1>5 DEF SetWidth
<1>6. CASE DoubleClick
  BY <1>5, <1>6, ResizerAssumption DEF DoubleClick
<1>7. CASE Nudge
  <2>1. MaxWidth(viewport) \in Int
    BY ResizerAssumption DEF MaxWidth, Least, Most, Min, Max
  <2>2. {width - Step, width + Step, MinWidth, MaxWidth(viewport)} \subseteq Int
    BY <2>1, ResizerAssumption
  <2> QED BY <1>5, <1>7, <2>2 DEF Nudge
<1>8. CASE ReloadResizer
  <2>1. width' \in MinWidth..MaxWidth(viewport)
    BY <1>8, ClampFits, LoadWidthIsInt DEF ReloadResizer
  <2> QED BY <1>8, <2>1, ResizerAssumption DEF ReloadResizer
<1>9. ASSUME NEW p \in down, NEW c \in BOOLEAN, PointerEnds(p, c) PROVE WidthInv'
  <2>1. CASE p = drag
    BY <1>1, <1>9, <2>1 DEF PointerEnds
  <2>2. CASE p # drag
    BY <1>9, <2>2 DEF PointerEnds
  <2> QED BY <2>1, <2>2
<1>10. CASE UNCHANGED resizerVars
  BY <1>10 DEF resizerVars
<1> QED
  BY <1>2, <1>3, <1>4, <1>6, <1>7, <1>8, <1>9, <1>10 DEF WidthStep, ResizerStep

(* Whatever the window, the pointers and the keys do, and in whatever      *)
(* order, the filters column leaves the chart its room, and follows no     *)
(* pointer that is gone (app.js:61, 1986).                                 *)
THEOREM ColumnFits == DashSpec => []WidthFits
<1>1. WidthInv /\ [DashNext]_dashVars => WidthInv'
  BY WidthFrame, WidthIsKept
<1>2. WidthInv => WidthFits
  BY DEF WidthInv
<1> QED BY WidthInit, <1>1, <1>2, PTL DEF DashSpec

-----------------------------------------------------------------------------
(* The preferences.                                                        *)

PrefStep ==
    \/ ChooseColumns
    \/ \E c \in Columns : ClickHeader(c)
    \/ \E id \in Sections : FoldSection(id)
    \/ \E r \in Ranges : ChooseRange(r)
    \/ TypeBounds
    \/ ReloadPreferences
    \/ UNCHANGED prefVars

(* A step of the page changes the preferences in one of these ways. *)
LEMMA PrefFrame == [DashNext]_dashVars => PrefStep
<1> SUFFICES ASSUME [DashNext]_dashVars PROVE PrefStep
  OBVIOUS
<1>1. CASE WorldStep
  BY <1>1 DEF WorldStep, PrefStep
<1>2. CASE StartRefresh
  BY <1>2 DEF StartRefresh, PrefStep
<1>3. CASE UserStep
  BY <1>3 DEF UserStep, ChangePreferences, Reload, PrefStep
<1>4. CASE Release
  BY <1>4 DEF Release, PrefStep
<1>5. ASSUME NEW s \in Slots,
             \/ Answer(s) \/ Fail(s)
             \/ FleetArrives(s) \/ DetailArrives(s) \/ HistoryArrives(s)
      PROVE  PrefStep
  BY <1>5 DEF Answer, Fail, FleetArrives, DetailArrives, HistoryArrives, PrefStep
<1>6. CASE UNCHANGED dashVars
  BY <1>6 DEF dashVars, PrefStep
<1> QED BY <1>1, <1>2, <1>3, <1>4, <1>5, <1>6 DEF DashNext

(* Each part of what is loaded, whatever was stored. *)
LEMMA LoadedTypes ==
    /\ \A c \in StoredColumns \cup {None} :
          LoadColumns(c) \in SUBSET Columns /\ Locked \subseteq LoadColumns(c)
    /\ \A s \in StoredSort \cup {None} : LoadSort(s) \in [key : Columns, dir : {1, -1}]
    /\ \A r : LoadRange(r) \in Ranges
    /\ \A b \in Bounds \cup {None} : LoadBounds(b) \in Bounds
    /\ \A f \in StoredFolded \cup {None} : LoadFolded(f) \in SUBSET Sections
<1>1. "ip" \in Columns /\ Locked \subseteq Columns /\ DefaultOn \subseteq Columns
  BY PreferencesAssumption DEF Locked
<1>2. ASSUME NEW c \in StoredColumns \cup {None}
      PROVE  LoadColumns(c) \in SUBSET Columns /\ Locked \subseteq LoadColumns(c)
  BY <1>1 DEF LoadColumns
<1>3. ASSUME NEW s \in StoredSort \cup {None}
      PROVE  LoadSort(s) \in [key : Columns, dir : {1, -1}]
  <2>1. ByAddress \in [key : Columns, dir : {1, -1}]
    BY <1>1 DEF ByAddress
  <2>2. CASE s # None
    BY <1>1, <2>2 DEF LoadSort, StoredSort
  <2> QED BY <2>1, <2>2 DEF LoadSort
<1>4. ASSUME NEW r PROVE LoadRange(r) \in Ranges
  BY PreferencesAssumption DEF LoadRange, Ranges
<1>5. ASSUME NEW b \in Bounds \cup {None} PROVE LoadBounds(b) \in Bounds
  BY DEF LoadBounds, Bounds, Bound
<1>6. ASSUME NEW f \in StoredFolded \cup {None} PROVE LoadFolded(f) \in SUBSET Sections
  BY DEF LoadFolded
<1> QED BY <1>2, <1>3, <1>4, <1>5, <1>6

LEMMA LoadedIsPrefs ==
    ASSUME NEW s \in Stored
    PROVE  LoadPrefs(s) \in Prefs
<1>1. /\ s.columns \in StoredColumns \cup {None} /\ s.sort \in StoredSort \cup {None}
      /\ s.bounds \in Bounds \cup {None} /\ s.folded \in StoredFolded \cup {None}
  BY DEF Stored
<1>2. /\ LoadColumns(s.columns) \in { c \in SUBSET Columns : Locked \subseteq c }
      /\ LoadSort(s.sort) \in [key : Columns, dir : {1, -1}]
      /\ LoadRange(s.range) \in Ranges
      /\ LoadBounds(s.bounds) \in Bounds
      /\ LoadFolded(s.folded) \in SUBSET Sections
  BY <1>1, LoadedTypes, Zenon
<1> QED BY <1>2 DEF LoadPrefs, Prefs

(* What a handler stores is what it changed, and it is loaded as it is.    *)
LEMMA LoadedAsStored ==
    /\ \A c \in SUBSET Columns : Locked \subseteq c => LoadColumns(c) = c
    /\ \A s \in [key : Columns, dir : {1, -1}] : LoadSort(s) = s
    /\ \A r \in Ranges : LoadRange(r) = r
    /\ \A b \in Bounds : LoadBounds(b) = b
<1>1. ASSUME NEW c \in SUBSET Columns, Locked \subseteq c PROVE LoadColumns(c) = c
  <2>1. c # None
    BY NoneIsNoValue DEF StoredColumns
  <2>2. c \cap Columns = c /\ c # {} /\ Locked \cup c = c
    BY <1>1 DEF Locked
  <2> QED BY <2>1, <2>2 DEF LoadColumns
<1>2. ASSUME NEW s \in [key : Columns, dir : {1, -1}] PROVE LoadSort(s) = s
  <2>1. s \in StoredSort
    BY DEF StoredSort
  <2>2. s # None
    BY <2>1, NoneIsNoValue
  <2>3. [s EXCEPT !.key = IF @ \in Columns THEN @ ELSE "ip"] = s
    OBVIOUS
  <2> QED BY <2>2, <2>3 DEF LoadSort
<1>3. ASSUME NEW r \in Ranges PROVE LoadRange(r) = r
  BY DEF LoadRange
<1>4. ASSUME NEW b \in Bounds PROVE LoadBounds(b) = b
  BY NoneIsNoValue DEF LoadBounds
<1> QED BY <1>1, <1>2, <1>3, <1>4

PrefInv == pref \in Prefs /\ storage \in Stored /\ ReloadRestores

LEMMA PrefInit == DashInit => PrefInv
<1> SUFFICES ASSUME DashInit PROVE PrefInv
  OBVIOUS
<1>1. PICK v \in Visits : LoadedPreferences(v.prefs)
  BY DEF DashInit
<1>2. v.prefs \in Stored
  BY DashboardAssumption
<1> QED BY <1>1, <1>2, LoadedIsPrefs DEF LoadedPreferences, PrefInv, ReloadRestores

LEMMA LoadedParts ==
    ASSUME NEW s \in Stored, NEW p \in Prefs
    PROVE  LoadPrefs(s) = p <=>
              /\ LoadColumns(s.columns) = p.columns
              /\ LoadSort(s.sort) = p.sort
              /\ LoadRange(s.range) = p.range
              /\ LoadBounds(s.bounds) = p.bounds
              /\ LoadFolded(s.folded) = p.folded
BY DEF LoadPrefs, Prefs

LEMMA PrefIsKept == PrefInv /\ PrefStep => PrefInv'
<1> SUFFICES ASSUME PrefInv, PrefStep PROVE PrefInv'
  OBVIOUS
<1>1. pref \in Prefs /\ storage \in Stored /\ LoadPrefs(storage) = pref
  BY DEF PrefInv, ReloadRestores
<1>2. /\ LoadColumns(storage.columns) = pref.columns
      /\ LoadSort(storage.sort) = pref.sort
      /\ LoadRange(storage.range) = pref.range
      /\ LoadBounds(storage.bounds) = pref.bounds
      /\ LoadFolded(storage.folded) = pref.folded
  BY <1>1, LoadedParts
<1>3. SUFFICES pref' \in Prefs /\ storage' \in Stored /\ LoadPrefs(storage') = pref'
  BY DEF PrefInv, ReloadRestores
<1>4. /\ pref.columns \in SUBSET Columns /\ Locked \subseteq pref.columns
      /\ pref.sort \in [key : Columns, dir : {1, -1}]
      /\ pref.range \in Ranges /\ pref.bounds \in Bounds /\ pref.folded \in SUBSET Sections
  BY <1>1 DEF Prefs
<1>5. ByAddress \in [key : Columns, dir : {1, -1}] /\ Locked \subseteq Columns
  BY PreferencesAssumption DEF ByAddress, Locked
<1>6. ASSUME NEW ids \in SUBSET Columns, SetVisibleColumns(ids)
      PROVE  pref' \in Prefs /\ storage' \in Stored /\ LoadPrefs(storage') = pref'
  <2> DEFINE cols   == Locked \cup (ids \cap Columns)
             sorted == IF pref.sort.key \in cols THEN pref.sort ELSE ByAddress
             kept   == IF pref.sort.key \in cols THEN storage.sort ELSE ByAddress
  <2>1. /\ pref' = [pref EXCEPT !.columns = cols, !.sort = sorted]
        /\ storage' = [storage EXCEPT !.columns = cols, !.sort = kept]
    BY <1>6, Zenon DEF SetVisibleColumns
  <2>2. cols \in SUBSET Columns /\ Locked \subseteq cols /\ cols \in StoredColumns
    BY <1>5 DEF StoredColumns
  <2>3. sorted \in [key : Columns, dir : {1, -1}]
    BY <1>4, <1>5
  <2>4. ByAddress \in StoredSort /\ kept \in StoredSort \cup {None}
    BY <1>1, <1>5 DEF StoredSort, Stored
  <2>5. LoadColumns(cols) = cols /\ LoadSort(kept) = sorted
    BY <1>2, <1>5, <2>2, LoadedAsStored
  <2> HIDE DEF cols, sorted, kept
  <2>6. pref' \in Prefs
    BY <1>1, <2>1, <2>2, <2>3 DEF Prefs
  <2>7. storage' \in Stored
    BY <1>1, <2>1, <2>2, <2>4 DEF Stored
  <2>8. /\ storage'.columns = cols /\ storage'.sort = kept
        /\ storage'.range = storage.range /\ storage'.bounds = storage.bounds
        /\ storage'.folded = storage.folded
        /\ pref'.columns = cols /\ pref'.sort = sorted
        /\ pref'.range = pref.range /\ pref'.bounds = pref.bounds
        /\ pref'.folded = pref.folded
    BY <1>1, <2>1 DEF Prefs, Stored
  <2>9. LoadPrefs(storage') = pref'
    BY <1>2, <2>5, <2>6, <2>7, <2>8, LoadedParts, Zenon
  <2> QED BY <2>6, <2>7, <2>9
<1>7. CASE ChooseColumns
  <2>1. DefaultOn \in SUBSET Columns
    BY PreferencesAssumption
  <2>2. ASSUME NEW c \in Columns
        PROVE  (IF c \in pref.columns THEN pref.columns \ {c} ELSE pref.columns \cup {c})
                  \in SUBSET Columns
    BY <1>4
  <2> QED BY <1>6, <1>7, <2>1, <2>2, Zenon DEF ChooseColumns
<1>8. ASSUME NEW col \in Columns, ClickHeader(col)
      PROVE  pref' \in Prefs /\ storage' \in Stored /\ LoadPrefs(storage') = pref'
  <2> DEFINE dir == IF pref.sort.key = col THEN -pref.sort.dir
                    ELSE IF col \in Texty THEN 1 ELSE -1
             sorted == [key |-> col, dir |-> dir]
  <2>1. pref' = [pref EXCEPT !.sort = sorted] /\ storage' = [storage EXCEPT !.sort = sorted]
    BY <1>8 DEF ClickHeader
  <2>2. sorted \in [key : Columns, dir : {1, -1}]
    BY <1>4
  <2>3. sorted \in StoredSort /\ LoadSort(sorted) = sorted
    <3> HIDE DEF sorted
    <3> QED BY <2>2, LoadedAsStored DEF StoredSort
  <2> HIDE DEF sorted
  <2>4. pref' \in Prefs /\ storage' \in Stored
    BY <1>1, <2>1, <2>2, <2>3 DEF Prefs, Stored
  <2>5. /\ storage'.columns = storage.columns /\ storage'.sort = sorted
        /\ storage'.range = storage.range /\ storage'.bounds = storage.bounds
        /\ storage'.folded = storage.folded
        /\ pref'.columns = pref.columns /\ pref'.sort = sorted
        /\ pref'.range = pref.range /\ pref'.bounds = pref.bounds
        /\ pref'.folded = pref.folded
    BY <1>1, <2>1 DEF Prefs, Stored
  <2>6. LoadPrefs(storage') = pref'
    BY <1>2, <2>3, <2>4, <2>5, LoadedParts, Zenon
  <2> QED BY <2>4, <2>6
<1>9. ASSUME NEW id \in Sections, FoldSection(id)
      PROVE  pref' \in Prefs /\ storage' \in Stored /\ LoadPrefs(storage') = pref'
  <2> DEFINE was  == IF storage.folded = None THEN {} ELSE storage.folded
             now  == IF id \notin pref.folded THEN pref.folded \cup {id}
                     ELSE pref.folded \ {id}
             kept == IF id \notin pref.folded THEN was \cup {id} ELSE was \ {id}
  <2>1. pref' = [pref EXCEPT !.folded = now] /\ storage' = [storage EXCEPT !.folded = kept]
    BY <1>1, <1>9 DEF FoldSection, Prefs, Stored
  <2>2. was \in StoredFolded /\ was \cap Sections = pref.folded
    BY <1>1, <1>2 DEF Stored, StoredFolded, LoadFolded
  <2>3. kept \in StoredFolded /\ now \in SUBSET Sections
    BY <1>4, <2>2 DEF StoredFolded
  <2>4. kept \cap Sections = now
    BY <2>2
  <2>5. LoadFolded(kept) = now
    <3> HIDE DEF kept, now
    <3> QED BY <2>3, <2>4, NoneIsNoValue DEF LoadFolded
  <2> HIDE DEF was, now, kept
  <2>6. pref' \in Prefs /\ storage' \in Stored
    BY <1>1, <2>1, <2>3 DEF Prefs, Stored
  <2>7. /\ storage'.columns = storage.columns /\ storage'.sort = storage.sort
        /\ storage'.range = storage.range /\ storage'.bounds = storage.bounds
        /\ storage'.folded = kept
        /\ pref'.columns = pref.columns /\ pref'.sort = pref.sort
        /\ pref'.range = pref.range /\ pref'.bounds = pref.bounds
        /\ pref'.folded = now
    BY <1>1, <2>1 DEF Prefs, Stored
  <2>8. LoadPrefs(storage') = pref'
    BY <1>2, <2>5, <2>6, <2>7, LoadedParts, Zenon
  <2> QED BY <2>6, <2>8
<1>10. ASSUME NEW r \in Ranges \cup Retired \cup {None}, NEW b \in Bounds \cup {None},
              NEW range \in Ranges, NEW bounds \in Bounds,
              LoadRange(r) = range, LoadBounds(b) = bounds,
              pref' = [pref EXCEPT !.range = range, !.bounds = bounds],
              storage' = [storage EXCEPT !.range = r, !.bounds = b]
       PROVE  pref' \in Prefs /\ storage' \in Stored /\ LoadPrefs(storage') = pref'
  <2>1. pref' \in Prefs /\ storage' \in Stored
    BY <1>1, <1>10 DEF Prefs, Stored
  <2>2. /\ storage'.columns = storage.columns /\ storage'.sort = storage.sort
        /\ storage'.range = r /\ storage'.bounds = b
        /\ storage'.folded = storage.folded
        /\ pref'.columns = pref.columns /\ pref'.sort = pref.sort
        /\ pref'.range = range /\ pref'.bounds = bounds
        /\ pref'.folded = pref.folded
    BY <1>1, <1>10 DEF Prefs, Stored
  <2>3. /\ LoadRange(storage'.range) = pref'.range
        /\ LoadBounds(storage'.bounds) = pref'.bounds
    BY <1>10, <2>2, Zenon
  <2>4. LoadPrefs(storage') = pref'
    BY <1>2, <2>1, <2>2, <2>3, LoadedParts, Zenon
  <2> QED BY <2>1, <2>4
<1>11. /\ storage.range \in Ranges \cup Retired \cup {None}
       /\ storage.bounds \in Bounds \cup {None}
       /\ \A r \in Ranges : LoadRange(r) = r
       /\ \A b \in Bounds : LoadBounds(b) = b
  BY <1>1, LoadedAsStored DEF Stored
<1>12. ASSUME NEW range \in Ranges, ChooseRange(range)
       PROVE  pref' \in Prefs /\ storage' \in Stored /\ LoadPrefs(storage') = pref'
  <2> DEFINE seeded == [from |-> IF pref.bounds.from = None THEN 24 ELSE pref.bounds.from,
                        to   |-> IF pref.bounds.to = None THEN 0 ELSE pref.bounds.to]
  <2>1. seeded \in Bounds
    BY <1>4 DEF Bounds, Bound
  <2>2. CASE range = "custom" /\ seeded # pref.bounds
    <3>1. /\ pref' = [pref EXCEPT !.range = range, !.bounds = seeded]
          /\ storage' = [storage EXCEPT !.range = range, !.bounds = seeded]
      BY <1>12, <2>2 DEF ChooseRange
    <3> HIDE DEF seeded
    <3> QED BY <1>10, <1>11, <2>1, <3>1
  <2>3. CASE ~(range = "custom" /\ seeded # pref.bounds)
    <3>1. /\ pref' = [pref EXCEPT !.range = range]
          /\ storage' = [storage EXCEPT !.range = range]
      BY <1>12, <2>3 DEF ChooseRange
    <3>2. /\ pref' = [pref EXCEPT !.range = range, !.bounds = pref.bounds]
          /\ storage' = [storage EXCEPT !.range = range, !.bounds = storage.bounds]
      BY <1>1, <3>1 DEF Prefs, Stored
    <3> QED BY <1>2, <1>4, <1>10, <1>11, <3>2
  <2> QED BY <2>2, <2>3
<1>13. CASE TypeBounds
  <2>1. PICK age \in Ages \cup {None} :
          \E bounds \in { [pref.bounds EXCEPT !.from = age], [pref.bounds EXCEPT !.to = age] } :
             /\ pref' = [pref EXCEPT !.bounds = bounds]
             /\ storage' = [storage EXCEPT !.bounds = bounds]
    BY <1>13 DEF TypeBounds
  <2>2. PICK bounds \in { [pref.bounds EXCEPT !.from = age], [pref.bounds EXCEPT !.to = age] } :
             /\ pref' = [pref EXCEPT !.bounds = bounds]
             /\ storage' = [storage EXCEPT !.bounds = bounds]
    BY <2>1
  <2>3. bounds \in Bounds
    BY <1>4 DEF Bounds, Bound
  <2>4. /\ pref' = [pref EXCEPT !.range = pref.range, !.bounds = bounds]
        /\ storage' = [storage EXCEPT !.range = storage.range, !.bounds = bounds]
    BY <1>1, <2>2 DEF Prefs, Stored
  <2> QED BY <1>2, <1>4, <1>10, <1>11, <2>3, <2>4
<1>14. CASE ReloadPreferences
  BY <1>1, <1>14, LoadedIsPrefs DEF ReloadPreferences
<1>15. CASE UNCHANGED prefVars
  BY <1>1, <1>15 DEF prefVars
<1> QED BY <1>7, <1>8, <1>9, <1>12, <1>13, <1>14, <1>15, Zenon DEF PrefStep

(* Whatever is chosen in whatever order, beginning with whatever an older  *)
(* build stored, loading the page again gives what is there now            *)
(* (app.js:192, 215, 245).                                                 *)
THEOREM NothingIsForgotten == DashSpec => []ReloadRestores
<1>1. PrefInv /\ [DashNext]_dashVars => PrefInv'
  BY PrefFrame, PrefIsKept
<1>2. PrefInv => ReloadRestores
  BY DEF PrefInv
<1> QED BY PrefInit, <1>1, <1>2, PTL DEF DashSpec

LEMMA PrefInvHolds == DashSpec => []PrefInv
<1>1. PrefInv /\ [DashNext]_dashVars => PrefInv'
  BY PrefFrame, PrefIsKept
<1> QED BY PrefInit, <1>1, PTL DEF DashSpec

-----------------------------------------------------------------------------
(* The window of the chart.                                                *)

LEMMA WindowIsNat ==
    ASSUME NEW r
    PROVE  WindowMs(r) \in Nat
BY DEF WindowMs

LEMMA AxisFromTypes == pref \in Prefs => AxisIsQuery
<1> SUFFICES ASSUME pref \in Prefs, ~OnlyTo
             PROVE  ServedWindow(TimeParams) = AxisWindow
  BY DEF AxisIsQuery
<1>1. pref.range \in Ranges /\ pref.bounds \in Bounds
  BY DEF Prefs
<1>2. EffectiveRange \in Ranges /\ EffectiveRange # None /\ "1d" # None
  BY <1>1, PreferencesAssumption DEF EffectiveRange, Ranges
<1>3. CASE EffectiveRange # "custom"
  <2>1. TimeParams = [since |-> None, until |-> None, window |-> EffectiveRange]
    BY <1>3 DEF TimeParams
  <2>2. AxisWindow = [since |-> WindowMs(EffectiveRange), until |-> 0]
    BY <1>3 DEF AxisWindow
  <2> QED BY <1>2, <2>1, <2>2 DEF ServedWindow
<1>4. CASE EffectiveRange = "custom" /\ pref.bounds.from # None
  <2>1. /\ TimeParams.since = pref.bounds.from
        /\ TimeParams.until = pref.bounds.to
    BY <1>4 DEF TimeParams
  <2>2. AxisWindow = [since |-> pref.bounds.from,
                      until |-> IF pref.bounds.to = None THEN 0 ELSE pref.bounds.to]
    BY <1>4 DEF AxisWindow
  <2> QED BY <1>4, <2>1, <2>2 DEF ServedWindow
<1>5. CASE EffectiveRange = "custom" /\ pref.bounds.from = None
  <2>1. pref.bounds.to = None /\ pref.bounds = LoadBounds(None)
    BY <1>1, <1>5 DEF OnlyTo, LoadBounds, Bounds
  <2>2. TimeParams = [since |-> None, until |-> None, window |-> "1d"]
    BY <1>5, <2>1 DEF TimeParams
  <2>3. AxisWindow = [since |-> WindowMs("1d"), until |-> 0]
    BY <1>5, <2>1, WindowIsNat DEF AxisWindow, WindowMs
  <2> QED BY <1>2, <2>2, <2>3 DEF ServedWindow
<1> QED BY <1>3, <1>4, <1>5

(* Whatever range and bounds are chosen, typed, stored or retired, on a    *)
(* wide or a narrow window, the samples that are asked for are those the   *)
(* axis has room for (app.js:294, 315), To alone excepted.                 *)
THEOREM AxisAndQueryAgree == DashSpec => []AxisIsQuery
<1>1. PrefInv => AxisIsQuery
  BY AxisFromTypes DEF PrefInv
<1> QED BY PrefInvHolds, <1>1, PTL

-----------------------------------------------------------------------------
(* The sort order. *)

(* A step shows the sorted column, or leaves both as they are. *)
LEMMA SortIsKept ==
    PrefInv /\ PrefStep =>
        \/ SortedColumnShown'
        \/ pref'.columns = pref.columns /\ pref'.sort = pref.sort
<1> DEFINE AsBefore == pref'.columns = pref.columns /\ pref'.sort = pref.sort
<1> SUFFICES ASSUME PrefInv, PrefStep PROVE SortedColumnShown' \/ AsBefore
  OBVIOUS
<1>1. pref \in Prefs /\ LoadPrefs(storage) = pref
  BY DEF PrefInv, ReloadRestores
<1>2. ASSUME NEW ids, SetVisibleColumns(ids) PROVE SortedColumnShown'
  BY <1>1, <1>2 DEF SetVisibleColumns, Prefs, ByAddress, Locked, SortedColumnShown
<1>3. CASE ChooseColumns
  BY <1>2, <1>3 DEF ChooseColumns
<1>4. ASSUME NEW c \in Columns, ClickHeader(c) PROVE SortedColumnShown'
  BY <1>1, <1>4 DEF ClickHeader, Prefs, SortedColumnShown
<1>5. ASSUME NEW id \in Sections, FoldSection(id) PROVE AsBefore
  BY <1>1, <1>5 DEF FoldSection, Prefs
<1>6. ASSUME NEW r \in Ranges, ChooseRange(r) PROVE AsBefore
  BY <1>1, <1>6 DEF ChooseRange, Prefs
<1>7. CASE TypeBounds
  BY <1>1, <1>7 DEF TypeBounds, Prefs
<1>8. CASE ReloadPreferences
  BY <1>1, <1>8 DEF ReloadPreferences
<1>9. CASE UNCHANGED prefVars
  BY <1>9 DEF prefVars
<1> HIDE DEF AsBefore
<1> QED BY <1>3, <1>4, <1>5, <1>6, <1>7, <1>8, <1>9, Zenon DEF PrefStep

(* Whatever a visit begins with, the first choice of columns or of a sort  *)
(* order shows the sorted column (app.js:848), and no later one, and no    *)
(* reload, hides it: what was stored is what is there (PrefInv), so that a *)
(* reload brings back no column and no sort order of another moment.       *)
THEOREM SortStays == DashSpec => SortStaysShown
<1> DEFINE Stays ==
      SortedColumnShown \/ pref'.columns # pref.columns \/ pref'.sort # pref.sort
        => SortedColumnShown'
<1>1. PrefInv /\ [DashNext]_dashVars => Stays
  <2> SUFFICES ASSUME PrefInv, [DashNext]_dashVars PROVE Stays
    OBVIOUS
  <2>1. CASE SortedColumnShown'
    BY <2>1
  <2>2. CASE pref'.columns = pref.columns /\ pref'.sort = pref.sort
    BY <2>2 DEF SortedColumnShown
  <2> QED BY <2>1, <2>2, PrefFrame, SortIsKept
<1>2. PrefInv /\ [DashNext]_dashVars => [Stays]_dashVars
  BY <1>1
<1> QED BY <1>2, PrefInvHolds, PTL DEF DashSpec, SortStaysShown

(* What a visit begins with shows the column it sorts by, as far as this   *)
(* build knows both.                                                       *)
VisitsAreSorted ==
    \A v \in Visits : LoadSort(v.prefs.sort).key \in LoadColumns(v.prefs.columns)

(* So in one tab, and where the visit does not begin otherwise, the table  *)
(* is never sorted by a column that is not shown.                          *)
THEOREM SortIsShown ==
    ASSUME VisitsAreSorted
    PROVE  DashSpec => []SortedColumnShown
<1>1. DashInit => SortedColumnShown
  <2> SUFFICES ASSUME DashInit PROVE SortedColumnShown
    OBVIOUS
  <2>1. PICK v \in Visits : LoadedPreferences(v.prefs)
    BY DEF DashInit
  <2>2. LoadSort(v.prefs.sort).key \in LoadColumns(v.prefs.columns)
    BY VisitsAreSorted DEF VisitsAreSorted
  <2> QED BY <2>1, <2>2 DEF LoadedPreferences, LoadPrefs, SortedColumnShown
<1>2. PrefInv /\ SortedColumnShown /\ [DashNext]_dashVars => SortedColumnShown'
  <2> SUFFICES ASSUME PrefInv, SortedColumnShown, [DashNext]_dashVars
               PROVE  SortedColumnShown'
    OBVIOUS
  <2> QED BY PrefFrame, SortIsKept DEF SortedColumnShown
<1> QED BY <1>1, <1>2, PrefInvHolds, PTL DEF DashSpec

-----------------------------------------------------------------------------
(* The legend. *)

LEMMA LegendIsKept == HiddenAreDrawn /\ [DashNext]_dashVars => HiddenAreDrawn'
<1> SUFFICES ASSUME HiddenAreDrawn, [DashNext]_dashVars PROVE HiddenAreDrawn'
  OBVIOUS
<1> USE DEF HiddenAreDrawn
<1>1. CASE UNCHANGED <<chart, hidden>>
  BY <1>1
<1>2. CASE WorldStep \/ StartRefresh \/ Release
  BY <1>1, <1>2 DEF WorldStep, StartRefresh, Release, viewVars
<1>3. CASE UserStep
  <2>1. CASE ChangeView
    <3>1. ASSUME NEW line \in chart.lines, ToggleLine(line) PROVE HiddenAreDrawn'
      BY <3>1 DEF ToggleLine
    <3> QED BY <1>1, <2>1, <3>1 DEF ChangeView, ClickRow, ChangeFilters, ChooseMetric,
                                    viewVars
  <2>2. CASE ChangePreferences
    BY <1>1, <2>2 DEF ChangePreferences, viewVars
  <2>3. CASE UNCHANGED viewVars
    BY <1>1, <2>3 DEF viewVars
  <2>4. CASE Reload
    BY <2>4 DEF Reload, NoChart
  <2> QED BY <1>3, <2>1, <2>2, <2>3, <2>4 DEF UserStep
<1>4. ASSUME NEW s \in Slots, HistoryArrives(s) PROVE HiddenAreDrawn'
  BY <1>4 DEF HistoryArrives, StillHidden
<1>5. ASSUME NEW s \in Slots, Answer(s) \/ Fail(s) \/ FleetArrives(s) \/ DetailArrives(s)
      PROVE  HiddenAreDrawn'
  BY <1>1, <1>5 DEF Answer, Fail, FleetArrives, DetailArrives, viewVars
<1>6. CASE UNCHANGED dashVars
  BY <1>1, <1>6 DEF dashVars, viewVars
<1> QED BY <1>2, <1>3, <1>4, <1>5, <1>6 DEF DashNext

(* No legend toggle outlives its line, however many histories for other    *)
(* metrics, windows and filters come in, in any order (app.js:1748).       *)
THEOREM LegendFollowsChart == DashSpec => []HiddenAreDrawn
<1>1. DashInit => HiddenAreDrawn
  BY DEF DashInit, HiddenAreDrawn
<1> QED BY <1>1, LegendIsKept, PTL DEF DashSpec

-----------------------------------------------------------------------------
(* Types: what is drawn is made of miners and brands, and the calls are    *)
(* what they are taken for.                                                *)

LEMMA QueryType == metric \in Metrics /\ pref \in Prefs => Query \in Queries
<1> SUFFICES ASSUME metric \in Metrics, pref \in Prefs PROVE Query \in Queries
  OBVIOUS
<1>1. pref.bounds.from \in Nat \cup {None} /\ pref.bounds.to \in Nat \cup {None}
  <2>1. Bound \subseteq Nat \cup {None}
    <3>1. Ages \subseteq Nat
      BY PreferencesAssumption
    <3>2. 0 \in Nat /\ 24 \in Nat
      OBVIOUS
    <3> QED BY <3>1, <3>2, Zenon DEF Bound
  <2>2. pref.bounds.from \in Bound /\ pref.bounds.to \in Bound
    BY DEF Prefs, Bounds
  <2> QED BY <2>1, <2>2, Zenon
<1>2. TimeParams.since \in Nat \cup {None} /\ TimeParams.until \in Nat \cup {None}
  BY <1>1 DEF TimeParams
<1>3. ServedWindow(TimeParams).since \in Nat
  BY <1>2, WindowIsNat, PreferencesAssumption DEF ServedWindow
<1>4. ServedWindow(TimeParams).until \in Nat
  BY <1>2 DEF ServedWindow
<1>5. ServedWindow(TimeParams) \in Windows
  BY <1>3, <1>4 DEF ServedWindow, Windows
<1> QED BY <1>5 DEF Query, Queries

LEMMA MakeType ==
    ASSUME NEW id, NEW rows \in SUBSET Row
    PROVE  MakeOf(id, rows) \in Makes \cup {None}
<1>1. CASE RowsOf(id, rows) = {}
  BY <1>1 DEF MakeOf
<1>2. CASE RowsOf(id, rows) # {}
  <2> DEFINE r == CHOOSE x \in RowsOf(id, rows) : TRUE
  <2>1. r \in Row
    BY <1>2 DEF RowsOf
  <2>2. r.make \in Makes
    BY <2>1 DEF Row
  <2> QED BY <1>2, <2>2 DEF MakeOf
<1> QED BY <1>1, <1>2

Series == [id : Miners, make : Makes \cup {None}]

LEMMA SeriesType ==
    ASSUME NEW world, world.rows \in SUBSET Row, NEW query
    PROVE  SeriesIn(world, query) \in SUBSET Series
BY MakeType DEF SeriesIn, Series

LEMMA LinesType ==
    ASSUME NEW query, NEW kept \in SUBSET Series, NEW rows \in SUBSET Row
    PROVE  LinesFor(query, kept, rows) \in SUBSET Lines
<1>1. ASSUME NEW s \in kept PROVE LineOf(s, rows) \in Makes \cup {None}
  BY MakeType DEF LineOf, Series
<1>2. ASSUME NEW s \in kept, LineOf(s, rows) # None
      PROVE  <<"type", LineOf(s, rows)>> \in Lines
  BY <1>1, <1>2 DEF Lines
<1>3. ASSUME NEW s \in kept PROVE <<"miner", s.id>> \in Lines
  BY DEF Lines, Series
<1> QED BY <1>2, <1>3 DEF LinesFor

LEMMA FacetsType ==
    ASSUME NEW series \in SUBSET Series, NEW rows \in SUBSET Row
    PROVE  Facets(series, rows) \in SUBSET Makes
BY DEF Facets, Series, Row

LEMMA NoAnswer == None \in Answers /\ 0 \in Answers /\ (\A e \in 1..Len(Worlds) : e \in Answers)
<1>1. Len(Worlds) \in Nat
  BY DashboardAssumption, LenProperties
<1> QED BY <1>1 DEF Answers

(* What an answer that is no failure was read from. *)
LEMMA WorldType ==
    ASSUME calls \in [Slots -> Calls], NEW s \in Slots, NEW at,
           Arrived(s, at), ~Failed(s)
    PROVE  World(s).rows \in SUBSET Row
<1>1. calls[s] \in Calls /\ calls[s] # NoCall /\ calls[s].answer # None /\ calls[s].answer # 0
  BY DEF Arrived, Failed
<1>2. calls[s].answer \in Answers
  BY <1>1 DEF Calls
<1>3. Len(Worlds) \in Nat /\ DOMAIN Worlds = 1..Len(Worlds)
  BY DashboardAssumption, LenProperties
<1>4. calls[s].answer \in DOMAIN Worlds
  BY <1>1, <1>2, <1>3 DEF Answers
<1>5. Worlds[calls[s].answer] \in [rows : SUBSET Row, samples : [Miners -> SUBSET (0..Oldest)]]
  BY <1>4, DashboardAssumption, ElementOfSeq, <1>3
<1> QED BY <1>5 DEF World

LEMMA BeginType ==
    ASSUME calls \in [Slots -> Calls], NEW call \in Calls, Begin(call)
    PROVE  calls' \in [Slots -> Calls]
<1>1. (CHOOSE s \in Free : TRUE) \in Slots
  BY DEF Begin, Free
<1> QED BY <1>1 DEF Begin

LEMMA AnsweredType ==
    ASSUME calls \in [Slots -> Calls], NEW s \in Slots, calls[s] # NoCall, NEW a \in Answers
    PROVE  [calls EXCEPT ![s].answer = a] \in [Slots -> Calls]
<1>1. calls[s] \in Calls
  OBVIOUS
<1>2. [calls[s] EXCEPT !.answer = a] \in Calls
  <2>1. CASE calls[s] \in [at : {"fleet"}, refresh : {TRUE}, answer : Answers]
    BY <2>1 DEF Calls
  <2>2. CASE calls[s] \in [at : {"detail"}, refresh : BOOLEAN, id : Miners, answer : Answers]
    BY <2>2 DEF Calls
  <2>3. CASE calls[s] \in [at : {"history"}, refresh : BOOLEAN, query : Queries, answer : Answers]
    BY <2>3 DEF Calls
  <2> QED BY <1>1, <2>1, <2>2, <2>3 DEF Calls
<1> QED BY <1>2

LEMMA CallTypes ==
    /\ NoCall \in Calls /\ FleetCall \in Calls
    /\ \A refresh \in BOOLEAN, id \in Miners : DetailCall(refresh, id) \in Calls
    /\ \A refresh \in BOOLEAN, query \in Queries : HistoryCall(refresh, query) \in Calls
    /\ FirstCalls \in [Slots -> Calls]
<1>1. NoCall \in Calls /\ FleetCall \in Calls
  BY NoAnswer DEF Calls, NoCall, FleetCall
<1>2. \A refresh \in BOOLEAN, id \in Miners : DetailCall(refresh, id) \in Calls
  BY NoAnswer DEF Calls, DetailCall
<1>3. \A refresh \in BOOLEAN, query \in Queries : HistoryCall(refresh, query) \in Calls
  BY NoAnswer DEF Calls, HistoryCall
<1> QED BY <1>1, <1>2, <1>3 DEF FirstCalls

RowsOK == shown \subseteq Row /\ table \subseteq Row
PaneOK ==
    /\ selected \in Miners \cup {None}
    /\ detail = None \/ detail \in [id : Miners, rows : SUBSET Row]
ChartOK == chart.query \in Queries \cup {None} /\ chart.lines \subseteq Lines
FiltersOK ==
    /\ metric \in Metrics
    /\ picked \subseteq offered /\ offered \subseteq Makes /\ okOnly \in BOOLEAN

ViewInv ==
    /\ epoch \in 1..Len(Worlds)
    /\ RowsOK /\ PaneOK /\ ChartOK /\ FiltersOK
    /\ calls \in [Slots -> Calls]

LEMMA FirstView ==
    ASSUME shown = {}, table = {}, selected = None, detail = None,
           metric = "hashrate", chart = NoChart,
           offered = {}, picked = {}, okOnly = FALSE
    PROVE  RowsOK /\ PaneOK /\ ChartOK /\ FiltersOK
BY DashboardAssumption DEF RowsOK, PaneOK, ChartOK, FiltersOK, NoChart

LEMMA ViewInit == DashInit => ViewInv
<1> SUFFICES ASSUME DashInit PROVE ViewInv
  OBVIOUS
<1>1. RowsOK /\ PaneOK /\ ChartOK /\ FiltersOK
  BY FirstView DEF DashInit
<1>2. Len(Worlds) \in Nat \ {0}
  BY DashboardAssumption, EmptySeq, LenProperties
<1> QED BY <1>1, <1>2, CallTypes DEF DashInit, ViewInv

LEMMA DetailType ==
    ASSUME NEW id \in Miners, NEW rows \in SUBSET Row
    PROVE  DetailOf(id, rows) \in [id : Miners, rows : SUBSET Row]
BY DEF DetailOf, RowsOf

LEMMA NextPartType ==
    ASSUME PrefInv, ViewInv
    PROVE  NextPart \in Calls /\ HistoryCall(TRUE, Query) \in Calls
BY CallTypes, QueryType DEF PrefInv, ViewInv, PaneOK, FiltersOK, NextPart

(* A history that a handler starts asks what it should. *)
LEMMA BeginHistoryType ==
    ASSUME ViewInv, metric' \in Metrics, PrefInv', BeginHistory
    PROVE  calls' \in [Slots -> Calls]
<1>1. Query' \in Queries
  <2>1. pref' \in Prefs
    BY DEF PrefInv
  <2>2. (metric \in Metrics /\ pref \in Prefs => Query \in Queries)'
    BY QueryType, PTL
  <2> QED BY <2>1, <2>2
<1>2. HistoryCall(FALSE, Query') \in Calls
  BY <1>1, CallTypes
<1> QED BY <1>2, BeginType DEF BeginHistory, ViewInv

LEMMA ViewIsKept == PrefInv /\ PrefInv' /\ ViewInv /\ [DashNext]_dashVars => ViewInv'
<1> SUFFICES ASSUME PrefInv, PrefInv', ViewInv, [DashNext]_dashVars PROVE ViewInv'
  OBVIOUS
<1> USE DEF ViewInv
<1>1. RowsOK /\ PaneOK /\ ChartOK /\ FiltersOK /\ calls \in [Slots -> Calls]
  OBVIOUS
<1>2. ASSUME UNCHANGED <<viewVars, filterVars>>
      PROVE  RowsOK' /\ PaneOK' /\ ChartOK' /\ FiltersOK'
  BY <1>1, <1>2 DEF RowsOK, PaneOK, ChartOK, FiltersOK, viewVars, filterVars
<1>3. CASE WorldStep
  <2>1. epoch' \in 1..Len(Worlds)
    BY <1>3, DashboardAssumption, LenProperties DEF WorldStep
  <2> QED BY <1>2, <1>3, <2>1 DEF WorldStep
<1>4. CASE StartRefresh
  <2>1. calls' \in [Slots -> Calls]
    BY <1>4, BeginType, CallTypes DEF StartRefresh
  <2> QED BY <1>2, <1>4, <2>1 DEF StartRefresh
<1>5. CASE Release
  BY <1>2, <1>5 DEF Release
<1>6. CASE UserStep
  <2>1. epoch' = epoch
    BY <1>6 DEF UserStep
  <2>2. ASSUME RenderTable, UNCHANGED shown PROVE RowsOK'
    BY <2>2 DEF RenderTable, RowsOK
  <2>3. ASSUME NEW id \in Miners, ClickRow(id) PROVE ViewInv'
    <3>1. DetailCall(FALSE, id) \in Calls
      BY CallTypes
    <3>2. calls' \in [Slots -> Calls]
      BY <2>3, <3>1, BeginType DEF ClickRow
    <3>3. RowsOK'
      BY <2>2, <2>3 DEF ClickRow
    <3> QED BY <2>1, <2>3, <3>2, <3>3
            DEF ClickRow, PaneOK, ChartOK, FiltersOK, filterVars
  <2>4. CASE ChangeFilters
    <3>1. calls' \in [Slots -> Calls]
      BY <2>4, BeginHistoryType DEF ChangeFilters, FiltersOK
    <3>2. RowsOK'
      BY <2>2, <2>4 DEF ChangeFilters
    <3>3. picked' \subseteq offered /\ okOnly' \in BOOLEAN
      BY <2>4 DEF ChangeFilters, PickFilter, ClearFilters, FiltersOK
    <3> QED BY <2>1, <2>4, <3>1, <3>2, <3>3 DEF ChangeFilters, PaneOK, ChartOK, FiltersOK
  <2>5. CASE ChooseMetric
    <3>1. metric' \in Metrics
      BY <2>5 DEF ChooseMetric
    <3>2. calls' \in [Slots -> Calls]
      BY <2>5, <3>1, BeginHistoryType DEF ChooseMetric
    <3> QED BY <2>1, <2>5, <3>1, <3>2
            DEF ChooseMetric, RowsOK, PaneOK, ChartOK, FiltersOK, viewVars
  <2>6. ASSUME NEW line \in chart.lines, ToggleLine(line) PROVE ViewInv'
    BY <2>1, <2>6 DEF ToggleLine, RowsOK, PaneOK, ChartOK, FiltersOK, filterVars
  <2>7. CASE ChangeView
    BY <2>3, <2>4, <2>5, <2>6, <2>7 DEF ChangeView
  <2>8. CASE ChangePreferences /\ UNCHANGED filterVars
    <3>1. CASE UNCHANGED viewVars /\ (UNCHANGED calls \/ BeginHistory)
      <4>1. calls' \in [Slots -> Calls]
        BY <2>8, <3>1, BeginHistoryType DEF FiltersOK, filterVars
      <4> QED BY <1>2, <2>1, <2>8, <3>1, <4>1
    <3>2. CASE /\ RenderTable
               /\ UNCHANGED <<calls, shown, selected, detail, chart, hidden, offered>>
      BY <2>1, <2>2, <2>8, <3>2 DEF PaneOK, ChartOK, FiltersOK, filterVars
    <3> QED BY <2>8, <3>1, <3>2 DEF ChangePreferences
  <2>9. CASE UNCHANGED <<viewVars, filterVars>> /\ (ChangeWindow \/ UNCHANGED calls)
    <3>1. calls' \in [Slots -> Calls]
      BY <2>9, BeginHistoryType DEF ChangeWindow, FiltersOK, filterVars
    <3> QED BY <1>2, <2>1, <2>9, <3>1
  <2>10. CASE Reload
    <3>1. calls' \in [Slots -> Calls]
      BY <2>10, CallTypes DEF Reload
    <3>2. RowsOK' /\ PaneOK' /\ ChartOK' /\ FiltersOK'
      BY <2>10, DashboardAssumption
         DEF Reload, RowsOK, PaneOK, ChartOK, FiltersOK, NoChart
    <3> QED BY <2>1, <3>1, <3>2
  <2> QED BY <1>6, <2>7, <2>8, <2>9, <2>10 DEF UserStep
<1>7. ASSUME NEW s \in Slots, Answer(s) PROVE ViewInv'
  BY <1>2, <1>7, AnsweredType, NoAnswer DEF Answer, Waits
<1>8. ASSUME NEW s \in Slots, Fail(s) PROVE ViewInv'
  BY <1>2, <1>8, AnsweredType, NoAnswer DEF Fail, Waits
<1>9. ASSUME NEW s \in Slots, FleetArrives(s) PROVE ViewInv'
  <2>1. CASE Failed(s)
    BY <1>9, <2>1, CallTypes
       DEF FleetArrives, RowsOK, PaneOK, ChartOK, FiltersOK, filterVars
  <2>2. CASE ~Failed(s)
    <3>1. World(s).rows \in SUBSET Row
      BY <1>9, <2>2, WorldType DEF FleetArrives
    <3>2. RowsOK'
      BY <1>9, <2>2, <3>1 DEF FleetArrives, RowsOK, Filtered
    <3>3. calls' \in [Slots -> Calls]
      BY <1>9, <2>2, NextPartType DEF FleetArrives
    <3> QED BY <1>9, <3>2, <3>3 DEF FleetArrives, PaneOK, ChartOK, FiltersOK, filterVars
  <2> QED BY <2>1, <2>2
<1>10. ASSUME NEW s \in Slots, DetailArrives(s) PROVE ViewInv'
  <2>1. calls[s].id \in Miners
    BY <1>10 DEF DetailArrives, Arrived, Calls, NoCall
  <2>2. (IF Failed(s) THEN {} ELSE World(s).rows) \in SUBSET Row
    BY <1>10, WorldType DEF DetailArrives
  <2>3. detail' \in [id : Miners, rows : SUBSET Row]
    BY <1>10, <2>1, <2>2, DetailType DEF DetailArrives
  <2>4. calls' \in [Slots -> Calls]
    BY <1>10, NextPartType, CallTypes DEF DetailArrives
  <2> QED BY <1>10, <2>3, <2>4
          DEF DetailArrives, RowsOK, PaneOK, ChartOK, FiltersOK, filterVars
<1>11. ASSUME NEW s \in Slots, HistoryArrives(s) PROVE ViewInv'
  <2> DEFINE query  == calls[s].query
             series == IF Failed(s) THEN {} ELSE SeriesIn(World(s), query)
  <2>1. query \in Queries
    BY <1>11 DEF HistoryArrives, Arrived, Calls, NoCall
  <2>2. series \in SUBSET Series
    BY <1>11, WorldType, SeriesType DEF HistoryArrives
  <2>3. /\ offered' = Facets(series, shown) /\ picked' = picked \cap offered'
        /\ chart' = [query |-> query, series |-> series,
                     lines |-> LinesNow(query, series, picked')]
        /\ table' = TableAfter(calls[s].refresh, picked')
        /\ calls' = [calls EXCEPT ![s] = NoCall]
        /\ UNCHANGED <<epoch, shown, selected, detail, metric, okOnly>>
    BY <1>11 DEF HistoryArrives
  <2> HIDE DEF query, series
  <2>4. offered' \subseteq Makes /\ picked' \subseteq offered'
    BY <1>1, <2>2, <2>3, FacetsType DEF RowsOK
  <2>5. Kept(series, shown, picked', okOnly) \in SUBSET Series
    BY <2>2 DEF Kept
  <2>6. LinesNow(query, series, picked') \in SUBSET Lines
    BY <1>1, <2>5, LinesType DEF LinesNow, RowsOK
  <2>7. ChartOK'
    BY <2>1, <2>3, <2>6 DEF ChartOK
  <2>8. RowsOK'
    BY <1>1, <2>3 DEF RowsOK, TableAfter
  <2>9. calls' \in [Slots -> Calls]
    BY <2>3, CallTypes
  <2> QED BY <1>1, <2>3, <2>4, <2>7, <2>8, <2>9 DEF PaneOK, FiltersOK
<1>12. CASE UNCHANGED dashVars
  BY <1>2, <1>12 DEF dashVars
<1> QED BY <1>3, <1>4, <1>5, <1>6, <1>7, <1>8, <1>9, <1>10, <1>11, <1>12 DEF DashNext

LEMMA PageInvHolds == DashSpec => [](PrefInv /\ ViewInv)
BY ViewInit, ViewIsKept, PrefInvHolds, PTL DEF DashSpec

(* Overlapping calls, and answers of any age, bring the page to no state   *)
(* but these: what is drawn is made of miners and brands, and a brand that *)
(* is picked is on offer.                                                  *)
THEOREM PageTypes == DashSpec => []DashTypeOK
<1>1. PrefInv /\ ViewInv => DashTypeOK
  BY DEF PrefInv, ViewInv, RowsOK, PaneOK, ChartOK, FiltersOK, DashTypeOK
<1> QED BY <1>1, PageInvHolds, PTL

-----------------------------------------------------------------------------
(* The chart.                                                              *)

(* A history is on its way: itself, or behind the detail of a refresh.     *)
BringsHistory(call) == call.at = "history" \/ (call.at = "detail" /\ call.refresh)

Pending == \E s \in Slots : BringsHistory(calls[s])

Matches == chart.lines = LinesFor(chart.query, Kept(chart.series, shown, picked, okOnly), shown)

(* Rows that a call still asks for do no harm: only those that have come   *)
(* can make the chart differ.  So less is excused than by HistoryComes,    *)
(* and a refresh that fails with its rows leaves the chart as right as it  *)
(* was.                                                                    *)
ChartInv == chart.query # None /\ ~Pending => Matches

LEMMA StillPending ==
    ASSUME Pending,
           UNCHANGED calls \/ \E call : Begin(call)
    PROVE  Pending'
<1>1. PICK s \in Slots : BringsHistory(calls[s])
  BY DEF Pending
<1>2. CASE UNCHANGED calls
  BY <1>1, <1>2 DEF Pending
<1>3. ASSUME NEW call, Begin(call) PROVE Pending'
  <2> DEFINE t == CHOOSE f \in Free : TRUE
  <2>1. t \in Free
    BY <1>3 DEF Begin
  <2>2. t # s
    BY <1>1, <2>1 DEF Free, NoCall, BringsHistory
  <2>3. calls'[s] = calls[s]
    <3>1. calls' = [calls EXCEPT ![t] = call]
      BY <1>3 DEF Begin
    <3> HIDE DEF t
    <3> QED BY <2>2, <3>1
  <2> QED BY <1>1, <2>3 DEF Pending
<1> QED BY <1>2, <1>3

LEMMA PendingNow ==
    ASSUME calls \in [Slots -> Calls], NEW s \in Slots, NEW call,
           calls' = [calls EXCEPT ![s] = call], BringsHistory(call)
    PROVE  Pending'
BY DEF Pending

LEMMA BegunIsPending ==
    ASSUME calls \in [Slots -> Calls], BeginHistory
    PROVE  Pending'
<1> DEFINE t == CHOOSE f \in Free : TRUE
<1>1. t \in Slots /\ calls' = [calls EXCEPT ![t] = HistoryCall(FALSE, Query')]
  BY DEF BeginHistory, Begin, Free
<1>2. BringsHistory(HistoryCall(FALSE, Query'))
  BY DEF BringsHistory, HistoryCall
<1> QED BY <1>1, <1>2, PendingNow

LEMMA OtherStaysPending ==
    ASSUME calls \in [Slots -> Calls], NEW s \in Slots, NEW call,
           calls' = [calls EXCEPT ![s] = call],
           BringsHistory(calls[s]) => BringsHistory(call), Pending
    PROVE  Pending'
BY DEF Pending

LEMMA ChartIsKept == ViewInv /\ ChartInv /\ [DashNext]_dashVars => ChartInv'
<1> SUFFICES ASSUME ViewInv, ChartInv, [DashNext]_dashVars PROVE ChartInv'
  OBVIOUS
<1>1. calls \in [Slots -> Calls]
  BY DEF ViewInv
<1>2. ASSUME UNCHANGED <<chart, shown, picked, okOnly>>, Pending => Pending'
      PROVE  ChartInv'
  BY <1>2 DEF ChartInv, Matches
<1>3. ASSUME UNCHANGED <<chart, shown, picked, okOnly>>,
             UNCHANGED calls \/ \E call : Begin(call)
      PROVE  ChartInv'
  BY <1>2, <1>3, StillPending
<1>4. ASSUME Pending' PROVE ChartInv'
  BY <1>4 DEF ChartInv
<1>5. CASE WorldStep \/ StartRefresh \/ Release
  BY <1>3, <1>5 DEF WorldStep, StartRefresh, Release, viewVars, filterVars
<1>6. CASE UserStep
  <2>1. ASSUME NEW id \in Miners, ClickRow(id) PROVE ChartInv'
    BY <1>3, <2>1 DEF ClickRow, filterVars
  <2>2. CASE ChangeFilters
    BY <1>1, <1>4, <2>2, BegunIsPending DEF ChangeFilters
  <2>3. CASE ChooseMetric
    BY <1>1, <1>4, <2>3, BegunIsPending DEF ChooseMetric
  <2>4. ASSUME NEW line \in chart.lines, ToggleLine(line) PROVE ChartInv'
    BY <1>3, <2>4 DEF ToggleLine, filterVars
  <2>5. CASE ChangeView
    BY <2>1, <2>2, <2>3, <2>4, <2>5 DEF ChangeView
  <2>6. CASE ChangePreferences /\ UNCHANGED filterVars
    BY <1>1, <1>3, <1>4, <2>6, BegunIsPending DEF ChangePreferences, viewVars, filterVars
  <2>7. CASE UNCHANGED <<viewVars, filterVars>> /\ (ChangeWindow \/ UNCHANGED calls)
    BY <1>1, <1>3, <1>4, <2>7, BegunIsPending DEF ChangeWindow, viewVars, filterVars
  <2>8. CASE Reload
    BY <2>8 DEF Reload, NoChart, ChartInv
  <2> QED BY <1>6, <2>5, <2>6, <2>7, <2>8 DEF UserStep
<1>7. ASSUME NEW s \in Slots, Answer(s) \/ Fail(s) PROVE ChartInv'
  <2>1. PICK a : calls' = [calls EXCEPT ![s].answer = a]
    BY <1>7 DEF Answer, Fail
  <2>2. calls[s] \in Calls /\ calls[s] # NoCall
    BY <1>1, <1>7 DEF Answer, Fail, Waits
  <2>3. BringsHistory(calls[s]) => BringsHistory([calls[s] EXCEPT !.answer = a])
    BY <2>2 DEF Calls, BringsHistory
  <2>4. Pending => Pending'
    BY <1>1, <2>1, <2>3, OtherStaysPending
  <2> QED BY <1>2, <1>7, <2>4 DEF Answer, Fail, viewVars, filterVars
<1>8. ASSUME NEW s \in Slots, FleetArrives(s) PROVE ChartInv'
  <2>1. CASE Failed(s)
    <3>1. ~BringsHistory(calls[s])
      BY <1>8 DEF FleetArrives, Arrived, BringsHistory
    <3>2. Pending => Pending'
      BY <1>1, <1>8, <2>1, <3>1, OtherStaysPending DEF FleetArrives
    <3> QED BY <1>2, <1>8, <2>1, <3>2 DEF FleetArrives, filterVars
  <2>2. CASE ~Failed(s)
    <3>1. BringsHistory(NextPart)
      BY DEF NextPart, BringsHistory, DetailCall, HistoryCall
    <3> QED BY <1>1, <1>4, <1>8, <2>2, <3>1, PendingNow DEF FleetArrives
  <2> QED BY <2>1, <2>2
<1>9. ASSUME NEW s \in Slots, DetailArrives(s) PROVE ChartInv'
  <2>1. CASE calls[s].refresh
    <3>1. BringsHistory(HistoryCall(TRUE, Query))
      BY DEF BringsHistory, HistoryCall
    <3> QED BY <1>1, <1>4, <1>9, <2>1, <3>1, PendingNow DEF DetailArrives
  <2>2. CASE ~calls[s].refresh
    <3>1. ~BringsHistory(calls[s])
      BY <1>9, <2>2 DEF DetailArrives, Arrived, BringsHistory
    <3>2. Pending => Pending'
      BY <1>1, <1>9, <2>2, <3>1, OtherStaysPending DEF DetailArrives
    <3> QED BY <1>2, <1>9, <3>2 DEF DetailArrives, filterVars
  <2> QED BY <2>1, <2>2
<1>10. ASSUME NEW s \in Slots, HistoryArrives(s) PROVE ChartInv'
  <2> DEFINE query  == calls[s].query
             series == IF Failed(s) THEN {} ELSE SeriesIn(World(s), query)
  <2>1. /\ chart' = [query |-> query, series |-> series,
                     lines |-> LinesNow(query, series, picked')]
        /\ UNCHANGED <<shown, okOnly>>
    BY <1>10 DEF HistoryArrives
  <2> HIDE DEF query, series
  <2>2. Matches'
    BY <2>1 DEF Matches, LinesNow
  <2> QED BY <2>2 DEF ChartInv
<1>11. CASE UNCHANGED dashVars
  BY <1>3, <1>11 DEF dashVars, viewVars, filterVars
<1> QED BY <1>5, <1>6, <1>7, <1>8, <1>9, <1>10, <1>11 DEF DashNext

(* Rows, filters, metrics and windows change while histories are out, and  *)
(* calls fail; yet whenever none is on its way, the chart shows what       *)
(* passes the filters and the rows of now (app.js:1721).                   *)
THEOREM ChartFollowsFilters == DashSpec => []ChartMatchesFilters
<1>1. DashInit => ChartInv
  BY DEF DashInit, ChartInv, NoChart
<1>2. DashSpec => []ChartInv
  BY <1>1, ChartIsKept, PageInvHolds, PTL DEF DashSpec
<1>3. ChartInv => ChartMatchesFilters
  <2>1. ASSUME NEW s \in Slots, BringsHistory(calls[s]) PROVE HistoryComes
    BY <2>1 DEF BringsHistory, HistoryComes, NoCall
  <2> QED BY <2>1 DEF ChartInv, ChartMatchesFilters, Matches, Pending
<1> QED BY <1>2, <1>3, PTL

-----------------------------------------------------------------------------
(* The table a refresh leaves.                                             *)

LEMMA RefreshStep ==
    ASSUME ViewInv, DashNext, NEW s \in Slots, RefreshEnds(s)
    PROVE  table' = Filtered(shown)'
<1>1. /\ calls[s].at = "history" /\ calls[s].refresh
      /\ calls'[s] = NoCall /\ selected' = selected
  BY DEF RefreshEnds
<1>2. calls \in [Slots -> Calls] /\ calls'[s] # calls[s] /\ calls[s] # NoCall
  BY <1>1 DEF ViewInv, NoCall
<1>3. ASSUME NEW call, Begin(call) PROVE FALSE
  <2> DEFINE t == CHOOSE f \in Free : TRUE
  <2>1. t \in Free /\ calls' = [calls EXCEPT ![t] = call]
    BY <1>3 DEF Begin
  <2>2. t # s
    BY <1>2, <2>1 DEF Free
  <2> HIDE DEF t
  <2> QED BY <1>2, <2>1, <2>2
<1>4. ASSUME NEW t \in Slots, HistoryArrives(t) PROVE table' = Filtered(shown)'
  <2>1. calls' = [calls EXCEPT ![t] = NoCall]
    BY <1>4 DEF HistoryArrives
  <2>2. t = s
    BY <1>2, <2>1
  <2> QED BY <1>1, <1>4, <2>2 DEF HistoryArrives, TableAfter, Filtered
<1>5. ASSUME NEW t \in Slots, FleetArrives(t) PROVE FALSE
  <2>1. t # s
    BY <1>1, <1>5 DEF FleetArrives, Arrived
  <2> QED BY <1>2, <1>5, <2>1 DEF FleetArrives
<1>6. ASSUME NEW t \in Slots, DetailArrives(t) PROVE FALSE
  <2>1. t # s
    BY <1>1, <1>6 DEF DetailArrives, Arrived
  <2> QED BY <1>2, <1>6, <2>1 DEF DetailArrives
<1>7. ASSUME NEW t \in Slots, Answer(t) \/ Fail(t) PROVE FALSE
  <2>1. PICK a : calls' = [calls EXCEPT ![t].answer = a]
    BY <1>7 DEF Answer, Fail
  <2>2. calls'[s].at = calls[s].at
    BY <1>2, <2>1 DEF Calls
  <2> QED BY <1>1, <2>2 DEF NoCall
<1>8. CASE Reload
  BY <1>8 DEF Reload, Filtered
<1>9. ASSUME UserStep, ~Reload PROVE FALSE
  BY <1>2, <1>3, <1>9
     DEF UserStep, ChangeView, ClickRow, ChangeFilters, ChooseMetric, ToggleLine,
         ChangePreferences, ChangeWindow, BeginHistory
<1>10. CASE WorldStep \/ StartRefresh \/ Release
  BY <1>2, <1>3, <1>10 DEF WorldStep, StartRefresh, Release
<1> QED BY <1>4, <1>5, <1>6, <1>7, <1>8, <1>9, <1>10 DEF DashNext

(* The history that ends a refresh may take picked brands away, and the    *)
(* user may have changed the filters meanwhile: the table it leaves is     *)
(* that of the filters there are then (app.js:1772).                       *)
THEOREM RefreshLeavesTable == DashSpec => RefreshLeavesTableRight
<1>1. ViewInv /\ [DashNext]_dashVars
        => [(\E s \in Slots : RefreshEnds(s)) => table' = Filtered(shown)']_dashVars
  BY RefreshStep
<1> QED BY <1>1, PageInvHolds, PTL DEF DashSpec, RefreshLeavesTableRight
=============================================================================
