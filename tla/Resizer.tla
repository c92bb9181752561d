------------------------------ MODULE Resizer -------------------------------
(***************************************************************************)
(* The width of the filters column (web/static/app.js): dragged with a     *)
(* pointer, nudged with the keyboard, kept within what the window leaves,  *)
(* and stored for the next visit.  Lengths are in units of the instance.   *)
(*                                                                         *)
(* A finger or a button pressed on the handle ends with pointerup or with  *)
(* pointercancel, in any order with the others that are down.              *)
(***************************************************************************)
EXTENDS Integers, FiniteSetsExt

CONSTANTS
    None,           \* the missing value
    MinWidth,       \* FILTERS_WIDTH_MIN
    MostWidth,      \* FILTERS_WIDTH_MAX
    DefaultWidth,   \* FILTERS_WIDTH_DEFAULT
    Reserve,        \* FILTERS_RESIZER_PX + FILTERS_RIGHT_MIN
    Step,           \* one press of an arrow key
    Viewports,      \* the widths the window can have
    Positions,      \* where a pointer can be, from the column's left edge
    Pointers        \* ids of pointers

ASSUME ResizerAssumption ==
    /\ MinWidth \in Nat /\ MostWidth \in Nat /\ DefaultWidth \in Nat
    /\ MinWidth <= DefaultWidth /\ DefaultWidth <= MostWidth
    /\ Reserve \in Nat /\ Step \in Nat
    /\ Viewports \subseteq Nat /\ Positions \subseteq Int
    /\ None \notin Pointers \cup Nat

VARIABLES
    viewport,    \* clientWidth of the grid
    width,       \* state.filtersWidth
    storedWidth, \* localStorage filtersWidth, or None
    down,        \* pointers that are pressed, and were pressed on the handle
    drag         \* dragPointerId, or None when not dragging

resizerVars == <<viewport, width, storedWidth, down, drag>>

-----------------------------------------------------------------------------
Least(a, b) == Min({a, b})
Most(a, b) == Max({a, b})

(* The right column keeps its room. *)
MaxWidth(v) == Most(MinWidth, Least(MostWidth, v - Reserve))

Clamp(px, v) == Least(MaxWidth(v), Most(MinWidth, px))

(* Within the constants only: the window is looked at when it is applied. *)
LoadWidth(stored) ==
    IF stored = None THEN DefaultWidth
    ELSE Least(MostWidth, Most(MinWidth, stored))

-----------------------------------------------------------------------------
LoadResizer(v, stored) ==
    /\ viewport = v /\ storedWidth = stored
    /\ width = Clamp(LoadWidth(stored), v)
    /\ down = {} /\ drag = None

ApplyWidth(px) == width' = Clamp(px, viewport)

(* A drag changes the width and stores it when it ends. *)
PointerDown(p, x) ==
    /\ p \notin down
    /\ down' = down \cup {p} /\ drag' = p
    /\ ApplyWidth(x)
    /\ UNCHANGED <<viewport, storedWidth>>

PointerMove(x) ==
    /\ drag # None
    /\ ApplyWidth(x)
    /\ UNCHANGED <<viewport, storedWidth, down, drag>>

(* Mutant: only pointerup ends a drag. *)
PointerEndsUp(p, cancelled) ==
    /\ p \in down
    /\ down' = down \ {p}
    /\ IF p = drag /\ ~cancelled
       THEN drag' = None /\ ApplyWidth(width) /\ storedWidth' = width'
       ELSE UNCHANGED <<drag, width, storedWidth>>
    /\ UNCHANGED viewport

(* pointerup and pointercancel: endDrag. *)
PointerEnds(p, cancelled) ==
    /\ p \in down
    /\ down' = down \ {p}
    /\ IF p = drag
       THEN drag' = None /\ ApplyWidth(width) /\ storedWidth' = width'
       ELSE UNCHANGED <<drag, width, storedWidth>>
    /\ UNCHANGED viewport

(* The double click, and the keys: these are stored at once. *)
SetWidth(px) ==
    /\ ApplyWidth(px) /\ storedWidth' = width'
    /\ UNCHANGED <<viewport, down, drag>>

DoubleClick == SetWidth(DefaultWidth)

Nudge ==
    \E px \in {width - Step, width + Step, MinWidth, MaxWidth(viewport)} : SetWidth(px)

(* Mutant: the width waits for the next drag. *)
ResizeWindowOnly(v) ==
    /\ v # viewport
    /\ viewport' = v
    /\ UNCHANGED <<width, storedWidth, down, drag>>

(* The window changes: the width is clamped again, and not stored. *)
ResizeWindow(v) ==
    /\ v # viewport
    /\ viewport' = v
    /\ width' = Clamp(width, v)
    /\ UNCHANGED <<storedWidth, down, drag>>

ReloadResizer ==
    /\ width' = Clamp(LoadWidth(storedWidth), viewport)
    /\ down' = {} /\ drag' = None
    /\ UNCHANGED <<viewport, storedWidth>>

ResizerStep ==
    \/ \E p \in Pointers, x \in Positions : PointerDown(p, x)
    \/ \E x \in Positions : PointerMove(x)
    \/ DoubleClick
    \/ Nudge

-----------------------------------------------------------------------------
(* "keep at least this much" for the right column (app.js:44), "so we      *)
(* never overflow horizontally" (app.js:61): whatever was stored, dragged  *)
(* or resized, in any order, the column fits the window there is now, and  *)
(* a drag follows a pointer that is still pressed: with several fingers,   *)
(* and with pointers the browser takes away, the column never follows one  *)
(* that is gone (app.js:1986).                                             *)
WidthFits ==
    /\ width \in MinWidth..MaxWidth(viewport)
    /\ drag # None => drag \in down
=============================================================================
