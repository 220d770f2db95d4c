-------------------------------- MODULE Columns --------------------------------
(***************************************************************************)
(* The columns of a table (lib/columns.ts), the menu that shows, hides and *)
(* reorders them (ColumnPicker.vue) and the drag that changes the width of *)
(* one (InstancesView.vue).  The choices live in the browser's storage,    *)
(* where those of an earlier version of the program, or anything else, may *)
(* be found.  The header and the rows are laid out by the same list, so it *)
(* must hold every column once and the fixed ones at their places.         *)
(***************************************************************************)
EXTENDS Naturals, Integers, SequencesExt, Lists

CONSTANTS Defs,       \* the columns in the order of their definitions
          Fixed,      \* those that are always there, at their places
          NeedsView,  \* the least width of the window for a column
          MinWidth,   \* the least width of a column, 0 when it cannot be dragged
          MaxWidth,   \* MAX_COLUMN_WIDTH
          Unknown,    \* keys no column has (any more)
          Found,      \* what may be found in the storage
          Pixels,     \* widths a drag may ask for
          Views,      \* widths of the window
          None,
          MaxSteps    \* bound on the choices made

VARIABLES
  hidden, order, widths,  \* the choices: keys hidden, the order, the widths set by hand
  saved,                  \* localStorage: the same three
  vw,                     \* the width of the window
  resizing,               \* the column whose edge is dragged, or None
  dragging,               \* the column dragged in the menu, or None
  steps

choices == <<hidden, order, widths>>
vars == <<choices, saved, vw, resizing, dragging, steps>>

Columns == Range(Defs)

\* The places between the fixed columns.
Gaps == {i \in DOMAIN Defs : Defs[i] \notin Fixed}
toggleable == Kept(Defs, Gaps)
Movable == Range(toggleable)
Names == Columns \union Unknown

TypeOK ==
  /\ hidden \subseteq Names /\ order \in Seq(Names)
  /\ DOMAIN widths \subseteq Names /\ vw \in Views
  /\ resizing \in Columns \union {None} /\ dragging \in Movable \union {None}

-----------------------------------------------------------------------------
(* What is laid out *)

\* Mutant: only what has a place in the stored order.
orderedStored == ToSet(order) \intersect Movable

\* The stored order may lack a column that is new: those follow.
orderedSet == Movable

\* Mutant: every entry of the stored order counts.
onceAnyway(k) == TRUE

\* A stored order may name a column twice: the first one counts.
once(k) == \A j \in 1 .. k - 1 : order[j] # order[k]

ordered ==
  LET first == Kept(order, {k \in DOMAIN order : order[k] \in Movable /\ once(k)})
      others == {n \in DOMAIN toggleable : toggleable[n] \in orderedSet \ Range(first)}
  IN first \o Kept(toggleable, others)

\* The fixed ones stay where they are defined, the others fill the gaps in order.
Before(i) == Cardinality({j \in Gaps : j <= i})
arranged == [i \in DOMAIN Defs |->
               IF Defs[i] \in Fixed THEN Defs[i]
               ELSE IF Before(i) \in DOMAIN ordered THEN ordered[Before(i)] ELSE None]

fits(c) == vw >= NeedsView[c]
isShown(c) == c \in Fixed \/ (c \notin hidden /\ fits(c))
visible == Kept(arranged, {i \in DOMAIN arranged : isShown(arranged[i])})
suppressed == {c \in Movable : c \notin hidden /\ ~fits(c)}

widthOf(c) == IF c \in DOMAIN widths THEN widths[c] ELSE 0

-----------------------------------------------------------------------------
Store == saved' = [hidden |-> hidden', order |-> order', widths |-> widths']

\* useColumns: what is stored, where it has the right form.
Init ==
  /\ saved \in Found
  /\ hidden = saved.hidden /\ order = saved.order /\ widths = saved.widths
  /\ vw \in Views /\ resizing = None /\ dragging = None /\ steps = 0

\* The page is left and entered again: a drag in progress is lost with its table.
Enter ==
  /\ hidden' = saved.hidden /\ order' = saved.order /\ widths' = saved.widths
  /\ resizing' = None /\ dragging' = None
  /\ UNCHANGED <<saved, vw, steps>>

\* The window: not while the pointer holds an edge.
Resize(w) ==
  /\ resizing = None /\ w # vw
  /\ vw' = w
  /\ UNCHANGED <<choices, saved, resizing, dragging, steps>>

Step == steps < MaxSteps /\ steps' = steps + 1

toggle(c) ==
  /\ Step /\ resizing = None /\ c \in Range(ordered)
  /\ hidden' = IF c \in hidden THEN hidden \ {c} ELSE hidden \union {c}
  /\ UNCHANGED <<order, widths, vw, resizing, dragging>>
  /\ Store

\* moveTo: taken out of its place and put where the other one was.
Moved(c, target) ==
  LET rest == Kept(ordered, {i \in DOMAIN ordered : ordered[i] # c})
      to == CHOOSE i \in DOMAIN ordered : ordered[i] = target
  IN SubSeq(rest, 1, to - 1) \o <<c>> \o SubSeq(rest, to, Len(rest))

moveTo(c, target) ==
  /\ IF c # target /\ {c, target} \subseteq Range(ordered)
     THEN order' = Moved(c, target) ELSE order' = order
  /\ UNCHANGED <<hidden, widths, vw, resizing>>
  /\ Store

DragStart(c) ==
  /\ resizing = None /\ dragging = None /\ c \in Range(ordered)
  /\ dragging' = c
  /\ UNCHANGED <<choices, saved, vw, resizing, steps>>

onDrop(target) ==
  /\ Step /\ dragging # None /\ target \in Range(ordered)
  /\ moveTo(dragging, target) /\ dragging' = None

DragEnd ==
  /\ dragging # None
  /\ dragging' = None
  /\ UNCHANGED <<choices, saved, vw, resizing, steps>>

\* step: the buttons that move a column up or down.
step(c, up) ==
  /\ Step /\ resizing = None /\ dragging = None /\ c \in Range(ordered)
  /\ LET i == CHOOSE k \in DOMAIN ordered : ordered[k] = c
         to == IF up THEN i - 1 ELSE i + 1
     IN to \in DOMAIN ordered /\ moveTo(c, ordered[to])
  /\ UNCHANGED dragging

\* startResize: the handle of a column of the header.
startResize(c) ==
  /\ resizing = None /\ dragging = None /\ c \in Range(visible) /\ MinWidth[c] > 0
  /\ resizing' = c
  /\ UNCHANGED <<choices, saved, vw, dragging, steps>>

Clamped(c, px) == IF px > MaxWidth THEN MaxWidth ELSE IF px < MinWidth[c] THEN MinWidth[c] ELSE px

\* onMove: only in memory.
onMove(px) ==
  /\ Step /\ resizing # None
  /\ widths' = [c \in DOMAIN widths \union {resizing} |->
                  IF c = resizing THEN Clamped(resizing, px) ELSE widths[c]]
  /\ UNCHANGED <<hidden, order, saved, vw, resizing, dragging>>

\* onUp: a width that was set is clamped again and stored with the others.
onUp ==
  /\ resizing # None /\ resizing' = None
  /\ UNCHANGED <<hidden, order, vw, dragging, steps>>
  /\ IF resizing \in DOMAIN widths
     THEN /\ widths' = [widths EXCEPT ![resizing] = Clamped(resizing, @)]
          /\ Store
     ELSE UNCHANGED <<widths, saved>>

resetWidth(c) ==
  /\ Step /\ resizing = None /\ dragging = None /\ c \in DOMAIN widths \intersect Range(visible)
  /\ widths' = [k \in DOMAIN widths \ {c} |-> widths[k]]
  /\ UNCHANGED <<hidden, order, vw, resizing, dragging>>
  /\ Store

reset ==
  /\ Step /\ resizing = None /\ dragging = None
  /\ hidden' = {} /\ order' = <<>> /\ widths' = <<>>
  /\ UNCHANGED <<vw, resizing, dragging>>
  /\ Store

Next ==
  \/ Enter \/ DragEnd \/ onUp \/ reset
  \/ \E w \in Views : Resize(w)
  \/ \E c \in Columns : toggle(c) \/ DragStart(c) \/ onDrop(c) \/ startResize(c) \/ resetWidth(c)
  \/ \E c \in Columns, up \in BOOLEAN : step(c, up)
  \/ \E px \in Pixels : onMove(px)

Spec == Init /\ [][Next]_vars

-----------------------------------------------------------------------------
\* Whatever was stored and whatever was chosen: the table has every column once,
\* the fixed ones at their places, in the header and in the rows; a column that
\* is on and not shown is one the menu excuses; and what is shown is what the
\* next visit will show, but for a width that is just being dragged.
ColumnsWhole ==
  /\ Len(arranged) = Len(Defs) /\ Range(arranged) = Columns
  /\ \A i \in DOMAIN Defs : Defs[i] \in Fixed => arranged[i] = Defs[i]
  /\ \A i, j \in DOMAIN visible : visible[i] = visible[j] => i = j
  /\ Movable \ hidden = (Range(visible) \ Fixed) \union suppressed
  /\ saved.hidden = hidden /\ saved.order = order
  /\ \A c \in Columns \ {resizing} : widthOf(c) = IF c \in DOMAIN saved.widths THEN saved.widths[c] ELSE 0
=================================================================================
