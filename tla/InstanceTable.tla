----------------------------- MODULE InstanceTable -----------------------------
(***************************************************************************)
(* The table of the instances (InstancesView.vue, the filters and the      *)
(* selection of the store): notes and names edited in place, shown before  *)
(* they are stored and taken back when that fails; rows filtered, sorted   *)
(* and grouped; and the actions on those selected.                         *)
(*                                                                         *)
(* Names and notes are numbers, in the order of the collation, and a note  *)
(* of 0 is empty.  A list that is loaded replaces every row, so that a     *)
(* failed save of an older one takes back what is shown no more.           *)
(***************************************************************************)
EXTENDS Integers, FiniteSets

CONSTANTS Ids,        \* the instances
          AccountOf,  \* of an instance
          FromServer, \* lists the server may start with
          Notes, Names,  \* what may be typed
          Nothing,
          MaxEdits, MaxLoads, MaxChoices  \* bounds

VARIABLES
  stored,     \* the instances at the server
  shown,      \* state.instances
  turn,       \* how often it was replaced
  editing,    \* editingNote, editingName with their draft, or Nothing
  saves, loads, bulks,  \* requests under way
  selection, stateFilter, accountFilter, groupByAccount, collapsedGroups,
  sort, savedSort,      \* the order of the rows, and its copy in localStorage
  edits, sent, loaded, chosen,  \* edits begun, saves sent, lists loaded, choices made
  overlapped  \* history: a save or a load was under way together with a save, or an answer was lost

choices == <<selection, stateFilter, accountFilter, groupByAccount, collapsedGroups, sort, savedSort, chosen>>
requests == <<saves, loads, bulks, sent, loaded, overlapped>>
vars == <<stored, shown, turn, editing, requests, choices, edits>>

Accounts == {AccountOf[i] : i \in Ids}
Filters == {"all", "running", "stopped"}
SortKeys == {"name", "note", "uptime"}
Sorts == [key : SortKeys, dir : {1, -1}] \union {Nothing}

Row == [name : Names, note : Notes \union {0}, running : BOOLEAN, since : 1 .. 2]

TypeOK ==
  /\ stored \in [Ids -> Row] /\ shown \in [Ids -> Row]
  /\ selection \subseteq Ids /\ stateFilter \in Filters
  /\ accountFilter \subseteq Accounts /\ collapsedGroups \subseteq Accounts
  /\ sort \in Sorts /\ savedSort \in Sorts

Init ==
  /\ stored \in FromServer /\ shown = stored /\ turn = 0
  /\ editing = Nothing /\ saves = {} /\ loads = {} /\ bulks = {}
  /\ selection = {} /\ stateFilter = "all" /\ accountFilter = Accounts
  /\ groupByAccount = FALSE /\ collapsedGroups = {}
  /\ savedSort \in Sorts /\ sort = savedSort
  /\ edits = 0 /\ sent = 0 /\ loaded = 0 /\ chosen = 0 /\ overlapped = FALSE

-----------------------------------------------------------------------------
(* Editing in place *)

\* startNote, startRename, with what is typed: the field that was edited before
\* loses the focus, which saves it.
Edit(field, i, value) ==
  /\ editing = Nothing /\ edits < MaxEdits
  /\ editing' = [field |-> field, id |-> i, draft |-> value] /\ edits' = edits + 1
  /\ UNCHANGED <<stored, shown, turn, requests, choices>>

Escape ==
  /\ editing # Nothing
  /\ editing' = Nothing
  /\ UNCHANGED <<stored, shown, turn, requests, choices, edits>>

Put(list, i, field, value) ==
  [list EXCEPT ![i] = IF field = "note" THEN [@ EXCEPT !.note = value] ELSE [@ EXCEPT !.name = value]]
Field(row, field) == IF field = "note" THEN row.note ELSE row.name

\* saveNote, saveName: by the Enter key or when the focus is lost; nothing is sent
\* for what is as it was, or an empty name.
Save ==
  /\ editing # Nothing
  /\ editing' = Nothing
  /\ LET before == Field(shown[editing.id], editing.field)
     IN IF editing.draft = before \/ (editing.field = "name" /\ editing.draft = 0)
        THEN UNCHANGED <<shown, requests>>
        ELSE /\ shown' = Put(shown, editing.id, editing.field, editing.draft)
             /\ saves' = saves \union {[n |-> sent, id |-> editing.id, field |-> editing.field,
                           value |-> editing.draft, before |-> before, turn |-> turn, done |-> FALSE]}
             /\ sent' = sent + 1
             /\ overlapped' = (overlapped \/ saves # {} \/ loads # {})
             /\ UNCHANGED <<loads, bulks, loaded>>
  /\ UNCHANGED <<stored, turn, choices, edits>>

ServeSave(s) ==
  /\ s \in saves /\ ~s.done
  /\ stored' = Put(stored, s.id, s.field, s.value)
  /\ saves' = (saves \ {s}) \union {[s EXCEPT !.done = TRUE]}
  /\ UNCHANGED <<shown, turn, editing, loads, bulks, sent, loaded, overlapped, choices, edits>>

Saved(s) ==
  /\ s \in saves /\ s.done
  /\ saves' = saves \ {s}
  /\ UNCHANGED <<stored, shown, turn, editing, loads, bulks, sent, loaded, overlapped, choices, edits>>

\* What was there before comes back, in the row it was saved from.
SaveFails(s) ==
  /\ s \in saves
  /\ saves' = saves \ {s} /\ overlapped' = (overlapped \/ s.done)
  /\ shown' = IF s.turn = turn THEN Put(shown, s.id, s.field, s.before) ELSE shown
  /\ UNCHANGED <<stored, turn, editing, loads, bulks, sent, loaded, choices, edits>>

\* loadInstances.
Load ==
  /\ loaded < MaxLoads
  /\ loaded' = loaded + 1 /\ loads' = loads \union {[n |-> loaded, list |-> stored]}
  /\ overlapped' = (overlapped \/ saves # {})
  /\ UNCHANGED <<stored, shown, turn, editing, saves, bulks, sent, choices, edits>>

Loaded(l) ==
  /\ l \in loads
  /\ shown' = l.list /\ turn' = turn + 1 /\ loads' = loads \ {l}
  /\ UNCHANGED <<stored, editing, saves, bulks, sent, loaded, overlapped, choices, edits>>

-----------------------------------------------------------------------------
(* Which rows, and in which order *)

matchesFilter(i) == CASE stateFilter = "running" -> shown[i].running
                      [] stateFilter = "stopped" -> ~shown[i].running
                      [] OTHER -> TRUE
\* filteredInstances: no account chosen means all of them.
filteredInstances ==
  {i \in Ids : (accountFilter = {} \/ AccountOf[i] \in accountFilter) /\ matchesFilter(i)}

\* Mutant: what does not run is compared like the rest, by nothing but its name.
LastAnyway(i, key) == key = "note" /\ shown[i].note = 0

\* startedAt: what does not run has no uptime, and comes last like an empty note.
Last(i, key) == \/ key = "uptime" /\ ~shown[i].running
                \/ key = "note" /\ shown[i].note = 0

Sign(n) == IF n < 0 THEN -1 ELSE IF n > 0 THEN 1 ELSE 0

\* compare: a difference with something that has no uptime is no number.
compare(i, j) ==
  CASE sort.key = "name" -> Sign(shown[i].name - shown[j].name)
    [] sort.key = "note" -> Sign(shown[i].note - shown[j].note)
    [] sort.key = "uptime" -> IF shown[i].running /\ shown[j].running
                              THEN Sign(shown[j].since - shown[i].since) ELSE 0

\* sortRows: 0 keeps the order of the server, equal ones go by their names.
Order(i, j) ==
  IF sort = Nothing THEN 0
  ELSE IF Last(i, sort.key) \/ Last(j, sort.key)
       THEN (IF Last(i, sort.key) THEN 1 ELSE 0) - (IF Last(j, sort.key) THEN 1 ELSE 0)
       ELSE IF compare(i, j) # 0 THEN sort.dir * compare(i, j)
            ELSE Sign(shown[i].name - shown[j].name)

\* groups: the rows that are laid out, account by account.
groups ==
  IF groupByAccount
  THEN {[account |-> a, rows |-> {i \in filteredInstances : AccountOf[i] = a},
         open |-> a \notin collapsedGroups] : a \in Accounts}
  ELSE {[account |-> Nothing, rows |-> filteredInstances, open |-> TRUE]}

-----------------------------------------------------------------------------
Choose == chosen < MaxChoices /\ chosen' = chosen + 1 /\ UNCHANGED <<stored, shown, turn, editing, requests, edits>>

\* Up, down, and no order again; the choice is stored.
toggleSort(key) ==
  /\ Choose
  /\ sort' = IF sort = Nothing THEN [key |-> key, dir |-> 1]
             ELSE IF sort.key # key THEN [key |-> key, dir |-> 1]
             ELSE IF sort.dir = 1 THEN [key |-> key, dir |-> -1] ELSE Nothing
  /\ savedSort' = sort'
  /\ UNCHANGED <<selection, stateFilter, accountFilter, groupByAccount, collapsedGroups>>

\* Entered again: the filters are the store's, the order is the stored one.
Enter ==
  /\ editing' = Nothing /\ sort' = savedSort /\ collapsedGroups' = {}
  /\ UNCHANGED <<stored, shown, turn, requests, selection, stateFilter, accountFilter,
                 groupByAccount, savedSort, chosen, edits>>

SetFilter(f) ==
  /\ Choose /\ stateFilter' = f
  /\ UNCHANGED <<selection, accountFilter, groupByAccount, collapsedGroups, sort, savedSort>>

Group ==
  /\ Choose /\ groupByAccount' = ~groupByAccount
  /\ UNCHANGED <<selection, stateFilter, accountFilter, collapsedGroups, sort, savedSort>>

Flip(S, x) == IF x \in S THEN S \ {x} ELSE S \union {x}

toggleGroup(a) ==
  /\ Choose /\ groupByAccount /\ collapsedGroups' = Flip(collapsedGroups, a)
  /\ UNCHANGED <<selection, stateFilter, accountFilter, groupByAccount, sort, savedSort>>

toggleAccountFilter(a) ==
  /\ Choose
  /\ accountFilter' = IF Flip(accountFilter, a) = {} THEN Accounts ELSE Flip(accountFilter, a)
  /\ UNCHANGED <<selection, stateFilter, groupByAccount, collapsedGroups, sort, savedSort>>

Laid == UNION {g.rows : g \in {h \in groups : h.open}}

toggleSelection(i) ==
  /\ Choose /\ i \in Laid /\ selection' = Flip(selection, i)
  /\ UNCHANGED <<stateFilter, accountFilter, groupByAccount, collapsedGroups, sort, savedSort>>

\* bulk: everything selected, laid out or not; nothing keeps a second click from
\* sending it again.
bulk ==
  /\ selection # {} /\ Cardinality(bulks) < 2
  /\ bulks' = bulks \union {[n |-> Cardinality(bulks), ids |-> selection, seen |-> Laid]}
  /\ UNCHANGED <<stored, shown, turn, editing, saves, loads, sent, loaded, overlapped, choices, edits>>

\* Accepted: the selection of by then is cleared.  Refused: it stays.
BulkEnds(b, ok) ==
  /\ b \in bulks
  /\ bulks' = bulks \ {b} /\ selection' = IF ok THEN {} ELSE selection
  /\ UNCHANGED <<stored, shown, turn, editing, saves, loads, sent, loaded, overlapped, edits,
                 stateFilter, accountFilter, groupByAccount, collapsedGroups, sort, savedSort, chosen>>

Next ==
  \/ \E i \in Ids : \/ \E v \in Notes \union {0} : Edit("note", i, v)
                    \/ \E v \in Names \union {0} : Edit("name", i, v)
                    \/ toggleSelection(i)
  \/ Escape \/ Save \/ Load \/ Enter \/ Group \/ bulk
  \/ \E s \in saves : ServeSave(s) \/ Saved(s) \/ SaveFails(s)
  \/ \E l \in loads : Loaded(l)
  \/ \E key \in SortKeys : toggleSort(key)
  \/ \E f \in Filters : SetFilter(f)
  \/ \E a \in Accounts : toggleGroup(a) \/ toggleAccountFilter(a)
  \/ \E b \in bulks, ok \in BOOLEAN : BulkEnds(b, ok)

Spec == Init /\ [][Next]_vars

-----------------------------------------------------------------------------
\* The order of the rows is one, whatever the algorithm that sorts them: no row
\* is before another that is before it, and "before" and "level with" go on from
\* row to row; and every row that passes the filters is laid out once.
RowsInOrder ==
  /\ \A i, j \in Ids : Order(i, j) = -Order(j, i)
  /\ \A i, j, k \in Ids : Order(i, j) <= 0 /\ Order(j, k) <= 0 => Order(i, k) <= 0
  /\ UNION {g.rows : g \in groups} = filteredInstances
  /\ \A g, h \in groups : g # h => g.rows \intersect h.rows = {}

\* An edit is saved once at most; and with one save or load at a time, and no
\* answer lost, the notes and names that are shown are the stored ones.
NotesAgree ==
  /\ sent <= edits
  /\ ~overlapped /\ saves = {} /\ loads = {} => shown = stored

\* Without the proviso, which the code breaks (a save that fails takes back what
\* a later one wrote); and what is acted on is what is laid out, which it breaks
\* as well (a selection outlives the filter it was made under).
NotesAreStored == saves = {} /\ loads = {} => shown = stored
BulkIsOfSeen == \A b \in bulks : b.ids \subseteq b.seen
=================================================================================
