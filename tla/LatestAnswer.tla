---------------------------- MODULE LatestAnswer ----------------------------
(***************************************************************************)
(* What a panel that loads whatever is selected promises its reader: it    *)
(* shows nothing, or the data of one key, and data only ever appear on it  *)
(* that belong to the key wanted at that moment.  An answer to an earlier  *)
(* question may come back as late as it likes and is never seen.           *)
(***************************************************************************)
CONSTANTS Keys,    \* what can be asked for
          Nothing  \* a panel that shows no data

VARIABLES wanted,  \* the key asked for or selected last, or Nothing
          shown    \* the key whose data the panel shows, or Nothing

Init ==
  /\ wanted \in Keys \union {Nothing}
  /\ shown = Nothing

\* The reader asks for something else: the old data stay, dimmed, or go.
Want ==
  /\ wanted' \in Keys \union {Nothing}
  /\ shown' \in {shown, Nothing}

\* Data of the wanted key appear.
Show == shown' = wanted /\ UNCHANGED wanted

\* The data are taken off, after a failure.
Drop == shown' = Nothing /\ UNCHANGED wanted

Next == Want \/ Show \/ Drop

Spec == Init /\ [][Next]_<<wanted, shown>>
=============================================================================
