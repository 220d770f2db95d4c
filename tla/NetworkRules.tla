------------------------------ MODULE NetworkRules ------------------------------
(***************************************************************************)
(* The security rules of the network page, views/NetworkView.vue, with the *)
(* handler behind it (httpapi/network.go) and Oracle, which replaces a     *)
(* whole list at a time.                                                   *)
(*                                                                         *)
(* The page keeps the lists of its last load; an edit copies the rules of  *)
(* the list on screen, changes the copy and sends all of it.  Between the  *)
(* click and the sending there may be a question to the user, during which *)
(* a load still in flight may replace every list.                          *)
(*                                                                         *)
(* A rule is its direction, protocol, source and range of ports; a text    *)
(* for ports is the sequence of the numbers in it.  VCNs, subnets and      *)
(* public addresses load with the lists and are not modelled (Panels has   *)
(* the loading itself).  MaxLoads and MaxEdits are bounds.                 *)
(***************************************************************************)
EXTENDS Naturals, SequencesExt

CONSTANTS
    Lists,       \* the security lists of the chosen accounts and regions
    InOrder,     \* Lists in the order of the page
    Forms,       \* what the user may type: [direction, protocol, cidr, ports]
    Templates,   \* the templates: [direction, protocol, port, dangerous]
    Others,      \* what somebody else adds, as a form
    Initially,   \* the ingress and egress rules every list starts with
    MaxLoads,    \* bound: loads of the page
    MaxEdits     \* bound: rules changed by the page, and by others

VARIABLES
    rules,       \* Oracle: the rules of each list
    lists,       \* the page: the lists of its last load
    sel,         \* selectedListKey
    seq,         \* networkSeq
    loads,       \* the loads in flight
    saving,      \* savingRules
    saves,       \* the request of saveRules: none, or one
    dialog,      \* the open question and the copy its answer will change
    confirmed,   \* history: the rules the user was asked about and confirmed
    edits        \* how many edits were made

page == <<lists, sel, seq, saving, dialog>>
vars == <<rules, page, loads, saves, confirmed, edits>>

NoList == [missing |-> TRUE]
NoRange == <<>>
Bad == <<0>>

----------------------------------------------------------------------------
(* Rules *)

\* parsePorts: no text is every port, one number or two are a range, and what
\* lies outside 1..65535 or runs backwards is an error.
parsePorts(text) ==
    LET low == Head(text)
        high == Last(text) IN
    IF text = <<>> THEN NoRange
    ELSE IF low < 1 \/ high > 65535 \/ low > high THEN Bad
    ELSE <<low, high>>

hasPorts(protocol) == protocol \in {"tcp", "udp"}

\* manualError, for ports: the form cannot be sent.
manualError(form) == hasPorts(form.protocol) /\ parsePorts(form.ports) = Bad

\* buildIngress, buildEgress and protocolOptions: the options of a protocol
\* without ports, and an unlimited range, are not written at all.
Built(direction, protocol, cidr, range) ==
    [direction |-> direction, protocol |-> protocol, cidr |-> cidr,
     range |-> IF hasPorts(protocol) THEN range ELSE NoRange]

FromForm(form) ==
    Built(form.direction, form.protocol, form.cidr,
          IF hasPorts(form.protocol) THEN parsePorts(form.ports) ELSE NoRange)

FromTemplate(t) ==
    Built(t.direction, t.protocol, "any4",
          IF t.port > 0 THEN <<t.port, t.port>> ELSE NoRange)

allPorts(range) == range = NoRange \/ (range[1] <= 1 /\ range[2] >= 65535)

\* Mutant: only a form without ports covers every port.
wideOpenUnlimited(form) ==
    /\ form.direction = "ingress" /\ form.cidr \in {"any4", "any6"}
    /\ form.protocol = "all" \/ (hasPorts(form.protocol) /\ form.ports = <<>>)

\* wideOpen of addManualRule: the rule is asked about before it is added.
wideOpen(form) ==
    /\ form.direction = "ingress"
    /\ form.cidr \in {"any4", "any6"}
    /\ \/ form.protocol = "all"
       \/ hasPorts(form.protocol) /\ allPorts(parsePorts(form.ports))

\* IsAllowAllRule and coversAllPorts: the server's own judgement.
IsAllowAllRule(rule) ==
    /\ rule.cidr \in {"any4", "any6"}
    /\ \/ rule.protocol = "all"
       \/ /\ rule.protocol \in {"tcp", "udp"}
          /\ rule.range = <<>> \/ (rule.range[1] <= 1 /\ rule.range[2] >= 65535)

\* A set of rules is the ingress and the egress list; an edit adds a rule at the
\* end of one or takes an index out of one.
Adding(rule) == [op |-> "add", direction |-> rule.direction, rule |-> rule, index |-> 0]
Removing(direction, index) ==
    [op |-> "remove", direction |-> direction, rule |-> NoRange, index |-> index]

Edited(set, edit) ==
    LET side == edit.direction IN
    IF edit.op = "add" THEN [set EXCEPT ![side] = Append(@, edit.rule)]
    ELSE IF edit.index > Len(set[side]) THEN set
    ELSE [set EXCEPT ![side] = RemoveAt(@, edit.index)]

----------------------------------------------------------------------------
(* Loading *)

selectedList == IF sel \in Lists THEN lists[sel] ELSE NoList

Empty == [k \in Lists |-> NoList]

Init ==
    /\ rules = [k \in Lists |-> Initially]
    /\ lists = Empty /\ sel = NoList /\ seq = 1
    /\ loads = {[seq |-> 1, got |-> Empty, left |-> Lists]}
    /\ saving = FALSE /\ saves = {} /\ dialog = NoList
    /\ confirmed = {} /\ edits = 0

\* loadNetwork, asked for by the button, a change of the filters, or an error of
\* a save.
loadNetwork ==
    /\ seq' = seq + 1
    /\ loads' = loads \cup {[seq |-> seq + 1, got |-> Empty, left |-> Lists]}

Refresh ==
    /\ seq < MaxLoads /\ dialog = NoList
    /\ loadNetwork
    /\ UNCHANGED <<rules, lists, sel, saving, saves, dialog, confirmed, edits>>

\* Each region is read on its own; one that fails is left out.
ReadList(q, k) ==
    /\ k \in q.left
    /\ \E got \in {rules[k], NoList} :
          loads' = (loads \ {q}) \cup
              {[q EXCEPT !.got[k] = got, !.left = @ \ {k}]}
    /\ UNCHANGED <<rules, page, saves, confirmed, edits>>

\* Mutant: a load selects the first list again.
SelectedFirst(got) ==
    IF \E k \in Lists : got[k] # NoList
    THEN InOrder[CHOOSE n \in DOMAIN InOrder :
            /\ got[InOrder[n]] # NoList
            /\ \A m \in 1 .. n - 1 : got[InOrder[m]] = NoList]
    ELSE sel

\* The end of loadNetwork: the first list is selected when none was.
SelectedAfter(got) == IF sel = NoList THEN SelectedFirst(got) ELSE sel

LoadEnds(q) ==
    /\ q.left = {}
    /\ loads' = loads \ {q}
    /\ \/ q.seq # seq /\ UNCHANGED <<page, saves>>
       \/ /\ q.seq = seq
          /\ lists' = q.got /\ sel' = SelectedAfter(q.got)
          /\ saves' = {[s EXCEPT !.attached = FALSE] : s \in saves}
          /\ UNCHANGED <<seq, dialog, saving>>
    /\ UNCHANGED <<rules, confirmed, edits>>

SelectList(k) ==
    /\ dialog = NoList /\ lists[k] # NoList /\ k # sel
    /\ sel' = k
    /\ UNCHANGED <<rules, lists, seq, saving, dialog, loads, saves, confirmed, edits>>

----------------------------------------------------------------------------
(* Editing *)

\* What an answered question, or a click that needs none, sends: the edit of the
\* copy taken at the click.
Mine(asked) == Edited(asked.list, asked.edit)

\* saveRules: the target is the list selected now.
saveRules(sent, asked) ==
    IF selectedList = NoList THEN UNCHANGED <<saving, saves>>
    ELSE /\ saving' = TRUE
         /\ saves' = saves \cup {[key |-> sel, rules |-> sent, asked |-> asked,
                                  phase |-> "sent", attached |-> TRUE, reload |-> 0]}

\* Mutant: the answer edits the rules on screen when it comes, not the copy.
commitOnScreen(asked) ==
    /\ saveRules(Edited(selectedList, asked.edit), asked)
    /\ confirmed' = confirmed \cup ({asked.edit.rule} \ {NoRange})

commit(asked) ==
    /\ saveRules(Mine(asked), asked)
    /\ confirmed' = confirmed \cup ({asked.edit.rule} \ {NoRange})

Click(edit, ask) ==
    LET asked == [key |-> sel, list |-> selectedList, edit |-> edit] IN
    /\ ~saving /\ dialog = NoList /\ selectedList # NoList /\ edits < MaxEdits
    /\ edits' = edits + 1
    /\ \/ ask /\ dialog' = asked /\ UNCHANGED <<saving, saves>>
       \/ ~ask /\ saveRules(Mine(asked), asked) /\ UNCHANGED dialog
    /\ UNCHANGED <<rules, lists, sel, seq, loads, confirmed>>

addTemplate(t) == Click(Adding(FromTemplate(t)), t.dangerous)

addManualRule(form) ==
    ~manualError(form) /\ Click(Adding(FromForm(form)), wideOpen(form))

restoreEgress ==
    /\ selectedList # NoList => selectedList.egress = <<>>
    /\ Click(Adding(Built("egress", "all", "any4", NoRange)), FALSE)

removeRule(direction, index) ==
    /\ selectedList # NoList => index <= Len(selectedList[direction])
    /\ Click(Removing(direction, index), TRUE)

Confirm ==
    /\ dialog # NoList /\ commit(dialog)
    /\ dialog' = NoList
    /\ UNCHANGED <<rules, lists, sel, seq, loads, edits>>

Dismiss ==
    /\ dialog # NoList /\ dialog' = NoList
    /\ UNCHANGED <<rules, lists, sel, seq, saving, loads, saves, confirmed, edits>>

\* handleUpdateSecurityList: Oracle takes the whole list; the answer may be lost.
ServeSave(s) ==
    /\ s.phase = "sent"
    /\ \/ /\ rules' = [rules EXCEPT ![s.key] = s.rules]
          /\ \E answer \in {"saved", "failed"} :
                saves' = (saves \ {s}) \cup {[s EXCEPT !.phase = answer]}
       \/ /\ saves' = (saves \ {s}) \cup {[s EXCEPT !.phase = "failed"]}
          /\ UNCHANGED rules
    /\ UNCHANGED <<page, loads, confirmed, edits>>

\* The saved list replaces the one it was made from, which a load may have taken
\* off the page meanwhile.
SaveEnds(s) ==
    /\ s.phase = "saved"
    /\ saves' = saves \ {s} /\ saving' = FALSE
    /\ lists' = IF s.attached THEN [lists EXCEPT ![s.key] = s.rules] ELSE lists
    /\ UNCHANGED <<rules, sel, seq, dialog, loads, confirmed, edits>>

\* After an error the page loads again before the buttons come back.
SaveFails(s) ==
    /\ s.phase = "failed" /\ loadNetwork
    /\ saves' = (saves \ {s}) \cup {[s EXCEPT !.phase = "loading", !.reload = seq + 1]}
    /\ UNCHANGED <<rules, lists, sel, saving, dialog, confirmed, edits>>

LoadedAgain(s) ==
    /\ s.phase = "loading" /\ \A q \in loads : q.seq # s.reload
    /\ saves' = saves \ {s} /\ saving' = FALSE
    /\ UNCHANGED <<rules, lists, sel, seq, dialog, loads, confirmed, edits>>

\* Oracle's console, or another tab, adds a rule.
Elsewhere(k, form) ==
    /\ edits < MaxEdits
    /\ edits' = edits + 1
    /\ rules' = [rules EXCEPT ![k] = Edited(@, Adding(FromForm(form)))]
    /\ UNCHANGED <<page, loads, saves, confirmed>>

Loading == \/ Refresh
           \/ \E q \in loads : LoadEnds(q) \/ \E k \in Lists : ReadList(q, k)
           \/ \E k \in Lists : SelectList(k)
Editing == \/ restoreEgress \/ Confirm \/ Dismiss
           \/ \E t \in Templates : addTemplate(t)
           \/ \E form \in Forms : addManualRule(form)
           \/ \E form \in Others, k \in Lists : Elsewhere(k, form)
           \/ \E direction \in {"ingress", "egress"}, index \in 1 .. 3 : removeRule(direction, index)
Saving == \E s \in saves : ServeSave(s) \/ SaveEnds(s) \/ SaveFails(s) \/ LoadedAgain(s)

Next == Loading \/ Editing \/ Saving
Spec == Init /\ [][Next]_vars

----------------------------------------------------------------------------
(* Properties *)

\* What is sent to Oracle is what the user saw and confirmed, and to the list
\* it was seen in, whatever was loaded while the question was open: never the
\* rules of one list to another, never another rule than the named one deleted
\* because the rows moved.
SentAsSeen == \A s \in saves : s.key = s.asked.key /\ s.rules = Mine(s.asked)

\* A rule that opens every port to the world is never created without the
\* question: the page's wideOpen and the server's IsAllowAllRule agree on every
\* form, and the templates that do it are marked dangerous.
NoOpenRuleUnasked ==
    \A k \in Lists : \A rule \in Range(rules[k].ingress) :
        IsAllowAllRule(rule) => rule \in confirmed \cup Range(Initially.ingress)

\* Doc: "sending only what changed would silently delete the other rules"
\* (views/NetworkView.vue:243-247).  An added rule takes none away when nobody
\* else edits (Others = {}).  It does when a load read the list before an earlier
\* save and came after it: the page edits the old list then.
AddingKeepsRules ==
    [][\A s \in saves : s.phase = "sent" /\ s.asked.edit.op = "add" /\ rules' # rules =>
          \A side \in {"ingress", "egress"} :
              Range(rules[s.key][side]) \subseteq Range(rules'[s.key][side])]_vars
=============================================================================
