---------------------------- MODULE PasswordPolicy ----------------------------
(***************************************************************************)
(* The tab of the account drawer that reads and changes the expiry of the  *)
(* passwords of an identity domain (AccountDrawer.vue), with the handlers  *)
(* behind it (httpapi/passwordpolicy.go).  Oracle need not do what it is   *)
(* told, so a change is read back and the page shows what was read.        *)
(*                                                                         *)
(* The expiry is a number of days, Unset when the domain has none, and     *)
(* NoDomain for a tenancy without an identity domain.                      *)
(***************************************************************************)
EXTENDS Naturals

CONSTANTS Days,        \* the numbers of days at hand, positive
          FirstDays,   \* what the form starts with (365 in the code)
          Unset, NoDomain, Nothing,
          MaxReads, MaxWrites  \* bounds on the requests

VARIABLES
  stored,        \* the expiry Oracle has
  policy,        \* what the page shows of it, or Nothing
  policyDays,    \* the number in the form
  reading,       \* policyLoading: the request, Nothing when none is under way
  question,      \* the confirmation that is open, or Nothing
  change,        \* policySaving: the change, or Nothing
  reads, writes,
  overlapped     \* history: a read was under way together with a question or a change

form == <<policyDays, question>>
vars == <<stored, policy, form, reading, change, reads, writes, overlapped>>

Expiries == Days \union {Unset, NoDomain}

TypeOK ==
  /\ stored \in Expiries /\ policy \in Expiries \union {Nothing} /\ policyDays \in Days
  /\ reading = Nothing \/ reading.value \in Expiries \union {Nothing}
  /\ question \in Days \union {Unset, Nothing}
  /\ change = Nothing \/ (change.asked \in Days \union {Unset} /\ change.sent \in Days \union {Unset})
  /\ overlapped \in BOOLEAN

Init ==
  /\ stored \in Expiries /\ policy = Nothing /\ policyDays = FirstDays
  /\ reading = Nothing /\ question = Nothing /\ change = Nothing
  /\ reads = 0 /\ writes = 0 /\ overlapped = FALSE

loadPolicy ==
  /\ reading = Nothing /\ question = Nothing /\ reads < MaxReads
  /\ reading' = [value |-> Nothing] /\ reads' = reads + 1
  /\ overlapped' = (overlapped \/ change # Nothing)
  /\ UNCHANGED <<stored, policy, form, change, writes>>

\* handleGetPasswordPolicy.
ReadPolicy ==
  /\ reading # Nothing /\ reading.value = Nothing
  /\ reading' = [value |-> stored]
  /\ UNCHANGED <<stored, policy, form, change, reads, writes, overlapped>>

\* The number in the form follows an expiry that was read.
PolicyComes ==
  /\ reading # Nothing /\ reading.value # Nothing
  /\ policy' = reading.value /\ reading' = Nothing
  /\ policyDays' = IF reading.value \in Days THEN reading.value ELSE policyDays
  /\ UNCHANGED <<stored, question, change, reads, writes, overlapped>>

PolicyFails ==
  /\ reading # Nothing
  /\ policy' = Nothing /\ reading' = Nothing
  /\ UNCHANGED <<stored, form, change, reads, writes, overlapped>>

\* The form is there when the expiry of a domain is.
FormShown == policy \notin {Nothing, NoDomain} /\ question = Nothing

TypeDays(d) ==
  /\ FormShown /\ d # policyDays
  /\ policyDays' = d
  /\ UNCHANGED <<stored, policy, question, reading, change, reads, writes, overlapped>>

\* applyPolicy: the question names the days of this moment.
applyPolicy(disable) ==
  /\ FormShown /\ change = Nothing
  /\ question' = IF disable THEN Unset ELSE policyDays
  /\ overlapped' = (overlapped \/ reading # Nothing)
  /\ UNCHANGED <<stored, policy, policyDays, reading, change, reads, writes>>

\* The answer sends the days of the form as it is by then.
Confirm ==
  /\ question # Nothing /\ writes < MaxWrites
  /\ question' = Nothing /\ writes' = writes + 1
  /\ change' = [asked |-> question, sent |-> IF question = Unset THEN Unset ELSE policyDays,
                result |-> Nothing, ok |-> TRUE]
  /\ UNCHANGED <<stored, policy, policyDays, reading, reads, overlapped>>

Dismiss ==
  /\ question # Nothing
  /\ question' = Nothing
  /\ UNCHANGED <<stored, policy, policyDays, reading, change, reads, writes, overlapped>>

\* handleUpdatePasswordPolicy: a domain may keep its expiry when it is told to
\* remove it; the answer is what was read back, and may be lost.
SetExpiry ==
  /\ change # Nothing /\ change.result = Nothing /\ change.ok
  /\ \/ /\ stored' \in IF change.sent = Unset THEN {Unset, stored} ELSE {change.sent}
        /\ \E ok \in BOOLEAN : change' = [change EXCEPT !.result = stored', !.ok = ok]
        /\ overlapped' = (overlapped \/ ~change'.ok)
     \/ change' = [change EXCEPT !.ok = FALSE] /\ UNCHANGED <<stored, overlapped>>
  /\ UNCHANGED <<policy, form, reading, reads, writes>>

\* Mutant: the page shows what it sent.
ShownAsSent == change.sent

\* The page shows the expiry that was read back.
ShownAfter == change.result

Changed ==
  /\ change # Nothing /\ change.ok /\ change.result # Nothing
  /\ policy' = ShownAfter /\ change' = Nothing
  /\ UNCHANGED <<stored, form, reading, reads, writes, overlapped>>

ChangeFails ==
  /\ change # Nothing /\ ~change.ok
  /\ change' = Nothing
  /\ UNCHANGED <<stored, policy, form, reading, reads, writes, overlapped>>

Next ==
  \/ loadPolicy \/ ReadPolicy \/ PolicyComes \/ PolicyFails
  \/ \E d \in Days : TypeDays(d)
  \/ \E disable \in BOOLEAN : applyPolicy(disable)
  \/ Confirm \/ Dismiss \/ SetExpiry \/ Changed \/ ChangeFails

Spec == Init /\ [][Next]_vars

-----------------------------------------------------------------------------
\* "这里显示的始终是服务端实际存下的值" (AccountDrawer.vue:141): what is shown is
\* what Oracle has, and what is sent is what was asked, as long as no read is
\* under way together with a question or a change and no answer is lost.  The
\* button that reads stays enabled during both.
PolicyAgrees ==
  ~overlapped => /\ reading = Nothing /\ change = Nothing /\ policy # Nothing => policy = stored
                 /\ change # Nothing => change.sent = change.asked

\* The same without the proviso, which the code breaks: a read that was served
\* before a change may come after it, and one that comes while the question is
\* open changes the number that its answer sends.
PolicyIsStored == reading = Nothing /\ change = Nothing /\ policy # Nothing => policy = stored
DaysAreAsked == change # Nothing => change.sent = change.asked
=============================================================================
