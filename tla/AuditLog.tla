------------------------------ MODULE AuditLog ------------------------------
(***************************************************************************)
(* The audit log of the settings page (SettingsView.vue), read page by     *)
(* page from a log that is written to all the time and whose oldest        *)
(* entries are purged.  The next page is asked for by the id of the last   *)
(* entry shown; a reload may overtake it.                                  *)
(***************************************************************************)
EXTENDS Naturals, Sequences

CONSTANTS MaxId,    \* bound on the entries ever written
          PageSize, \* AUDIT_PAGE (100 in the code)
          MaxLoads  \* bound on the requests

VARIABLES
  oldest, newest,   \* ids of the oldest entry kept and of the newest, oldest > newest if none
  auditSeq,
  asked,            \* requests the server has not read yet
  answers,          \* pages on their way
  audit,            \* ids shown
  auditMore, auditLoading

vars == <<oldest, newest, auditSeq, asked, answers, audit, auditMore, auditLoading>>

Ids == 1 .. MaxId

TypeOK ==
  /\ oldest \in 1 .. MaxId + 1 /\ newest \in 0 .. MaxId
  /\ auditSeq \in 0 .. MaxLoads
  /\ asked \subseteq [seq : 1 .. MaxLoads, append : BOOLEAN, beforeId : 0 .. MaxId]
  /\ audit \in Seq(Ids)
  /\ \A p \in answers : p.seq \in 1 .. MaxLoads /\ p.entries \in Seq(Ids)
  /\ auditMore \in BOOLEAN /\ auditLoading \in BOOLEAN

Init ==
  /\ oldest = 1 /\ newest \in 0 .. MaxId
  /\ auditSeq = 0 /\ asked = {} /\ answers = {}
  /\ audit = <<>> /\ auditMore = FALSE /\ auditLoading = FALSE

\* Somebody does something that is logged; the retention deletes the oldest.
Write ==
  /\ newest < MaxId
  /\ newest' = newest + 1
  /\ UNCHANGED <<oldest, auditSeq, asked, answers, audit, auditMore, auditLoading>>

Purge ==
  /\ oldest <= newest
  /\ oldest' = oldest + 1
  /\ UNCHANGED <<newest, auditSeq, asked, answers, audit, auditMore, auditLoading>>

\* store.ListAudit: at most a page of entries below beforeId, newest first,
\* and whether there are more below.
PageBelow(beforeId) ==
  LET top == IF beforeId = 0 THEN newest ELSE beforeId - 1
      length == IF top < oldest THEN 0
                ELSE IF top - oldest + 1 > PageSize THEN PageSize ELSE top - oldest + 1
  IN  [entries |-> [i \in 1 .. length |-> top - i + 1], more |-> top >= oldest + length]

\* The page asks for the first entries (a tab shown, the button) or for more.
loadAudit(append) ==
  /\ auditSeq < MaxLoads
  /\ append => auditMore /\ ~auditLoading
  /\ auditSeq' = auditSeq + 1
  /\ auditLoading' = TRUE
  /\ asked' = asked \union
       {[seq |-> auditSeq + 1, append |-> append,
         beforeId |-> IF append /\ audit # <<>> THEN audit[Len(audit)] ELSE 0]}
  /\ UNCHANGED <<oldest, newest, answers, audit, auditMore>>

Serve(q) ==
  /\ asked' = asked \ {q}
  /\ answers' = answers \union
       {[seq |-> q.seq, append |-> q.append, entries |-> PageBelow(q.beforeId).entries,
         more |-> PageBelow(q.beforeId).more]}
  /\ UNCHANGED <<oldest, newest, auditSeq, audit, auditMore, auditLoading>>

\* Mutant: a page that was overtaken is taken all the same.
PageComesAny(p) ==
  /\ answers' = answers \ {p}
  /\ audit' = IF p.append THEN audit \o p.entries ELSE p.entries
  /\ auditMore' = p.more
  /\ auditLoading' = FALSE
  /\ UNCHANGED <<oldest, newest, auditSeq, asked>>

PageComes(p) ==
  /\ answers' = answers \ {p}
  /\ IF p.seq = auditSeq
     THEN /\ audit' = IF p.append THEN audit \o p.entries ELSE p.entries
          /\ auditMore' = p.more
          /\ auditLoading' = FALSE
     ELSE UNCHANGED <<audit, auditMore, auditLoading>>
  /\ UNCHANGED <<oldest, newest, auditSeq, asked>>

PageFails(q) ==
  /\ asked' = asked \ {q}
  /\ auditLoading' = IF q.seq = auditSeq THEN FALSE ELSE auditLoading
  /\ UNCHANGED <<oldest, newest, auditSeq, answers, audit, auditMore>>

Next ==
  \/ Write \/ Purge
  \/ \E append \in BOOLEAN : loadAudit(append)
  \/ \E q \in asked : Serve(q) \/ PageFails(q)
  \/ \E p \in answers : PageComes(p)

Spec == Init /\ [][Next]_vars

-----------------------------------------------------------------------------
\* The pages shown join without a gap and without a repetition, whatever was
\* written or purged between them and however a reload overtook the next page
\* ("两者交错回来会把旧的下一页拼到新列表后面，出现重复或断层"); and when the
\* page says there is no more, the log has nothing older than what it shows.
PagesJoin ==
  /\ \A i \in 1 .. Len(audit) - 1 : audit[i + 1] = audit[i] - 1
  /\ audit # <<>> /\ ~auditMore => audit[Len(audit)] <= oldest
=============================================================================
