---------------------------- MODULE PanelsProofs ----------------------------
(***************************************************************************)
(* The panels show what they promise, for any accounts, ranges and number  *)
(* of requests: what is shown without loading is what is selected, and     *)
(* every panel implements LatestAnswer.                                    *)
(***************************************************************************)
EXTENDS Panels, TLAPS

\* An answer to the latest request is for what is wanted now.
LatestIsWanted == \A q \in asked : q.seq = seq => q.key = latest

\* What is wanted follows the selection, but for a panel that is hidden while
\* another account is selected: it asks when it comes back.
Follows ==
  open \/ ~Has("selects")
    => \/ latest = Nothing
       \/ latest[1] = who /\ (Has("asksOnRange") => latest[2] = range)

\* A panel without a selection shows its one subject, even data of an old range.
OneSubject == ~Has("selects") /\ shown # Nothing => shown[1] = who

\* Nothing loads and nothing has failed: the latest answer stands there.  Where
\* a selection can change, a failure leaves no old data behind.
LatestIsShown ==
  shown # Nothing /\ ~loading /\ (Has("selects") \/ ~failed) => shown = latest

\* A panel that clears is never hidden.
ClearsInSight == Has("clears") => open

Cleared == Has("clears") /\ shown # Nothing => shown[1] = who

IInv ==
  /\ TypeOK /\ LatestIsWanted /\ Follows /\ OneSubject
  /\ LatestIsShown /\ ClearsInSight /\ Cleared

-----------------------------------------------------------------------------
\* What the proofs need to know of the seven panels, and all they need to know:
\* where a selection does not ask it clears, and where it asks, a failure clears
\* or a part is shown; a panel that clears has no tab; one that asks again only
\* when it is empty has no selection.
LEMMA PanelFacts ==
  ASSUME panel \in AllPanels
  PROVE  /\ Has("selects") => Has("asksAtOnce") \/ Has("clears")
         /\ Has("selects") => Has("showsPart") \/ Has("clearsOnFail")
         /\ Has("clears") => ~Has("tab") /\ ~Has("tabIfEmpty")
         /\ Has("tabIfEmpty") => ~Has("selects")
BY DEF AllPanels, Has, Metrics, Detail, Egress, Probe, Network, Volumes, Resources

\* A request, whatever was asked before.
LEMMA AskFacts ==
  ASSUME TypeOK, NEW w \in Whos, NEW r \in Ranges, Ask(w, r)
  PROVE  /\ seq' \in Nat /\ asked' \subseteq [seq : 1 .. seq', key : Keys]
         /\ latest' = <<w, r>> /\ latest' \in Keys
         /\ loading' = TRUE /\ failed' = FALSE
         /\ LatestIsWanted'
<1>1. seq' = seq + 1 /\ seq \in Nat
  BY DEF Ask, TypeOK
<1>2. latest' = <<w, r>> /\ latest' \in Keys
  BY DEF Ask, Keys
<1>3. \A q \in asked : q \in [seq : 1 .. seq', key : Keys] /\ q.seq # seq'
  BY <1>1 DEF TypeOK
<1>4. [seq |-> seq + 1, key |-> <<w, r>>] \in [seq : 1 .. seq', key : Keys]
  BY <1>1 DEF Keys
<1>5. asked' \subseteq [seq : 1 .. seq', key : Keys]
  BY <1>3, <1>4 DEF Ask
<1>6. LatestIsWanted'
  BY <1>2, <1>3 DEF Ask, LatestIsWanted
<1> QED
  BY <1>1, <1>2, <1>5, <1>6 DEF Ask

\* Closing, and a selection that does not ask: what is under way is overtaken.
LEMMA OvertakeFacts ==
  ASSUME TypeOK, seq' = seq + 1, UNCHANGED asked
  PROVE  /\ seq' \in Nat /\ asked' \subseteq [seq : 1 .. seq', key : Keys]
         /\ LatestIsWanted'
<1>1. \A q \in asked : q \in [seq : 1 .. seq', key : Keys] /\ q.seq # seq'
  BY DEF TypeOK
<1> QED
  BY <1>1 DEF LatestIsWanted, TypeOK

\* A load is for the selection of the moment, or closes.
LEMMA LoadFacts ==
  ASSUME IInv, Load
  PROVE  /\ seq' \in Nat /\ asked' \subseteq [seq : 1 .. seq', key : Keys]
         /\ UNCHANGED <<panel, who, range>> /\ failed' = FALSE
         /\ LatestIsWanted'
         /\ \/ latest' = Nothing /\ shown' = Nothing /\ loading' = FALSE
            \/ /\ latest' = <<who, range>> /\ latest' \in Keys /\ loading' = TRUE
               /\ shown' \in {shown, Nothing}
<1>1. CASE who = Nothing
  BY <1>1, OvertakeFacts DEF Load, Close, IInv
<1>2. CASE who # Nothing
  <2>1. who \in Whos /\ range \in Ranges /\ Ask(who, range)
    BY <1>2 DEF IInv, TypeOK, Load
  <2> QED
    BY <1>2, <2>1, AskFacts DEF Load, IInv
<1> QED
  BY <1>1, <1>2

\* What a load leaves behind, with the tab as it is by then.
LEMMA LoadKeeps ==
  ASSUME IInv, Load, mounted' \in BOOLEAN, open' \in BOOLEAN, Has("clears") => open'
  PROVE  IInv'
<1>1. /\ seq' \in Nat /\ asked' \subseteq [seq : 1 .. seq', key : Keys]
      /\ UNCHANGED <<panel, who, range>> /\ failed' = FALSE
      /\ LatestIsWanted'
      /\ \/ latest' = Nothing /\ shown' = Nothing /\ loading' = FALSE
         \/ /\ latest' = <<who, range>> /\ latest' \in Keys /\ loading' = TRUE
            /\ shown' \in {shown, Nothing}
  BY LoadFacts
<1>2. TypeOK'
  BY <1>1 DEF IInv, TypeOK
<1>3. Follows'
  BY <1>1 DEF Follows, Has
<1>4. OneSubject' /\ LatestIsShown' /\ ClearsInSight' /\ Cleared'
  BY <1>1 DEF IInv, OneSubject, LatestIsShown, ClearsInSight, Cleared, Has
<1> QED
  BY <1>1, <1>2, <1>3, <1>4 DEF IInv

-----------------------------------------------------------------------------
LEMMA SelectKeeps == IInv /\ Select => IInv'
<1> SUFFICES ASSUME IInv, Select PROVE IInv'
  OBVIOUS
<1>1. PICK w \in Whos \union {Nothing} :
        /\ who' = w
        /\ range' = IF Has("resetsRange") THEN FirstRange ELSE range
        /\ IF ~open THEN UNCHANGED <<seq, asked, latest, shown, loading, failed>>
           ELSE IF w = Nothing THEN Close
           ELSE /\ shown' = IF Has("clears") THEN Nothing ELSE shown
                /\ IF Has("asksAtOnce") THEN Ask(w, range')
                   ELSE /\ seq < MaxAsked /\ seq' = seq + 1
                        /\ latest' = Nothing /\ loading' = FALSE /\ failed' = FALSE
                        /\ UNCHANGED asked
  BY DEF Select
<1>2. /\ UNCHANGED <<panel, mounted, open>> /\ Has("selects")
      /\ who' \in Whos \union {Nothing} /\ range' \in Ranges
  BY <1>1, RangeAssumption DEF Select, IInv, TypeOK
<1>3. Has("asksAtOnce") \/ Has("clears")
  BY <1>2, PanelFacts DEF IInv, TypeOK
<1>4. CASE ~open
  <2>1. UNCHANGED <<panel, mounted, open, seq, asked, latest, shown, loading, failed>>
    BY <1>1, <1>2, <1>4
  <2>2. TypeOK' /\ LatestIsWanted'
    BY <1>2, <2>1 DEF IInv, TypeOK, LatestIsWanted
  <2>3. Follows' /\ OneSubject' /\ LatestIsShown' /\ ClearsInSight' /\ Cleared'
    BY <1>2, <1>4, <2>1
    DEF IInv, Follows, OneSubject, LatestIsShown, ClearsInSight, Cleared, Has
  <2> QED
    BY <2>2, <2>3 DEF IInv
<1>5. CASE open /\ (w = Nothing \/ ~Has("asksAtOnce"))
  <2>1. /\ seq' = seq + 1 /\ UNCHANGED asked
        /\ latest' = Nothing /\ shown' = Nothing /\ loading' = FALSE /\ failed' = FALSE
    BY <1>1, <1>3, <1>5 DEF Close
  <2>2. TypeOK' /\ LatestIsWanted'
    BY <1>2, <2>1, OvertakeFacts DEF IInv, TypeOK
  <2>3. Follows' /\ OneSubject' /\ LatestIsShown' /\ ClearsInSight' /\ Cleared'
    BY <1>2, <2>1
    DEF IInv, Follows, OneSubject, LatestIsShown, ClearsInSight, Cleared, Has
  <2> QED
    BY <2>2, <2>3 DEF IInv
<1>6. CASE open /\ w # Nothing /\ Has("asksAtOnce")
  <2>1. /\ Ask(w, range') /\ w \in Whos /\ who' = w
        /\ shown' = IF Has("clears") THEN Nothing ELSE shown
    BY <1>1, <1>6
  <2>2. /\ seq' \in Nat /\ asked' \subseteq [seq : 1 .. seq', key : Keys]
        /\ latest' = <<w, range'>> /\ latest' \in Keys
        /\ loading' = TRUE /\ failed' = FALSE
        /\ LatestIsWanted'
    BY <1>2, <2>1, AskFacts DEF IInv
  <2>3. TypeOK'
    BY <1>2, <2>1, <2>2 DEF IInv, TypeOK
  <2>4. Follows' /\ OneSubject' /\ LatestIsShown' /\ ClearsInSight' /\ Cleared'
    BY <1>2, <2>1, <2>2
    DEF IInv, Follows, OneSubject, LatestIsShown, ClearsInSight, Cleared, Has
  <2> QED
    BY <2>2, <2>3, <2>4 DEF IInv
<1> QED
  BY <1>4, <1>5, <1>6 DEF IInv, TypeOK

LEMMA ChangeRangeKeeps == IInv /\ ChangeRange => IInv'
<1> SUFFICES ASSUME IInv, ChangeRange PROVE IInv'
  OBVIOUS
<1>1. /\ UNCHANGED <<panel, mounted, open, who, shown>>
      /\ range' \in Ranges /\ who \in Whos /\ open
  BY DEF ChangeRange, IInv, TypeOK
<1>2. CASE Has("asksOnRange")
  <2>1. /\ seq' \in Nat /\ asked' \subseteq [seq : 1 .. seq', key : Keys]
        /\ latest' = <<who, range'>> /\ latest' \in Keys
        /\ loading' = TRUE /\ failed' = FALSE
        /\ LatestIsWanted'
    BY <1>1, <1>2, AskFacts DEF ChangeRange, IInv
  <2>2. TypeOK'
    BY <1>1, <2>1 DEF IInv, TypeOK
  <2>3. Follows' /\ OneSubject' /\ LatestIsShown' /\ ClearsInSight' /\ Cleared'
    BY <1>1, <2>1
    DEF IInv, Follows, OneSubject, LatestIsShown, ClearsInSight, Cleared, Has
  <2> QED
    BY <2>1, <2>2, <2>3 DEF IInv
<1>3. CASE ~Has("asksOnRange")
  <2>1. UNCHANGED <<panel, mounted, open, who, shown, seq, asked, latest, loading, failed>>
    BY <1>1, <1>3 DEF ChangeRange
  <2>2. TypeOK' /\ LatestIsWanted'
    BY <1>1, <2>1 DEF IInv, TypeOK, LatestIsWanted
  <2>3. Follows' /\ OneSubject' /\ LatestIsShown' /\ ClearsInSight' /\ Cleared'
    BY <1>3, <2>1
    DEF IInv, Follows, OneSubject, LatestIsShown, ClearsInSight, Cleared, Has
  <2> QED
    BY <2>2, <2>3 DEF IInv
<1> QED
  BY <1>2, <1>3

LEMMA SwitchTabKeeps == IInv /\ SwitchTab => IInv'
<1> SUFFICES ASSUME IInv, SwitchTab PROVE IInv'
  OBVIOUS
<1>1. open' = ~open /\ UNCHANGED mounted /\ ~Has("clears") /\ (Has("tab") \/ Has("tabIfEmpty"))
  BY PanelFacts DEF SwitchTab, IInv, TypeOK
<1>2. CASE open' /\ (Has("tab") \/ shown = Nothing)
  BY <1>1, <1>2, LoadKeeps DEF SwitchTab, IInv, TypeOK
<1>3. CASE ~(open' /\ (Has("tab") \/ shown = Nothing))
  <2>1. UNCHANGED <<panel, mounted, who, range, seq, asked, latest, shown, loading, failed>>
    BY <1>1, <1>3 DEF SwitchTab
  <2>2. open' => ~Has("selects")
    BY <1>1, <1>3, PanelFacts DEF IInv, TypeOK
  <2>3. TypeOK' /\ LatestIsWanted'
    BY <1>1, <2>1 DEF IInv, TypeOK, LatestIsWanted
  <2>4. Follows' /\ OneSubject' /\ LatestIsShown' /\ ClearsInSight' /\ Cleared'
    BY <1>1, <2>1, <2>2
    DEF IInv, Follows, OneSubject, LatestIsShown, ClearsInSight, Cleared, Has
  <2> QED
    BY <2>3, <2>4 DEF IInv
<1> QED
  BY <1>2, <1>3

LEMMA AnswerKeeps == ASSUME IInv, NEW q \in asked, Answer(q) PROVE IInv'
<1>1. /\ UNCHANGED <<panel, mounted, open, who, range, seq, latest>>
      /\ asked' \subseteq asked
  BY DEF Answer
<1>2. q.key \in Keys /\ (q.seq = seq => q.key = latest)
  BY DEF IInv, TypeOK, LatestIsWanted
<1>3. LatestIsWanted'
  BY <1>1 DEF IInv, LatestIsWanted
<1>4. CASE q.seq = seq
  <2>1. shown' = latest /\ latest \in Keys /\ latest # Nothing /\ loading' = FALSE
    BY <1>2, <1>4, NothingAssumption DEF Answer, Keys
  <2>2. failed' \in BOOLEAN
    <3>1. failed' \in {FALSE, Has("showsPart")}
      BY <1>4, Zenon DEF Answer
    <3>2. Has("showsPart") \in BOOLEAN
      BY DEF Has
    <3> QED
      BY <3>1, <3>2, Zenon
  <2>3. TypeOK'
    BY <1>1, <2>1, <2>2 DEF IInv, TypeOK
  <2>4. Follows' /\ OneSubject' /\ LatestIsShown' /\ ClearsInSight' /\ Cleared'
    BY <1>1, <2>1
    DEF IInv, Follows, OneSubject, LatestIsShown, ClearsInSight, Cleared, Has
  <2> QED
    BY <1>3, <2>3, <2>4 DEF IInv
<1>5. CASE q.seq # seq
  <2>1. UNCHANGED <<shown, failed, loading>>
    BY <1>5 DEF Answer
  <2>2. TypeOK'
    BY <1>1, <2>1 DEF IInv, TypeOK
  <2>3. Follows' /\ OneSubject' /\ LatestIsShown' /\ ClearsInSight' /\ Cleared'
    BY <1>1, <2>1
    DEF IInv, Follows, OneSubject, LatestIsShown, ClearsInSight, Cleared, Has
  <2> QED
    BY <1>3, <2>2, <2>3 DEF IInv
<1> QED
  BY <1>4, <1>5

LEMMA FailKeeps == ASSUME IInv, NEW q \in asked, Fail(q) PROVE IInv'
<1>1. /\ UNCHANGED <<panel, mounted, open, who, range, seq, latest>>
      /\ asked' \subseteq asked
  BY DEF Fail
<1>2. Has("selects") => Has("clearsOnFail")
  BY PanelFacts DEF Fail, IInv, TypeOK
<1>3. LatestIsWanted'
  BY <1>1 DEF IInv, LatestIsWanted
<1>4. \/ UNCHANGED <<shown, failed, loading>>
      \/ /\ shown' \in {shown, Nothing} /\ (Has("selects") => shown' = Nothing)
         /\ failed' = TRUE /\ loading' = FALSE
  BY <1>2 DEF Fail
<1>5. TypeOK'
  BY <1>1, <1>4 DEF IInv, TypeOK
<1>6. Follows' /\ OneSubject' /\ LatestIsShown' /\ ClearsInSight' /\ Cleared'
  BY <1>1, <1>4
  DEF IInv, Follows, OneSubject, LatestIsShown, ClearsInSight, Cleared, Has
<1> QED
  BY <1>3, <1>5, <1>6 DEF IInv

\* What the panels know of their data is inductive, for any accounts and ranges
\* and however the answers overtake each other.
THEOREM PanelsInductive == Spec => []IInv
<1>1. Init => IInv
  <2> SUFFICES ASSUME Init PROVE IInv
    OBVIOUS
  <2>1. TypeOK
    BY RangeAssumption DEF Init, TypeOK, Has
  <2>2. ClearsInSight
    BY <2>1, PanelFacts DEF Init, ClearsInSight, TypeOK
  <2> QED
    BY <2>1, <2>2 DEF Init, IInv, LatestIsWanted, Follows, OneSubject, LatestIsShown, Cleared
<1>2. IInv /\ [Next]_vars => IInv'
  <2> SUFFICES ASSUME IInv, [Next]_vars PROVE IInv'
    OBVIOUS
  <2>1. CASE Select
    BY <2>1, SelectKeeps
  <2>2. CASE ChangeRange
    BY <2>2, ChangeRangeKeeps
  <2>3. CASE Refresh
    <3>1. Load /\ UNCHANGED <<mounted, open>>
      BY <2>3 DEF Refresh
    <3> QED
      BY <3>1, LoadKeeps DEF IInv, TypeOK, ClearsInSight
  <2>4. CASE Mounted
    <3>1. Load /\ mounted' = TRUE /\ UNCHANGED open
      BY <2>4 DEF Mounted
    <3> QED
      BY <3>1, LoadKeeps DEF IInv, TypeOK, ClearsInSight
  <2>5. CASE SwitchTab
    BY <2>5, SwitchTabKeeps
  <2>6. CASE \E q \in asked : Answer(q) \/ Fail(q)
    BY <2>6, AnswerKeeps, FailKeeps
  <2>7. CASE UNCHANGED vars
    BY <2>7
    DEF vars, IInv, TypeOK, LatestIsWanted, Follows, OneSubject, LatestIsShown,
        ClearsInSight, Cleared, Has
  <2> QED
    BY <2>1, <2>2, <2>3, <2>4, <2>5, <2>6, <2>7 DEF Next
<1> QED
  BY <1>1, <1>2, PTL DEF Spec

\* Data that are acted upon are those of the selected account, and what stands
\* on a panel that does not load is current.
THEOREM PanelsCurrent == Spec => []OwnAccount
<1>1. IInv => OwnAccount
  BY DEF IInv, OwnAccount, SettledIsCurrent, Follows, OneSubject, LatestIsShown, Cleared
<1> QED
  BY <1>1, PanelsInductive, PTL

-----------------------------------------------------------------------------
\* Every panel implements LatestAnswer: data only appear on it when they belong
\* to what is wanted at that moment.
THEOREM PanelsImplement == Spec => ShowsLatest
<1>1. Init => Promise!Init
  BY DEF Init, Promise!Init
<1>2. IInv /\ [Next]_vars => [Promise!Next]_<<latest, shown>>
  <2> SUFFICES ASSUME IInv, [Next]_vars PROVE [Promise!Next]_<<latest, shown>>
    OBVIOUS
  <2>1. CASE Select
    <3>1. PICK w \in Whos \union {Nothing} :
            \/ UNCHANGED <<latest, shown>>
            \/ latest' = Nothing /\ shown' \in {shown, Nothing}
            \/ /\ w \in Whos /\ latest' = <<w, range'>> /\ shown' \in {shown, Nothing}
      BY <2>1 DEF Select, Close, Ask
    <3>2. range' \in Ranges
      BY <2>1, RangeAssumption DEF Select, IInv, TypeOK
    <3> QED
      BY <3>1, <3>2 DEF Promise!Next, Promise!Want, Keys
  <2>2. CASE ChangeRange
    <3>1. \/ UNCHANGED <<latest, shown>>
          \/ latest' = <<who, range'>> /\ UNCHANGED shown
      BY <2>2 DEF ChangeRange, Ask
    <3>2. who \in Whos /\ range' \in Ranges
      BY <2>2 DEF ChangeRange, IInv, TypeOK
    <3> QED
      BY <3>1, <3>2 DEF Promise!Next, Promise!Want, Keys
  <2>3. ASSUME Load PROVE Promise!Want
    BY <2>3, LoadFacts DEF Promise!Want
  <2>4. CASE Refresh \/ Mounted \/ SwitchTab
    BY <2>3, <2>4 DEF Refresh, Mounted, SwitchTab, Promise!Next
  <2>5. ASSUME NEW q \in asked, Answer(q) PROVE [Promise!Next]_<<latest, shown>>
    <3>1. q.seq = seq => q.key = latest
      BY DEF IInv, LatestIsWanted
    <3> QED
      BY <2>5, <3>1 DEF Answer, Promise!Next, Promise!Show
  <2>6. ASSUME NEW q \in asked, Fail(q) PROVE [Promise!Next]_<<latest, shown>>
    BY <2>6 DEF Fail, Promise!Next, Promise!Drop
  <2>7. CASE UNCHANGED vars
    BY <2>7 DEF vars
  <2> QED
    BY <2>1, <2>2, <2>4, <2>5, <2>6, <2>7 DEF Next
<1> QED
  BY <1>1, <1>2, PanelsInductive, PTL DEF Spec, ShowsLatest, Promise!Spec
=============================================================================
