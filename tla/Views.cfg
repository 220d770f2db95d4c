SPECIFICATION ViewsSpec
CONSTANTS
    Whos = {a, b, c}
    Ranges = {r, s}
    FirstRange = r
    Nothing = Nothing
    Unset = Unset
    NoDomain = NoDomain
    Unlimited = Unlimited
    MaxAsked = 3
\* The bounds run out.
CHECK_DEADLOCK FALSE
INVARIANT OwnAccount
INVARIANT FormFits
INVARIANT NamedIsActedOn
 
INVARIANT SentAsSeen
INVARIANT NoOpenRuleUnasked
INVARIANT HiddenUnlessForgotten
INVARIANT PagesJoin
INVARIANT SharingNeedsOverlap
 
 
INVARIANT TableWhole
INVARIANT WaitersAwaitOracle
PROPERTY ShowsLatest
