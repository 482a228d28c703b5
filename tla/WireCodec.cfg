SPECIFICATION Spec
CONSTANTS
    ItchCandidates <- MCItchCandidates
    OuchCandidates <- MCOuchCandidates
    RequestCandidates <- MCRequestCandidates
    SpanSizes <- MCSpanSizes
    Fills <- MCFills
    DamageValues <- MCDamageValues
    MaxDamage <- MCMaxDamage
INVARIANTS
    RoundTrip
    ByteExact
PROPERTY
    RefusedEncodeLeavesSpan
CHECK_DEADLOCK FALSE
