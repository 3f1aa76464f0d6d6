CONSTANTS
    Infos = {i1, i2}
    MaxTurns = 4
    N = 2
    Bot = Bot
    Empty = Empty
    Missing = Missing
    Broken = Broken
    Unbuildable = Unbuildable
    None = None
SPECIFICATION Spec
INVARIANTS TypeOK TurnAgrees SendsNewest RefundAllowed AttemptDenied PanicsUnsent
PROPERTY Ends
CHECK_DEADLOCK FALSE
