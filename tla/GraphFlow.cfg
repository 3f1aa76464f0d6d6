CONSTANTS
    s1 = s1
    s2 = s2
    ev = ev
    other = other
    quiet = quiet
    talk = talk
    bad = bad
    ctx = ctx
    plan1 = plan1
    plan2 = plan2
    Callers = {w1}
    States = {s1, s2}
    Events = {ev, other}
    Windows = {quiet, talk, bad}
    Prompts = {x, y}
    Build <- SampleBuild
    Plan <- SamplePlan
    Display <- Texts
    Canonical <- Joined
    Adapters = {"model", "factory", "closure", "agent"}
    Empty = Empty
    Missing = Missing
    Broken = Broken
    Unbuildable = Unbuildable
    None = None
    NoHistory = quiet
    Graph <- PairedGraph
    Unwritable <- SampleUnwritable
SPECIFICATION FlowSpec
INVARIANTS TypeOK OutputOfOnePiece ErrorTellsStage PromptReachesModel IInv FlowTypeOK MetadataOfOneStep ResponseCurrent PreparationCurrent EdgePredicts
PROPERTY RunEnds
