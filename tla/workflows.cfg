SPECIFICATION Spec
CONSTANTS
    w1 = w1
    r1 = r1
    r2 = r2
    Workflows = {w1}
    NodeIds <- SmallNodes
    Requests = {r1, r2}
    Calls <- SmallCalls
    Definitions <- SmallDefinitions
    Broken = Broken
    Default = Default
    Providers = {"external", "builtin"}
    Words <- SmallWords
    Documents = {{}}
    AnswerKeys = {}
    NameWords <- SmallNames
    Answers <- SmallAnswers
    Queries <- SmallQueries
    None = None
    MaxSteps = 3
    MaxRuns = 2
    MaxEdits = 1
    MaxCrashes = 1
INVARIANTS
    WalkFollowsEdges
    RunningIsOwned
PROPERTIES
    InsightIsKept
    RunsEnd
