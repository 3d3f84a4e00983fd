\* Two requests at a time, admin calls, thrown errors, a crash, late landings.
SPECIFICATION PSpec
CONSTANTS
    key = key
    agent = agent
    session = session
    good = good
    bad = bad
    sel = sel
    NoKey = NoKey
    NoSelector = NoSelector
    Usdc = good
    Router = bad
    None = None
    w1 = w1
    w2 = w2
    Worker = {w1, w2}
    Key = {key}
    Session = {session}
    Agent = {agent}
    RawIntents <- MCIntents
    KeyTemplates <- MCKeyTemplates
    SessionTemplates <- MCSessionTemplates
    DefaultSession <- MCDefaultSession
    Mode = "live"
    Faults = {"admin", "throw", "crash", "landed"}
    MaxRequests = 2
    MaxTime = 2
SYMMETRY MCSymmetry
INVARIANTS PTypeOK SpentWithinCap BroadcastWithinIssued RecordsTruthful
CHECK_DEADLOCK FALSE
