\* One request at a time of an agent without keys.
SPECIFICATION PSpec
CONSTANTS
    key = key
    agent = agent
    session = session
    good = good
    bad = bad
    sel = sel
    NoKey = NoKey
    NoSelector = NoSelector
    Usdc = good
    Router = bad
    None = None
    w1 = w1
    w2 = w2
    Worker = {w1}
    Key = {key}
    Session = {session}
    Agent = {agent}
    RawIntents <- KeylessIntents
    KeyTemplates <- NoTemplates
    SessionTemplates <- NoTemplates
    DefaultSession <- MCDefaultSession
    Mode = "live"
    Faults = {}
    MaxRequests = 2
    MaxTime = 0
INVARIANT SessionLimitHolds
CHECK_DEADLOCK FALSE
