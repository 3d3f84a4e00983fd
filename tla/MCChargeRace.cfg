\* A key is revoked while a request is in flight.
SPECIFICATION PSpec
CONSTANTS
    key = key
    agent = agent
    session = session
    good = good
    bad = bad
    sel = sel
    NoKey = NoKey
    NoSelector = NoSelector
    Usdc = good
    Router = bad
    None = None
    w1 = w1
    w2 = w2
    Worker = {w1}
    Key = {key}
    Session = {session}
    Agent = {agent}
    RawIntents <- MCIntents
    KeyTemplates <- MCKeyTemplates
    SessionTemplates <- NoTemplates
    DefaultSession <- MCDefaultSession
    Mode = "live"
    Faults = {"admin"}
    MaxRequests = 1
    MaxTime = 1
PROPERTY ChargeOnlyIncrements
CHECK_DEADLOCK FALSE
