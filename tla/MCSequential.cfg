\* One request at a time, nothing fails: the key's promise is kept.
SPECIFICATION PSpec
CONSTANTS
    key = key
    agent = agent
    session = session
    good = good
    bad = bad
    sel = sel
    NoKey = NoKey
    NoSelector = NoSelector
    Usdc = good
    Router = bad
    None = None
    w1 = w1
    w2 = w2
    Worker = {w1}
    Key = {key}
    Session = {session}
    Agent = {agent}
    RawIntents <- PlainIntents
    KeyTemplates <- PlainKeyTemplates
    SessionTemplates <- NoTemplates
    DefaultSession <- MCDefaultSession
    Mode = "live"
    Faults = {}
    MaxRequests = 4
    MaxTime = 5
PROPERTY LedgerImplemented
PROPERTY ChargeOnlyIncrements
CHECK_DEADLOCK FALSE
