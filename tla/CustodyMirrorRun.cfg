CONSTANTS
    a1 = a1
    a2 = a2
    c1 = c1
    c2 = c2
    c3 = c3
    c4 = c4
    d1 = d1
    d2 = d2
    k1 = k1
    k2 = k2
    NoCall = NoCall
    Agents = {a1, a2}
    Correlations = {k1, k2}
    AgentOf <- CallAgents
    DomainOf <- CallDomains
    EventOf <- CallEvents
    Calls = {c1, c2}
    Domains = {d1}
    Sinks = {"auditor", "siem"}
    RequiredSinks = {"auditor"}
    AnchorCalls = {}
SPECIFICATION FairSpec
INVARIANT MirrorAgrees
PROPERTY EveryCallEnds
CHECK_DEADLOCK FALSE
