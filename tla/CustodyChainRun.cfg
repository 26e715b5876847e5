CONSTANTS
    a1 = a1
    a2 = a2
    c1 = c1
    c2 = c2
    c3 = c3
    c4 = c4
    d1 = d1
    d2 = d2
    k1 = k1
    k2 = k2
    NoCall = NoCall
    Agents = {a1, a2}
    Correlations = {k1, k2}
    AgentOf <- CallAgents
    DomainOf <- CallDomains
    EventOf <- CallEvents
    Calls = {c1, c2, c3, c4}
    Domains = {d1, d2}
    Sinks = {}
    RequiredSinks = {}
    AnchorCalls = {"cron"}
SPECIFICATION Spec
SYMMETRY RetrySymmetry
INVARIANTS TypeOK DomainVerifies PartsAttest
PROPERTIES AppendOnly ImplementsLog
CHECK_DEADLOCK FALSE
