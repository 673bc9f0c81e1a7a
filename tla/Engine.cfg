SPECIFICATION Spec
CONSTANTS
    c1 = c1
    c2 = c2
    i1 = i1
    i2 = i2
    default = default
    other = other
    Cfgs = {c1, c2}
    Ids = {i1, i2}
    Templates <- TemplatesOf
    Agents = {default, other}
    FileAgents <- FileAgentsOf
    HostAgent <- HostAgentOf
    NoCfg = NoCfg
    Cancellers = {t1, t2}
    MaxTask = 2
    MaxSet = 2
    MaxCancel = 2
SYMMETRY SymmetricThreads
CHECK_DEADLOCK FALSE
INVARIANTS ServicesAgree SinkHasItsUserdata CancelIsForThisTask
