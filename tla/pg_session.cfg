SPECIFICATION FairSpec
CONSTANTS
    Writers = {w1, w2}
    ReadsBack = {w2}
    Probes = {healthz}
    MaxFaults = 4
INVARIANTS AtMostOnce OkMeansApplied RefusedMeansNotApplied
PROPERTY HealthRecovers
