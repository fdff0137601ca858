SPECIFICATION FairSpec
CONSTANTS
    Writers = {w1, w2}
    ReadsBack = {w2}
    Probes = {healthz}
    MaxFaults = 4
INVARIANT UnavailableMeansNotApplied
