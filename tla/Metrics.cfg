SPECIFICATION MetricsSpec
CONSTANTS
    r1 = r1
    r2 = r2
    r3 = r3
    Request <- MCRequest
    Latency <- MCLatency
    Bounds <- MCBounds
    Percents <- MCPercents
    MaxRequests = 3
SYMMETRY Symmetry
INVARIANTS
    MetricsTypeOK
    PageAgrees
    QuantileWithinASample
