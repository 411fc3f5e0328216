SPECIFICATION ReportSpec
CONSTANTS
    Order = {o1}
    Product = {p1}
    MaxQty = 1
    MaxStock = 1
    MaxPayments = 1
    GatewayOutcome <- ManualGateway
    Viewer = {v1, v2}
    CacheTime = 2
    MaxCompute = 1
    MaxTime = 4
SYMMETRY ReportSymmetry
CHECK_DEADLOCK FALSE
INVARIANTS
    ReportTypeOK
    StaleByAtMost
    RegionsAreNewer
PROPERTY GeneratedNeverGoesBack
