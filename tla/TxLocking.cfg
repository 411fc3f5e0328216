SPECIFICATION TxSpec
CONSTANTS
    Order = {o1, o2}
    Product = {p1}
    MaxQty = 1
    MaxStock = 2
    MaxPayments = 1
    GatewayOutcome <- ManualGateway
    Tx = {t1, t2}
    Ops <- LockingOps
SYMMETRY TxOrderSymmetry
INVARIANT TxTypeOK
PROPERTY Serial
