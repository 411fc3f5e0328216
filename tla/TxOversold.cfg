SPECIFICATION TxSpec
CONSTANTS
    Order = {o1, o2}
    Product = {p1}
    MaxQty = 1
    MaxStock = 1
    MaxPayments = 1
    GatewayOutcome <- ManualGateway
    Tx = {t1, t2}
    Ops <- SharedStockOps
SYMMETRY TxOrderSymmetry
INVARIANT UnitsNeverOversold
