SPECIFICATION Spec
CONSTANTS
    Order = {o1, o2}
    Product = {p1, p2}
    MaxQty = 2
    MaxStock = 2
    MaxPayments = 1
    GatewayOutcome <- AnyOutcome
SYMMETRY OrderSymmetry
INVARIANTS
    TypeOK
    ReservationExact
    StockConserved
    LedgerMatchesPayments
    ShipmentMatchesOrder
    HistoryChains
PROPERTIES
    FinalIsFinal
    KeepsStockPromise
