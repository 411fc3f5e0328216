SPECIFICATION FairStoreSpec
CONSTANTS
    Order = {o1, o2}
    Product = {p1}
    MaxQty = 2
    MaxStock = 1
    MaxPayments = 1
    GatewayOutcome <- ManualGateway
    Worker = {w1}
    Ops <- AllOps
    MaxSaves = 3
INVARIANTS
    StoreTypeOK
    OneOrderPerCart
PROPERTIES
    CartBecomesOrder
    OrdersAsPromised
    CheckoutsEnd
