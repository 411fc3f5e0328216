SPECIFICATION LoaderSpec
CONSTANTS
    Order = {o1, o2}
    OlistOrder = {o1, o2}
    Product = {p1}
    MaxQty = 1
    MaxStock = 2
    MaxPayments = 2
    GatewayOutcome <- AlwaysCharged
    MaxDate = 2
    MaxCsvPayments = 2
SYMMETRY ImportSymmetry
INVARIANTS
    LoaderTypeOK
    ImportedStock
    ImportedOrders
PROPERTY ReloadKeeps
