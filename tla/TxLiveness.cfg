SPECIFICATION FairTxSpec
CONSTANTS
    Order = {o1, o2}
    Product = {p1, p2}
    MaxQty = 1
    MaxStock = 1
    MaxPayments = 1
    GatewayOutcome <- ManualGateway
    Tx = {t1, t2}
    Ops <- StockContention
PROPERTY RequestsEnd
