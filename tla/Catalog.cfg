SPECIFICATION CatalogSpec
CONSTANTS
    Category = {c1, c2}
    Product = {p1, p2}
    File = {f1, f2, f3}
    Name <- Names
    Sku = {k1, k2}
    DemoName = 1
    DemoSku = k1
    Tx = {t1, t2}
    Traffic <- Together
    PageSize = 1
    None = None
CHECK_DEADLOCK FALSE
SYMMETRY CatalogSymmetry
INVARIANTS
    CatalogTypeOK
    NoDuplicates
    NoDangling
    FilesFollowRows
    ListingComplete
