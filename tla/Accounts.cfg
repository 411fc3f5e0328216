SPECIFICATION AccountsSpec
CONSTANTS
    User = {u1, u2}
    Mailbox = {m1, m2}
    AdminMailbox = m1
    Typed <- LowerCase
    MaxProvisions = 1
    Address = {a1}
    Order = {o1}
    Writer = {c1, c2}
    Worker = {w1, w2}
SYMMETRY AccountSymmetry
INVARIANTS
    AccountTypeOK
    RoleIsOwn
    ShippedToCustomer
