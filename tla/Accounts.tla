------------------------------ MODULE Accounts ------------------------------
(***************************************************************************)
(* Accounts, the storefront session that carries one of them, and the      *)
(* addresses their orders and shipments refer to.                          *)
(*                                                                         *)
(* A registration, like the seed of the first admin, looks for the e-mail  *)
(* and then inserts; the index of users.email decides between two of them. *)
(* The session of a browser holds a token and, copied at login, the role   *)
(* of its user.  It is loaded when a request starts and saved whole when   *)
(* one that changed it ends well; a request that fails saves nothing.      *)
(* An order is written after its address was looked up, and the panel      *)
(* ships to the address it read from the order a request before: in        *)
(* between, the customer may delete that address.                          *)
(* Tokens that expire, and profiles, only refuse requests or change data   *)
(* nothing else reads: they have no action.                                *)
(***************************************************************************)
EXTENDS Naturals

CONSTANTS
    User,          \* identities of accounts, used or not yet used
    Mailbox,       \* what an e-mail address is, apart from its letter case
    AdminMailbox,  \* of FIRST_ADMIN_EMAIL
    Typed,         \* the e-mails that visitors type when they register
    MaxProvisions, \* bound: changes of a role or of is_active made in the database
    Address,       \* identities of addresses, used or not yet used
    Order,         \* identities of orders, used or not yet used
    Writer,        \* database sessions that register, seed, and create orders
    Worker         \* storefront workers that serve one browser

ASSUME AccountsAssumption ==
    /\ AdminMailbox \in Mailbox
    /\ Typed \subseteq [box: Mailbox, capitals: BOOLEAN]
    /\ MaxProvisions \in Nat
    /\ {"none", "unused", "deleted"} \cap User = {}
    /\ "none" \notin Address

Role == {"customer", "employee", "admin"}

\* An e-mail as it was typed or stored.
Email == [box: Mailbox, capitals: BOOLEAN]
Account == [email: Email, role: Role, active: BOOLEAN]
NoAccount == [role |-> "none"]

VARIABLES
    users,      \* the rows of users
    held,       \* the roles each user has had
    provisions, \* how many changes were made in the database
    writing,    \* what each database session is doing
    session,    \* the browser's stored session
    work,       \* what each storefront worker is doing
    owner,      \* addresses.user_id, or "unused", or "deleted"
    shipTo,     \* orders.customer_id and orders.shipping_address_id
    sentTo,     \* shipments.address_id of the order's shipment
    panel       \* the address the panel has read from an order, to ship it

accountVars == <<users, held, provisions>>
browserVars == <<session, work>>
addressVars == <<owner, shipTo, sentTo, panel>>
accountsVars == <<accountVars, writing, browserVars, addressVars>>

SignedOut == [token |-> "none", role |-> "none"]
NoOrder == [customer |-> "none", address |-> "none"]
Idle == [at |-> "idle"]

Exists(u) == users[u] # NoAccount
\* get_current_user: the user of a token exists and is active.
IsCurrent(u) == Exists(u) /\ users[u].active

-----------------------------------------------------------------------------
(***************************************************************************)
(* Registration and the seed of the first admin.                           *)
(***************************************************************************)

\* Mutant of Lower: keeps the e-mail as it was typed.
AsTyped(email) == email

Lower(email) == [email EXCEPT !.capitals = FALSE]

AdminEmail == [box |-> AdminMailbox, capitals |-> TRUE]

\* UserRepository.get_by_email
ByEmail(email) == {u \in User : Exists(u) /\ users[u].email = Lower(email)}

EndWriting(c) == writing' = [writing EXCEPT ![c] = Idle]

CheckedRegistration(c, email, role) ==
    /\ ByEmail(email) = {}
    /\ writing' = [writing EXCEPT ![c] = [at |-> "insert_user", email |-> email, role |-> role]]

\* POST /auth/register, up to the hash of the password.
Register(c, email) ==
    /\ writing[c] = Idle
    /\ CheckedRegistration(c, email, "customer")
    /\ UNCHANGED <<accountVars, browserVars, addressVars>>

\* seed_admin: an account of that e-mail is only ever promoted.
SeedAdmin(c) ==
    /\ writing[c] = Idle
    /\ \/ CheckedRegistration(c, AdminEmail, "admin")
       \/ \E u \in ByEmail(AdminEmail) :
             /\ users[u].role # "admin"
             /\ writing' = [writing EXCEPT ![c] = [at |-> "promote", user |-> u]]
    /\ UNCHANGED <<accountVars, browserVars, addressVars>>

SetRole(u, role) ==
    /\ users' = [users EXCEPT ![u].role = role]
    /\ held' = [held EXCEPT ![u] = @ \cup {role}]

\* The insert and its commit; ix_users_email makes the second of two wait, and fail.
InsertUser(c) ==
    /\ writing[c].at = "insert_user"
    /\ LET email == Lower(writing[c].email) IN
       IF \E u \in User : Exists(u) /\ users[u].email = email
       THEN UNCHANGED accountVars
       ELSE \E u \in User :
               /\ ~Exists(u)
               /\ users' = [users EXCEPT ![u] =
                               [email |-> email, role |-> writing[c].role, active |-> TRUE]]
               /\ held' = [held EXCEPT ![u] = {writing[c].role}]
               /\ UNCHANGED provisions
    /\ EndWriting(c)
    /\ UNCHANGED <<browserVars, addressVars>>

Promote(c) ==
    /\ writing[c].at = "promote"
    /\ SetRole(writing[c].user, "admin")
    /\ UNCHANGED provisions
    /\ EndWriting(c)
    /\ UNCHANGED <<browserVars, addressVars>>

\* Staff accounts, and disabled ones, are provisioned in the database (external).
Provision(u) ==
    /\ Exists(u)
    /\ provisions < MaxProvisions
    /\ provisions' = provisions + 1
    /\ \/ \E role \in Role : role # users[u].role /\ SetRole(u, role)
       \/ users' = [users EXCEPT ![u].active = ~@] /\ UNCHANGED held
    /\ UNCHANGED <<writing, browserVars, addressVars>>

-----------------------------------------------------------------------------
(***************************************************************************)
(* The session of one browser.                                             *)
(***************************************************************************)
Busy(w) == work[w] # Idle

\* The middleware loads the session for a request of a kind.
Load(w, at) == work' = [work EXCEPT ![w] = [at |-> at, mem |-> session]]

SaveSession(w, s) ==
    /\ session' = s
    /\ work' = [work EXCEPT ![w] = Idle]

\* login_view lets only a session without a token get to the form.
OpenLogin(w) ==
    /\ ~Busy(w) /\ session.token = "none"
    /\ Load(w, "login")
    /\ UNCHANGED <<accountVars, writing, session, addressVars>>

\* AuthService.authenticate, then save_tokens in the memory of the worker.
Authenticate(w, u) ==
    /\ work[w].at = "login"
    /\ IsCurrent(u)
    /\ work' = [work EXCEPT ![w] = [at |-> "read_role", mem |-> [@.mem EXCEPT !.token = u]]]
    /\ UNCHANGED <<accountVars, writing, session, addressVars>>

\* GET /auth/me with the new token: a user disabled meanwhile is a None, and the login
\* ends without a role to save.
ReadRole(w) ==
    /\ work[w].at = "read_role"
    /\ LET mem == work[w].mem IN
       SaveSession(w, IF IsCurrent(mem.token)
                      THEN [mem EXCEPT !.role = users[mem.token].role] ELSE mem)
    /\ UNCHANGED <<accountVars, writing, addressVars>>

\* Logging out, and any request that changes the cart or the wishlist.
OpenPage(w, at) ==
    /\ ~Busy(w) /\ at \in {"logout", "edit_cart"}
    /\ at = "logout" => session.token # "none"
    /\ Load(w, at)
    /\ UNCHANGED <<accountVars, writing, session, addressVars>>

\* Mutant of Cleared: clear_tokens leaves the role.
ClearedTokenOnly(s) == [s EXCEPT !.token = "none"]

\* clear_tokens
Cleared(s) == [s EXCEPT !.token = "none", !.role = "none"]

Logout(w) ==
    /\ work[w].at = "logout"
    /\ SaveSession(w, Cleared(work[w].mem))
    /\ UNCHANGED <<accountVars, writing, addressVars>>

\* The rest of the session is saved with the change, whatever others saved meanwhile.
EditCart(w) ==
    /\ work[w].at = "edit_cart"
    /\ SaveSession(w, work[w].mem)
    /\ UNCHANGED <<accountVars, writing, addressVars>>

\* Wrong credentials, a disabled account, an API that does not answer, a killed worker.
FailPage(w) ==
    /\ Busy(w)
    /\ work' = [work EXCEPT ![w] = Idle]
    /\ UNCHANGED <<accountVars, writing, session, addressVars>>

-----------------------------------------------------------------------------
(***************************************************************************)
(* Addresses, and the orders and shipments that refer to them.             *)
(***************************************************************************)
Live(a) == owner[a] \in User

\* POST /customers/me/addresses
AddAddress(u, a) ==
    /\ IsCurrent(u)
    /\ owner[a] = "unused"
    /\ owner' = [owner EXCEPT ![a] = u]
    /\ UNCHANGED <<accountVars, writing, browserVars, shipTo, sentTo, panel>>

\* orders.shipping_address_id is SET NULL.
Forget(o, a) == IF shipTo[o].address = a THEN "none" ELSE shipTo[o].address

\* DELETE /customers/me/addresses/{id}: shipments.address_id is RESTRICT.
DeleteAddress(u, a) ==
    /\ IsCurrent(u)
    /\ owner[a] = u
    /\ \A o \in Order : sentTo[o] # a
    /\ owner' = [owner EXCEPT ![a] = "deleted"]
    /\ shipTo' = [o \in Order |-> [shipTo[o] EXCEPT !.address = Forget(o, a)]]
    /\ UNCHANGED <<accountVars, writing, browserVars, sentTo, panel>>

\* POST /orders and /orders/checkout: the address is the customer's.
CheckOrder(c, u, a) ==
    /\ writing[c] = Idle
    /\ IsCurrent(u)
    /\ a = "none" \/ (a \in Address /\ owner[a] = u)
    /\ writing' = [writing EXCEPT ![c] = [at |-> "insert_order", customer |-> u, address |-> a]]
    /\ UNCHANGED <<accountVars, browserVars, addressVars>>

\* The foreign key refuses an address deleted since the check.
InsertOrder(c) ==
    /\ writing[c].at = "insert_order"
    /\ IF writing[c].address = "none" \/ Live(writing[c].address)
       THEN \E o \in Order :
               /\ shipTo[o] = NoOrder
               /\ shipTo' = [shipTo EXCEPT ![o] =
                                [customer |-> writing[c].customer, address |-> writing[c].address]]
       ELSE UNCHANGED shipTo
    /\ EndWriting(c)
    /\ UNCHANGED <<accountVars, browserVars, owner, sentTo, panel>>

\* The panel's shipment_create reads the order, and turns back without an address.
ReadOrder(o) ==
    /\ shipTo[o].address # "none" /\ panel[o] = "none"
    /\ panel' = [panel EXCEPT ![o] = shipTo[o].address]
    /\ UNCHANGED <<accountVars, writing, browserVars, owner, shipTo, sentTo>>

\* Mutant of CreateShipment: trusts the address that was read.
ShipUnchecked(o) ==
    /\ panel[o] # "none"
    /\ sentTo' = [sentTo EXCEPT ![o] = IF @ = "none" THEN panel[o] ELSE @]
    /\ panel' = [panel EXCEPT ![o] = "none"]
    /\ UNCHANGED <<accountVars, writing, browserVars, owner, shipTo>>

\* The panel posts that address to /shipments/order/{id}: a 409 if the order has a shipment
\* and a 404 if the address is gone end the page with a message and change nothing.
CreateShipment(o) ==
    /\ panel[o] # "none"
    /\ sentTo' = [sentTo EXCEPT ![o] = IF @ = "none" /\ Live(panel[o]) THEN panel[o] ELSE @]
    /\ panel' = [panel EXCEPT ![o] = "none"]
    /\ UNCHANGED <<accountVars, writing, browserVars, owner, shipTo>>

\* A request that fails, or whose process stops, leaves nothing.
FailWriting(c) ==
    /\ writing[c] # Idle
    /\ EndWriting(c)
    /\ UNCHANGED <<accountVars, browserVars, addressVars>>

-----------------------------------------------------------------------------
AccountsInit ==
    /\ users = [u \in User |-> NoAccount]
    /\ held = [u \in User |-> {}]
    /\ provisions = 0
    /\ writing = [c \in Writer |-> Idle]
    /\ session = SignedOut
    /\ work = [w \in Worker |-> Idle]
    /\ owner = [a \in Address |-> "unused"]
    /\ shipTo = [o \in Order |-> NoOrder]
    /\ sentTo = [o \in Order |-> "none"]
    /\ panel = [o \in Order |-> "none"]

AccountsNext ==
    \/ \E c \in Writer :
          \/ \E email \in Typed : Register(c, email)
          \/ SeedAdmin(c)
          \/ InsertUser(c)
          \/ Promote(c)
          \/ \E u \in User, a \in Address \cup {"none"} : CheckOrder(c, u, a)
          \/ InsertOrder(c)
          \/ FailWriting(c)
    \/ \E w \in Worker :
          \/ OpenLogin(w)
          \/ \E u \in User : Authenticate(w, u)
          \/ ReadRole(w)
          \/ \E at \in {"logout", "edit_cart"} : OpenPage(w, at)
          \/ Logout(w)
          \/ EditCart(w)
          \/ FailPage(w)
    \/ \E u \in User : Provision(u)
    \/ \E u \in User, a \in Address : AddAddress(u, a) \/ DeleteAddress(u, a)
    \/ \E o \in Order : ReadOrder(o) \/ CreateShipment(o)

AccountsSpec == AccountsInit /\ [][AccountsNext]_accountsVars

-----------------------------------------------------------------------------
(***************************************************************************)
(* Properties.                                                             *)
(***************************************************************************)

\* Every row has its type, no two accounts share an e-mail however its letters were
\* typed (two registrations, or a registration and the seed, at the same moment), and
\* an account's present role is among those it has had.
AccountTypeOK ==
    /\ users \in [User -> Account \cup {NoAccount}]
    /\ session \in [token: User \cup {"none"}, role: Role \cup {"none"}]
    /\ owner \in [Address -> User \cup {"unused", "deleted"}]
    /\ sentTo \in [Order -> Address \cup {"none"}]
    /\ \A u \in User : Exists(u) => users[u].role \in held[u]
    /\ \A u, v \in User :
          Exists(u) /\ Exists(v) /\ users[u].email.box = users[v].email.box => u = v

\* The role cached in the session is one that the session's own user has had, never
\* what an earlier user of the browser left there: with two tabs logging in and out
\* over each other, accounts disabled in the middle of a login and saves that bring
\* an old session back.
RoleIsOwn ==
    session.role # "none" => session.token # "none" /\ session.role \in held[session.token]

\* What an order is shipped to, and what it asks to be shipped to, exists and is the
\* address of its own customer, although the customer deletes addresses between the
\* check and the insert of an order and between the panel's read and its shipment.
ShippedToCustomer ==
    \A o \in Order : \A a \in {shipTo[o].address, sentTo[o]} \ {"none"} :
        Live(a) /\ owner[a] = shipTo[o].customer
=============================================================================
