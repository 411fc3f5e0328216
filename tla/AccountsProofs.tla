---------------------------- MODULE AccountsProofs ----------------------------
(***************************************************************************)
(* Accounts, proved for every set of users, mailboxes, addresses, orders,  *)
(* database sessions and workers.                                          *)
(*                                                                         *)
(* The three components hardly meet, and the invariant has a part of each: *)
(* what a login has in its hands is as sound as the stored session (the    *)
(* user exists, a role beside a token is one that user has had), and what  *)
(* an order was checked with, or the panel has read, is an address of that *)
(* customer or one that is gone.                                           *)
(***************************************************************************)
EXTENDS Accounts, TLAPS

Cookie == [token: User \cup {"none"}, role: Role \cup {"none"}]
Page == {"login", "read_role", "logout", "edit_cart"}
Lowered == {e \in Email : ~e.capitals}

\* The rows of users: every e-mail is stored in lower case, and only once.
AccountRows ==
    /\ users \in [User -> Account \cup {NoAccount}]
    /\ held \in [User -> SUBSET Role]
    /\ \A u \in User : Exists(u) => users[u].email \in Lowered /\ users[u].role \in held[u]
    /\ \A u, v \in User : Exists(u) /\ Exists(v) /\ users[u].email = users[v].email => u = v

\* A session, stored or in the memory of a worker, whose role is its own user's.
Sound(s) ==
    /\ s \in Cookie
    /\ s.token # "none" => Exists(s.token)
    /\ s.role # "none" => s.token # "none" /\ s.role \in held[s.token]

\* A login starts signed out, and its second step has a token and still no role.
PageSound(job) ==
    job # Idle =>
        /\ Sound(job.mem)
        /\ job.at = "login" => job.mem.token = "none"
        /\ job.at = "read_role" => job.mem.token # "none" /\ job.mem.role = "none"

BrowserSound ==
    /\ Sound(session)
    /\ work \in [Worker -> {Idle} \cup [at: Page, mem: Cookie]]
    /\ \A w \in Worker : PageSound(work[w])

Writing ==
    [at: {"insert_user"}, email: Email, role: Role]
        \cup [at: {"promote"}, user: User]
        \cup [at: {"insert_order"}, customer: User, address: Address \cup {"none"}]

\* The account to promote exists.
WritersTyped ==
    /\ writing \in [Writer -> {Idle} \cup Writing]
    /\ \A c \in Writer : writing[c].at = "promote" => Exists(writing[c].user)

AddressesTyped ==
    /\ owner \in [Address -> User \cup {"unused", "deleted"}]
    /\ shipTo \in [Order -> [customer: User \cup {"none"}, address: Address \cup {"none"}]]
    /\ sentTo \in [Order -> Address \cup {"none"}]
    /\ panel \in [Order -> Address \cup {"none"}]

\* An address that was looked up for u is still u's, or it is gone.
WasOf(a, u) == a # "none" => u \in User /\ owner[a] \in {u, "deleted"}
\* An address a row refers to is u's.
IsOf(a, u) == a # "none" => u \in User /\ owner[a] = u

AddressesOwn ==
    /\ \A c \in Writer :
          writing[c].at = "insert_order" => WasOf(writing[c].address, writing[c].customer)
    /\ \A o \in Order :
          /\ IsOf(shipTo[o].address, shipTo[o].customer)
          /\ IsOf(sentTo[o], shipTo[o].customer)
          /\ WasOf(panel[o], shipTo[o].customer)

AccountsInv ==
    AccountRows /\ BrowserSound /\ WritersTyped /\ AddressesTyped /\ AddressesOwn

-----------------------------------------------------------------------------
(***************************************************************************)
(* The accounts.                                                           *)
(***************************************************************************)

\* An account that exists is a row, and no row of Account is the mark of none.
LEMMA ExistsIsRow ==
    ASSUME AccountRows, NEW u \in User
    PROVE  Exists(u) <=> users[u] \in Account
<1>1. NoAccount \notin Account
  BY DEF NoAccount, Account, Role
<1>2. QED
  BY <1>1 DEF AccountRows, Exists

\* Two e-mails in one box are stored as the same one.
LEMMA LowerIsOne ==
    /\ \A e \in Email : Lower(e) \in Lowered
    /\ \A e, f \in Lowered : e.box = f.box => e = f
<1>1. \A e \in Email : Lower(e) \in Email /\ Lower(e).capitals = FALSE
  BY DEF Lower, Email
<1>2. \A e \in Lowered : e.capitals = FALSE
  BY Zenon DEF Lowered, Email
<1>3. \A e \in Lowered : e = [box |-> e.box, capitals |-> e.capitals]
  BY DEF Lowered, Email
<1>4. \A e, f \in Lowered : e.box = f.box => e = f
  BY <1>2, <1>3
<1>5. QED
  BY <1>1, <1>4 DEF Lowered

\* No account disappears, and none forgets a role it has had.
AccountsStay ==
    \A u \in User : Exists(u) => Exists(u)' /\ held[u] \subseteq held'[u]

\* A change of one account's role keeps the rows.
LEMMA RoleSet ==
    ASSUME AccountRows, NEW u \in User, Exists(u), NEW role \in Role, SetRole(u, role)
    PROVE  AccountRows' /\ AccountsStay
<1> DEFINE row == [users[u] EXCEPT !.role = role]
<1>1. /\ users[u] \in Account
      /\ DOMAIN users = User /\ DOMAIN held = User
  BY ExistsIsRow DEF AccountRows
<1>2. users' = [users EXCEPT ![u] = row] /\ held' = [held EXCEPT ![u] = held[u] \cup {role}]
  BY <1>1 DEF SetRole
<1>3. /\ row \in Account /\ row # NoAccount
      /\ row.email = users[u].email /\ row.role = role
  BY <1>1 DEF Account, NoAccount, Role
<1> HIDE DEF row
<1>4. \A v \in User : users'[v] = IF v = u THEN row ELSE users[v]
  BY <1>1, <1>2
<1>5. \A v \in User : held'[v] = IF v = u THEN held[u] \cup {role} ELSE held[v]
  BY <1>1, <1>2
<1>6. AccountsStay
  BY <1>3, <1>4, <1>5 DEF AccountsStay, Exists
<1>7. users' \in [User -> Account \cup {NoAccount}] /\ held' \in [User -> SUBSET Role]
  BY <1>2, <1>3 DEF AccountRows
<1>8. \A v \in User :
        Exists(v)' => users'[v].email = users[v].email /\ Exists(v)
                      /\ users'[v].role \in held'[v] /\ users[v].email \in Lowered
  BY <1>3, <1>4, <1>5 DEF AccountRows, Exists
<1>9. QED
  BY <1>6, <1>7, <1>8 DEF AccountRows

\* So does enabling or disabling one.
LEMMA ActiveSet ==
    ASSUME AccountRows, NEW u \in User, Exists(u), UNCHANGED held,
           users' = [users EXCEPT ![u].active = ~@]
    PROVE  AccountRows' /\ AccountsStay
<1> DEFINE row == [users[u] EXCEPT !.active = ~@]
<1>1. /\ users[u] \in Account
      /\ DOMAIN users = User
  BY ExistsIsRow DEF AccountRows
<1>2. users' = [users EXCEPT ![u] = row]
  BY <1>1
<1>3. /\ row \in Account /\ row # NoAccount
      /\ row.email = users[u].email /\ row.role = users[u].role
  BY <1>1 DEF Account, NoAccount, Role
<1> HIDE DEF row
<1>4. \A v \in User : users'[v] = IF v = u THEN row ELSE users[v]
  BY <1>1, <1>2
<1>6. AccountsStay
  BY <1>3, <1>4 DEF AccountsStay, Exists
<1>7. users' \in [User -> Account \cup {NoAccount}]
  BY <1>2, <1>3 DEF AccountRows
<1>8. \A v \in User :
        Exists(v)' => users'[v].email = users[v].email /\ users'[v].role = users[v].role
                      /\ Exists(v) /\ users[v].email \in Lowered
  BY <1>3, <1>4 DEF AccountRows, Exists
<1>9. QED
  BY <1>6, <1>7, <1>8 DEF AccountRows

\* An insert takes an identity that nobody has, and an e-mail that nobody has.
LEMMA AccountInserted ==
    ASSUME AccountRows, WritersTyped, NEW c \in Writer, InsertUser(c)
    PROVE  AccountRows' /\ AccountsStay
<1> DEFINE email == Lower(writing[c].email)
           role == writing[c].role
<1>1. email \in Lowered /\ role \in Role
  BY LowerIsOne DEF InsertUser, WritersTyped, Writing, Idle
<1>2. CASE UNCHANGED accountVars
  BY <1>2 DEF accountVars, AccountRows, AccountsStay, Exists
<1>3. ASSUME NEW u \in User, ~Exists(u),
             \A v \in User : Exists(v) => users[v].email # email,
             users' = [users EXCEPT ![u] = [email |-> email, role |-> role, active |-> TRUE]],
             held' = [held EXCEPT ![u] = {role}]
      PROVE  AccountRows' /\ AccountsStay
  <2> DEFINE row == [email |-> email, role |-> role, active |-> TRUE]
  <2>1. /\ row \in Account /\ row # NoAccount /\ row.email = email /\ row.role = role
    BY <1>1 DEF Account, NoAccount, Role, Lowered
  <2>2. users' = [users EXCEPT ![u] = row]
    BY <1>3
  <2> HIDE DEF row, email, role
  <2>3. \A v \in User : users'[v] = IF v = u THEN row ELSE users[v]
    BY <2>2 DEF AccountRows
  <2>4. \A v \in User : held'[v] = IF v = u THEN {role} ELSE held[v]
    BY <1>3 DEF AccountRows
  <2>5. AccountsStay
    BY <1>3, <2>3, <2>4 DEF AccountsStay, Exists
  <2>6. users' \in [User -> Account \cup {NoAccount}]
    BY <2>1, <2>2 DEF AccountRows
  <2>7. held' \in [User -> SUBSET Role]
    BY <1>1, <1>3 DEF AccountRows
  <2>8. \A v \in User : Exists(v)' =>
          users'[v].email \in Lowered /\ users'[v].role \in held'[v]
    BY <1>1, <2>1, <2>3, <2>4 DEF AccountRows, Exists
  <2>9. \A v, w \in User :
          Exists(v)' /\ Exists(w)' /\ users'[v].email = users'[w].email => v = w
    BY <1>3, <2>1, <2>3 DEF AccountRows, Exists
  <2>10. QED
    BY <2>5, <2>6, <2>7, <2>8, <2>9 DEF AccountRows
<1> HIDE DEF email, role
<1>4. QED
  BY <1>2, <1>3 DEF InsertUser, email, role

-----------------------------------------------------------------------------
(***************************************************************************)
(* The sessions of the browser.                                            *)
(***************************************************************************)

\* A session stays sound while its user is there and keeps the roles it had.
LEMMA SoundStays ==
    ASSUME AccountsStay, NEW s, Sound(s)
    PROVE  Sound(s)'
BY DEF AccountsStay, Sound, Cookie, Exists

\* So the browser stays sound while only the accounts change.
LEMMA BrowserStays ==
    ASSUME BrowserSound, AccountsStay, UNCHANGED browserVars
    PROVE  BrowserSound'
<1>1. session' = session /\ work' = work
  BY DEF browserVars
<1>2. Sound(session)'
  BY <1>1 DEF AccountsStay, BrowserSound, Sound, Cookie, Exists
<1>3. ASSUME NEW w \in Worker, work[w] # Idle
      PROVE  Sound(work[w].mem)'
  <2>1. PICK job : job = work[w]
    OBVIOUS
  <2>2. Sound(job.mem)'
    BY <2>1, <1>3, SoundStays DEF BrowserSound, PageSound
  <2>3. QED
    BY <2>1, <2>2, <1>1 DEF Sound
<1>4. QED
  BY <1>1, <1>2, <1>3 DEF BrowserSound, PageSound

\* A worker that loads the session holds one as sound as the stored one.
LEMMA LoadSound ==
    ASSUME BrowserSound, NEW w \in Worker, NEW at \in Page, Load(w, at),
           at = "login" => session.token = "none", at # "read_role",
           UNCHANGED <<users, held, session>>
    PROVE  BrowserSound'
<1>1. work' = [work EXCEPT ![w] = [at |-> at, mem |-> session]]
  BY DEF Load
<1>2. session \in Cookie
  BY DEF BrowserSound, Sound
<1>3. work' \in [Worker -> {Idle} \cup [at: Page, mem: Cookie]]
  BY <1>1, <1>2 DEF BrowserSound
<1>4. \A v \in Worker : PageSound(work[v])'
  BY <1>1 DEF BrowserSound, PageSound, Sound, Exists
<1>5. QED
  BY <1>3, <1>4 DEF BrowserSound, Sound, Exists

\* A request that ends saves what it had in memory, if that is sound.
LEMMA SaveSound ==
    ASSUME BrowserSound, NEW w \in Worker, NEW s, Sound(s), SaveSession(w, s),
           UNCHANGED <<users, held>>
    PROVE  BrowserSound'
BY DEF BrowserSound, SaveSession, Sound, PageSound, Exists

\* A request that ends without a save leaves the browser sound.
LEMMA FailSound ==
    ASSUME BrowserSound, NEW w \in Worker, FailPage(w)
    PROVE  BrowserSound'
BY DEF BrowserSound, FailPage, Sound, PageSound, Exists, accountVars

\* A worker's memory has the fields of a session.
LEMMA MemTyped ==
    ASSUME BrowserSound, NEW w \in Worker, Busy(w)
    PROVE  /\ work[w] \in [at: Page, mem: Cookie]
           /\ Sound(work[w].mem)
           /\ PageSound(work[w])
BY DEF BrowserSound, PageSound, Busy

\* The first step of a login puts an existing user in a session without a role.
LEMMA AuthenticateSound ==
    ASSUME BrowserSound, NEW w \in Worker, NEW u \in User, Authenticate(w, u)
    PROVE  BrowserSound'
<1>1. Busy(w) /\ work[w].at = "login" /\ Exists(u)
  BY DEF Authenticate, Busy, Idle, IsCurrent
<1>2. work[w].mem \in Cookie /\ work[w].mem.role = "none"
  BY <1>1, MemTyped DEF PageSound, Busy, Sound
<1> DEFINE mem == [work[w].mem EXCEPT !.token = u]
<1>3. mem \in Cookie /\ mem.token = u /\ mem.role = "none"
  BY <1>2 DEF Cookie
<1>4. work' = [work EXCEPT ![w] = [at |-> "read_role", mem |-> mem]]
  BY <1>1, MemTyped DEF Authenticate
<1>5. UNCHANGED <<users, held, session>> /\ u # "none"
  BY AccountsAssumption DEF Authenticate, accountVars
<1> HIDE DEF mem
<1>6. work' \in [Worker -> {Idle} \cup [at: Page, mem: Cookie]]
  BY <1>3, <1>4 DEF BrowserSound, Page
<1>7. ASSUME NEW v \in Worker
      PROVE  PageSound(work[v])'
  <2>1. CASE v = w
    <3>1. work'[v] = [at |-> "read_role", mem |-> mem]
      BY <2>1, <1>4 DEF BrowserSound
    <3>2. work'[v].at = "read_role" /\ work'[v].mem = mem
      BY <3>1
    <3>3. QED
      BY <3>2, <1>1, <1>3, <1>5 DEF PageSound, Sound, Exists
  <2>2. CASE v # w
    BY <2>2, <1>4, <1>5 DEF BrowserSound, PageSound, Sound, Exists
  <2>3. QED
    BY <2>1, <2>2
<1>8. QED
  BY <1>5, <1>6, <1>7 DEF BrowserSound, Sound, Exists

\* The second step copies the role its user has at that moment.
LEMMA ReadRoleSound ==
    ASSUME AccountRows, BrowserSound, NEW w \in Worker, ReadRole(w)
    PROVE  BrowserSound'
<1>1. Busy(w) /\ work[w].at = "read_role"
  BY DEF ReadRole, Busy, Idle
<1>2. PICK mem : mem = work[w].mem
  OBVIOUS
<1>3. mem \in Cookie /\ Sound(mem) /\ mem.token # "none" /\ mem.role = "none"
  BY <1>1, <1>2, MemTyped DEF PageSound, Busy, Sound
<1>4. PICK s : s = IF IsCurrent(mem.token) THEN [mem EXCEPT !.role = users[mem.token].role]
                   ELSE mem
  OBVIOUS
<1>5. SaveSession(w, s) /\ UNCHANGED <<users, held>>
  BY <1>2, <1>4 DEF ReadRole, accountVars
<1>6. CASE IsCurrent(mem.token)
  <2>1. mem.token \in User /\ Exists(mem.token)
    BY <1>3, <1>6 DEF Cookie, IsCurrent
  <2>2. users[mem.token].role \in Role /\ users[mem.token].role \in held[mem.token]
    BY <2>1, ExistsIsRow DEF AccountRows, Account
  <2>3. s \in Cookie /\ s.token = mem.token /\ s.role \in held[s.token]
    BY <1>3, <1>4, <1>6, <2>2 DEF Cookie
  <2>4. Sound(s)
    BY <2>1, <2>3, <1>3 DEF Sound
  <2>5. QED
    BY <2>4, <1>5, SaveSound
<1>7. CASE ~IsCurrent(mem.token)
  BY <1>3, <1>4, <1>5, <1>7, SaveSound
<1>8. QED
  BY <1>6, <1>7

\* Logging out saves a session without a user and without a role.
LEMMA LogoutSound ==
    ASSUME BrowserSound, NEW w \in Worker, Logout(w)
    PROVE  BrowserSound'
<1>1. Busy(w) /\ work[w].mem \in Cookie
  BY MemTyped DEF Logout, Busy, Idle, Sound
<1>2. PICK s : s = Cleared(work[w].mem)
  OBVIOUS
<1>3. s \in Cookie /\ s.token = "none" /\ s.role = "none"
  BY <1>1, <1>2 DEF Cleared, Cookie
<1>4. Sound(s)
  BY <1>3 DEF Sound
<1>5. QED
  BY <1>2, <1>4, SaveSound DEF Logout, accountVars

\* An edit of the cart brings back the session it loaded, whole.
LEMMA EditCartSound ==
    ASSUME BrowserSound, NEW w \in Worker, EditCart(w)
    PROVE  BrowserSound'
<1>1. Busy(w)
  BY DEF EditCart, Busy, Idle
<1>2. PICK s : s = work[w].mem
  OBVIOUS
<1>3. Sound(s)
  BY <1>1, <1>2, MemTyped
<1>4. QED
  BY <1>2, <1>3, SaveSound DEF EditCart, accountVars

-----------------------------------------------------------------------------
(***************************************************************************)
(* What the database sessions are about to write, and the addresses.       *)
(***************************************************************************)

\* An e-mail that is found belongs to an account.
LEMMA Found ==
    ASSUME NEW email, NEW u \in ByEmail(email)
    PROVE  u \in User /\ Exists(u)
BY DEF ByEmail

\* Writers stay typed while one of them is given something that may be written.
LEMMA WriterGiven ==
    ASSUME WritersTyped, AccountsStay, NEW c \in Writer, NEW job \in {Idle} \cup Writing,
           job.at = "promote" => Exists(job.user)',
           writing' = [writing EXCEPT ![c] = job]
    PROVE  WritersTyped'
<1>1. writing' \in [Writer -> {Idle} \cup Writing]
  BY DEF WritersTyped
<1>2. ASSUME NEW d \in Writer, writing'[d].at = "promote"
      PROVE  Exists(writing[d].user)'
  <2>1. CASE d = c
    BY <2>1, <1>2 DEF WritersTyped, Exists
  <2>2. CASE d # c
    <3>1. writing'[d] = writing[d] /\ writing[d].user \in User
      BY <2>2, <1>2 DEF WritersTyped, Writing, Idle
    <3>2. QED
      BY <3>1, <1>2 DEF WritersTyped, AccountsStay, Exists
  <2>3. QED
    BY <2>1, <2>2
<1>3. QED
  BY <1>1, <1>2 DEF WritersTyped

\* Nothing else is about to be written, or one session goes back to being idle.
LEMMA WritersStay ==
    ASSUME WritersTyped, AccountsStay,
           writing' = writing \/ \E c \in Writer : EndWriting(c)
    PROVE  WritersTyped'
<1>1. CASE writing' = writing
  <2>1. ASSUME NEW d \in Writer, writing[d].at = "promote"
        PROVE  Exists(writing[d].user)'
    <3>1. writing[d].user \in User
      BY <2>1 DEF WritersTyped, Writing, Idle
    <3>2. QED
      BY <1>1, <2>1, <3>1 DEF WritersTyped, AccountsStay, Exists
  <2>2. QED
    BY <1>1, <2>1 DEF WritersTyped
<1>2. CASE \E c \in Writer : EndWriting(c)
  BY <1>2, WriterGiven DEF EndWriting, Idle
<1>3. QED
  BY <1>1, <1>2

\* Accounts that do not change stay.
LEMMA SameAccounts ==
    ASSUME UNCHANGED accountVars
    PROVE  AccountsStay /\ (AccountRows => AccountRows')
BY DEF accountVars, AccountsStay, AccountRows, Exists

\* The addresses stay as they are while a session starts or stops writing something
\* else than an order, or an order with an address that is its customer's.
LEMMA AddressesStay ==
    ASSUME AddressesTyped, AddressesOwn, WritersTyped, UNCHANGED addressVars,
           NEW c \in Writer, NEW job,
           job.at = "insert_order" => WasOf(job.address, job.customer),
           writing' = [writing EXCEPT ![c] = job] \/ writing' = writing
    PROVE  AddressesTyped' /\ AddressesOwn'
BY DEF AddressesTyped, AddressesOwn, WritersTyped, WasOf, IsOf, addressVars

\* POST /customers/me/addresses
LEMMA AddAddressStep ==
    ASSUME AddressesTyped, AddressesOwn, NEW u \in User, NEW a \in Address, AddAddress(u, a)
    PROVE  AddressesTyped' /\ AddressesOwn'
<1>1. /\ owner[a] = "unused" /\ "unused" \notin User /\ owner' = [owner EXCEPT ![a] = u]
      /\ UNCHANGED <<writing, shipTo, sentTo, panel>>
  BY AccountsAssumption DEF AddAddress
<1>2. ASSUME NEW b, NEW v
      PROVE  /\ WasOf(b, v) /\ b \in Address => WasOf(b, v)'
             /\ IsOf(b, v) /\ b \in Address => IsOf(b, v)'
  BY <1>1 DEF WasOf, IsOf, AddressesTyped
<1>3. QED
  BY <1>1, <1>2 DEF AddressesTyped, AddressesOwn, WasOf, IsOf

\* DELETE /customers/me/addresses/{id}: an order that asked for it asks for none, no
\* shipment had it, and who only looked it up now holds one that is gone.
LEMMA DeleteAddressStep ==
    ASSUME AddressesTyped, AddressesOwn, NEW u \in User, NEW a \in Address, DeleteAddress(u, a)
    PROVE  AddressesTyped' /\ AddressesOwn'
<1>1. /\ owner[a] = u /\ owner' = [owner EXCEPT ![a] = "deleted"]
      /\ \A o \in Order : sentTo[o] # a
      /\ UNCHANGED <<writing, sentTo, panel>>
  BY DEF DeleteAddress
<1>2. ASSUME NEW o \in Order
      PROVE  /\ shipTo'[o].customer = shipTo[o].customer
             /\ shipTo'[o].address = Forget(o, a)
             /\ shipTo'[o] \in [customer: User \cup {"none"}, address: Address \cup {"none"}]
  <2>1. shipTo'[o] = [shipTo[o] EXCEPT !.address = Forget(o, a)]
    BY DEF DeleteAddress
  <2>2. shipTo[o] \in [customer: User \cup {"none"}, address: Address \cup {"none"}]
    BY DEF AddressesTyped
  <2>3. Forget(o, a) \in Address \cup {"none"}
    BY <2>2 DEF Forget
  <2>4. QED
    BY <2>1, <2>2, <2>3
<1>3. AddressesTyped'
  <2>1. shipTo' \in [Order -> [customer: User \cup {"none"}, address: Address \cup {"none"}]]
    BY <1>2 DEF DeleteAddress
  <2>2. QED
    BY <1>1, <2>1 DEF AddressesTyped
<1>4. ASSUME NEW b \in Address \cup {"none"}, NEW v
      PROVE  /\ WasOf(b, v) => WasOf(b, v)'
             /\ IsOf(b, v) /\ b # a => IsOf(b, v)'
  BY <1>1 DEF WasOf, IsOf, AddressesTyped
<1>5. ASSUME NEW o \in Order
      PROVE  /\ IsOf(shipTo[o].address, shipTo[o].customer)'
             /\ IsOf(sentTo[o], shipTo[o].customer)'
             /\ WasOf(panel[o], shipTo[o].customer)'
  BY <1>1, <1>2, <1>4 DEF AddressesTyped, AddressesOwn, WasOf, IsOf, Forget
<1>6. ASSUME NEW c \in Writer, writing[c].at = "insert_order"
      PROVE  WasOf(writing[c].address, writing[c].customer)'
  BY <1>1, <1>6 DEF AddressesTyped, AddressesOwn, WasOf
<1>7. QED
  BY <1>1, <1>3, <1>5, <1>6 DEF AddressesOwn

\* An order that was checked may be written: its address was looked up for its customer.
LEMMA CheckOrderStep ==
    ASSUME WritersTyped, AddressesTyped, AddressesOwn, NEW c \in Writer, NEW u \in User,
           NEW a \in Address \cup {"none"}, CheckOrder(c, u, a)
    PROVE  WritersTyped' /\ AddressesTyped' /\ AddressesOwn'
<1> DEFINE job == [at |-> "insert_order", customer |-> u, address |-> a]
<1>1. /\ job \in Writing /\ job.at = "insert_order" /\ WasOf(job.address, job.customer)
      /\ writing' = [writing EXCEPT ![c] = job] /\ UNCHANGED <<accountVars, addressVars>>
  BY AccountsAssumption DEF CheckOrder, Writing, WasOf
<1> HIDE DEF job
<1>2. WritersTyped'
  BY <1>1, WriterGiven, SameAccounts
<1>3. QED
  BY <1>1, <1>2, AddressesStay

\* The insert of an order takes an identity no order has, so nothing was read from it or
\* shipped for it, and an address that still exists, so it is still the customer's.
LEMMA InsertOrderStep ==
    ASSUME WritersTyped, AddressesTyped, AddressesOwn, NEW c \in Writer, InsertOrder(c)
    PROVE  AddressesTyped' /\ AddressesOwn'
<1> DEFINE u == writing[c].customer
           a == writing[c].address
<1>1. u \in User /\ a \in Address \cup {"none"} /\ WasOf(a, u)
  BY DEF InsertOrder, WritersTyped, Writing, Idle, AddressesOwn
<1>2. UNCHANGED <<owner, sentTo, panel>> /\ writing' = [writing EXCEPT ![c] = Idle]
  BY DEF InsertOrder, EndWriting
<1>3. ASSUME NEW d \in Writer, writing'[d].at = "insert_order"
      PROVE  WasOf(writing'[d].address, writing'[d].customer)
  BY <1>2, <1>3 DEF WritersTyped, AddressesOwn, Idle
<1>4. CASE UNCHANGED shipTo
  BY <1>2, <1>3, <1>4 DEF AddressesTyped, AddressesOwn, WasOf, IsOf
<1>5. ASSUME a = "none" \/ Live(a), NEW o \in Order, shipTo[o] = NoOrder,
             shipTo' = [shipTo EXCEPT ![o] = [customer |-> u, address |-> a]]
      PROVE  AddressesTyped' /\ AddressesOwn'
  <2> HIDE DEF u, a
  <2>1. sentTo[o] = "none" /\ panel[o] = "none"
    BY <1>5, AccountsAssumption DEF AddressesOwn, IsOf, WasOf, NoOrder
  <2>2. IsOf(a, u)
    BY <1>1, <1>5, AccountsAssumption DEF IsOf, WasOf, Live
  <2>3. \A q \in Order : shipTo'[q] = IF q = o THEN [customer |-> u, address |-> a] ELSE shipTo[q]
    BY <1>5 DEF AddressesTyped
  <2>4. shipTo'[o].customer = u /\ shipTo'[o].address = a
    BY <2>3
  <2>5. shipTo' \in [Order -> [customer: User \cup {"none"}, address: Address \cup {"none"}]]
    BY <1>1, <1>5 DEF AddressesTyped
  <2>6. AddressesTyped'
    BY <1>2, <2>5 DEF AddressesTyped
  <2>7. ASSUME NEW q \in Order
        PROVE  /\ IsOf(shipTo[q].address, shipTo[q].customer)'
               /\ IsOf(sentTo[q], shipTo[q].customer)'
               /\ WasOf(panel[q], shipTo[q].customer)'
    BY <1>2, <2>1, <2>2, <2>3, <2>4 DEF AddressesOwn, IsOf, WasOf
  <2>8. \A d \in Writer : writing'[d].at = "insert_order" =>
            WasOf(writing[d].address, writing[d].customer)'
    BY <1>2, <1>3 DEF WasOf
  <2>9. QED
    BY <2>6, <2>7, <2>8 DEF AddressesOwn
<1>6. QED
  BY <1>4, <1>5 DEF InsertOrder

\* The panel reads, from an order, an address that is its customer's.
LEMMA ReadOrderStep ==
    ASSUME AddressesTyped, AddressesOwn, NEW o \in Order, ReadOrder(o)
    PROVE  AddressesTyped' /\ AddressesOwn'
BY DEF ReadOrder, AddressesTyped, AddressesOwn, IsOf, WasOf

\* What it read is shipped to only if it is still there, and then it is the customer's.
LEMMA CreateShipmentStep ==
    ASSUME AddressesTyped, AddressesOwn, NEW o \in Order, CreateShipment(o)
    PROVE  AddressesTyped' /\ AddressesOwn'
<1>1. panel[o] \in Address /\ WasOf(panel[o], shipTo[o].customer)
      /\ UNCHANGED <<writing, owner, shipTo>>
  BY DEF CreateShipment, AddressesTyped, AddressesOwn
<1>2. Live(panel[o]) => IsOf(panel[o], shipTo[o].customer)
  BY <1>1, AccountsAssumption DEF Live, WasOf, IsOf
<1>3. QED
  BY <1>1, <1>2 DEF CreateShipment, AddressesTyped, AddressesOwn, IsOf, WasOf

-----------------------------------------------------------------------------
(***************************************************************************)
(* The invariant, and the properties the runs check.                       *)
(***************************************************************************)

\* Nothing has been registered, opened or written at the start.
LEMMA AccountsStart ==
    ASSUME AccountsInit
    PROVE  AccountsInv
<1> USE DEF AccountsInit
<1>1. AccountRows
  BY DEF AccountRows, Exists
<1>2. BrowserSound
  <2>1. Sound(SignedOut)
    BY DEF Sound, SignedOut, Cookie
  <2>2. QED
    BY <2>1 DEF BrowserSound, PageSound, Sound, Exists
<1>3. WritersTyped
  BY DEF WritersTyped, Idle
<1>4. AddressesTyped
  BY DEF AddressesTyped, NoOrder
<1>5. AddressesOwn
  BY DEF AddressesOwn, IsOf, WasOf, NoOrder, Idle
<1>6. QED
  BY <1>1, <1>2, <1>3, <1>4, <1>5 DEF AccountsInv

\* Every step keeps the invariant.
LEMMA AccountsStep ==
    ASSUME AccountsInv, [AccountsNext]_accountsVars
    PROVE  AccountsInv'
<1> USE DEF AccountsInv
<1> DEFINE Kept == AccountsInv'
<1>1. ASSUME NEW c \in Writer, NEW job \in {Idle} \cup Writing,
             job.at \notin {"insert_order", "promote"} \/ (job.at = "promote" /\ Exists(job.user)),
             writing' = [writing EXCEPT ![c] = job],
             UNCHANGED <<accountVars, browserVars, addressVars>>
      PROVE  Kept
  <2>1. AccountsStay /\ AccountRows'
    BY <1>1, SameAccounts
  <2>2. BrowserSound'
    BY <1>1, <2>1, BrowserStays
  <2>3. job.at = "promote" => Exists(job.user)'
    BY <1>1 DEF accountVars, Exists
  <2>4. WritersTyped'
    BY <1>1, <2>1, <2>3, WriterGiven
  <2>5. QED
    BY <1>1, <2>1, <2>2, <2>4, AddressesStay
<1>2. ASSUME NEW c \in Writer, NEW email \in Email, NEW role \in Role,
             CheckedRegistration(c, email, role),
             UNCHANGED <<accountVars, browserVars, addressVars>>
      PROVE  Kept
  <2> DEFINE job == [at |-> "insert_user", email |-> email, role |-> role]
  <2>1. job \in Writing /\ job.at = "insert_user"
    BY DEF Writing
  <2>2. QED
    BY <1>1, <1>2, <2>1 DEF CheckedRegistration
<1>3. ASSUME NEW c \in Writer, NEW email \in Typed, Register(c, email)
      PROVE  Kept
  BY <1>2, <1>3, AccountsAssumption DEF Register, Email, Role
<1>4. ASSUME NEW c \in Writer, SeedAdmin(c)
      PROVE  Kept
  <2>1. CASE CheckedRegistration(c, AdminEmail, "admin")
    <3>1. AdminEmail \in Email
      BY AccountsAssumption DEF AdminEmail, Email
    <3>2. QED
      BY <1>2, <1>4, <2>1, <3>1 DEF SeedAdmin, Role
  <2>2. ASSUME NEW u \in ByEmail(AdminEmail),
               writing' = [writing EXCEPT ![c] = [at |-> "promote", user |-> u]]
        PROVE  Kept
    <3> DEFINE job == [at |-> "promote", user |-> u]
    <3>1. job \in Writing /\ job.at = "promote" /\ Exists(job.user)
      BY Found DEF Writing
    <3>2. QED
      BY <1>1, <1>4, <2>2, <3>1 DEF SeedAdmin
  <2>3. QED
    BY <1>4, <2>1, <2>2 DEF SeedAdmin
<1>5. ASSUME NEW c \in Writer, FailWriting(c)
      PROVE  Kept
  <2>1. Idle \in {Idle} \cup Writing /\ Idle.at \notin {"insert_order", "promote"}
    BY DEF Idle
  <2>2. QED
    BY <1>1, <1>5, <2>1 DEF FailWriting, EndWriting
<1>6. ASSUME AccountRows', AccountsStay, UNCHANGED <<browserVars, addressVars>>,
             writing' = writing \/ \E c \in Writer : EndWriting(c)
      PROVE  Kept
  <2>1. BrowserSound' /\ WritersTyped'
    BY <1>6, BrowserStays, WritersStay
  <2>2. AddressesTyped' /\ AddressesOwn'
    <3>1. CASE writing' = writing
      BY <1>6, <3>1 DEF AddressesTyped, AddressesOwn, WasOf, IsOf, addressVars
    <3>2. ASSUME NEW c \in Writer, EndWriting(c)
          PROVE  AddressesTyped' /\ AddressesOwn'
      <4>1. Idle.at # "insert_order"
        BY DEF Idle
      <4>2. QED
        BY <1>6, <3>2, <4>1, AddressesStay DEF EndWriting
    <3>3. QED
      BY <1>6, <3>1, <3>2
  <2>3. QED
    BY <1>6, <2>1, <2>2
<1>7. ASSUME NEW c \in Writer, InsertUser(c)
      PROVE  Kept
  BY <1>6, <1>7, AccountInserted DEF InsertUser
<1>8. ASSUME NEW c \in Writer, Promote(c)
      PROVE  Kept
  <2>1. writing[c].user \in User /\ Exists(writing[c].user)
    BY <1>8 DEF Promote, WritersTyped, Writing, Idle
  <2>2. PICK u \in User : u = writing[c].user
    BY <2>1
  <2>3. AccountRows' /\ AccountsStay
    BY <1>8, <2>1, <2>2, RoleSet DEF Promote, Role
  <2>4. QED
    BY <1>6, <1>8, <2>3 DEF Promote
<1>9. ASSUME NEW u \in User, Provision(u)
      PROVE  Kept
  <2>1. AccountRows' /\ AccountsStay
    <3>1. CASE \E role \in Role : SetRole(u, role)
      BY <1>9, <3>1, RoleSet DEF Provision
    <3>2. CASE users' = [users EXCEPT ![u].active = ~@] /\ UNCHANGED held
      BY <1>9, <3>2, ActiveSet DEF Provision
    <3>3. QED
      BY <1>9, <3>1, <3>2 DEF Provision
  <2>2. QED
    BY <1>6, <1>9, <2>1 DEF Provision
<1>10. ASSUME NEW c \in Writer, NEW u \in User, NEW a \in Address \cup {"none"},
              CheckOrder(c, u, a)
       PROVE  Kept
  BY <1>10, CheckOrderStep, SameAccounts, BrowserStays DEF CheckOrder
<1>11. ASSUME NEW c \in Writer, InsertOrder(c)
       PROVE  Kept
  BY <1>11, InsertOrderStep, SameAccounts, BrowserStays, WritersStay DEF InsertOrder
<1>12. ASSUME BrowserSound', UNCHANGED <<accountVars, writing, addressVars>>
       PROVE  Kept
  <2>1. AddressesTyped' /\ AddressesOwn'
    BY <1>12 DEF AddressesTyped, AddressesOwn, WasOf, IsOf, addressVars
  <2>2. QED
    BY <1>12, <2>1, SameAccounts, WritersStay
<1>13. ASSUME NEW w \in Worker, OpenLogin(w)
       PROVE  Kept
  BY <1>12, <1>13, LoadSound DEF OpenLogin, Page, accountVars
<1>14. ASSUME NEW w \in Worker, NEW at \in {"logout", "edit_cart"}, OpenPage(w, at)
       PROVE  Kept
  BY <1>12, <1>14, LoadSound DEF OpenPage, Page, accountVars
<1>15. ASSUME NEW w \in Worker,
              (\E u \in User : Authenticate(w, u)) \/ ReadRole(w) \/ Logout(w) \/ EditCart(w)
                \/ FailPage(w)
       PROVE  Kept
  <2>1. BrowserSound'
    BY <1>15, AuthenticateSound, ReadRoleSound, LogoutSound, EditCartSound, FailSound
  <2>2. QED
    BY <1>12, <1>15, <2>1 DEF Authenticate, ReadRole, Logout, EditCart, FailPage
<1>16. ASSUME AddressesTyped', AddressesOwn', UNCHANGED <<accountVars, writing, browserVars>>
       PROVE  Kept
  BY <1>16, SameAccounts, BrowserStays, WritersStay
<1>17. ASSUME NEW u \in User, NEW a \in Address, AddAddress(u, a) \/ DeleteAddress(u, a)
       PROVE  Kept
  BY <1>16, <1>17, AddAddressStep, DeleteAddressStep DEF AddAddress, DeleteAddress
<1>18. ASSUME NEW o \in Order, ReadOrder(o) \/ CreateShipment(o)
       PROVE  Kept
  BY <1>16, <1>18, ReadOrderStep, CreateShipmentStep DEF ReadOrder, CreateShipment
<1>19. CASE UNCHANGED accountsVars
  <2>1. UNCHANGED <<accountVars, writing, browserVars, addressVars>>
    BY <1>19 DEF accountsVars
  <2>2. BrowserSound'
    BY <2>1, SameAccounts, BrowserStays
  <2>3. QED
    BY <1>12, <2>1, <2>2
<1> HIDE DEF AccountsInv
<1>20. CASE \E c \in Writer :
              \/ \E email \in Typed : Register(c, email)
              \/ SeedAdmin(c) \/ InsertUser(c) \/ Promote(c)
              \/ \E u \in User, a \in Address \cup {"none"} : CheckOrder(c, u, a)
              \/ InsertOrder(c) \/ FailWriting(c)
  BY <1>20, <1>3, <1>4, <1>5, <1>7, <1>8, <1>10, <1>11
<1>21. CASE \E w \in Worker :
              \/ OpenLogin(w)
              \/ \E u \in User : Authenticate(w, u)
              \/ ReadRole(w)
              \/ \E at \in {"logout", "edit_cart"} : OpenPage(w, at)
              \/ Logout(w) \/ EditCart(w) \/ FailPage(w)
  <2>1. PICK w \in Worker :
              \/ OpenLogin(w)
              \/ \E u \in User : Authenticate(w, u)
              \/ ReadRole(w)
              \/ \E at \in {"logout", "edit_cart"} : OpenPage(w, at)
              \/ Logout(w) \/ EditCart(w) \/ FailPage(w)
    BY <1>21
  <2>2. CASE \E at \in {"logout", "edit_cart"} : OpenPage(w, at)
    BY <2>2, <1>14
  <2>3. QED
    BY <2>1, <2>2, <1>13, <1>15
<1>22. CASE AccountsNext
  BY <1>22, <1>20, <1>21, <1>9, <1>17, <1>18 DEF AccountsNext
<1>23. QED
  BY <1>19, <1>22 DEF Kept

\* What every reachable state satisfies, whatever the constants.
THEOREM AccountsInvariant == AccountsSpec => []AccountsInv
<1>1. AccountsInit => AccountsInv
  BY AccountsStart
<1>2. AccountsInv /\ [AccountsNext]_accountsVars => AccountsInv'
  BY AccountsStep
<1>3. QED
  BY <1>1, <1>2, PTL DEF AccountsSpec

\* The rows have their types, and no two accounts share an e-mail, however registrations
\* and the seed interleave: e-mails are stored in lower case, and the index compares them.
THEOREM AccountsTyped == AccountsSpec => []AccountTypeOK
<1>1. AccountsInv => AccountTypeOK
  <2> SUFFICES ASSUME AccountsInv
               PROVE  AccountTypeOK
    OBVIOUS
  <2>1. \A u, v \in User :
          Exists(u) /\ Exists(v) /\ users[u].email.box = users[v].email.box => u = v
    BY LowerIsOne DEF AccountsInv, AccountRows
  <2>2. QED
    BY <2>1 DEF AccountsInv, AccountRows, BrowserSound, Sound, Cookie, AddressesTyped,
                AccountTypeOK
<1>2. QED
  BY <1>1, AccountsInvariant, PTL

\* The role in the browser's session is one its own user has had, whichever workers
\* load, save and overwrite it, and whoever is disabled in the middle of a login.
THEOREM SessionRoleIsOwn == AccountsSpec => []RoleIsOwn
<1>1. AccountsInv => RoleIsOwn
  BY DEF AccountsInv, BrowserSound, Sound, RoleIsOwn
<1>2. QED
  BY <1>1, AccountsInvariant, PTL

\* No order and no shipment refers to an address that is gone or another customer's,
\* whatever was deleted since the order was checked or the panel read it.
THEOREM AddressesAreOwn == AccountsSpec => []ShippedToCustomer
<1>1. AccountsInv => ShippedToCustomer
  BY DEF AccountsInv, AddressesOwn, IsOf, ShippedToCustomer, Live
<1>2. QED
  BY <1>1, AccountsInvariant, PTL
=============================================================================
