---------------------------- MODULE CatalogProofs ----------------------------
(***************************************************************************)
(* Proofs about Catalog, for any number of sessions, rows and files: rows  *)
(* and requests keep their types, no name or SKU is there twice, no row    *)
(* names a row that is gone, files follow rows, and a list of all the      *)
(* categories read page after page has each of them, in order.             *)
(*                                                                         *)
(* The argument is about requests that are flushed.  Each has claimed the  *)
(* names it will write, needs the rows it refers to and may drop a row:    *)
(* the locks keep these apart (Exclusive), so what the constraints found   *)
(* at the flush is still so at the commit (Guarded).                       *)
(***************************************************************************)
EXTENDS Catalog, FiniteSetTheorems, SequenceTheorems, TLAPS

-----------------------------------------------------------------------------
(***************************************************************************)
(* What a flushed request does to the rows.                                *)
(***************************************************************************)

\* The category names and the SKUs it enters in their unique indexes.
ClaimsName(r, seen) ==
    CASE r.op = "create_category" -> {r.name}
      [] r.op = "update_category" -> {r.name} \ {seen.name}
      [] r.op = "seed" -> IF seen.category = None THEN {DemoName} ELSE {}
      [] OTHER -> {}

ClaimsSku(r, seen) ==
    CASE r.op = "create_product" -> {r.sku}
      [] r.op = "update_product" -> {r.sku} \ {seen.sku}
      [] r.op = "seed" -> IF seen.missing THEN {DemoSku} ELSE {}
      [] OTHER -> {}

\* The rows it updates or refers to.
NeedsCategory(r, seen) ==
    CASE r.op = "create_category" -> {r.parent} \ {None}
      [] r.op = "update_category" -> {r.c} \cup ({r.parent} \ {seen.parent, None})
      [] r.op = "create_product" -> {r.category}
      [] r.op = "update_product" -> {r.category} \ {seen.category}
      [] r.op = "seed" -> IF seen.missing THEN {SeedCategory(r, seen)} ELSE {}
      [] OTHER -> {}

NeedsProduct(r) == IF r.op \in {"update_product", "upload", "order"} THEN {r.p} ELSE {}

\* The rows it deletes, and the rows it inserts.
DropsCategory(r) == IF r.op = "delete_category" THEN {r.c} ELSE {}
DropsProduct(r) == IF r.op = "delete_product" THEN {r.p} ELSE {}
MakesCategory(r, seen) == IF r.op = "seed" /\ seen.category = None THEN {r.c} ELSE {}
MakesProduct(r) == IF r.op \in {"create_product", "seed"} THEN {r.p} ELSE {}

\* The file it is about to record.
Records(r) == IF r.op = "upload" THEN {r.f} ELSE {}

-----------------------------------------------------------------------------
(***************************************************************************)
(* The inductive invariant.                                                *)
(***************************************************************************)
RowsTyped ==
    /\ category \in [Category -> CategoryRow \cup {None}]
    /\ product \in [Product -> ProductRow \cup {None}]
    /\ image \in [File -> ImageRow \cup {None}]
    /\ sold \subseteq Product /\ recorded \subseteq File
    /\ gone \subseteq Category \cup Product

DiskTyped ==
    /\ disk \in [File -> Product \cup {None}]
    /\ spared \subseteq Product /\ stuck \subseteq File

SeenValue ==
    CategoryRow \cup ProductRow \cup ImageRow \cup [position: 0..Cardinality(File) - 1]
    \cup [category: Category \cup {None}, missing: BOOLEAN] \cup [children: SUBSET Category]
    \cup {None}

Job == [at: {"save", "flush", "purge", "commit"}, req: Request, seen: SeenValue]

\* What a request has read is what its statements compare with.
SeenSound(r, seen) ==
    /\ r.op = "update_category" => seen \in CategoryRow
    /\ r.op = "update_product" => seen \in ProductRow
    /\ r.op = "upload" => seen \in [position: 0..Cardinality(File) - 1]
    /\ r.op = "seed" => /\ seen \in [category: Category \cup {None}, missing: BOOLEAN]
                        /\ seen.category # r.c

PlaceSound(r, at) ==
    /\ at = "save" => r.op = "upload"
    /\ at = "purge" => r.op = "delete_product"

JobsTyped ==
    /\ tx \in [Tx -> {Idle} \cup Job]
    /\ \A t \in Tx : Busy(t) => /\ SeenSound(tx[t].req, tx[t].seen)
                                /\ PlaceSound(tx[t].req, tx[t].at)

\* Two requests claim different names and SKUs, and the second drops no row the first needs.
Apart(j, k) ==
    /\ ClaimsName(j.req, j.seen) \cap ClaimsName(k.req, k.seen) = {}
    /\ ClaimsSku(j.req, j.seen) \cap ClaimsSku(k.req, k.seen) = {}
    /\ NeedsCategory(j.req, j.seen) \cap DropsCategory(k.req) = {}
    /\ NeedsProduct(j.req) \cap DropsProduct(k.req) = {}

Exclusive ==
    \A t, u \in Tx : t # u /\ Flushed(t) /\ Flushed(u) => Apart(tx[t], tx[u])

\* What the constraints found when a request was flushed.
Held(r, seen) ==
    /\ \A n \in ClaimsName(r, seen) : Named(n) \subseteq {r.c}
    /\ \A s \in ClaimsSku(r, seen) : WithSku(s) \subseteq {r.p}
    /\ NeedsCategory(r, seen) \subseteq Categories \cup MakesCategory(r, seen)
    /\ NeedsProduct(r) \subseteq Products
    /\ \A c \in DropsCategory(r) : ProductsIn(c) = {}
    /\ DropsProduct(r) \cap sold = {}

Guarded == \A t \in Tx : Flushed(t) => Held(tx[t].req, tx[t].seen)

\* A deleted product stays deleted: an identity is used for one row.
Identities ==
    /\ Products \cap gone = {}
    /\ \A t \in Tx : Busy(t) =>
          /\ MakesProduct(tx[t].req) \cap (Products \cup gone) = {}
          /\ DropsProduct(tx[t].req) \subseteq Products \cup gone
    /\ \A t, u \in Tx : t # u /\ Busy(t) /\ Busy(u) =>
          MakesProduct(tx[t].req) \cap MakesProduct(tx[u].req) = {}

OneName == \A c, d \in Categories : category[c].name = category[d].name => c = d
OneSku == \A p, q \in Products : product[p].sku = product[q].sku => p = q

\* A deletion of the product has purged its files and not ended.
Purging(p) == \E t \in Running("delete_product") : At(t, "commit") /\ tx[t].req.p = p

\* An upload's file was never recorded, and it is there from the save on, unless its
\* product's files were purged.
UploadsSound ==
    /\ \A t \in Running("upload") :
          /\ tx[t].req.f \notin recorded
          /\ disk[tx[t].req.f] \in {tx[t].req.p, None}
          /\ \/ At(t, "save")
             \/ disk[tx[t].req.f] = tx[t].req.p
             \/ tx[t].req.p \in spared \cup gone
             \/ Purging(tx[t].req.p)
    /\ \A t, u \in Running("upload") : t # u => tx[t].req.f # tx[u].req.f

FilesSound ==
    /\ \A f \in File : image[f] # None => f \in recorded
    /\ UploadsSound
    /\ \A f \in File : Purging(disk[f]) => f \notin recorded \/ f \in stuck

CatalogInv ==
    /\ RowsTyped /\ DiskTyped /\ JobsTyped
    /\ Exclusive /\ Guarded /\ Identities
    /\ OneName /\ OneSku /\ NoDangling
    /\ FilesSound /\ FilesFollowRows

-----------------------------------------------------------------------------
(***************************************************************************)
(* Requests, their locks and their constraints.                            *)
(***************************************************************************)

\* Each request has the columns its kind needs, and its kind tells its page.
LEMMA RequestKinds ==
    ASSUME NEW r \in Request
    PROVE  /\ r.op \in {"create_category", "update_category"} =>
                  r.c \in Category /\ r.name \in Name /\ r.parent \in Category \cup {None}
           /\ r.op = "delete_category" => r.c \in Category
           /\ r.op \in {"create_product", "update_product"} =>
                  r.p \in Product /\ r.sku \in Sku /\ r.category \in Category
           /\ r.op \in {"delete_product", "order"} => r.p \in Product
           /\ r.op = "upload" => r.p \in Product /\ r.f \in File
           /\ r.op = "delete_image" => r.f \in File
           /\ r.op = "seed" => r.c \in Category /\ r.p \in Product
           /\ r.op \in {"create_category", "update_category", "delete_category", "create_product",
                        "update_product", "delete_product", "upload", "delete_image", "order", "seed"}
           /\ r \in CategoryRequest
                  <=> r.op \in {"create_category", "update_category", "delete_category"}
           /\ r \in ImageRequest <=> r.op \in {"upload", "delete_image"}
           /\ r \in SeedRequest <=> r.op = "seed"
  BY DEF Request, CategoryRequest, ProductRequest, ImageRequest, OrderRequest, SeedRequest

\* What a request claims, needs or drops is among its locks.
LEMMA LocksCover ==
    ASSUME NEW r \in Request, NEW seen
    PROVE  /\ \A n \in ClaimsName(r, seen) : <<<<"name", n>>, "key">> \in Locks(r, seen)
           /\ \A s \in ClaimsSku(r, seen) : <<<<"sku", s>>, "key">> \in Locks(r, seen)
           /\ \A c \in NeedsCategory(r, seen) : \E m : <<c, m>> \in Locks(r, seen)
           /\ \A p \in NeedsProduct(r) : \E m : <<p, m>> \in Locks(r, seen)
           /\ \A c \in DropsCategory(r) : <<c, "key">> \in Locks(r, seen)
           /\ \A p \in DropsProduct(r) : <<p, "key">> \in Locks(r, seen)
  <1>1. CASE r.op \in {"create_category", "update_category", "delete_category"}
    BY <1>1, RequestKinds DEF Locks, CategoryLocks, Share, Entry, ClaimsName, ClaimsSku,
       NeedsCategory, NeedsProduct, DropsCategory, DropsProduct
  <1>2. CASE r.op \in {"create_product", "update_product", "delete_product", "upload", "order"}
    BY <1>2, RequestKinds, CatalogAssumption DEF Locks, ProductLocks, Share, Entry, ClaimsName,
       ClaimsSku, NeedsCategory, NeedsProduct, DropsCategory, DropsProduct
  <1>3. CASE r.op = "seed"
    BY <1>3, RequestKinds, CatalogAssumption DEF Locks, SeedLocks, Share, Entry, ClaimsName,
       ClaimsSku, NeedsCategory, NeedsProduct, DropsCategory, DropsProduct, SeedCategory
  <1>4. CASE r.op = "delete_image"
    BY <1>4, RequestKinds DEF ClaimsName,
       ClaimsSku, NeedsCategory, NeedsProduct, DropsCategory, DropsProduct
  <1> QED  BY <1>1, <1>2, <1>3, <1>4, RequestKinds

\* Requests that do not conflict are apart, whichever comes first.
LEMMA NoConflictApart ==
    ASSUME NEW j, NEW k, j.req \in Request, k.req \in Request,
           \A l \in Locks(j.req, j.seen), m \in Locks(k.req, k.seen) : ~Conflict(l, m)
    PROVE  Apart(j, k) /\ Apart(k, j)
  <1> DEFINE J == Locks(j.req, j.seen)
             K == Locks(k.req, k.seen)
  <1>1. \A x, m : ~(<<x, "key">> \in J /\ <<x, m>> \in K) /\ ~(<<x, m>> \in J /\ <<x, "key">> \in K)
    <2>1. \A x, m : Conflict(<<x, "key">>, <<x, m>>) /\ Conflict(<<x, m>>, <<x, "key">>)
      BY DEF Conflict
    <2> QED  BY <2>1
  <1>2. /\ \A n \in ClaimsName(j.req, j.seen) : <<<<"name", n>>, "key">> \in J
        /\ \A s \in ClaimsSku(j.req, j.seen) : <<<<"sku", s>>, "key">> \in J
        /\ \A c \in NeedsCategory(j.req, j.seen) : \E m : <<c, m>> \in J
        /\ \A p \in NeedsProduct(j.req) : \E m : <<p, m>> \in J
        /\ \A c \in DropsCategory(j.req) : <<c, "key">> \in J
        /\ \A p \in DropsProduct(j.req) : <<p, "key">> \in J
    BY LocksCover, Zenon
  <1>3. /\ \A n \in ClaimsName(k.req, k.seen) : <<<<"name", n>>, "key">> \in K
        /\ \A s \in ClaimsSku(k.req, k.seen) : <<<<"sku", s>>, "key">> \in K
        /\ \A c \in NeedsCategory(k.req, k.seen) : \E m : <<c, m>> \in K
        /\ \A p \in NeedsProduct(k.req) : \E m : <<p, m>> \in K
        /\ \A c \in DropsCategory(k.req) : <<c, "key">> \in K
        /\ \A p \in DropsProduct(k.req) : <<p, "key">> \in K
    BY LocksCover, Zenon
  <1> HIDE DEF J, K
  <1> QED  BY <1>1, <1>2, <1>3 DEF Apart

\* A request whose statements the database accepts finds what it needs.
LEMMA AcceptedIsHeld ==
    ASSUME NEW r \in Request, NEW seen, SeenSound(r, seen), MeetsConstraints(r, seen)
    PROVE  Held(r, seen)
  <1> USE RequestKinds, CatalogAssumption DEF MeetsConstraints, Held, ClaimsName, ClaimsSku,
        NeedsCategory, NeedsProduct, DropsCategory, DropsProduct, MakesCategory, Unique, Unreferenced
  <1>1. CASE r.op = "create_category"
    BY <1>1 DEF CategoryConstraints, ParentExists
  <1>2. CASE r.op = "update_category"
    BY <1>2 DEF CategoryConstraints, ParentExists
  <1>3. CASE r.op = "delete_category"
    BY <1>3 DEF CategoryConstraints
  <1>4. CASE r.op = "create_product"
    BY <1>4 DEF ProductConstraints
  <1>5. CASE r.op = "update_product"
    BY <1>5 DEF ProductConstraints
  <1>6. CASE r.op \in {"delete_product", "upload", "order"}
    BY <1>6 DEF ProductConstraints
  <1>7. CASE r.op = "seed"
    BY <1>7 DEF SeedConstraints, SeedCategory, SeenSound
  <1>8. CASE r.op = "delete_image"
    BY <1>8
  <1> QED  BY <1>1, <1>2, <1>3, <1>4, <1>5, <1>6, <1>7, <1>8

-----------------------------------------------------------------------------
(***************************************************************************)
(* What a commit does to the rows, in terms of what the request claims,    *)
(* needs, drops and makes.                                                 *)
(***************************************************************************)

\* A category keeps its name or takes a claimed one; its parent is the one it had, one
\* the request needs, or none.
CategoriesMove(r, seen) ==
    \A c \in Category :
        /\ category[c] # None /\ c \notin DropsCategory(r) => category'[c] # None
        /\ c \in MakesCategory(r, seen) => category'[c] # None
        /\ category'[c] # None =>
              /\ \/ category[c] # None /\ category'[c].name = category[c].name
                 \/ c = r.c /\ category'[c].name \in ClaimsName(r, seen)
              /\ \/ category'[c].parent = None
                 \/ category[c] # None /\ category'[c].parent = category[c].parent
                                       /\ category[c].parent \notin DropsCategory(r)
                 \/ category'[c].parent \in NeedsCategory(r, seen)

\* A product is the one that was there, with its SKU or a claimed one and its category
\* or one the request needs, or a new one.
ProductsMove(r, seen) ==
    \A p \in Product :
        /\ product[p] # None /\ p \notin DropsProduct(r) => product'[p] # None
        /\ product'[p] # None =>
              /\ p \notin DropsProduct(r)
              /\ product[p] # None \/ p \in MakesProduct(r)
              /\ \/ product[p] # None /\ product'[p].sku = product[p].sku
                 \/ p = r.p /\ product'[p].sku \in ClaimsSku(r, seen)
              /\ \/ product[p] # None /\ product'[p].category = product[p].category
                 \/ product'[p].category \in NeedsCategory(r, seen)

\* An image is one that was there, of a product that stays, or the uploaded one.
ImagesMove(r) ==
    \A f \in File : image'[f] # None =>
        \/ image'[f] = image[f] /\ image[f].product \notin DropsProduct(r)
        \/ f \in Records(r) /\ image'[f].product = r.p

RowsMove(r, seen) ==
    /\ CategoriesMove(r, seen) /\ ProductsMove(r, seen) /\ ImagesMove(r)
    /\ sold \subseteq sold' /\ sold' \subseteq sold \cup NeedsProduct(r)
    /\ gone' = gone \cup DropsCategory(r) \cup DropsProduct(r)
    /\ recorded' = recorded \cup Records(r)

\* A commit that writes a category, and nothing else.
LEMMA CategoryWritten ==
    ASSUME NEW r \in Request, NEW seen, RowsTyped, SeenSound(r, seen), Held(r, seen),
           r.op \in {"create_category", "update_category"}, WriteCategory(r, seen)
    PROVE  RowsTyped' /\ RowsMove(r, seen)
  <1> USE RequestKinds, CatalogAssumption DEF RowsTyped
  <1>1. PICK row \in CategoryRow :
          /\ category' = [category EXCEPT ![r.c] = row]
          /\ \/ category[r.c] # None /\ row.name = category[r.c].name
             \/ row.name \in ClaimsName(r, seen)
          /\ \/ row.parent = None
             \/ category[r.c] # None /\ row.parent = category[r.c].parent
             \/ row.parent \in NeedsCategory(r, seen)
    <2>1. CASE r.op = "create_category"
      <3> DEFINE row == [name |-> r.name, parent |-> r.parent]
      <3>1. row \in CategoryRow
        BY <2>1 DEF CategoryRow
      <3>2. category' = [category EXCEPT ![r.c] = row]
        BY <2>1 DEF WriteCategory
      <3>3. row.name \in ClaimsName(r, seen) /\ (row.parent = None \/ row.parent \in NeedsCategory(r, seen))
        BY <2>1 DEF ClaimsName, NeedsCategory
      <3> HIDE DEF row
      <3> QED  BY <3>1, <3>2, <3>3
    <2>2. CASE r.op = "update_category"
      <3> DEFINE now == category[r.c]
                 row == [name |-> Changed(r.name, seen.name, now.name),
                         parent |-> Changed(r.parent, seen.parent, now.parent)]
      <3>1. r.c \in Category /\ category[r.c] # None
        BY <2>2 DEF Held, NeedsCategory, Categories, MakesCategory
      <3>2. row \in CategoryRow
        BY <2>2, <3>1 DEF CategoryRow, Changed
      <3>3. category' = [category EXCEPT ![r.c] = row]
        BY <2>2, <3>1 DEF WriteCategory
      <3>4. row.name = category[r.c].name \/ row.name \in ClaimsName(r, seen)
        BY <2>2 DEF ClaimsName, Changed
      <3>5. \/ row.parent = None
            \/ row.parent = category[r.c].parent
            \/ row.parent \in NeedsCategory(r, seen)
        BY <2>2 DEF NeedsCategory, Changed
      <3> HIDE DEF row
      <3> QED  BY <3>1, <3>2, <3>3, <3>4, <3>5
    <2> QED  BY <2>1, <2>2
  <1>2. /\ product' = product /\ image' = image /\ sold' = sold /\ gone' = gone
        /\ recorded' = recorded
    BY DEF WriteCategory
  <1>3. RowsTyped'
    BY <1>1, <1>2
  <1>4. DropsCategory(r) = {} /\ DropsProduct(r) = {} /\ MakesCategory(r, seen) = {} /\ Records(r) = {}
    BY DEF DropsCategory, DropsProduct, MakesCategory, Records
  <1>5. CategoriesMove(r, seen)
    BY <1>1, <1>4 DEF CategoriesMove, CategoryRow
  <1>6. ProductsMove(r, seen) /\ ImagesMove(r)
    BY <1>2, <1>4 DEF ProductsMove, ImagesMove
  <1> QED  BY <1>2, <1>3, <1>4, <1>5, <1>6 DEF RowsMove

\* A commit that deletes a category: its children lose their parent.
LEMMA CategoryRemoved ==
    ASSUME NEW r \in Request, NEW seen, RowsTyped, r.op = "delete_category", RemoveCategory(r, seen)
    PROVE  RowsTyped' /\ RowsMove(r, seen)
  <1> USE RequestKinds, CatalogAssumption DEF RowsTyped
  <1>1. \A d \in Category :
          \/ d = r.c /\ category'[d] = None
          \/ d # r.c /\ category'[d] = category[d]
                     /\ (category[d] # None => category[d].parent # r.c)
          \/ d # r.c /\ category[d] # None /\ category'[d] # None /\ category'[d] \in CategoryRow
                     /\ category'[d].name = category[d].name /\ category'[d].parent = None
    BY DEF RemoveCategory, Orphans, Categories, CategoryRow
  <1>2. /\ product' = product /\ image' = image /\ sold' = sold /\ recorded' = recorded
        /\ gone' = gone \cup {r.c}
    BY DEF RemoveCategory
  <1>3. RowsTyped'
    <2>1. category' \in [Category -> CategoryRow \cup {None}]
      BY <1>1 DEF RemoveCategory
    <2> QED  BY <1>2, <2>1
  <1>4. DropsCategory(r) = {r.c} /\ DropsProduct(r) = {} /\ MakesCategory(r, seen) = {} /\ Records(r) = {}
    BY DEF DropsCategory, DropsProduct, MakesCategory, Records
  <1>5. CategoriesMove(r, seen)
    BY <1>1, <1>4 DEF CategoriesMove
  <1>6. ProductsMove(r, seen) /\ ImagesMove(r)
    BY <1>2, <1>4 DEF ProductsMove, ImagesMove
  <1> QED  BY <1>2, <1>3, <1>4, <1>5, <1>6 DEF RowsMove

\* A commit that writes a product, and nothing else.
LEMMA ProductWritten ==
    ASSUME NEW r \in Request, NEW seen, RowsTyped, SeenSound(r, seen), Held(r, seen),
           r.op \in {"create_product", "update_product"}, WriteProduct(r, seen)
    PROVE  RowsTyped' /\ RowsMove(r, seen)
  <1> USE RequestKinds, CatalogAssumption DEF RowsTyped
  <1>1. PICK row \in ProductRow :
          /\ product' = [product EXCEPT ![r.p] = row]
          /\ product[r.p] # None \/ r.p \in MakesProduct(r)
          /\ \/ product[r.p] # None /\ row.sku = product[r.p].sku
             \/ row.sku \in ClaimsSku(r, seen)
          /\ \/ product[r.p] # None /\ row.category = product[r.p].category
             \/ row.category \in NeedsCategory(r, seen)
    <2>1. CASE r.op = "create_product"
      <3> DEFINE row == [sku |-> r.sku, category |-> r.category]
      <3>1. row \in ProductRow
        BY <2>1 DEF ProductRow
      <3>2. product' = [product EXCEPT ![r.p] = row]
        BY <2>1 DEF WriteProduct
      <3>3. /\ row.sku \in ClaimsSku(r, seen) /\ row.category \in NeedsCategory(r, seen)
            /\ r.p \in MakesProduct(r)
        BY <2>1 DEF ClaimsSku, NeedsCategory, MakesProduct
      <3> HIDE DEF row
      <3> QED  BY <3>1, <3>2, <3>3
    <2>2. CASE r.op = "update_product"
      <3> DEFINE now == product[r.p]
                 row == [sku |-> Changed(r.sku, seen.sku, now.sku),
                         category |-> Changed(r.category, seen.category, now.category)]
      <3>1. r.p \in Product /\ product[r.p] # None
        BY <2>2 DEF Held, NeedsProduct, Products
      <3>2. row \in ProductRow
        BY <2>2, <3>1 DEF ProductRow, Changed
      <3>3. product' = [product EXCEPT ![r.p] = row]
        BY <2>2, <3>1 DEF WriteProduct
      <3>4. row.sku = now.sku \/ row.sku \in ClaimsSku(r, seen)
        BY <2>2 DEF ClaimsSku, Changed
      <3>5. row.category = now.category \/ row.category \in NeedsCategory(r, seen)
        BY <2>2 DEF NeedsCategory, Changed
      <3> HIDE DEF row
      <3> QED  BY <3>1, <3>2, <3>3, <3>4, <3>5
    <2> QED  BY <2>1, <2>2
  <1>2. /\ category' = category /\ image' = image /\ sold' = sold /\ gone' = gone
        /\ recorded' = recorded
    BY DEF WriteProduct
  <1>3. RowsTyped'
    BY <1>1, <1>2
  <1>4. DropsCategory(r) = {} /\ DropsProduct(r) = {} /\ MakesCategory(r, seen) = {} /\ Records(r) = {}
    BY DEF DropsCategory, DropsProduct, MakesCategory, Records
  <1>5. ProductsMove(r, seen)
    BY <1>1, <1>4 DEF ProductsMove, ProductRow
  <1>6. CategoriesMove(r, seen) /\ ImagesMove(r)
    BY <1>2, <1>4 DEF CategoriesMove, ImagesMove
  <1> QED  BY <1>2, <1>3, <1>4, <1>5, <1>6 DEF RowsMove

\* A commit that deletes a product: its images go with it.
LEMMA ProductRemoved ==
    ASSUME NEW r \in Request, NEW seen, RowsTyped, r.op = "delete_product", RemoveProduct(r.p)
    PROVE  RowsTyped' /\ RowsMove(r, seen)
  <1> USE RequestKinds, CatalogAssumption DEF RowsTyped
  <1>1. /\ category' = category /\ sold' = sold /\ recorded' = recorded /\ gone' = gone \cup {r.p}
        /\ product' = [product EXCEPT ![r.p] = None]
    BY DEF RemoveProduct
  <1>2. \A f \in File :
          \/ image'[f] = None
          \/ image'[f] = image[f] /\ (image[f] # None => image[f].product # r.p)
    BY DEF RemoveProduct, Images
  <1>3. RowsTyped'
    <2>1. image' \in [File -> ImageRow \cup {None}]
      BY <1>2 DEF RemoveProduct
    <2> QED  BY <1>1, <2>1
  <1>4. DropsCategory(r) = {} /\ DropsProduct(r) = {r.p} /\ MakesCategory(r, seen) = {} /\ Records(r) = {}
    BY DEF DropsCategory, DropsProduct, MakesCategory, Records
  <1>5. ProductsMove(r, seen)
    BY <1>1, <1>4 DEF ProductsMove
  <1>6. CategoriesMove(r, seen) /\ ImagesMove(r)
    BY <1>1, <1>2, <1>4 DEF CategoriesMove, ImagesMove
  <1> QED  BY <1>1, <1>3, <1>4, <1>5, <1>6 DEF RowsMove

\* A commit that writes or removes an image, or sells a product.
LEMMA ImageOrItemWritten ==
    ASSUME NEW r \in Request, NEW seen, RowsTyped, SeenSound(r, seen),
           \/ r.op = "upload" /\ WriteImage(r, seen)
           \/ r.op = "delete_image" /\ RemoveImage(r.f)
           \/ r.op = "order" /\ WriteItem(r.p)
    PROVE  RowsTyped' /\ RowsMove(r, seen)
  <1> USE RequestKinds, CatalogAssumption DEF RowsTyped
  <1>1. category' = category /\ product' = product /\ gone' = gone
    BY DEF WriteImage, RemoveImage, WriteItem
  <1>2. DropsCategory(r) = {} /\ DropsProduct(r) = {} /\ MakesCategory(r, seen) = {}
    BY DEF DropsCategory, DropsProduct, MakesCategory
  <1>3. CategoriesMove(r, seen) /\ ProductsMove(r, seen)
    BY <1>1, <1>2 DEF CategoriesMove, ProductsMove
  <1>4. CASE r.op = "upload"
    <2> DEFINE row == [product |-> r.p, position |-> seen.position]
    <2>1. row \in ImageRow
      BY <1>4 DEF ImageRow, SeenSound
    <2>2. /\ image' = [image EXCEPT ![r.f] = row]
          /\ recorded' = recorded \cup {r.f} /\ sold' = sold
      BY <1>4 DEF WriteImage
    <2>3. row.product = r.p /\ Records(r) = {r.f}
      BY <1>4 DEF Records
    <2> HIDE DEF row
    <2>4. ImagesMove(r)
      BY <2>1, <2>2, <2>3, <1>2, <1>4 DEF ImagesMove
    <2> QED  BY <1>1, <1>2, <1>3, <1>4, <2>1, <2>2, <2>3, <2>4 DEF RowsMove
  <1>5. CASE r.op = "delete_image"
    <2>1. image' = [image EXCEPT ![r.f] = None] /\ recorded' = recorded /\ sold' = sold
      BY <1>5 DEF RemoveImage
    <2>2. Records(r) = {} /\ ImagesMove(r)
      BY <1>2, <1>5, <2>1 DEF Records, ImagesMove
    <2> QED  BY <1>1, <1>2, <1>3, <1>5, <2>1, <2>2 DEF RowsMove
  <1>6. CASE r.op = "order"
    <2>1. sold' = sold \cup {r.p} /\ image' = image /\ recorded' = recorded
      BY <1>6 DEF WriteItem
    <2>2. Records(r) = {} /\ NeedsProduct(r) = {r.p} /\ ImagesMove(r)
      BY <1>2, <1>6, <2>1 DEF Records, NeedsProduct, ImagesMove
    <2> QED  BY <1>1, <1>2, <1>3, <1>6, <2>1, <2>2 DEF RowsMove
  <1> QED  BY <1>4, <1>5, <1>6

\* A commit of the demo seed: the category and the product it found missing.
LEMMA SeedWritten ==
    ASSUME NEW r \in Request, NEW seen, RowsTyped, SeenSound(r, seen), r.op = "seed",
           WriteSeed(r, seen)
    PROVE  RowsTyped' /\ RowsMove(r, seen)
  <1> USE RequestKinds, CatalogAssumption DEF RowsTyped
  <1> DEFINE row == [name |-> DemoName, parent |-> None]
             item == [sku |-> DemoSku, category |-> SeedCategory(r, seen)]
  <1>1. row \in CategoryRow /\ row.name = DemoName /\ row.parent = None
    BY DEF CategoryRow
  <1>2. item \in ProductRow /\ item.sku = DemoSku /\ item.category = SeedCategory(r, seen)
    BY DEF ProductRow, SeedCategory, SeenSound
  <1>3. /\ category' = IF seen.category # None THEN category ELSE [category EXCEPT ![r.c] = row]
        /\ product' = IF ~seen.missing THEN product ELSE [product EXCEPT ![r.p] = item]
        /\ image' = image /\ sold' = sold /\ gone' = gone /\ recorded' = recorded
    BY DEF WriteSeed
  <1> HIDE DEF row, item
  <1>4. RowsTyped'
    BY <1>1, <1>2, <1>3
  <1>5. DropsCategory(r) = {} /\ DropsProduct(r) = {} /\ Records(r) = {} /\ MakesProduct(r) = {r.p}
    BY DEF DropsCategory, DropsProduct, Records, MakesProduct
  <1>6. CategoriesMove(r, seen)
    BY <1>1, <1>3, <1>5 DEF CategoriesMove, MakesCategory, ClaimsName
  <1>7. ProductsMove(r, seen) /\ ImagesMove(r)
    BY <1>2, <1>3, <1>5 DEF ProductsMove, ImagesMove, ClaimsSku, NeedsCategory
  <1> QED  BY <1>3, <1>4, <1>5, <1>6, <1>7 DEF RowsMove

\* Every commit moves the rows so.
LEMMA WritesMove ==
    ASSUME NEW r \in Request, NEW seen, RowsTyped, SeenSound(r, seen), Held(r, seen),
           Writes(r, seen)
    PROVE  RowsTyped' /\ RowsMove(r, seen)
  BY CategoryWritten, CategoryRemoved, ProductWritten, ProductRemoved, ImageOrItemWritten,
     SeedWritten DEF Writes

\* A request drops no row that it needs itself, and its identities are of their kinds.
LEMMA OwnRows ==
    ASSUME NEW r \in Request, NEW seen
    PROVE  /\ NeedsCategory(r, seen) \cap DropsCategory(r) = {}
           /\ NeedsProduct(r) \cap DropsProduct(r) = {}
           /\ DropsCategory(r) \subseteq Category /\ DropsProduct(r) \subseteq Product
           /\ MakesProduct(r) \subseteq Product /\ MakesCategory(r, seen) \subseteq Category
           /\ Records(r) \subseteq File
           /\ Records(r) # {} => NeedsProduct(r) = {r.p} /\ r.op = "upload" /\ r.p \in Product
  <1>1. NeedsCategory(r, seen) \cap DropsCategory(r) = {}
    <2>1. CASE r.op = "delete_category"
      BY <2>1 DEF NeedsCategory
    <2>2. CASE r.op # "delete_category"
      BY <2>2 DEF DropsCategory
    <2> QED  BY <2>1, <2>2
  <1>2. NeedsProduct(r) \cap DropsProduct(r) = {}
    BY DEF NeedsProduct, DropsProduct
  <1> QED  BY <1>1, <1>2, RequestKinds DEF DropsCategory, DropsProduct, MakesProduct,
              MakesCategory, Records, NeedsProduct

\* A commit whose request is still held leaves no two rows with one name or one SKU, and
\* no row that names a row that is gone.
LEMMA CommitKeepsRows ==
    ASSUME NEW r \in Request, NEW seen, RowsTyped, RowsTyped', Held(r, seen), RowsMove(r, seen),
           OneName, OneSku, NoDangling
    PROVE  OneName' /\ OneSku' /\ NoDangling'
  <1> USE OwnRows DEF RowsMove, Categories, Products
  <1>1. OneName'
    <2>1. SUFFICES ASSUME NEW c \in Category, NEW d \in Category, category'[c] # None,
                          category'[d] # None, category'[c].name = category'[d].name
                   PROVE  c = d
      BY DEF OneName
    <2>2. \A e \in Category : category'[e] # None =>
            \/ category[e] # None /\ category'[e].name = category[e].name
            \/ e = r.c /\ category'[e].name \in ClaimsName(r, seen)
      BY DEF CategoriesMove
    <2>3. \A e \in Category : category[e] # None /\ category[e].name \in ClaimsName(r, seen) => e = r.c
      BY DEF Held, Named
    <2> QED  BY <2>1, <2>2, <2>3 DEF OneName
  <1>2. OneSku'
    <2>1. SUFFICES ASSUME NEW p \in Product, NEW q \in Product, product'[p] # None,
                          product'[q] # None, product'[p].sku = product'[q].sku
                   PROVE  p = q
      BY DEF OneSku
    <2>2. \A e \in Product : product'[e] # None =>
            \/ product[e] # None /\ product'[e].sku = product[e].sku
            \/ e = r.p /\ product'[e].sku \in ClaimsSku(r, seen)
      BY DEF ProductsMove
    <2>3. \A e \in Product : product[e] # None /\ product[e].sku \in ClaimsSku(r, seen) => e = r.p
      BY DEF Held, WithSku
    <2> QED  BY <2>1, <2>2, <2>3 DEF OneSku
  <1>3. \A c \in NeedsCategory(r, seen) : c \in Category /\ category'[c] # None
    BY DEF Held, CategoriesMove
  <1>4. \A p \in NeedsProduct(r) : p \in Product /\ product'[p] # None
    BY DEF Held, ProductsMove
  <1>5. ASSUME NEW p \in Product, product'[p] # None
        PROVE  product'[p].category \in Category /\ category'[product'[p].category] # None
    <2>1. CASE product[p] # None /\ product'[p].category = product[p].category
      <3>1. product[p].category \in Category /\ category[product[p].category] # None
        BY <2>1 DEF NoDangling
      <3>2. product[p].category \notin DropsCategory(r)
        BY <2>1 DEF Held, ProductsIn
      <3> QED  BY <2>1, <3>1, <3>2 DEF CategoriesMove
    <2>2. CASE product'[p].category \in NeedsCategory(r, seen)
      BY <2>2, <1>3
    <2> QED  BY <1>5, <2>1, <2>2 DEF ProductsMove
  <1>6. ASSUME NEW c \in Category, category'[c] # None, category'[c].parent # None
        PROVE  category'[c].parent \in Category /\ category'[category'[c].parent] # None
    <2>1. CASE category[c] # None /\ category'[c].parent = category[c].parent
               /\ category[c].parent \notin DropsCategory(r)
      BY <2>1, <1>6 DEF NoDangling, CategoriesMove
    <2>2. CASE category'[c].parent \in NeedsCategory(r, seen)
      BY <2>2, <1>3
    <2> QED  BY <1>6, <2>1, <2>2 DEF CategoriesMove
  <1>7. ASSUME NEW f \in File, image'[f] # None
        PROVE  image'[f].product \in Product /\ product'[image'[f].product] # None
    <2>1. CASE image'[f] = image[f] /\ image[f].product \notin DropsProduct(r)
      BY <2>1, <1>7 DEF NoDangling, ProductsMove
    <2>2. CASE f \in Records(r) /\ image'[f].product = r.p
      BY <2>2, <1>4
    <2> QED  BY <1>7, <2>1, <2>2 DEF ImagesMove
  <1>8. \A p \in sold' : p \in Product /\ product'[p] # None
    <2>1. ASSUME NEW p \in sold PROVE p \in Product /\ product'[p] # None
      BY <2>1 DEF NoDangling, Held, ProductsMove
    <2> QED  BY <2>1, <1>4
  <1> QED  BY <1>1, <1>2, <1>5, <1>6, <1>7, <1>8 DEF NoDangling

\* What another flushed request found stays so.
LEMMA CommitKeepsHeld ==
    ASSUME NEW j, NEW k, j.req \in Request, k.req \in Request, RowsTyped, RowsTyped',
           RowsMove(j.req, j.seen), Apart(j, k), Apart(k, j), Held(k.req, k.seen)
    PROVE  Held(k.req, k.seen)'
  <1> USE OwnRows DEF RowsMove, Categories, Products
  <1>1. \A n \in ClaimsName(k.req, k.seen) : Named(n)' \subseteq {k.req.c}
    <2>1. SUFFICES ASSUME NEW n \in ClaimsName(k.req, k.seen), NEW c \in Category,
                          category'[c] # None, category'[c].name = n
                   PROVE  c = k.req.c
      BY DEF Named
    <2>2. category[c] # None /\ category[c].name = n
      BY <2>1 DEF CategoriesMove, Apart
    <2> QED  BY <2>2 DEF Held, Named
  <1>2. \A s \in ClaimsSku(k.req, k.seen) : WithSku(s)' \subseteq {k.req.p}
    <2>1. SUFFICES ASSUME NEW s \in ClaimsSku(k.req, k.seen), NEW p \in Product,
                          product'[p] # None, product'[p].sku = s
                   PROVE  p = k.req.p
      BY DEF WithSku
    <2>2. product[p] # None /\ product[p].sku = s
      BY <2>1 DEF ProductsMove, Apart
    <2> QED  BY <2>2 DEF Held, WithSku
  <1>3. NeedsCategory(k.req, k.seen) \subseteq Categories' \cup MakesCategory(k.req, k.seen)
    BY DEF Held, CategoriesMove, Apart
  <1>4. NeedsProduct(k.req) \subseteq Products'
    BY DEF Held, ProductsMove, Apart
  <1>5. \A c \in DropsCategory(k.req) : ProductsIn(c)' = {}
    <2>1. SUFFICES ASSUME NEW c \in DropsCategory(k.req), NEW p \in Product,
                          product'[p] # None, product'[p].category = c
                   PROVE  FALSE
      BY DEF ProductsIn
    <2>2. product[p] # None /\ product[p].category = c
      BY <2>1 DEF ProductsMove, Apart
    <2> QED  BY <2>2 DEF Held, ProductsIn
  <1>6. DropsProduct(k.req) \cap sold' = {}
    BY DEF Held, Apart
  <1> HIDE DEF RowsMove, Categories, Products
  <1> QED  BY <1>1, <1>2, <1>3, <1>4, <1>5, <1>6 DEF Held

-----------------------------------------------------------------------------
(***************************************************************************)
(* Sessions: what a step does to the request of one session.               *)
(***************************************************************************)

\* A busy session has a typed request.
LEMMA JobFacts ==
    ASSUME JobsTyped, NEW t \in Tx, Busy(t)
    PROVE  /\ tx[t] \in Job /\ tx[t].req \in Request
           /\ SeenSound(tx[t].req, tx[t].seen) /\ PlaceSound(tx[t].req, tx[t].at)
  BY DEF JobsTyped, Busy, Idle, Job

\* A session that goes on keeps its request and what it has read.
LEMMA GoToMoves ==
    ASSUME JobsTyped, NEW t \in Tx, Busy(t), NEW place \in {"save", "flush", "purge", "commit"},
           PlaceSound(tx[t].req, place), GoTo(t, place)
    PROVE  /\ JobsTyped'
           /\ tx'[t].req = tx[t].req /\ tx'[t].seen = tx[t].seen /\ tx'[t].at = place
           /\ \A u \in Tx \ {t} : tx'[u] = tx[u]
  <1>1. PICK j \in Job : j = tx[t]
    BY JobFacts
  <1> DEFINE moved == [j EXCEPT !.at = place]
  <1>2. moved \in Job /\ moved.at = place /\ moved.req = j.req /\ moved.seen = j.seen
    BY DEF Job
  <1>3. tx' = [tx EXCEPT ![t] = moved]
    BY <1>1 DEF GoTo, JobsTyped
  <1> HIDE DEF moved
  <1>4. tx'[t] = moved /\ \A u \in Tx \ {t} : tx'[u] = tx[u]
    BY <1>3 DEF JobsTyped
  <1>5. tx' \in [Tx -> {Idle} \cup Job]
    BY <1>2, <1>3 DEF JobsTyped
  <1>6. SeenSound(tx'[t].req, tx'[t].seen) /\ PlaceSound(tx'[t].req, tx'[t].at)
    <2>1. SeenSound(j.req, j.seen) /\ PlaceSound(j.req, place)
      BY <1>1, JobFacts
    <2> QED  BY <1>2, <1>4, <2>1
  <1>7. JobsTyped'
    BY <1>4, <1>5, <1>6 DEF JobsTyped, Busy
  <1> QED  BY <1>1, <1>2, <1>4, <1>7

\* A session that ends is idle.
LEMMA RollbackMoves ==
    ASSUME JobsTyped, NEW t \in Tx, Rollback(t)
    PROVE  /\ JobsTyped'
           /\ tx'[t].at = "idle"
           /\ \A u \in Tx \ {t} : tx'[u] = tx[u]
  <1>1. tx'[t] = Idle /\ (\A u \in Tx \ {t} : tx'[u] = tx[u]) /\ tx' \in [Tx -> {Idle} \cup Job]
    BY DEF Rollback, JobsTyped
  <1>2. tx'[t].at = "idle"
    BY <1>1 DEF Idle
  <1>3. JobsTyped'
    BY <1>1, <1>2 DEF JobsTyped, Busy
  <1> QED  BY <1>1, <1>2, <1>3

\* What a request has read is typed; an image gets a position below the number of files.
LEMMA SeenTyped ==
    ASSUME RowsTyped, NEW r \in Request, PassesChecks(r),
           \A f \in File : image[f] # None => f \in recorded
    PROVE  Seen(r) \in SeenValue /\ SeenSound(r, Seen(r))
  <1> USE RequestKinds DEF Seen
  <1>1. CASE r.op = "update_category"
    <2>1. Seen(r) = category[r.c] /\ r.c \in Categories
      BY <1>1 DEF PassesChecks, CategoryChecks
    <2>2. category[r.c] \in CategoryRow
      BY <1>1, <2>1 DEF Categories, RowsTyped
    <2> QED  BY <1>1, <2>1, <2>2 DEF SeenValue, SeenSound
  <1>2. CASE r.op = "update_product"
    <2>1. Seen(r) = product[r.p] /\ r.p \in Products
      BY <1>2 DEF PassesChecks, ProductChecks
    <2>2. product[r.p] \in ProductRow
      BY <1>2, <2>1 DEF Products, RowsTyped
    <2> QED  BY <1>2, <2>1, <2>2 DEF SeenValue, SeenSound
  <1>3. CASE r.op = "upload"
    <2>1. Seen(r) = [position |-> NextPosition(r.p)] /\ FreshFile(r.f)
      BY <1>3 DEF PassesChecks, ImageChecks
    <2>2. Images(r.p) \subseteq File \ {r.f}
      BY <1>3, <2>1 DEF Images, FreshFile
    <2>3. /\ IsFiniteSet(File) /\ IsFiniteSet(File \ {r.f})
          /\ Cardinality(File \ {r.f}) = Cardinality(File) - 1
          /\ Cardinality(File) \in Nat
      BY <1>3, CatalogAssumption, FS_RemoveElement, FS_CardinalityType
    <2>4. /\ Cardinality(Images(r.p)) <= Cardinality(File \ {r.f})
          /\ Cardinality(Images(r.p)) \in Nat
      BY <2>2, <2>3, FS_Subset, FS_CardinalityType
    <2>5. NextPosition(r.p) \in 0..Cardinality(File) - 1
      BY <2>3, <2>4 DEF NextPosition
    <2> QED  BY <1>3, <2>1, <2>5 DEF SeenValue, SeenSound
  <1>4. CASE r.op = "delete_image"
    <2>1. Seen(r) = image[r.f] /\ r.f \in File
      BY <1>4
    <2> QED  BY <1>4, <2>1 DEF SeenValue, SeenSound, RowsTyped
  <1>5. CASE r.op = "seed"
    <2> DEFINE found == IF Named(DemoName) = {} THEN None ELSE CHOOSE c \in Named(DemoName) : TRUE
               missing == WithSku(DemoSku) = {}
    <2>1. Seen(r) = [category |-> found, missing |-> missing]
      BY <1>5
    <2>2. found = None \/ found \in Categories
      BY DEF Named
    <2>3. r.c \in Category /\ r.c \notin Categories
      BY <1>5 DEF PassesChecks
    <2>4. found \in Category \cup {None} /\ found # r.c
      BY <2>2, <2>3, CatalogAssumption DEF Categories
    <2>5. missing \in BOOLEAN
      OBVIOUS
    <2> HIDE DEF found, missing
    <2> QED  BY <1>5, <2>1, <2>4, <2>5 DEF SeenValue, SeenSound
  <1>6. CASE r.op = "delete_category"
    <2>1. Seen(r) = [children |-> Children(r.c) \ {r.c}] /\ Children(r.c) \subseteq Category
      BY <1>6 DEF Children, Categories
    <2> QED  BY <1>6, <2>1 DEF SeenValue, SeenSound
  <1>7. CASE r.op \in {"create_category", "create_product", "delete_product", "order"}
    BY <1>7 DEF SeenValue, SeenSound
  <1> QED  BY <1>1, <1>2, <1>3, <1>4, <1>5, <1>6, <1>7

\* A session that begins has its request and is not flushed.
LEMMA BeginMoves ==
    ASSUME RowsTyped, JobsTyped, NEW t \in Tx, NEW r \in Request, Begin(t, r),
           \A f \in File : image[f] # None => f \in recorded
    PROVE  /\ JobsTyped'
           /\ tx'[t].req = r /\ tx'[t].at \in {"save", "flush"} /\ (r.op = "upload" => tx'[t].at = "save")
           /\ \A u \in Tx \ {t} : tx'[u] = tx[u]
  <1> DEFINE j == [at |-> IF r.op = "upload" THEN "save" ELSE "flush", req |-> r, seen |-> Seen(r)]
  <1>1. Seen(r) \in SeenValue /\ SeenSound(r, Seen(r))
    BY SeenTyped DEF Begin
  <1>2. /\ j \in Job /\ j.req = r /\ j.seen = Seen(r) /\ j.at \in {"save", "flush"}
        /\ r.op = "upload" <=> j.at = "save"
    BY <1>1 DEF Job
  <1>3. tx' = [tx EXCEPT ![t] = j]
    BY DEF Begin
  <1> HIDE DEF j
  <1>4. tx'[t] = j /\ \A u \in Tx \ {t} : tx'[u] = tx[u]
    BY <1>3 DEF JobsTyped
  <1>5. tx' \in [Tx -> {Idle} \cup Job]
    BY <1>2, <1>3 DEF JobsTyped
  <1>6. SeenSound(tx'[t].req, tx'[t].seen) /\ PlaceSound(tx'[t].req, tx'[t].at)
    <2>1. SeenSound(j.req, j.seen) /\ PlaceSound(j.req, j.at)
      BY <1>1, <1>2 DEF PlaceSound
    <2> QED  BY <1>4, <2>1
  <1>7. JobsTyped'
    BY <1>4, <1>5, <1>6 DEF JobsTyped, Busy
  <1> QED  BY <1>2, <1>4, <1>7

-----------------------------------------------------------------------------
(***************************************************************************)
(* Steps that commit nothing.                                              *)
(***************************************************************************)

\* While the rows stay, what is true of them stays.
LEMMA RowsKept ==
    ASSUME RowsTyped, OneName, OneSku, NoDangling, UNCHANGED rows
    PROVE  RowsTyped' /\ OneName' /\ OneSku' /\ NoDangling'
  BY DEF RowsTyped, OneName, OneSku, NoDangling, rows, Categories, Products

\* No new request is flushed: what was apart and held stays so.
LEMMA FlushedKept ==
    ASSUME Exclusive, Guarded, UNCHANGED rows,
           \A u \in Tx : Flushed(u)' =>
               Flushed(u) /\ tx'[u].req = tx[u].req /\ tx'[u].seen = tx[u].seen
    PROVE  Exclusive' /\ Guarded'
  <1>1. Exclusive'
    <2>1. SUFFICES ASSUME NEW t \in Tx, NEW u \in Tx, t # u, Flushed(t)', Flushed(u)'
                   PROVE  Apart(tx[t], tx[u])'
      BY DEF Exclusive
    <2>2. Apart(tx[t], tx[u])
      BY <2>1 DEF Exclusive
    <2>3. /\ tx'[t].req = tx[t].req /\ tx'[t].seen = tx[t].seen
          /\ tx'[u].req = tx[u].req /\ tx'[u].seen = tx[u].seen
      BY <2>1
    <2> QED  BY <2>2, <2>3 DEF Apart
  <1>2. Guarded'
    <2>1. SUFFICES ASSUME NEW t \in Tx, Flushed(t)'
                   PROVE  Held(tx[t].req, tx[t].seen)'
      BY DEF Guarded
    <2>2. Held(tx[t].req, tx[t].seen)
      BY <2>1 DEF Guarded
    <2>3. tx'[t].req = tx[t].req /\ tx'[t].seen = tx[t].seen
      BY <2>1
    <2> QED  BY <2>2, <2>3 DEF Held, rows, Named, WithSku, Categories, Products, ProductsIn
  <1> QED  BY <1>1, <1>2

\* No new request begins: the identities stay.
LEMMA IdentitiesKept ==
    ASSUME Identities, UNCHANGED rows,
           \A u \in Tx : Busy(u)' => Busy(u) /\ tx'[u].req = tx[u].req
    PROVE  Identities'
  <1>1. Products' = Products /\ gone' = gone
    BY DEF rows, Products
  <1> QED  BY <1>1 DEF Identities

\* Nothing is written or purged, no upload begins or is saved, and no deletion is
\* forgotten: files and rows stay together.
LEMMA FilesKept ==
    ASSUME FilesSound, FilesFollowRows, UNCHANGED <<rows, disk, stuck>>, spared \subseteq spared',
           \A u \in Tx : Busy(u)' => /\ Busy(u) /\ tx'[u].req = tx[u].req
                                     /\ At(u, "save") => At(u, "save")',
           \A p : Purging(p)' => Purging(p),
           \A p : Purging(p) => Purging(p)' \/ p \in spared'
    PROVE  FilesSound' /\ FilesFollowRows'
  <1>1. image' = image /\ gone' = gone /\ recorded' = recorded /\ disk' = disk
    BY DEF rows
  <1>2. UploadsSound'
    <2>1. \A t \in Running("upload")' : t \in Running("upload") /\ tx'[t].req = tx[t].req
      BY DEF Running
    <2>2. ASSUME NEW t \in Running("upload")'
          PROVE  /\ tx'[t].req.f \notin recorded'
                 /\ disk'[tx'[t].req.f] \in {tx'[t].req.p, None}
                 /\ \/ At(t, "save")'
                    \/ disk'[tx'[t].req.f] = tx'[t].req.p
                    \/ tx'[t].req.p \in spared' \cup gone'
                    \/ Purging(tx[t].req.p)'
      <3>1. /\ tx'[t].req = tx[t].req /\ t \in Running("upload")
            /\ At(t, "save") => At(t, "save")'
        BY <2>1, <2>2 DEF Running
      <3>2. PICK p : p = tx[t].req.p
        OBVIOUS
      <3>3. Purging(p) => Purging(p)' \/ p \in spared'
        OBVIOUS
      <3>4. tx'[t].req.p = p
        BY <3>1, <3>2
      <3>5. Purging(p)' => Purging(tx[t].req.p)'
        BY <3>4 DEF Purging
      <3> QED  BY <1>1, <3>1, <3>2, <3>3, <3>4, <3>5 DEF FilesSound, UploadsSound
    <2>3. \A t, u \in Running("upload")' : t # u => tx'[t].req.f # tx'[u].req.f
      BY <2>1 DEF FilesSound, UploadsSound
    <2> QED  BY <2>2, <2>3 DEF UploadsSound
  <1>3. \A f \in File : Purging(disk[f])' => f \notin recorded' \/ f \in stuck'
    <2>1. SUFFICES ASSUME NEW f \in File, Purging(disk[f])' PROVE f \notin recorded \/ f \in stuck
      BY <1>1
    <2>2. PICK p : p = disk[f]
      OBVIOUS
    <2>3. Purging(p)'
      BY <1>1, <2>1, <2>2 DEF Purging
    <2> QED  BY <2>2, <2>3 DEF FilesSound
  <1>4. FilesSound'
    BY <1>1, <1>2, <1>3 DEF FilesSound
  <1>5. ImagesHaveFiles'
    <2>1. SUFFICES ASSUME NEW f \in File, image[f] # None, disk[f] # image[f].product
                   PROVE  image[f].product \in spared' \/ Purging(image[f].product)'
      BY <1>1 DEF ImagesHaveFiles, Purging
    <2>2. PICK p : p = image[f].product
      OBVIOUS
    <2>3. p \in spared \/ Purging(p)
      BY <2>1, <2>2 DEF FilesFollowRows, ImagesHaveFiles, Purging
    <2>4. Purging(p)' => Purging(image[f].product)'
      BY <1>1, <2>2 DEF Purging
    <2> QED  BY <2>2, <2>3, <2>4
  <1>6. PurgedWithProduct'
    BY <1>1 DEF FilesFollowRows, PurgedWithProduct
  <1> QED  BY <1>4, <1>5, <1>6 DEF FilesFollowRows

\* A request begins.
LEMMA BeginStep ==
    ASSUME CatalogInv, NEW t \in Tx, NEW r \in Request, Begin(t, r)
    PROVE  CatalogInv'
  <1> USE DEF CatalogInv
  <1>1. /\ UNCHANGED rows /\ disk' = disk /\ spared' = spared /\ stuck' = stuck
        /\ ~Busy(t) /\ PassesChecks(r)
    BY DEF Begin
  <1>2. /\ JobsTyped'
        /\ tx'[t].req = r /\ tx'[t].at \in {"save", "flush"} /\ (r.op = "upload" => tx'[t].at = "save")
        /\ \A u \in Tx \ {t} : tx'[u] = tx[u]
    BY BeginMoves DEF FilesSound
  <1>3. RowsTyped' /\ OneName' /\ OneSku' /\ NoDangling' /\ DiskTyped'
    BY <1>1, RowsKept DEF DiskTyped
  <1>4. Exclusive' /\ Guarded'
    <2>1. \A u \in Tx : Flushed(u)' =>
              Flushed(u) /\ tx'[u].req = tx[u].req /\ tx'[u].seen = tx[u].seen
      BY <1>2 DEF Flushed
    <2> QED  BY <1>1, <2>1, FlushedKept
  <1>5. \A u \in Tx : u # t => (Busy(u)' <=> Busy(u))
    BY <1>2 DEF Busy
  <1>6. Identities'
    <2>1. Products' = Products /\ gone' = gone
      BY <1>1 DEF rows, Products
    <2>2. /\ MakesProduct(r) \cap (Products \cup gone) = {}
          /\ \A u \in Tx : Busy(u) => MakesProduct(r) \cap MakesProduct(tx[u].req) = {}
      <3>1. CASE r.op \in {"create_product", "seed"}
        <4>1. r.p \notin Products /\ Fresh(r.p)
          BY <1>1, <3>1, RequestKinds DEF PassesChecks, ProductChecks
        <4>2. MakesProduct(r) = {r.p}
          BY <3>1 DEF MakesProduct
        <4>3. ASSUME NEW u \in Tx, Busy(u) PROVE r.p \notin MakesProduct(tx[u].req)
          <5>1. PICK q \in Request : q = tx[u].req
            BY <4>3, JobFacts
          <5>2. CASE q.op \in {"create_product", "seed"}
            <6>1. "p" \in DOMAIN q
              BY <5>2 DEF Request, CategoryRequest, ProductRequest, ImageRequest, OrderRequest,
                 SeedRequest
            <6>2. r.p # q.p
              BY <4>1, <4>3, <5>1, <6>1 DEF Fresh
            <6> QED  BY <5>1, <5>2, <6>2 DEF MakesProduct
          <5>3. CASE q.op \notin {"create_product", "seed"}
            BY <5>1, <5>3 DEF MakesProduct
          <5> QED  BY <5>2, <5>3
        <4> QED  BY <4>1, <4>2, <4>3 DEF Fresh
      <3>2. CASE r.op \notin {"create_product", "seed"}
        BY <3>2 DEF MakesProduct
      <3> QED  BY <3>1, <3>2
    <2>3. DropsProduct(r) \subseteq Products
      <3>1. r.op = "delete_product" => r.p \in Products
        BY <1>1, RequestKinds DEF PassesChecks, ProductChecks
      <3> QED  BY <3>1 DEF DropsProduct
    <2> QED  BY <1>2, <1>5, <2>1, <2>2, <2>3 DEF Identities
  <1>7. FilesSound' /\ FilesFollowRows'
    <2>1. image' = image /\ gone' = gone /\ recorded' = recorded
      BY <1>1 DEF rows
    <2>2. ASSUME NEW p PROVE Purging(p)' <=> Purging(p)
      BY <1>1, <1>2, <1>5 DEF Purging, Running, At, Busy
    <2>3. r.op = "upload" => disk[r.f] = None /\ r.f \notin recorded /\ Fresh(r.f)
      BY <1>1, RequestKinds DEF PassesChecks, ImageChecks, FreshFile
    <2>4. ASSUME NEW u \in Running("upload"), r.op = "upload" PROVE tx[u].req.f # r.f
      <3>1. PICK q \in Request : q = tx[u].req /\ q.op = "upload"
        BY <2>4, JobFacts DEF Running
      <3>2. "f" \in DOMAIN q
        BY <3>1 DEF Request, CategoryRequest, ProductRequest, ImageRequest, OrderRequest, SeedRequest
      <3> QED  BY <2>3, <2>4, <3>1, <3>2 DEF Fresh, Running
    <2>5. \A u \in Running("upload")' :
            \/ u = t /\ r.op = "upload"
            \/ u # t /\ u \in Running("upload") /\ tx'[u] = tx[u]
      BY <1>2, <1>5 DEF Running
    <2>6. UploadsSound'
      <3>1. ASSUME NEW u \in Running("upload")'
            PROVE  /\ tx'[u].req.f \notin recorded'
                   /\ disk'[tx'[u].req.f] \in {tx'[u].req.p, None}
                   /\ \/ At(u, "save")'
                      \/ disk'[tx'[u].req.f] = tx'[u].req.p
                      \/ tx'[u].req.p \in spared' \cup gone'
                      \/ Purging(tx[u].req.p)'
        <4>1. CASE u = t /\ r.op = "upload"
          BY <1>1, <1>2, <2>1, <2>3, <4>1 DEF At
        <4>2. CASE u # t /\ u \in Running("upload") /\ tx'[u] = tx[u]
          <5>1. PICK p : p = tx[u].req.p
            OBVIOUS
          <5>2. Purging(p) => Purging(tx[u].req.p)'
            <6>1. Purging(p)' => Purging(tx[u].req.p)'
              BY <4>2, <5>1 DEF Purging
            <6> QED  BY <2>2, <6>1
          <5> QED  BY <1>1, <2>1, <4>2, <5>1, <5>2 DEF FilesSound, UploadsSound, At
        <4> QED  BY <2>5, <3>1, <4>1, <4>2
      <3>2. \A u, v \in Running("upload")' : u # v => tx'[u].req.f # tx'[v].req.f
        BY <1>2, <2>4, <2>5 DEF FilesSound, UploadsSound
      <3> QED  BY <3>1, <3>2 DEF UploadsSound
    <2>7. \A f \in File : Purging(disk[f])' => f \notin recorded' \/ f \in stuck'
      <3>1. SUFFICES ASSUME NEW f \in File, Purging(disk[f])' PROVE f \notin recorded \/ f \in stuck
        BY <1>1, <2>1
      <3>2. PICK p : p = disk[f]
        OBVIOUS
      <3>3. Purging(p)'
        BY <1>1, <3>1, <3>2 DEF Purging
      <3> QED  BY <2>2, <3>2, <3>3 DEF FilesSound
    <2>8. FilesSound'
      BY <2>1, <2>6, <2>7 DEF FilesSound
    <2>9. ImagesHaveFiles'
      <3>1. SUFFICES ASSUME NEW f \in File, image[f] # None, disk[f] # image[f].product,
                            image[f].product \notin spared
                     PROVE  Purging(image[f].product)'
        BY <1>1, <2>1 DEF ImagesHaveFiles, Purging
      <3>2. PICK p : p = image[f].product
        OBVIOUS
      <3>3. Purging(p)
        BY <3>1, <3>2 DEF FilesFollowRows, ImagesHaveFiles, Purging
      <3>4. Purging(p)' => Purging(image[f].product)'
        BY <2>1, <3>2 DEF Purging
      <3> QED  BY <2>2, <3>3, <3>4
    <2>10. PurgedWithProduct'
      BY <1>1, <2>1 DEF FilesFollowRows, PurgedWithProduct
    <2> QED  BY <2>8, <2>9, <2>10 DEF FilesFollowRows
  <1> QED  BY <1>2, <1>3, <1>4, <1>6, <1>7

\* An upload writes its file: nobody else names it, and no row does yet.
LEMMA WriteFileStep ==
    ASSUME CatalogInv, NEW t \in Tx, WriteFile(t)
    PROVE  CatalogInv'
  <1> USE DEF CatalogInv
  <1>1. PICK j \in Job : j = tx[t] /\ j.at = "save" /\ j.req.op = "upload"
    BY JobFacts DEF WriteFile, At, Busy, PlaceSound
  <1>2. j.req \in Request /\ j.req.f \in File /\ j.req.p \in Product /\ t \in Running("upload")
    BY <1>1, RequestKinds DEF Job, Running, Busy
  <1>3. UNCHANGED rows /\ spared' = spared /\ stuck' = stuck /\ disk' = [disk EXCEPT ![j.req.f] = j.req.p]
    BY <1>1 DEF WriteFile
  <1>4. /\ JobsTyped'
        /\ tx'[t].req = tx[t].req /\ tx'[t].seen = tx[t].seen /\ tx'[t].at = "flush"
        /\ \A u \in Tx \ {t} : tx'[u] = tx[u]
    BY <1>1, GoToMoves DEF WriteFile, Busy, PlaceSound
  <1>5. RowsTyped' /\ OneName' /\ OneSku' /\ NoDangling' /\ DiskTyped'
    BY <1>2, <1>3, RowsKept DEF DiskTyped
  <1>6. Exclusive' /\ Guarded'
    <2>1. \A u \in Tx : Flushed(u)' =>
              Flushed(u) /\ tx'[u].req = tx[u].req /\ tx'[u].seen = tx[u].seen
      BY <1>4 DEF Flushed
    <2> QED  BY <1>3, <2>1, FlushedKept
  <1>7. \A u \in Tx : /\ Busy(u)' <=> Busy(u)
                      /\ tx'[u].req = tx[u].req
    BY <1>1, <1>4 DEF Busy
  <1>8. Identities'
    BY <1>3, <1>7, IdentitiesKept
  <1>9. image' = image /\ gone' = gone /\ recorded' = recorded
    BY <1>3 DEF rows
  <1>10. ASSUME NEW p PROVE Purging(p)' <=> Purging(p)
    BY <1>1, <1>4, <1>7 DEF Purging, Running, At
  <1>11. Running("upload")' = Running("upload")
    BY <1>7 DEF Running
  <1>12. \A f \in File : f # j.req.f => disk'[f] = disk[f]
    BY <1>3 DEF DiskTyped
  <1>13. disk'[j.req.f] = j.req.p /\ j.req.f \notin recorded
    BY <1>1, <1>2, <1>3 DEF DiskTyped, FilesSound, UploadsSound
  <1>14. FilesSound'
    <2>1. ASSUME NEW u \in Running("upload")
          PROVE  /\ tx'[u].req.f \notin recorded'
                 /\ disk'[tx'[u].req.f] \in {tx'[u].req.p, None}
                 /\ \/ At(u, "save")'
                    \/ disk'[tx'[u].req.f] = tx'[u].req.p
                    \/ tx'[u].req.p \in spared' \cup gone'
                    \/ Purging(tx[u].req.p)'
      <3>1. CASE u = t
        BY <1>1, <1>4, <1>9, <1>13, <3>1
      <3>2. CASE u # t
        <4>1. tx[u].req.f \in File /\ tx[u].req.f # j.req.f
          BY <1>1, <1>2, <2>1, <3>2, JobFacts, RequestKinds DEF Running, FilesSound, UploadsSound
        <4>2. PICK p : p = tx[u].req.p
          OBVIOUS
        <4>3. Purging(p) => Purging(tx[u].req.p)'
          <5>1. Purging(p)' => Purging(tx[u].req.p)'
            BY <1>7, <2>1, <4>2 DEF Purging, Running
          <5> QED  BY <1>10, <5>1
        <4> QED  BY <1>3, <1>4, <1>9, <1>12, <2>1, <3>2, <4>1, <4>2, <4>3
               DEF FilesSound, UploadsSound, At, Running
      <3> QED  BY <3>1, <3>2
    <2>2. UploadsSound'
      BY <1>7, <1>11, <2>1 DEF FilesSound, UploadsSound, Running
    <2>3. \A f \in File : Purging(disk[f])' => f \notin recorded' \/ f \in stuck'
      <3>1. SUFFICES ASSUME NEW f \in File, Purging(disk[f])', f # j.req.f
                     PROVE  f \notin recorded \/ f \in stuck
        BY <1>3, <1>9, <1>13
      <3>2. PICK p : p = disk[f]
        OBVIOUS
      <3>3. Purging(p)'
        BY <1>12, <3>1, <3>2 DEF Purging
      <3> QED  BY <1>10, <3>2, <3>3 DEF FilesSound
    <2> QED  BY <1>9, <2>2, <2>3 DEF FilesSound
  <1>15. ImagesHaveFiles'
    <2>1. SUFFICES ASSUME NEW f \in File, image[f] # None, disk[f] # image[f].product,
                          image[f].product \notin spared, f # j.req.f
                   PROVE  Purging(image[f].product)'
      BY <1>3, <1>9, <1>12, <1>13 DEF ImagesHaveFiles, Purging, FilesSound
    <2>2. PICK p : p = image[f].product
      OBVIOUS
    <2>3. Purging(p)
      BY <2>1, <2>2 DEF FilesFollowRows, ImagesHaveFiles, Purging
    <2>4. Purging(p)' => Purging(image[f].product)'
      BY <1>9, <2>2 DEF Purging
    <2> QED  BY <1>10, <2>3, <2>4
  <1>16. PurgedWithProduct'
    BY <1>3, <1>9, <1>12, <1>13 DEF FilesFollowRows, PurgedWithProduct
  <1> QED  BY <1>4, <1>5, <1>6, <1>8, <1>14, <1>15, <1>16 DEF FilesFollowRows

\* A request is flushed: what it waits for keeps it apart from the other flushed requests,
\* and the constraints find what it needs.  Refused, it is rolled back.
LEMMA FlushStep ==
    ASSUME CatalogInv, NEW t \in Tx, Flush(t)
    PROVE  CatalogInv'
  <1> USE DEF CatalogInv
  <1>1. PICK j \in Job : j = tx[t] /\ j.at = "flush"
    BY JobFacts DEF Flush, At, Busy
  <1>2. /\ UNCHANGED <<rows, disk, stuck>> /\ spared' = spared
        /\ Busy(t) /\ ~Flushed(t) /\ ~Blocked(t)
        /\ j.req \in Request /\ SeenSound(j.req, j.seen)
    BY <1>1, JobFacts DEF Flush, Busy, Flushed, At
  <1>3. RowsTyped' /\ OneName' /\ OneSku' /\ NoDangling' /\ DiskTyped'
    BY <1>2, RowsKept DEF DiskTyped
  <1>4. /\ JobsTyped'
        /\ \A u \in Tx \ {t} : tx'[u] = tx[u]
        /\ \/ tx'[t].at = "idle"
           \/ /\ tx'[t].req = tx[t].req /\ tx'[t].seen = tx[t].seen
              /\ tx'[t].at = IF j.req.op = "delete_product" THEN "purge" ELSE "commit"
              /\ MeetsConstraints(j.req, j.seen)
    <2>1. CASE MeetsConstraints(j.req, j.seen)
      <3> DEFINE place == IF j.req.op = "delete_product" THEN "purge" ELSE "commit"
      <3>1. PlaceSound(j.req, place) /\ place \in {"save", "flush", "purge", "commit"}
        BY DEF PlaceSound
      <3>2. GoTo(t, place)
        BY <1>1, <2>1 DEF Flush
      <3> HIDE DEF place
      <3>3. /\ JobsTyped'
            /\ tx'[t].req = tx[t].req /\ tx'[t].seen = tx[t].seen /\ tx'[t].at = place
            /\ \A u \in Tx \ {t} : tx'[u] = tx[u]
        BY <1>1, <1>2, <3>1, <3>2, GoToMoves
      <3> QED  BY <2>1, <3>3 DEF place
    <2>2. CASE ~MeetsConstraints(j.req, j.seen)
      <3>1. Rollback(t)
        BY <1>1, <2>2 DEF Flush
      <3> QED  BY <3>1, RollbackMoves
    <2> QED  BY <2>1, <2>2
  <1>5. \A u \in Tx : Busy(u)' => /\ Busy(u) /\ tx'[u].req = tx[u].req
                                  /\ At(u, "save") => At(u, "save")'
    BY <1>1, <1>2, <1>4 DEF Busy, At
  <1>6. \A u \in Tx : u # t => (Flushed(u)' <=> Flushed(u))
    BY <1>4 DEF Flushed
  <1>7. Exclusive'
    <2>1. SUFFICES ASSUME NEW u \in Tx, NEW v \in Tx, u # v, Flushed(u)', Flushed(v)'
                   PROVE  Apart(tx[u], tx[v])'
      BY DEF Exclusive
    <2>2. /\ tx'[u].req = tx[u].req /\ tx'[u].seen = tx[u].seen
          /\ tx'[v].req = tx[v].req /\ tx'[v].seen = tx[v].seen
      BY <1>4, <2>1 DEF Flushed
    <2>3. Apart(tx[u], tx[v])
      <3>1. CASE u # t /\ v # t
        BY <1>6, <2>1, <3>1 DEF Exclusive
      <3>2. ASSUME NEW w \in Tx, w # t, Flushed(w) PROVE Apart(tx[t], tx[w]) /\ Apart(tx[w], tx[t])
        <4>1. \A l \in Locks(tx[t].req, tx[t].seen), m \in Locks(tx[w].req, tx[w].seen) : ~Conflict(l, m)
          BY <1>2, <3>2 DEF Blocked
        <4>2. tx[t].req \in Request /\ tx[w].req \in Request
          BY <1>1, <1>2, <3>2, JobFacts DEF Flushed, Busy
        <4> QED  BY <4>1, <4>2, NoConflictApart
      <3> QED  BY <1>6, <2>1, <3>1, <3>2
    <2> QED  BY <2>2, <2>3 DEF Apart
  <1>8. Guarded'
    <2>1. SUFFICES ASSUME NEW u \in Tx, Flushed(u)' PROVE Held(tx[u].req, tx[u].seen)'
      BY DEF Guarded
    <2>2. Held(tx[u].req, tx[u].seen)
      <3>1. CASE u = t
        BY <1>1, <1>2, <1>4, <2>1, <3>1, AcceptedIsHeld DEF Flushed
      <3>2. CASE u # t
        BY <1>6, <2>1, <3>2 DEF Guarded
      <3> QED  BY <3>1, <3>2
    <2>3. tx'[u].req = tx[u].req /\ tx'[u].seen = tx[u].seen
      BY <1>4, <2>1 DEF Flushed
    <2> QED  BY <1>2, <2>2, <2>3 DEF Held, rows, Named, WithSku, Categories, Products, ProductsIn
  <1>9. Identities'
    BY <1>2, <1>5, IdentitiesKept
  <1>10. ASSUME NEW p PROVE Purging(p)' <=> Purging(p)
    BY <1>1, <1>4 DEF Purging, Running, At, Busy
  <1>11. FilesSound' /\ FilesFollowRows'
    BY <1>2, <1>5, <1>10, FilesKept
  <1> QED  BY <1>3, <1>4, <1>7, <1>8, <1>9, <1>11

\* A deletion purges the files of its product: until it ends, they are missing because of it.
LEMMA PurgeStep ==
    ASSUME CatalogInv, NEW t \in Tx, Purge(t)
    PROVE  CatalogInv'
  <1> USE DEF CatalogInv
  <1>1. PICK j \in Job : j = tx[t] /\ j.at = "purge" /\ j.req.op = "delete_product"
    BY JobFacts DEF Purge, At, Busy, PlaceSound
  <1>2. j.req \in Request /\ j.req.p \in Product
    BY <1>1, RequestKinds DEF Job
  <1>3. PICK left \in SUBSET FilesOf(j.req.p) :
          /\ UNCHANGED rows /\ spared' = spared /\ stuck' = stuck \cup left
          /\ disk' = [f \in File |-> IF f \in FilesOf(j.req.p) \ left THEN None ELSE disk[f]]
    BY <1>1 DEF Purge
  <1>4. /\ JobsTyped'
        /\ tx'[t].req = tx[t].req /\ tx'[t].seen = tx[t].seen /\ tx'[t].at = "commit"
        /\ \A u \in Tx \ {t} : tx'[u] = tx[u]
    BY <1>1, GoToMoves DEF Purge, Busy, PlaceSound
  <1>5. RowsTyped' /\ OneName' /\ OneSku' /\ NoDangling' /\ DiskTyped'
    BY <1>3, RowsKept DEF DiskTyped, FilesOf
  <1>6. Exclusive' /\ Guarded'
    <2>1. \A u \in Tx : Flushed(u)' =>
              Flushed(u) /\ tx'[u].req = tx[u].req /\ tx'[u].seen = tx[u].seen
      BY <1>1, <1>4 DEF Flushed
    <2> QED  BY <1>3, <2>1, FlushedKept
  <1>7. \A u \in Tx : /\ Busy(u)' <=> Busy(u)
                      /\ tx'[u].req = tx[u].req
    BY <1>1, <1>4 DEF Busy
  <1>8. Identities'
    BY <1>3, <1>7, IdentitiesKept
  <1>9. image' = image /\ gone' = gone /\ recorded' = recorded
    BY <1>3 DEF rows
  <1>10. ASSUME NEW p PROVE Purging(p)' <=> Purging(p) \/ p = j.req.p
    BY <1>1, <1>4, <1>7 DEF Purging, Running, At, Busy
  <1>11. Running("upload")' = Running("upload")
    BY <1>7 DEF Running
  <1>12. \A f \in File : \/ disk[f] = j.req.p /\ disk'[f] = None
                         \/ disk'[f] = disk[f] /\ (disk[f] = j.req.p => f \in stuck')
    BY <1>3 DEF FilesOf
  <1>13. ~Purging(None)
    BY JobFacts, RequestKinds, CatalogAssumption DEF Purging, Running
  <1>14. FilesSound'
    <2>1. ASSUME NEW u \in Running("upload")
          PROVE  /\ tx'[u].req.f \notin recorded'
                 /\ disk'[tx'[u].req.f] \in {tx'[u].req.p, None}
                 /\ \/ At(u, "save")'
                    \/ disk'[tx'[u].req.f] = tx'[u].req.p
                    \/ tx'[u].req.p \in spared' \cup gone'
                    \/ Purging(tx[u].req.p)'
      <3>1. u # t /\ tx'[u] = tx[u] /\ tx[u].req.f \in File
        BY <1>1, <1>4, <2>1, JobFacts, RequestKinds DEF Running
      <3>2. PICK p : p = tx[u].req.p
        OBVIOUS
      <3>3. Purging(p) \/ p = j.req.p => Purging(tx[u].req.p)'
        <4>1. Purging(p)' => Purging(tx[u].req.p)'
          BY <3>1, <3>2 DEF Purging
        <4> QED  BY <1>10, <4>1
      <3> QED  BY <1>3, <1>9, <1>12, <2>1, <3>1, <3>2, <3>3 DEF FilesSound, UploadsSound, At
    <2>2. UploadsSound'
      BY <1>7, <1>11, <2>1 DEF FilesSound, UploadsSound, Running
    <2>3. \A f \in File : Purging(disk[f])' => f \notin recorded' \/ f \in stuck'
      <3>1. SUFFICES ASSUME NEW f \in File, Purging(disk[f])', f \notin stuck'
                     PROVE  f \notin recorded
        BY <1>9
      <3>2. PICK p : p = disk'[f]
        OBVIOUS
      <3>3. Purging(p)'
        BY <3>1, <3>2 DEF Purging
      <3>4. p = disk[f] /\ Purging(p)
        BY <1>2, <1>10, <1>12, <1>13, <3>1, <3>2, <3>3, CatalogAssumption
      <3> QED  BY <1>3, <3>1, <3>4 DEF FilesSound
    <2> QED  BY <1>9, <2>2, <2>3 DEF FilesSound
  <1>15. ImagesHaveFiles'
    <2>1. SUFFICES ASSUME NEW f \in File, image[f] # None, disk'[f] # image[f].product,
                          image[f].product \notin spared
                   PROVE  Purging(image[f].product)'
      BY <1>3, <1>9 DEF ImagesHaveFiles, Purging
    <2>2. PICK p : p = image[f].product
      OBVIOUS
    <2>3. Purging(p) \/ p = j.req.p
      BY <1>12, <2>1, <2>2 DEF FilesFollowRows, ImagesHaveFiles, Purging
    <2>4. Purging(p)' => Purging(image[f].product)'
      BY <1>9, <2>2 DEF Purging
    <2> QED  BY <1>10, <2>3, <2>4
  <1>16. PurgedWithProduct'
    <2>1. None \notin gone
      BY CatalogAssumption DEF RowsTyped
    <2> QED  BY <1>3, <1>9, <1>12, <2>1 DEF FilesFollowRows, PurgedWithProduct
  <1> QED  BY <1>4, <1>5, <1>6, <1>8, <1>14, <1>15, <1>16 DEF FilesFollowRows

\* A request ends without a trace; a deletion that had purged files is remembered.
LEMMA AbortStep ==
    ASSUME CatalogInv, NEW t \in Tx, Abort(t)
    PROVE  CatalogInv'
  <1> USE DEF CatalogInv
  <1>1. PICK j \in Job : j = tx[t]
    BY JobFacts DEF Abort
  <1>2. /\ UNCHANGED <<rows, disk, stuck>> /\ Busy(t) /\ j.req \in Request
        /\ spared' = IF j.req.op = "delete_product" /\ At(t, "commit")
                     THEN spared \cup {j.req.p} ELSE spared
    BY <1>1 DEF Abort, Job
  <1>3. RowsTyped' /\ OneName' /\ OneSku' /\ NoDangling' /\ DiskTyped'
    <2>1. j.req.op = "delete_product" => j.req.p \in Product
      BY <1>2, RequestKinds
    <2> QED  BY <1>2, <2>1, RowsKept DEF DiskTyped
  <1>4. JobsTyped' /\ tx'[t].at = "idle" /\ \A u \in Tx \ {t} : tx'[u] = tx[u]
    BY RollbackMoves DEF Abort
  <1>5. Exclusive' /\ Guarded'
    <2>1. \A u \in Tx : Flushed(u)' =>
              Flushed(u) /\ tx'[u].req = tx[u].req /\ tx'[u].seen = tx[u].seen
      BY <1>4 DEF Flushed
    <2> QED  BY <1>2, <2>1, FlushedKept
  <1>6. \A u \in Tx : Busy(u)' => /\ Busy(u) /\ tx'[u].req = tx[u].req
                                  /\ At(u, "save") => At(u, "save")'
    BY <1>4 DEF Busy, At
  <1>7. Identities'
    BY <1>2, <1>6, IdentitiesKept
  <1>8. ASSUME NEW p PROVE /\ Purging(p)' => Purging(p)
                           /\ Purging(p) => Purging(p)' \/ p \in spared'
    <2>1. Purging(p)' => Purging(p)
      BY <1>4 DEF Purging, Running, At, Busy
    <2>2. ASSUME Purging(p) PROVE Purging(p)' \/ p \in spared'
      <3>1. PICK u \in Tx : Busy(u) /\ tx[u].req.op = "delete_product" /\ At(u, "commit") /\ tx[u].req.p = p
        BY <2>2 DEF Purging, Running
      <3>2. CASE u = t
        BY <1>1, <1>2, <3>1, <3>2
      <3>3. CASE u # t
        BY <1>4, <3>1, <3>3 DEF Purging, Running, At, Busy
      <3> QED  BY <3>2, <3>3
    <2> QED  BY <2>1, <2>2
  <1>9. FilesSound' /\ FilesFollowRows'
    BY <1>2, <1>6, <1>8, FilesKept
  <1> QED  BY <1>3, <1>4, <1>5, <1>7, <1>9

\* The pages of a listing change nothing else.
LEMMA ListingStep ==
    ASSUME CatalogInv, UNCHANGED <<rows, disk, spared, stuck, tx>>
    PROVE  CatalogInv'
  <1> USE DEF CatalogInv
  <1>1. RowsTyped' /\ OneName' /\ OneSku' /\ NoDangling' /\ DiskTyped'
    BY RowsKept DEF DiskTyped
  <1>2. JobsTyped'
    BY DEF JobsTyped, Busy
  <1>3. Exclusive' /\ Guarded'
    <2>1. \A u \in Tx : Flushed(u)' =>
              Flushed(u) /\ tx'[u].req = tx[u].req /\ tx'[u].seen = tx[u].seen
      BY DEF Flushed
    <2> QED  BY <2>1, FlushedKept
  <1>4. Identities'
    BY IdentitiesKept DEF Busy
  <1>5. FilesSound' /\ FilesFollowRows'
    <2>1. ASSUME NEW p PROVE Purging(p)' <=> Purging(p)
      BY DEF Purging, Running, At, Busy
    <2> QED  BY <2>1, FilesKept DEF Busy, At
  <1> QED  BY <1>1, <1>2, <1>3, <1>4, <1>5

\* A commit removes no request's product but its own, and makes no one else's.
LEMMA CommitKeepsIdentities ==
    ASSUME CatalogInv, NEW t \in Tx, Busy(t), RowsMove(tx[t].req, tx[t].seen), ~Busy(t)',
           \A u \in Tx \ {t} : tx'[u] = tx[u]
    PROVE  Identities'
  <1> USE DEF CatalogInv
  <1>1. PICK r \in Request : r = tx[t].req
    BY JobFacts
  <1>2. /\ Products \cap gone = {} /\ MakesProduct(r) \cap (Products \cup gone) = {}
        /\ gone' = gone \cup DropsCategory(r) \cup DropsProduct(r)
        /\ DropsCategory(r) \cap Product = {}
        /\ DropsProduct(r) \subseteq Products \cup gone
    BY <1>1, OwnRows, CatalogAssumption DEF Identities, RowsMove
  <1>3. /\ Products' \subseteq (Products \cup MakesProduct(r)) \ DropsProduct(r)
        /\ Products \ DropsProduct(r) \subseteq Products'
    BY <1>1 DEF RowsMove, ProductsMove, Products
  <1>4. Products' \cap gone' = {}
    BY <1>2, <1>3 DEF Products
  <1>5. ASSUME NEW u \in Tx, Busy(u)'
        PROVE  /\ u # t /\ Busy(u) /\ tx'[u].req = tx[u].req
               /\ MakesProduct(tx[u].req) \cap (Products' \cup gone') = {}
               /\ DropsProduct(tx[u].req) \subseteq Products' \cup gone'
    <2>1. u # t /\ Busy(u) /\ tx'[u] = tx[u]
      BY <1>5 DEF Busy
    <2>2. PICK q \in Request : q = tx[u].req
      BY <2>1, JobFacts
    <2>3. /\ MakesProduct(q) \cap (Products \cup gone) = {} /\ MakesProduct(q) \subseteq Product
          /\ MakesProduct(q) \cap MakesProduct(r) = {}
          /\ DropsProduct(q) \subseteq Products \cup gone
      BY <1>1, <2>1, <2>2, OwnRows DEF Identities
    <2>4. MakesProduct(q) \cap (Products' \cup gone') = {}
      BY <1>2, <1>3, <2>3
    <2>5. DropsProduct(q) \subseteq Products' \cup gone'
      BY <1>2, <1>3, <2>3
    <2> QED  BY <2>1, <2>2, <2>4, <2>5
  <1>6. \A u, v \in Tx : u # v /\ Busy(u)' /\ Busy(v)' =>
            MakesProduct(tx'[u].req) \cap MakesProduct(tx'[v].req) = {}
    BY <1>5 DEF Identities
  <1> QED  BY <1>4, <1>5, <1>6 DEF Identities

\* A commit records the file of its own upload only, and the deletion of a product leaves
\* none of its recorded files behind.
LEMMA CommitKeepsFiles ==
    ASSUME CatalogInv, NEW t \in Tx, At(t, "commit"), RowsMove(tx[t].req, tx[t].seen), ~Busy(t)',
           \A u \in Tx \ {t} : tx'[u] = tx[u], UNCHANGED <<disk, spared, stuck>>
    PROVE  FilesSound' /\ FilesFollowRows'
  <1> USE DEF CatalogInv
  <1>1. PICK r \in Request : r = tx[t].req
    BY JobFacts DEF At, Busy
  <1>2. /\ Busy(t) /\ Flushed(t)
        /\ gone' = gone \cup DropsCategory(r) \cup DropsProduct(r)
        /\ recorded' = recorded \cup Records(r) /\ ImagesMove(r)
        /\ DropsCategory(r) \subseteq Category /\ DropsProduct(r) \subseteq Product
    BY <1>1, OwnRows DEF RowsMove, At, Busy, Flushed
  <1>3. \A u \in Tx : Busy(u)' => u # t /\ Busy(u) /\ tx'[u] = tx[u]
    BY DEF Busy
  <1>4. ASSUME NEW p, Purging(p)
        PROVE  Purging(p)' \/ p \in DropsProduct(r)
    <2>1. PICK w \in Tx : Busy(w) /\ tx[w].req.op = "delete_product" /\ At(w, "commit") /\ tx[w].req.p = p
      BY <1>4 DEF Purging, Running
    <2>2. CASE w = t
      BY <1>1, <2>1, <2>2 DEF DropsProduct
    <2>3. CASE w # t
      BY <2>1, <2>3 DEF Purging, Running, At, Busy
    <2> QED  BY <2>2, <2>3
  <1>5. ASSUME NEW p, Purging(p)' PROVE Purging(p)
    BY <1>3, <1>5 DEF Purging, Running, At, Busy
  <1>6. ~Purging(None) /\ None \notin gone
    BY JobFacts, RequestKinds, CatalogAssumption DEF Purging, Running, RowsTyped
  <1>7. ASSUME NEW f \in Records(r)
        PROVE  /\ f = r.f /\ f \in File /\ disk[f] \in {r.p, None} /\ r.p \in Product
               /\ r.p \in Products /\ r.p \notin gone /\ t \in Running("upload")
               /\ disk[f] = r.p \/ r.p \in spared \/ Purging(r.p)
    <2>1. r.op = "upload" /\ f = r.f /\ t \in Running("upload") /\ f \in File
      BY <1>1, <1>2, <1>7, OwnRows DEF Records, Running
    <2>2. r.p \in Products
      BY <1>1, <1>2, <2>1 DEF Guarded, Held, NeedsProduct
    <2>3. r.p \notin gone /\ r.p \in Product
      BY <2>2 DEF Identities, Products
    <2>4. \/ disk[f] = r.p
          \/ r.p \in spared \cup gone
          \/ Purging(r.p)
      BY <1>1, <2>1 DEF FilesSound, UploadsSound, At
    <2> QED  BY <1>1, <2>1, <2>2, <2>3, <2>4 DEF FilesSound, UploadsSound
  <1>8. \A f \in Records(r) : ~Purging(r.p)
    <2>1. SUFFICES ASSUME NEW f \in Records(r), NEW w \in Tx, Busy(w), At(w, "commit"),
                          tx[w].req.op = "delete_product", tx[w].req.p = r.p
                   PROVE  FALSE
      BY DEF Purging, Running
    <2>2. w # t /\ Flushed(w)
      BY <1>1, <1>7, <2>1 DEF Running, At, Flushed
    <2>3. NeedsProduct(r) \cap DropsProduct(tx[w].req) = {}
      BY <1>1, <1>2, <2>2 DEF Exclusive, Apart
    <2>4. r.p \in NeedsProduct(r) /\ r.p \in DropsProduct(tx[w].req)
      BY <1>1, <1>7, <2>1 DEF NeedsProduct, DropsProduct, Running
    <2> QED  BY <2>3, <2>4
  <1>9. UploadsSound'
    <2>1. \A u \in Running("upload")' : u # t /\ u \in Running("upload") /\ tx'[u] = tx[u]
      BY <1>3 DEF Running
    <2>2. ASSUME NEW u \in Running("upload")'
          PROVE  /\ tx'[u].req.f \notin recorded'
                 /\ disk'[tx'[u].req.f] \in {tx'[u].req.p, None}
                 /\ \/ At(u, "save")'
                    \/ disk'[tx'[u].req.f] = tx'[u].req.p
                    \/ tx'[u].req.p \in spared' \cup gone'
                    \/ Purging(tx[u].req.p)'
      <3>1. u # t /\ u \in Running("upload") /\ tx'[u] = tx[u]
        BY <2>1, <2>2
      <3>2. tx[u].req.f \notin Records(r)
        BY <1>1, <1>7, <3>1 DEF FilesSound, UploadsSound
      <3>3. PICK p : p = tx[u].req.p
        OBVIOUS
      <3>4. Purging(p) => Purging(tx[u].req.p)' \/ p \in gone'
        <4>1. Purging(p)' => Purging(tx[u].req.p)'
          BY <3>1, <3>3 DEF Purging
        <4> QED  BY <1>2, <1>4, <4>1
      <3> QED  BY <1>2, <3>1, <3>2, <3>3, <3>4 DEF FilesSound, UploadsSound, At
    <2>3. \A u, v \in Running("upload")' : u # v => tx'[u].req.f # tx'[v].req.f
      BY <2>1 DEF FilesSound, UploadsSound
    <2> QED  BY <2>2, <2>3 DEF UploadsSound
  <1>10. FilesSound'
    <2>1. \A f \in File : Purging(disk[f])' => f \notin recorded' \/ f \in stuck'
      <3>1. SUFFICES ASSUME NEW f \in File, Purging(disk[f])' PROVE f \notin recorded' \/ f \in stuck
        OBVIOUS
      <3>2. PICK p : p = disk[f]
        OBVIOUS
      <3>3. Purging(p)'
        BY <3>1, <3>2 DEF Purging
      <3>4. Purging(disk[f])
        BY <1>5, <3>2, <3>3
      <3>5. f \notin Records(r)
        BY <1>6, <1>7, <1>8, <3>4
      <3> QED  BY <1>2, <3>4, <3>5 DEF FilesSound
    <2>2. \A f \in File : image'[f] # None => f \in recorded'
      BY <1>2 DEF ImagesMove, FilesSound
    <2> QED  BY <1>9, <2>1, <2>2 DEF FilesSound
  <1>11. ImagesHaveFiles'
    <2>1. SUFFICES ASSUME NEW f \in File, image'[f] # None, disk[f] # image'[f].product,
                          image'[f].product \notin spared
                   PROVE  Purging(image[f].product)'
      BY DEF ImagesHaveFiles, Purging
    <2>2. image'[f] = image[f] /\ image[f].product \notin DropsProduct(r)
      BY <1>2, <1>7, <1>8, <2>1 DEF ImagesMove
    <2>3. PICK p : p = image[f].product
      OBVIOUS
    <2>4. Purging(p)
      BY <2>1, <2>2, <2>3 DEF FilesFollowRows, ImagesHaveFiles, Purging
    <2>5. Purging(p)' => Purging(image[f].product)'
      BY <2>2, <2>3 DEF Purging
    <2> QED  BY <1>4, <2>2, <2>3, <2>4, <2>5
  <1>12. PurgedWithProduct'
    <2>1. SUFFICES ASSUME NEW f \in File, disk[f] \in gone' PROVE f \notin recorded' \/ f \in stuck
      BY DEF PurgedWithProduct
    <2>2. disk[f] \in Product \cup {None}
      BY DEF DiskTyped
    <2>3. CASE disk[f] \in gone
      <3>1. f \notin Records(r)
        BY <1>6, <1>7, <2>3
      <3> QED  BY <1>2, <2>3, <3>1 DEF FilesFollowRows, PurgedWithProduct
    <2>4. CASE disk[f] \in DropsCategory(r)
      BY <1>2, <2>2, <2>4, CatalogAssumption
    <2>5. CASE disk[f] \in DropsProduct(r)
      <3>1. r.op = "delete_product" /\ r.p = disk[f]
        BY <2>5 DEF DropsProduct
      <3>2. Purging(disk[f])
        BY <1>1, <1>2, <3>1 DEF Purging, Running
      <3>3. Records(r) = {}
        BY <3>1 DEF Records
      <3> QED  BY <1>2, <3>2, <3>3 DEF FilesSound
    <2> QED  BY <1>2, <2>1, <2>3, <2>4, <2>5
  <1> QED  BY <1>10, <1>11, <1>12 DEF FilesFollowRows

\* A request commits what it flushed.
LEMMA CommitStep ==
    ASSUME CatalogInv, NEW t \in Tx, Commit(t)
    PROVE  CatalogInv'
  <1> USE DEF CatalogInv
  <1>1. PICK j \in Job : j = tx[t] /\ j.at = "commit"
    BY JobFacts DEF Commit, At, Busy
  <1>2. /\ Busy(t) /\ Flushed(t) /\ At(t, "commit") /\ UNCHANGED <<disk, spared, stuck>>
        /\ j.req \in Request /\ SeenSound(j.req, j.seen) /\ Held(j.req, j.seen)
        /\ Writes(j.req, j.seen)
    BY <1>1, JobFacts DEF Commit, Busy, Flushed, At, Guarded
  <1>3. RowsTyped' /\ RowsMove(j.req, j.seen)
    BY <1>2, WritesMove
  <1>4. JobsTyped' /\ ~Busy(t)' /\ \A u \in Tx \ {t} : tx'[u] = tx[u]
    BY RollbackMoves DEF Commit, Busy
  <1>5. OneName' /\ OneSku' /\ NoDangling'
    BY <1>2, <1>3, CommitKeepsRows
  <1>6. DiskTyped'
    BY <1>2 DEF DiskTyped
  <1>7. \A u \in Tx : Flushed(u)' => u # t /\ Flushed(u) /\ tx'[u] = tx[u]
    BY <1>4 DEF Flushed, Busy
  <1>8. Exclusive'
    <2>1. SUFFICES ASSUME NEW u \in Tx, NEW v \in Tx, u # v, Flushed(u)', Flushed(v)'
                   PROVE  Apart(tx[u], tx[v])'
      BY DEF Exclusive
    <2>2. Apart(tx[u], tx[v]) /\ tx'[u] = tx[u] /\ tx'[v] = tx[v]
      BY <1>7, <2>1 DEF Exclusive
    <2> QED  BY <2>2 DEF Apart
  <1>9. Guarded'
    <2>1. SUFFICES ASSUME NEW u \in Tx, Flushed(u)' PROVE Held(tx[u].req, tx[u].seen)'
      BY DEF Guarded
    <2>2. u # t /\ Flushed(u) /\ tx'[u] = tx[u]
      BY <1>7, <2>1
    <2>3. PICK k \in Job : k = tx[u]
      BY <2>2, JobFacts DEF Flushed, Busy
    <2>4. k.req \in Request /\ Apart(j, k) /\ Apart(k, j) /\ Held(k.req, k.seen)
      BY <1>1, <1>2, <2>2, <2>3 DEF Exclusive, Guarded, Job
    <2>5. Held(k.req, k.seen)'
      BY <1>2, <1>3, <2>4, CommitKeepsHeld
    <2>6. tx'[u].req = k.req /\ tx'[u].seen = k.seen
      BY <2>2, <2>3
    <2> QED  BY <2>5, <2>6 DEF Held
  <1>10. Identities'
    BY <1>1, <1>2, <1>3, <1>4, CommitKeepsIdentities
  <1>11. FilesSound' /\ FilesFollowRows'
    BY <1>1, <1>2, <1>3, <1>4, CommitKeepsFiles
  <1> QED  BY <1>3, <1>4, <1>5, <1>6, <1>8, <1>9, <1>10, <1>11

-----------------------------------------------------------------------------
(***************************************************************************)
(* The theorems.                                                           *)
(***************************************************************************)

\* The empty catalogue satisfies the invariant.
LEMMA CatalogStart == CatalogInit => CatalogInv
  <1> SUFFICES ASSUME CatalogInit PROVE CatalogInv
    OBVIOUS
  <1> USE DEF CatalogInit
  <1>1. \A t \in Tx : ~Busy(t) /\ ~Flushed(t)
    BY DEF Busy, Flushed, Idle
  <1>2. Categories = {} /\ Products = {}
    BY DEF Categories, Products
  <1>3. \A op : Running(op) = {}
    BY <1>1 DEF Running
  <1>4. RowsTyped /\ DiskTyped
    BY DEF RowsTyped, DiskTyped
  <1>5. JobsTyped /\ Exclusive /\ Guarded /\ Identities
    BY <1>1, <1>2 DEF JobsTyped, Exclusive, Guarded, Identities
  <1>6. OneName /\ OneSku /\ NoDangling
    BY <1>2 DEF OneName, OneSku, NoDangling
  <1>7. FilesSound /\ FilesFollowRows
    BY <1>3 DEF FilesSound, UploadsSound, Purging, FilesFollowRows, ImagesHaveFiles, PurgedWithProduct
  <1> QED  BY <1>4, <1>5, <1>6, <1>7 DEF CatalogInv

\* Every step keeps the invariant.
LEMMA CatalogStep == CatalogInv /\ [CatalogNext]_catalogVars => CatalogInv'
  <1> SUFFICES ASSUME CatalogInv, [CatalogNext]_catalogVars PROVE CatalogInv'
    OBVIOUS
  <1>1. ASSUME NEW t \in Tx, NEW r \in Request, Begin(t, r) PROVE CatalogInv'
    BY <1>1, BeginStep
  <1>2. ASSUME NEW t \in Tx, WriteFile(t) PROVE CatalogInv'
    BY <1>2, WriteFileStep
  <1>3. ASSUME NEW t \in Tx, Flush(t) PROVE CatalogInv'
    BY <1>3, FlushStep
  <1>4. ASSUME NEW t \in Tx, Purge(t) PROVE CatalogInv'
    BY <1>4, PurgeStep
  <1>5. ASSUME NEW t \in Tx, Commit(t) PROVE CatalogInv'
    BY <1>5, CommitStep
  <1>6. ASSUME NEW t \in Tx, Abort(t) PROVE CatalogInv'
    BY <1>6, AbortStep
  <1>7. CASE StartListing \/ ReadPage \/ EndListing \/ UNCHANGED catalogVars
    <2>1. UNCHANGED <<rows, disk, spared, stuck, tx>>
      BY <1>7 DEF StartListing, ReadPage, EndListing, catalogVars
    <2> QED  BY <2>1, ListingStep
  <1> QED  BY <1>1, <1>2, <1>3, <1>4, <1>5, <1>6, <1>7 DEF CatalogNext

\* The inductive invariant holds of every behaviour, whatever the number of sessions.
THEOREM CatalogInvariant == CatalogSpec => []CatalogInv
  <1>1. CatalogInit => CatalogInv
    BY CatalogStart
  <1>2. CatalogInv /\ [CatalogNext]_catalogVars => CatalogInv'
    BY CatalogStep
  <1> QED  BY <1>1, <1>2, PTL DEF CatalogSpec

\* Rows, files and requests keep their types, and the position of an image is below the
\* number of files.
THEOREM CatalogTyped == CatalogSpec => []CatalogTypeOK
  <1>1. CatalogInv => CatalogTypeOK
    <2> SUFFICES ASSUME CatalogInv PROVE CatalogTypeOK
      OBVIOUS
    <2>1. \A t \in Tx : Busy(t) => tx[t].at \in {"save", "flush", "purge", "commit"}
                                   /\ tx[t].req \in Request
      BY JobFacts DEF CatalogInv, Job
    <2> QED  BY <2>1 DEF CatalogInv, RowsTyped, DiskTyped, CatalogTypeOK
  <1> QED  BY <1>1, CatalogInvariant, PTL

\* Two staff members, or staff and the seed, never leave two categories with one name or
\* two products with one SKU, although each looks for it first and inserts later.
THEOREM NamesAreUnique == CatalogSpec => []NoDuplicates
  <1>1. CatalogInv => NoDuplicates
    <2> SUFFICES ASSUME CatalogInv PROVE NoDuplicates
      OBVIOUS
    <2>1. ASSUME NEW S, \A x, y \in S : x = y PROVE Cardinality(S) <= 1
      <3>1. CASE S = {}
        BY <3>1, FS_EmptySet
      <3>2. CASE S # {}
        <4>1. PICK x : S = {x}
          BY <2>1, <3>2
        <4> QED  BY <4>1, FS_Singleton
      <3> QED  BY <3>1, <3>2
    <2>2. ASSUME NEW n \in Name PROVE Cardinality(Named(n)) <= 1
      BY <2>1 DEF CatalogInv, OneName, Named
    <2>3. ASSUME NEW s \in Sku PROVE Cardinality(WithSku(s)) <= 1
      BY <2>1 DEF CatalogInv, OneSku, WithSku
    <2> QED  BY <2>2, <2>3 DEF NoDuplicates
  <1> QED  BY <1>1, CatalogInvariant, PTL

\* No row names a row that is gone: no product in a deleted category, no image or order
\* item of a deleted product, no child of a deleted parent.
THEOREM RowsNameRows == CatalogSpec => []NoDangling
  <1>1. CatalogInv => NoDangling
    BY DEF CatalogInv
  <1> QED  BY <1>1, CatalogInvariant, PTL

\* Image rows have their files and deleted products leave none that was shown, although
\* no transaction protects the disk.
THEOREM FilesAndRows == CatalogSpec => []FilesFollowRows
  <1>1. CatalogInv => FilesFollowRows
    BY DEF CatalogInv
  <1> QED  BY <1>1, CatalogInvariant, PTL

-----------------------------------------------------------------------------
(***************************************************************************)
(* The listing: pages of a list that is sorted by name.                    *)
(***************************************************************************)
\* The categories whose names come up to the name of c.
UpTo(c) == {d \in Categories : category[d].name <= category[c].name}

\* Names are numbers and every category has its own, and there are finitely many.
Nameable == RowsTyped /\ OneName /\ IsFiniteSet(Categories)

\* The name of a category is a number.
LEMMA NamesTyped == ASSUME RowsTyped, NEW c \in Categories PROVE category[c].name \in Nat
BY CatalogAssumption DEF RowsTyped, Categories, CategoryRow

\* A rank is a place in the list.
LEMMA RankBounds ==
    ASSUME Nameable, NEW c \in Categories
    PROVE  /\ IsFiniteSet(UpTo(c)) /\ Rank(c) = Cardinality(UpTo(c))
           /\ Cardinality(Categories) \in Nat /\ Rank(c) \in 1..Cardinality(Categories)
  <1>1. UpTo(c) \in SUBSET Categories /\ c \in UpTo(c)
    BY NamesTyped DEF UpTo, Nameable
  <1>2. /\ IsFiniteSet(UpTo(c)) /\ Cardinality(UpTo(c)) <= Cardinality(Categories)
        /\ Cardinality(Categories) \in Nat
    BY <1>1, FS_Subset, FS_CardinalityType DEF Nameable
  <1>3. Cardinality(UpTo(c)) \in Nat /\ Cardinality(UpTo(c)) # 0
    BY <1>1, <1>2, FS_EmptySet, FS_CardinalityType
  <1>4. Rank(c) = Cardinality(UpTo(c))
    BY DEF Rank, UpTo
  <1> QED  BY <1>2, <1>3, <1>4

\* A later name has a higher rank.
LEMMA RankFollowsName ==
    ASSUME Nameable, NEW c \in Categories, NEW d \in Categories, Rank(c) <= Rank(d)
    PROVE  category[c].name <= category[d].name
  <1>1. SUFFICES ASSUME category[d].name < category[c].name PROVE FALSE
    BY NamesTyped DEF Nameable
  <1>2. UpTo(d) \in SUBSET UpTo(c) /\ c \in UpTo(c) /\ c \notin UpTo(d)
    BY <1>1, NamesTyped DEF UpTo, Nameable
  <1>3. /\ IsFiniteSet(UpTo(c)) /\ Rank(c) = Cardinality(UpTo(c)) /\ Rank(d) = Cardinality(UpTo(d))
        /\ Rank(c) \in Nat /\ Rank(d) \in Nat
    BY RankBounds
  <1>4. Cardinality(UpTo(d)) <= Cardinality(UpTo(c))
    BY <1>2, <1>3, FS_Subset
  <1>5. Cardinality(UpTo(d)) = Cardinality(UpTo(c))
    BY <1>1, <1>3, <1>4
  <1>6. UpTo(d) = UpTo(c)
    BY <1>2, <1>3, <1>5, FS_Subset
  <1> QED  BY <1>2, <1>6

\* Two categories never have the same rank.
LEMMA RankDistinct ==
    ASSUME Nameable, NEW c \in Categories, NEW d \in Categories, Rank(c) = Rank(d)
    PROVE  c = d
  <1>1. Rank(c) \in Nat /\ Rank(d) \in Nat
    BY RankBounds
  <1>2. category[c].name <= category[d].name /\ category[d].name <= category[c].name
    BY <1>1, RankFollowsName
  <1> QED  BY <1>2, NamesTyped DEF OneName, Nameable

\* Every place in the list has its category.
LEMMA RankOnto ==
    ASSUME Nameable, NEW k \in 1..Cardinality(Categories)
    PROVE  \E c \in Categories : Rank(c) = k
  <1> DEFINE n == Cardinality(Categories)
             others == (1..n) \ {k}
             rank == [c \in Categories |-> Rank(c)]
  <1>1. SUFFICES ASSUME \A c \in Categories : Rank(c) # k PROVE FALSE
    OBVIOUS
  <1>2. n \in Nat /\ IsFiniteSet(Categories)
    BY FS_CardinalityType DEF Nameable
  <1>3. rank \in [Categories -> others] /\ \A c \in Categories : rank[c] = Rank(c)
    BY <1>1, RankBounds
  <1> HIDE DEF rank
  <1>4. IsFiniteSet(1..n) /\ Cardinality(1..n) = n
    <2>1. 1 \in Int /\ n \in Int
      BY <1>2
    <2>2. IsFiniteSet(1..n) /\ Cardinality(1..n) = IF 1 > n THEN 0 ELSE n - 1 + 1
      BY <2>1, FS_Interval
    <2> QED  BY <1>2, <2>2
  <1>5. k \in 1..n /\ others = (1..n) \ {k}
    OBVIOUS
  <1> HIDE DEF others
  <1>6. IsFiniteSet(others) /\ Cardinality(others) = n - 1
    BY <1>4, <1>5, FS_RemoveElement
  <1>7. \E c, d \in Categories : c # d /\ rank[c] = rank[d]
    <2>1. Cardinality(others) < Cardinality(Categories)
      BY <1>2, <1>6
    <2> QED  BY <1>2, <1>3, <1>6, <2>1, FS_PigeonHole
  <1> QED  BY <1>3, <1>7, RankDistinct

\* The list has every category once, in the order of their names.
InOrder(list) ==
    /\ list \in Seq(Categories) /\ Len(list) = Cardinality(Categories)
    /\ \A c \in Categories : \E k \in 1..Len(list) : list[k] = c
    /\ \A i, j \in 1..Len(list) : i < j => category[list[i]].name < category[list[j]].name

\* The sorted list is one.
LEMMA ByNameInOrder == ASSUME Nameable PROVE InOrder(ByName)
  <1> DEFINE n == Cardinality(Categories)
  <1>1. n \in Nat
    BY FS_CardinalityType DEF Nameable
  <1>2. ASSUME NEW k \in 1..n
        PROVE  ByName[k] \in Categories /\ Rank(ByName[k]) = k
    <2>1. ByName[k] = CHOOSE c \in Categories : Rank(c) = k
      BY DEF ByName
    <2> QED  BY <2>1, RankOnto
  <1>3. ByName \in [1..n -> Categories]
    BY <1>2 DEF ByName
  <1>4. ByName \in Seq(Categories) /\ Len(ByName) = n
    BY <1>1, <1>3, SeqDef, LenProperties
  <1>5. ASSUME NEW c \in Categories PROVE \E k \in 1..Len(ByName) : ByName[k] = c
    <2>1. Rank(c) \in 1..n
      BY RankBounds
    <2>2. ByName[Rank(c)] = c
      BY <1>2, <2>1, RankDistinct
    <2> QED  BY <1>4, <2>1, <2>2
  <1>6. ASSUME NEW i \in 1..Len(ByName), NEW j \in 1..Len(ByName), i < j
        PROVE  category[ByName[i]].name < category[ByName[j]].name
    <2>1. /\ ByName[i] \in Categories /\ ByName[j] \in Categories
          /\ Rank(ByName[i]) = i /\ Rank(ByName[j]) = j /\ i \in Nat /\ j \in Nat
      BY <1>2, <1>4
    <2>2. category[ByName[i]].name <= category[ByName[j]].name
      BY <1>6, <2>1, RankFollowsName
    <2>3. category[ByName[i]].name # category[ByName[j]].name
      BY <1>6, <2>1 DEF OneName, Nameable
    <2> QED  BY <2>1, <2>2, <2>3, NamesTyped DEF Nameable
  <1> QED  BY <1>4, <1>5, <1>6 DEF InOrder

\* The pages are as many as the rows need, and no more.
LEMMA PagesNeeded ==
    ASSUME Nameable
    PROVE  /\ Pages \in Nat /\ Cardinality(Categories) <= Pages * PageSize
           /\ \A k \in 1..Pages : (k - 1) * PageSize < Cardinality(Categories)
  <1>1. PICK n \in Nat : n = Cardinality(Categories)
    BY FS_CardinalityType DEF Nameable
  <1>2. PICK size \in Nat : size = PageSize /\ size > 0
    BY CatalogAssumption
  <1>3. PICK q \in Int : q = (n + size - 1) \div size
    BY <1>1, <1>2
  <1>4. Pages = q
    BY <1>1, <1>2, <1>3 DEF Pages
  <1>5. size * q <= n + size - 1 /\ n + size - 1 < size * q + size
    BY <1>1, <1>2, <1>3
  <1>6. q >= 0
    BY <1>1, <1>2, <1>5
  <1>7. ASSUME NEW k \in 1..q PROVE (k - 1) * size < n
    <2>1. (k - 1) * size <= (q - 1) * size
      BY <1>2, <1>6
    <2>2. (q - 1) * size = size * q - size
      BY <1>2, <1>6
    <2> QED  BY <1>1, <1>2, <1>5, <1>6, <2>1, <2>2
  <1>8. n <= q * size
    BY <1>1, <1>2, <1>5
  <1> QED  BY <1>1, <1>2, <1>4, <1>6, <1>7, <1>8

\* The first pages of the list.
ReadUpTo(page) ==
    SubSeq(ByName, 1, IF page * PageSize < Len(ByName) THEN page * PageSize ELSE Len(ByName))

\* A page is a part of the list, and the part after the pages read before.
LEMMA PagePart ==
    ASSUME Nameable, NEW k \in Nat \ {0}
    PROVE  /\ Page(k) \in Seq(Category) /\ ReadUpTo(k) \in Seq(Category)
           /\ ReadUpTo(k) = SubSeq(ByName, 1, IF k * PageSize < Len(ByName)
                                              THEN k * PageSize ELSE Len(ByName))
           /\ Page(k) = SubSeq(ByName, (k - 1) * PageSize + 1, IF k * PageSize < Len(ByName)
                                                               THEN k * PageSize ELSE Len(ByName))
           /\ (k - 1) * PageSize \in Nat /\ k * PageSize = (k - 1) * PageSize + PageSize
  <1>1. PICK size \in Nat : size = PageSize /\ size > 0
    BY CatalogAssumption
  <1>2. ByName \in Seq(Category) /\ Len(ByName) \in Nat
    <2>1. ByName \in Seq(Categories)
      BY ByNameInOrder DEF InOrder
    <2> QED  BY <2>1 DEF Categories
  <1>3. PICK last \in Nat : last = k * size
    BY <1>1
  <1>4. PICK before \in Nat : before = (k - 1) * size
    BY <1>1
  <1>5. last = before + size
    BY <1>1, <1>3, <1>4
  <1>6. PICK end \in Nat : end = (IF last < Len(ByName) THEN last ELSE Len(ByName)) /\ end <= Len(ByName)
    BY <1>2, <1>3
  <1>7. Page(k) = SubSeq(ByName, before + 1, end)
    <2>1. last - size + 1 = before + 1
      BY <1>1, <1>5
    <2> QED  BY <1>1, <1>3, <1>6, <2>1 DEF Page
  <1>8. ReadUpTo(k) = SubSeq(ByName, 1, end)
    BY <1>1, <1>3, <1>6 DEF ReadUpTo
  <1>9. \A i \in 1..end : ByName[i] \in Category
    BY <1>2, <1>6, ElementOfSeq
  <1>10. SubSeq(ByName, before + 1, end) \in Seq(Category) /\ SubSeq(ByName, 1, end) \in Seq(Category)
    BY <1>9, SubSeqProperties
  <1> QED  BY <1>1, <1>3, <1>4, <1>5, <1>6, <1>7, <1>8, <1>10

\* Before the first page nothing is read, and the first page is what is read first.
LEMMA FirstPage ==
    ASSUME Nameable
    PROVE  Page(1) \in Seq(Category) /\ ReadUpTo(0) = <<>> /\ <<>> \o Page(1) = ReadUpTo(1)
  <1>1. 1 \in Nat \ {0} /\ (1 - 1) * PageSize + 1 = 1
    BY CatalogAssumption
  <1>2. PICK end : end = IF 1 * PageSize < Len(ByName) THEN 1 * PageSize ELSE Len(ByName)
    OBVIOUS
  <1>3. Page(1) = SubSeq(ByName, 1, end) /\ ReadUpTo(1) = SubSeq(ByName, 1, end)
    BY <1>1, <1>2, PagePart
  <1>4. Page(1) \in Seq(Category) /\ <<>> \o Page(1) = Page(1)
    BY <1>1, PagePart
  <1>5. ReadUpTo(0) = <<>>
    <2>1. /\ ByName \in Seq(Categories) /\ Len(ByName) \in Nat
          /\ (IF 0 * PageSize < Len(ByName) THEN 0 * PageSize ELSE Len(ByName)) = 0
      BY CatalogAssumption, ByNameInOrder, LenProperties DEF InOrder
    <2>2. SubSeq(ByName, 1, 0) = <<>>
      BY <2>1
    <2> QED  BY <2>1, <2>2 DEF ReadUpTo
  <1> QED  BY <1>3, <1>4, <1>5

\* The next page continues what was read.
LEMMA NextPage ==
    ASSUME Nameable, NEW k \in 2..Pages
    PROVE  ReadUpTo(k - 1) \o Page(k) = ReadUpTo(k)
  <1>1. PICK size \in Nat : size = PageSize /\ size > 0
    BY CatalogAssumption
  <1>2. ByName \in Seq(Categories) /\ Len(ByName) \in Nat /\ Len(ByName) = Cardinality(Categories)
    BY ByNameInOrder, LenProperties DEF InOrder
  <1>3. k \in Nat \ {0} /\ k - 1 \in Nat \ {0}
    BY PagesNeeded
  <1>4. PICK before \in Nat : before = (k - 1) * size /\ k * size = before + size
    BY <1>1, <1>3, PagePart
  <1>5. before < Len(ByName)
    BY <1>1, <1>2, <1>3, <1>4, PagesNeeded
  <1>6. PICK end \in Nat :
          /\ end = IF k * size < Len(ByName) THEN k * size ELSE Len(ByName)
          /\ before < end /\ end <= Len(ByName)
    BY <1>1, <1>2, <1>4, <1>5
  <1>7. Page(k) = SubSeq(ByName, before + 1, end) /\ ReadUpTo(k) = SubSeq(ByName, 1, end)
    BY <1>1, <1>3, <1>4, <1>6, PagePart
  <1>8. ReadUpTo(k - 1) = SubSeq(ByName, 1, before)
    BY <1>1, <1>3, <1>4, <1>5, PagePart
  <1>9. SubSeq(ByName, 1, before) \o SubSeq(ByName, before + 1, end) = SubSeq(ByName, 1, end)
    <2>1. 1 \in 1..Len(ByName) + 1 /\ before \in 1 - 1..Len(ByName) /\ end \in before..Len(ByName)
      BY <1>2, <1>6
    <2> QED  BY <1>2, <2>1, ConcatAdjacentSubSeq
  <1> QED  BY <1>7, <1>8, <1>9

\* After the last page everything was read.
LEMMA LastPage ==
    ASSUME Nameable, NEW k \in Nat, k >= Pages PROVE ReadUpTo(k) = ByName
  <1>1. PICK size \in Nat : size = PageSize /\ size > 0
    BY CatalogAssumption
  <1>2. /\ ByName \in Seq(Categories) /\ Len(ByName) \in Nat
        /\ Len(ByName) = Cardinality(Categories)
    BY ByNameInOrder, LenProperties DEF InOrder
  <1>3. Pages \in Nat /\ Len(ByName) <= Pages * size
    BY <1>1, <1>2, PagesNeeded
  <1>4. Pages * size <= k * size
    BY <1>1, <1>3
  <1>5. ~(k * size < Len(ByName))
    BY <1>1, <1>2, <1>3, <1>4
  <1>6. ReadUpTo(k) = SubSeq(ByName, 1, Len(ByName))
    BY <1>1, <1>5 DEF ReadUpTo
  <1> QED  BY <1>2, <1>6

\* What a listing has read.
ListingTyped == listing \in [next: Nat, pages: Nat, items: Seq(Category), outdated: BOOLEAN]

\* A listing has read the first pages of the list as it is, unless it is outdated.
PagesRead ==
    listing.next > 0 =>
        /\ listing.next >= 1
        /\ ~listing.outdated =>
              /\ listing.pages = Pages
              /\ listing.items = ReadUpTo(listing.next - 1)

ListingInv == CatalogInv /\ IsFiniteSet(Categories) /\ ListingTyped /\ PagesRead

\* Nothing is listed at the beginning.
LEMMA ListingStart == CatalogInit => ListingInv
  <1> SUFFICES ASSUME CatalogInit PROVE ListingInv
    OBVIOUS
  <1>1. CatalogInv
    BY CatalogStart
  <1>2. IsFiniteSet(Categories)
    <2>1. Categories = {}
      BY DEF CatalogInit, Categories
    <2> QED  BY <2>1, FS_EmptySet
  <1>3. ListingTyped /\ PagesRead
    BY DEF CatalogInit, NotListing, ListingTyped, PagesRead
  <1> QED  BY <1>1, <1>2, <1>3 DEF ListingInv

\* As long as the categories stay, so does what was read of them.
LEMMA ListingKept ==
    ASSUME ListingInv, CatalogInv', category' = category, listing' = listing
    PROVE  ListingInv'
  <1>1. Categories' = Categories /\ ByName' = ByName /\ Pages' = Pages
    BY DEF Categories, ByName, Rank, Pages
  <1>2. \A k : ReadUpTo(k)' = ReadUpTo(k)
    BY <1>1 DEF ReadUpTo
  <1> QED  BY <1>1, <1>2 DEF ListingInv, ListingTyped, PagesRead

\* A page read continues the list; the end of a listing leaves nothing.
LEMMA PageStep ==
    ASSUME ListingInv, CatalogInv', StartListing \/ ReadPage \/ EndListing
    PROVE  ListingInv'
  <1> USE DEF ListingInv
  <1>1. category' = category
    BY DEF StartListing, ReadPage, EndListing, rows
  <1>2. Categories' = Categories /\ ByName' = ByName /\ Pages' = Pages
    BY <1>1 DEF Categories, ByName, Rank, Pages
  <1>3. Nameable
    BY DEF CatalogInv, Nameable
  <1>4. \A k : ReadUpTo(k)' = ReadUpTo(k)
    BY <1>2 DEF ReadUpTo
  <1>5. CASE StartListing
    <2>1. listing' = [next |-> 1, pages |-> Pages, items |-> <<>>, outdated |-> FALSE]
      BY <1>5 DEF StartListing
    <2>2. Pages \in Nat /\ <<>> \in Seq(Category) /\ <<>> = ReadUpTo(1 - 1)
      BY <1>3, PagesNeeded, FirstPage
    <2>3. ListingTyped'
      BY <2>1, <2>2 DEF ListingTyped
    <2>4. PagesRead'
      BY <1>2, <1>4, <2>1, <2>2 DEF PagesRead
    <2> QED  BY <1>2, <2>3, <2>4
  <1>6. CASE ReadPage
    <2>1. listing.next = 1 \/ listing.next \in 2..listing.pages
      BY <1>6 DEF ReadPage
    <2>2. /\ listing'.next = listing.next + 1 /\ listing'.pages = listing.pages
          /\ listing'.items = listing.items \o Page(listing.next)
          /\ listing'.outdated = listing.outdated
          /\ listing' = [next |-> listing'.next, pages |-> listing'.pages,
                         items |-> listing'.items, outdated |-> listing'.outdated]
      BY <1>6 DEF ReadPage, ListingTyped
    <2>3. Page(listing.next) \in Seq(Category)
      BY <1>3, <2>1, PagePart DEF ListingTyped
    <2>4. ListingTyped'
      <3>1. listing.items \o Page(listing.next) \in Seq(Category)
        BY <2>3, ConcatProperties DEF ListingTyped
      <3>2. /\ listing'.next \in Nat /\ listing'.pages \in Nat /\ listing'.outdated \in BOOLEAN
            /\ listing'.items \in Seq(Category)
        BY <2>2, <3>1 DEF ListingTyped
      <3>3. [next |-> listing'.next, pages |-> listing'.pages,
             items |-> listing'.items, outdated |-> listing'.outdated]
              \in [next: Nat, pages: Nat, items: Seq(Category), outdated: BOOLEAN]
        BY <3>2
      <3> QED  BY <2>2, <3>3 DEF ListingTyped
    <2>5. ASSUME ~listing.outdated
          PROVE  listing'.pages = Pages /\ listing'.items = ReadUpTo(listing'.next - 1)
      <3>1. /\ listing.pages = Pages /\ listing.items = ReadUpTo(listing.next - 1)
            /\ listing.next = 1 \/ listing.next \in 2..Pages
        BY <2>1, <2>5 DEF PagesRead, ListingTyped
      <3>2. listing'.items = ReadUpTo(listing.next)
        <4>1. CASE listing.next = 1
          BY <1>3, <2>2, <3>1, <4>1, FirstPage
        <4>2. CASE listing.next \in 2..Pages
          BY <1>3, <2>2, <3>1, <4>2, NextPage
        <4> QED  BY <3>1, <4>1, <4>2
      <3>3. listing'.next - 1 = listing.next
        BY <2>2 DEF ListingTyped
      <3> QED  BY <2>2, <3>1, <3>2, <3>3
    <2>6. PagesRead'
      BY <1>2, <1>4, <2>1, <2>2, <2>5 DEF PagesRead, ListingTyped
    <2> QED  BY <1>2, <2>4, <2>6
  <1>7. CASE EndListing
    <2>1. ListingTyped' /\ PagesRead'
      BY <1>7 DEF EndListing, NotListing, ListingTyped, PagesRead
    <2> QED  BY <1>2, <2>1
  <1> QED  BY <1>5, <1>6, <1>7

\* A commit that changes the categories outdates the listing that reads them.
LEMMA CommitListing ==
    ASSUME ListingInv, CatalogInv', NEW t \in Tx, Commit(t)
    PROVE  ListingInv'
  <1> USE DEF ListingInv
  <1>1. listing' = [listing EXCEPT !.outdated = @ \/ (listing.next > 0 /\ category' # category)]
    BY DEF Commit, Outdate
  <1>2. CASE category' = category
    <2>1. listing' = listing
      BY <1>1, <1>2 DEF ListingTyped
    <2> QED  BY <1>2, <2>1, ListingKept
  <1>3. CASE category' # category
    <2>1. /\ listing'.next = listing.next /\ listing'.pages = listing.pages
          /\ listing'.items = listing.items
          /\ listing'.outdated = (listing.outdated \/ listing.next > 0)
          /\ listing' = [next |-> listing'.next, pages |-> listing'.pages,
                         items |-> listing'.items, outdated |-> listing'.outdated]
      BY <1>1, <1>3 DEF ListingTyped
    <2>2. ListingTyped'
      BY <2>1 DEF ListingTyped
    <2>3. PagesRead'
      BY <2>1 DEF PagesRead
    <2>4. IsFiniteSet(Categories')
      <3>1. PICK r \in Request : r = tx[t].req
        BY JobFacts DEF CatalogInv, Commit, At, Busy
      <3>2. RowsMove(r, tx[t].seen)
        BY <3>1, JobFacts, WritesMove DEF CatalogInv, Commit, At, Busy, Flushed, Guarded
      <3>3. Categories' \in SUBSET (Categories \cup {r.c})
        BY <3>2 DEF RowsMove, CategoriesMove, Categories
      <3>4. IsFiniteSet(Categories \cup {r.c})
        BY FS_AddElement
      <3> QED  BY <3>3, <3>4, FS_Subset
    <2> QED  BY <2>2, <2>3, <2>4
  <1> QED  BY <1>2, <1>3

\* Every step keeps the invariant of the pages.
LEMMA ListingInvStep == ListingInv /\ [CatalogNext]_catalogVars => ListingInv'
  <1> SUFFICES ASSUME ListingInv, [CatalogNext]_catalogVars PROVE ListingInv'
    OBVIOUS
  <1>1. CatalogInv'
    BY CatalogStep DEF ListingInv
  <1>2. ASSUME NEW t \in Tx, Commit(t) PROVE ListingInv'
    BY <1>1, <1>2, CommitListing
  <1>3. CASE StartListing \/ ReadPage \/ EndListing
    BY <1>1, <1>3, PageStep
  <1>4. ASSUME NEW t \in Tx,
               \/ \E r \in Request : Begin(t, r)
               \/ WriteFile(t) \/ Flush(t) \/ Purge(t) \/ Abort(t)
        PROVE  ListingInv'
    <2>1. category' = category /\ listing' = listing
      BY <1>4 DEF Begin, WriteFile, Flush, Purge, Abort, rows
    <2> QED  BY <1>1, <2>1, ListingKept
  <1>5. CASE UNCHANGED catalogVars
    <2>1. category' = category /\ listing' = listing
      BY <1>5 DEF catalogVars, rows
    <2> QED  BY <1>1, <2>1, ListingKept
  <1> QED  BY <1>2, <1>3, <1>4, <1>5 DEF CatalogNext

\* Behind its last page, a listing that is not outdated has read the whole list.
LEMMA ListingRead ==
    ASSUME ListingInv, Listed, ~listing.outdated
    PROVE  Nameable /\ listing.items = ByName
  <1>1. Nameable
    BY DEF ListingInv, CatalogInv, Nameable
  <1>2. /\ listing.next - 1 \in Nat /\ listing.next - 1 >= Pages /\ Pages \in Nat
        /\ listing.items = ReadUpTo(listing.next - 1)
    BY <1>1, PagesNeeded DEF ListingInv, ListingTyped, PagesRead, Listed
  <1> QED  BY <1>1, <1>2, LastPage

\* The invariant of the pages, with the one of the rows, holds of every behaviour.
THEOREM ListingInvariant == CatalogSpec => []ListingInv
  <1>1. ListingInv /\ [CatalogNext]_catalogVars => ListingInv'
    BY ListingInvStep
  <1> QED  BY <1>1, ListingStart, PTL DEF CatalogSpec

\* A list read page after page while the categories stayed is the list of them all, for
\* any number of categories and any size of a page.
THEOREM ListingsAreComplete == CatalogSpec => []ListingComplete
  <1>1. ListingInv => ListingComplete
    BY ListingRead DEF ListingComplete
  <1> QED  BY <1>1, ListingInvariant, PTL

\* Such a list has every category once, in the order of their names.
THEOREM ListingsAreInOrder == CatalogSpec => [](Listed /\ ~listing.outdated => InOrder(listing.items))
  <1>1. ListingInv => (Listed /\ ~listing.outdated => InOrder(listing.items))
    BY ListingRead, ByNameInOrder
  <1> QED  BY <1>1, ListingInvariant, PTL
=============================================================================
