------------------------------- MODULE Catalog -------------------------------
(***************************************************************************)
(* Categories, products and product images: the staff requests of the      *)
(* catalogue as concurrent transactions over the rows, and the image files *)
(* on disk, which no transaction protects.                                 *)
(*                                                                         *)
(* A request makes its unlocked reads and checks (Begin), writes a file if *)
(* it is an upload (WriteFile), flushes its statements, which wait for the *)
(* locks of others and meet the constraints (Flush), purges the files of a *)
(* deleted product (Purge) and commits.  Aborted, it leaves no row changed,*)
(* but the files as they are.                                              *)
(***************************************************************************)
EXTENDS Integers, FiniteSets, Sequences

CONSTANTS
    Category, Product, File,   \* identities: UUIDs, never used twice
    Name,                      \* names of categories, numbers so that they can be sorted
    Sku,                       \* SKUs of products
    DemoName, DemoSku,         \* a category and a product of the demo catalogue
    Tx,                        \* database sessions
    Traffic,                   \* which endpoints are called together, one set per behaviour
    PageSize,                  \* categories on a page of GET /categories
    None                       \* a row or a value that is not there

\* A row of categories, of products with its stock, of product_images with its file.
CategoryRow == [name: Name, parent: Category \cup {None}]
ProductRow == [sku: Sku, category: Category]
ImageRow == [product: Product, position: 0..Cardinality(File) - 1]

\* Identities are UUIDs, so that no two rows share one, and a missing row is no row.
ASSUME CatalogAssumption ==
    /\ Name \subseteq Nat
    /\ DemoName \in Name /\ DemoSku \in Sku
    /\ PageSize \in Nat \ {0}
    /\ IsFiniteSet(File)
    /\ Category \cap Product = {}
    /\ None \notin Category \cup Product \cup CategoryRow \cup ProductRow \cup ImageRow

VARIABLES
    category,    \* rows of categories: [name, parent], or None
    product,     \* rows of products, each with its row of inventory: [sku, category], or None
    image,       \* rows of product_images by the file they name: [product, position], or None
    sold,        \* products named by a row of order_items
    disk,        \* the product in whose directory a file is, or None
    gone,        \* identities of deleted products and categories
    recorded,    \* files that were named by a committed row at some time
    spared,      \* products whose files were purged by a deletion that did not commit
    stuck,       \* files that a purge could not remove
    tx,          \* the request of each session
    listing,     \* a staff page that reads every category, page after page
    traffic      \* the endpoints called in this behaviour

rows == <<category, product, image, sold, gone, recorded>>
catalogVars == <<rows, disk, spared, stuck, tx, listing, traffic>>

Categories == {c \in Category : category[c] # None}
Products == {p \in Product : product[p] # None}
Images(p) == {f \in File : image[f] # None /\ image[f].product = p}
ProductsIn(c) == {p \in Products : product[p].category = c}
Children(c) == {d \in Categories : category[d].parent = c}

-----------------------------------------------------------------------------
(***************************************************************************)
(* The requests of the staff pages, of the shop and of the demo seed.      *)
(***************************************************************************)
CategoryRequest ==
    [op: {"create_category", "update_category"}, c: Category, name: Name,
     parent: Category \cup {None}]
    \cup [op: {"delete_category"}, c: Category]

ProductRequest ==
    [op: {"create_product", "update_product"}, p: Product, sku: Sku, category: Category]
    \cup [op: {"delete_product"}, p: Product]

ImageRequest ==
    [op: {"upload"}, p: Product, f: File] \cup [op: {"delete_image"}, f: File]

\* create_order inserts an item that names the product.
OrderRequest == [op: {"order"}, p: Product]

\* seed_demo_data: the identities it gives to what it finds missing.
SeedRequest == [op: {"seed"}, c: Category, p: Product]

Request ==
    CategoryRequest \cup ProductRequest \cup ImageRequest \cup OrderRequest \cup SeedRequest

Idle == [at |-> "idle"]
Busy(t) == tx[t].at # "idle"
At(t, place) == tx[t].at = place
Running(op) == {t \in Tx : Busy(t) /\ tx[t].req.op = op}

Named(name) == {c \in Categories : category[c].name = name}
WithSku(sku) == {p \in Products : product[p].sku = sku}

\* The category a seed puts its product in: the one that has the name, or a new one.
SeedCategory(r, seen) == IF seen.category = None THEN r.c ELSE seen.category

\* An identity nobody has used and nobody is about to use.
Fresh(x) ==
    /\ x \notin gone
    /\ \A t \in Tx : Busy(t) => x \notin {tx[t].req[k] : k \in DOMAIN tx[t].req}

FreshFile(f) == disk[f] = None /\ f \notin recorded /\ Fresh(f)

(***************************************************************************)
(* What a request checks on what it reads first, without a lock.           *)
(***************************************************************************)

\* Nothing keeps a category from being its own parent but the form of the staff page.
CategoryChecks(r) ==
    CASE r.op = "create_category" -> r.c \notin Categories /\ Fresh(r.c) /\ Named(r.name) = {}
      [] r.op = "update_category" ->
            r.c \in Categories /\ Named(r.name) \subseteq {r.c}
      [] r.op = "delete_category" -> r.c \in Categories /\ ProductsIn(r.c) = {}

ProductChecks(r) ==
    CASE r.op = "create_product" ->
            /\ r.p \notin Products /\ Fresh(r.p)
            /\ WithSku(r.sku) = {} /\ r.category \in Categories
      [] r.op = "update_product" ->
            r.p \in Products /\ WithSku(r.sku) \subseteq {r.p} /\ r.category \in Categories
      [] OTHER -> r.p \in Products

ImageChecks(r) ==
    IF r.op = "upload" THEN r.p \in Products /\ FreshFile(r.f) ELSE image[r.f] # None

PassesChecks(r) ==
    CASE r \in CategoryRequest -> CategoryChecks(r)
      [] r \in ImageRequest -> ImageChecks(r)
      [] r \in SeedRequest ->
            r.c \notin Categories /\ Fresh(r.c) /\ r.p \notin Products /\ Fresh(r.p)
      [] OTHER -> ProductChecks(r)

\* Mutant of NextPosition: positions counted from one.
PositionFromOne(p) == Cardinality(Images(p)) + 1

\* ProductImageService.add: len(existing)
NextPosition(p) == Cardinality(Images(p))

\* The rows it has read: the ORM compares what it is told to write with them, and a
\* deletion updates the children it has loaded.
Seen(r) ==
    CASE r.op = "update_category" -> category[r.c]
      [] r.op = "delete_category" -> [children |-> Children(r.c) \ {r.c}]
      [] r.op = "update_product" -> product[r.p]
      [] r.op = "upload" -> [position |-> NextPosition(r.p)]
      [] r.op = "delete_image" -> image[r.f]
      [] r.op = "seed" ->
            [category |-> IF Named(DemoName) = {} THEN None ELSE CHOOSE c \in Named(DemoName) : TRUE,
             missing |-> WithSku(DemoSku) = {}]
      [] OTHER -> None

Begin(t, r) ==
    /\ ~Busy(t)
    /\ r.op \in traffic
    /\ PassesChecks(r)
    /\ tx' = [tx EXCEPT ![t] = [at |-> IF r.op = "upload" THEN "save" ELSE "flush",
                                req |-> r, seen |-> Seen(r)]]
    /\ UNCHANGED <<rows, disk, spared, stuck, listing, traffic>>

GoTo(t, place) == tx' = [tx EXCEPT ![t].at = place]

\* LocalDiskImageStorage.save: the file is there before its row is.
WriteFile(t) ==
    /\ At(t, "save")
    /\ disk' = [disk EXCEPT ![tx[t].req.f] = tx[t].req.p]
    /\ GoTo(t, "flush")
    /\ UNCHANGED <<rows, spared, stuck, listing, traffic>>

-----------------------------------------------------------------------------
(***************************************************************************)
(* Locks and constraints.  A foreign key shares the row it names; "write"  *)
(* is an UPDATE of other columns, "key" an UPDATE of a unique column, a    *)
(* DELETE, or a new entry of a unique index.                               *)
(***************************************************************************)
Share(x) == IF x = None THEN {} ELSE {<<x, "share">>}

Entry(index, value) == {<<<<index, value>>, "key">>}

\* What a deletion of a category takes the parent from: by the ORM the children it has
\* loaded, even if they were moved since, and by ON DELETE SET NULL those there are now.
Orphans(r, seen) ==
    {d \in Categories \ {r.c} : d \in seen.children \/ category[d].parent = r.c}

\* Deleting a category updates its children, creating one shares its parent.
CategoryLocks(r, seen) ==
    CASE r.op = "create_category" -> Entry("name", r.name) \cup Share(r.parent)
      [] r.op = "update_category" ->
            (IF r.name = seen.name THEN {<<r.c, "write">>}
             ELSE {<<r.c, "key">>} \cup Entry("name", r.name) \cup Entry("name", seen.name))
            \cup (IF r.parent = seen.parent THEN {} ELSE Share(r.parent))
      [] r.op = "delete_category" ->
            {<<r.c, "key">>} \cup {<<d, "write">> : d \in Orphans(r, seen)}
            \cup UNION {Entry("name", category[c].name) : c \in {r.c} \cap Categories}

ProductLocks(r, seen) ==
    CASE r.op = "create_product" -> Entry("sku", r.sku) \cup Share(r.category)
      [] r.op = "update_product" ->
            (IF r.sku = seen.sku THEN {<<r.p, "write">>}
             ELSE {<<r.p, "key">>} \cup Entry("sku", r.sku) \cup Entry("sku", seen.sku))
            \cup (IF r.category = seen.category THEN {} ELSE Share(r.category))
      [] r.op = "delete_product" ->
            {<<r.p, "key">>} \cup {<<f, "key">> : f \in Images(r.p)}
            \cup UNION {Entry("sku", product[p].sku) : p \in {r.p} \cap Products}
      [] OTHER -> Share(r.p)

SeedLocks(r, seen) ==
    (IF seen.category = None THEN Entry("name", DemoName) ELSE {})
    \cup (IF seen.missing THEN Entry("sku", DemoSku) \cup Share(SeedCategory(r, seen)) ELSE {})

Locks(r, seen) ==
    CASE r \in CategoryRequest -> CategoryLocks(r, seen)
      [] r \in SeedRequest -> SeedLocks(r, seen)
      [] r.op = "delete_image" -> {<<r.f, "key">>}
      [] OTHER -> ProductLocks(r, seen)

Conflict(l, k) == l[1] = k[1] /\ ("key" \in {l[2], k[2]} \/ {l[2], k[2]} = {"write"})

Flushed(t) == tx[t].at \in {"purge", "commit"}

Blocked(t) ==
    \E u \in Tx \ {t} :
        /\ Flushed(u)
        /\ \E l \in Locks(tx[t].req, tx[t].seen), k \in Locks(tx[u].req, tx[u].seen) : Conflict(l, k)

\* Mutant of Unique: the service's own check before the insert is all there is.
CheckedOnce(taken) == TRUE

\* ix_products_sku, ix_categories_name: among the other rows
Unique(taken) == taken = {}

\* Mutant of Unreferenced: the count before the deletion is all there is.
CountedOnce(referring) == TRUE

\* ON DELETE RESTRICT, or a NOT NULL column the ORM would have to clear.
Unreferenced(referring) == referring = {}

ParentExists(r) == r.parent = None \/ r.parent \in Categories

CategoryConstraints(r, seen) ==
    CASE r.op = "create_category" -> Unique(Named(r.name)) /\ ParentExists(r)
      [] r.op = "update_category" ->
            /\ r.c \in Categories
            /\ r.name # seen.name => Unique(Named(r.name) \ {r.c})
            /\ r.parent # seen.parent => ParentExists(r)
      [] r.op = "delete_category" ->
            /\ Unreferenced(ProductsIn(r.c))
            /\ \A d \in Category : seen.children = {d} => d \in Categories

ProductConstraints(r, seen) ==
    CASE r.op = "create_product" -> Unique(WithSku(r.sku)) /\ r.category \in Categories
      [] r.op = "update_product" ->
            /\ r.p \in Products
            /\ r.sku # seen.sku => Unique(WithSku(r.sku) \ {r.p})
            /\ r.category # seen.category => r.category \in Categories
      [] r.op = "delete_product" -> Unreferenced({r.p} \cap sold)
      [] OTHER -> r.p \in Products

SeedConstraints(r, seen) ==
    /\ seen.category = None => Unique(Named(DemoName))
    /\ seen.missing => /\ Unique(WithSku(DemoSku))
                       /\ SeedCategory(r, seen) \in Categories \cup {r.c}

\* Does the database accept what the request flushes?  An UPDATE of a row that is gone
\* is an error of the ORM unless it is one of a batch, a DELETE of one is not.
MeetsConstraints(r, seen) ==
    CASE r \in CategoryRequest -> CategoryConstraints(r, seen)
      [] r \in SeedRequest -> SeedConstraints(r, seen)
      [] r.op = "delete_image" -> TRUE
      [] OTHER -> ProductConstraints(r, seen)

Rollback(t) == tx' = [tx EXCEPT ![t] = Idle]

\* BaseRepository.create, update or delete: db.flush().
Flush(t) ==
    /\ At(t, "flush")
    /\ ~Blocked(t)
    /\ IF MeetsConstraints(tx[t].req, tx[t].seen)
       THEN GoTo(t, IF tx[t].req.op = "delete_product" THEN "purge" ELSE "commit")
       ELSE Rollback(t)
    /\ UNCHANGED <<rows, disk, spared, stuck, listing, traffic>>

\* Mutant of Purge: the files are purged before the deletion meets the constraints.
PurgeFirst(t) ==
    /\ At(t, "flush") /\ tx[t].req.op = "delete_product"
    /\ disk' = [f \in File |-> IF disk[f] = tx[t].req.p THEN None ELSE disk[f]]
    /\ ~Blocked(t)
    /\ IF MeetsConstraints(tx[t].req, tx[t].seen) THEN GoTo(t, "commit") ELSE Rollback(t)
    /\ UNCHANGED <<rows, spared, stuck, listing, traffic>>

FilesOf(p) == {f \in File : disk[f] = p}

\* ProductService.delete: rmtree of the product's directory, before the commit.  It
\* ignores errors, so that any of the files may be left.
Purge(t) ==
    /\ At(t, "purge")
    /\ \E left \in SUBSET FilesOf(tx[t].req.p) :
          /\ disk' = [f \in File |-> IF f \in FilesOf(tx[t].req.p) \ left THEN None ELSE disk[f]]
          /\ stuck' = stuck \cup left
    /\ GoTo(t, "commit")
    /\ UNCHANGED <<rows, spared, listing, traffic>>

-----------------------------------------------------------------------------
(***************************************************************************)
(* What a commit writes.                                                   *)
(***************************************************************************)

\* A column keeps its committed value unless the request changed what it saw in it.
Changed(new, seen, now) == IF new = seen THEN now ELSE new

WriteCategory(r, seen) ==
    /\ category' = [category EXCEPT ![r.c] =
          IF r.op = "create_category" THEN [name |-> r.name, parent |-> r.parent]
          ELSE [name |-> Changed(r.name, seen.name, @.name),
                parent |-> Changed(r.parent, seen.parent, @.parent)]]
    /\ UNCHANGED <<product, image, sold, gone, recorded>>

RemoveCategory(r, seen) ==
    /\ category' = [d \in Category |->
          IF d = r.c THEN None
          ELSE IF d \in Orphans(r, seen) THEN [category[d] EXCEPT !.parent = None] ELSE category[d]]
    /\ gone' = gone \cup {r.c}
    /\ UNCHANGED <<product, image, sold, recorded>>

WriteProduct(r, seen) ==
    /\ product' = [product EXCEPT ![r.p] =
          IF r.op = "create_product" THEN [sku |-> r.sku, category |-> r.category]
          ELSE [sku |-> Changed(r.sku, seen.sku, @.sku),
                category |-> Changed(r.category, seen.category, @.category)]]
    /\ UNCHANGED <<category, image, sold, gone, recorded>>

\* Its stock, its images and its stock history go with it: ON DELETE CASCADE.
RemoveProduct(p) ==
    /\ product' = [product EXCEPT ![p] = None]
    /\ image' = [f \in File |-> IF f \in Images(p) THEN None ELSE image[f]]
    /\ gone' = gone \cup {p}
    /\ UNCHANGED <<category, sold, recorded>>

WriteImage(r, seen) ==
    /\ image' = [image EXCEPT ![r.f] = [product |-> r.p, position |-> seen.position]]
    /\ recorded' = recorded \cup {r.f}
    /\ UNCHANGED <<category, product, sold, gone>>

\* The row only: the file stays on disk.
RemoveImage(f) ==
    /\ image' = [image EXCEPT ![f] = None]
    /\ UNCHANGED <<category, product, sold, gone, recorded>>

WriteItem(p) ==
    /\ sold' = sold \cup {p}
    /\ UNCHANGED <<category, product, image, gone, recorded>>

WriteSeed(r, seen) ==
    /\ category' = IF seen.category # None THEN category
                   ELSE [category EXCEPT ![r.c] = [name |-> DemoName, parent |-> None]]
    /\ product' = IF ~seen.missing THEN product
                  ELSE [product EXCEPT ![r.p] = [sku |-> DemoSku, category |-> SeedCategory(r, seen)]]
    /\ UNCHANGED <<image, sold, gone, recorded>>

Writes(r, seen) ==
    \/ r.op \in {"create_category", "update_category"} /\ WriteCategory(r, seen)
    \/ r.op = "delete_category" /\ RemoveCategory(r, seen)
    \/ r.op \in {"create_product", "update_product"} /\ WriteProduct(r, seen)
    \/ r.op = "delete_product" /\ RemoveProduct(r.p)
    \/ r.op = "upload" /\ WriteImage(r, seen)
    \/ r.op = "delete_image" /\ RemoveImage(r.f)
    \/ r.op = "order" /\ WriteItem(r.p)
    \/ r.op = "seed" /\ WriteSeed(r, seen)

\* A listing that is still reading pages has seen the categories as they were.
Outdate ==
    listing' = [listing EXCEPT !.outdated = @ \/ (listing.next > 0 /\ category' # category)]

Commit(t) ==
    /\ At(t, "commit")
    /\ Writes(tx[t].req, tx[t].seen)
    /\ Outdate
    /\ Rollback(t)
    /\ UNCHANGED <<disk, spared, stuck, traffic>>

\* An exception, a lost connection or a stopped worker: the files stay as they are.
Abort(t) ==
    /\ Busy(t)
    /\ spared' = IF tx[t].req.op = "delete_product" /\ At(t, "commit")
                 THEN spared \cup {tx[t].req.p} ELSE spared
    /\ Rollback(t)
    /\ UNCHANGED <<rows, disk, stuck, listing, traffic>>

-----------------------------------------------------------------------------
(***************************************************************************)
(* list_all_categories: one request per page, each a transaction.          *)
(***************************************************************************)
\* How many names come up to the name of c.
Rank(c) == Cardinality({d \in Categories : category[d].name <= category[c].name})

\* ORDER BY name, which no two categories share.
ByName == [k \in 1..Cardinality(Categories) |-> CHOOSE c \in Categories : Rank(c) = k]

\* OFFSET and LIMIT of BaseRepository.list
Page(page) ==
    LET last == page * PageSize IN
    SubSeq(ByName, last - PageSize + 1, IF last < Len(ByName) THEN last ELSE Len(ByName))

\* list_categories of the router: rounds up.
Pages == (Cardinality(Categories) + PageSize - 1) \div PageSize

NotListing == [next |-> 0, pages |-> 0, items |-> <<>>, outdated |-> FALSE]

\* The first request counts the categories before it reads its page.
StartListing ==
    /\ "list" \in traffic
    /\ listing.next = 0
    /\ listing' = [next |-> 1, pages |-> Pages, items |-> <<>>, outdated |-> FALSE]
    /\ UNCHANGED <<rows, disk, spared, stuck, tx, traffic>>

ReadPage ==
    /\ listing.next \in {1} \cup 2..listing.pages
    /\ listing' = [listing EXCEPT !.next = @ + 1, !.items = @ \o Page(listing.next)]
    /\ UNCHANGED <<rows, disk, spared, stuck, tx, traffic>>

\* Mutant of Listed: the last page is left out, as by range(2, pages).
ListedButLast == listing.next > 1 /\ listing.next >= listing.pages

Listed == listing.next > 1 /\ listing.next > listing.pages

EndListing ==
    /\ Listed
    /\ listing' = NotListing
    /\ UNCHANGED <<rows, disk, spared, stuck, tx, traffic>>

-----------------------------------------------------------------------------
CatalogInit ==
    /\ category = [c \in Category |-> None]
    /\ product = [p \in Product |-> None]
    /\ image = [f \in File |-> None]
    /\ sold = {}
    /\ disk = [f \in File |-> None]
    /\ gone = {}
    /\ recorded = {}
    /\ spared = {}
    /\ stuck = {}
    /\ tx = [t \in Tx |-> Idle]
    /\ listing = NotListing
    /\ traffic \in Traffic

CatalogNext ==
    \/ \E t \in Tx :
          \/ \E r \in Request : Begin(t, r)
          \/ WriteFile(t)
          \/ Flush(t)
          \/ Purge(t)
          \/ Commit(t)
          \/ Abort(t)
    \/ StartListing
    \/ ReadPage
    \/ EndListing

CatalogSpec == CatalogInit /\ [][CatalogNext]_catalogVars

-----------------------------------------------------------------------------
(***************************************************************************)
(* Properties.                                                             *)
(***************************************************************************)

\* Rows, files and requests are of their types; a position is below the number of
\* images that can be there at once.
CatalogTypeOK ==
    /\ category \in [Category -> CategoryRow \cup {None}]
    /\ product \in [Product -> ProductRow \cup {None}]
    /\ image \in [File -> ImageRow \cup {None}]
    /\ disk \in [File -> Product \cup {None}]
    /\ sold \subseteq Product /\ spared \subseteq Product
    /\ recorded \subseteq File /\ stuck \subseteq File
    /\ gone \subseteq Category \cup Product
    /\ \A t \in Tx : Busy(t) => tx[t].at \in {"save", "flush", "purge", "commit"}
                                /\ tx[t].req \in Request

\* No two categories have one name and no two products one SKU, although every request
\* looks for the name first and inserts later: staff against staff, and against the seed.
NoDuplicates ==
    /\ \A n \in Name : Cardinality(Named(n)) <= 1
    /\ \A s \in Sku : Cardinality(WithSku(s)) <= 1

\* Every row a row names exists: a category deleted while a product enters it, a product
\* deleted while it is ordered or gets an image, a parent deleted while it gets a child.
NoDangling ==
    /\ \A p \in Products : product[p].category \in Categories
    /\ \A c \in Categories : category[c].parent \in Categories \cup {None}
    /\ \A f \in File : image[f] # None => image[f].product \in Products
    /\ sold \subseteq Products

\* An image on a product's page has its file, a refused deletion of the product
\* included; only a deletion that fails between its purge and its commit takes it away.
ImagesHaveFiles ==
    \A f \in File : image[f] # None => disk[f] = image[f].product
        \/ image[f].product \in spared
        \/ \E t \in Running("delete_product") : At(t, "commit") /\ tx[t].req.p = image[f].product

\* A deleted product leaves no file behind that was ever shown, detached images included,
\* but one the purge could not remove; what can stay as well is the file of an upload
\* that lost the race and was never recorded.
PurgedWithProduct ==
    \A f \in File : disk[f] \in gone => f \notin recorded \/ f \in stuck

\* Files and rows go together, in both directions, although the disk takes no part in
\* the transaction and a file is written before, and purged before, its row commits.
FilesFollowRows == ImagesHaveFiles /\ PurgedWithProduct

\* A list of all the categories has every one of them once, in order, unless categories
\* changed between two of its pages.
ListingComplete == Listed /\ ~listing.outdated => listing.items = ByName
=============================================================================
