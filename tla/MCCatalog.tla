------------------------------ MODULE MCCatalog ------------------------------
(* Values for TLC's instance of Catalog. *)
EXTENDS Catalog, TLC

Names == {1, 2}

\* Categories with the products in them; categories with the pages that list them; products
\* and categories with the seed of the demo catalogue; products with their images and the
\* orders that name them.
Together ==
    {{"create_category", "update_category", "delete_category", "create_product"},
     {"create_category", "update_category", "delete_category", "list"},
     {"create_category", "create_product", "update_product", "delete_category", "seed"},
     {"seed", "delete_product", "upload", "delete_image", "order"}}

CatalogSymmetry ==
    Permutations(Category) \cup Permutations(Product) \cup Permutations(File) \cup Permutations(Tx)
=============================================================================
