------------------------ MODULE MCStorefrontCheckout ------------------------
(* Values for TLC's instances of StorefrontCheckout. *)
EXTENDS StorefrontCheckout

ManualGateway == {"completed"}

AllOps == {"add", "update", "remove", "toggle", "reorder", "checkout"}
=============================================================================
