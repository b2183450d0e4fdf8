--------------------------- MODULE MCCatalogCache ---------------------------
(***************************************************************************)
(* Two requests to one server and one to another that shares catalog.json. *)
(***************************************************************************)
EXTENDS CatalogCache

CONSTANTS s1, s2, r1, r2, r3

MCServerOf == [r \in Request |-> IF r = r3 THEN s2 ELSE s1]
=============================================================================
