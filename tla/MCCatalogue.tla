----------------------------- MODULE MCCatalogue ------------------------------
(***************************************************************************)
(* A small instance of Catalogue: one product to begin with and one that   *)
(* may be created; two pages of one product each, so that a new product    *)
(* moves the old one to the second page, and a SCAN finds several keys.    *)
(* Lists by category bypass the cache and are left to the theorems.        *)
(***************************************************************************)
EXTENDS Catalogue, TLC

CONSTANTS p1, p2

MCExisting == <<p1>>
MCPages == {[category |-> Absent, limit |-> 1, skip |-> 0],
            [category |-> Absent, limit |-> 1, skip |-> 1]}
=============================================================================
