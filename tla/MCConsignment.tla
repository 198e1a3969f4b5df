---- MODULE MCConsignment ----
(* Small instances of Consignment. *)
EXTENDS Consignment, TLC

Interchangeable == Permutations(Consignments) \cup Permutations(Departments)
                   \cup Permutations(Products) \cup Permutations(Keys)
                   \cup Permutations(Workers)
==============================
