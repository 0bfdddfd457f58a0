---------------------------- MODULE MCProductCache ----------------------------
(***************************************************************************)
(* An instance of ProductCache for TLC, in four scenarios.                 *)
(***************************************************************************)
EXTENDS ProductCache, TLC

CONSTANTS r1, r2, put, hide, rename, reprice, remove, saveSKU, addSKU

OperationOf == [w \in Writers |->
  CASE w = put -> "update"
    [] w \in {hide, rename, reprice} -> "patch"
    [] w = remove -> "delete"
    [] w = addSKU -> "createSKU"
    [] w = saveSKU -> "updateSKU"]
SuppliedBy == [w \in Writers |->
  CASE w = put -> Columns
    [] w = rename -> {"name"}
    [] w = reprice -> {"price"}
    [] OTHER -> {}]
StatusFrom == [w \in Writers |->
  CASE w = put -> "on_sale"
    [] w = hide -> "draft"
    [] OTHER -> Unchanged]

ReaderSymmetry == Permutations(Readers)

\* Only these requests arrive.
Within(arrived) == \A p \in Requests \ arrived : pc[p] = "idle"

\* Two reads, one of which refills, race a patch and a write of a SKU.
Refill == Within(Readers \cup {rename, saveSKU})
\* The product is hidden and published again.
Hiding == Within(Readers \cup {hide, put})
\* The product is deleted while it gets a SKU.
Deletion == Within(Readers \cup {remove, addSKU})
\* Two patches of different columns and a full update.
Merging == Within({rename, reprice, put})

\* TLC explores the behaviours that are within one of the scenarios.
OneScenario == Refill \/ Hiding \/ Deletion \/ Merging
=============================================================================
