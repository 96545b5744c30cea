----------------------------- MODULE MCCatalog -----------------------------
EXTENDS Catalog
Prod(id, c, texts) == [id |-> id, category |-> c, texts |-> texts]
MCTabs  == {[id |-> "k1", name |-> "Cafe"]}
MCStock == <<Prod("a", "Cafe", {"x"}), Prod("b", "Cafe", {}), Prod("c", "Cafe", {}), Prod("d", "Te", {"x"})>>
MCViews == {[category |-> "*", text |-> "*"], [category |-> "k1", text |-> "*"], [category |-> "*", text |-> "x"]}
=============================================================================
