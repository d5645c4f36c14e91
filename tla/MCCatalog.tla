------------------------------ MODULE MCCatalog ------------------------------
EXTENDS Catalog, TLC

\* Complete forms at any price, and one that lost its description and photos.
MCForms ==
    {[described |-> TRUE, photos |-> "enough", price |-> p, vin |-> NoVin] : p \in Prices}
    \cup {[described |-> FALSE, photos |-> "none", price |-> 1, vin |-> v] : v \in Vins}

\* A complete draft, and a car on sale, of one price and date.
MCFirstRows ==
    {[owner |-> d, status |-> st, created |-> 0, published |-> IF st = "draft" THEN 0 ELSE 1,
      described |-> TRUE, photos |-> TRUE, price |-> 1, vin |-> NoVin]
        : d \in Dealers, st \in {"draft", "active"}}

Symmetry == Permutations(Requests)
=============================================================================
