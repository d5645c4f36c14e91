-------------------------- MODULE MCCorrespondence ---------------------------
EXTENDS Correspondence, TLC

CONSTANTS d1, own, other

\* One car of the dealer, and one that only a seller offers.
MCOwnerOf == own :> d1 @@ other :> NoDealer

\* A dealer with no review yet, and one with eleven: 51 stars are 4.636 on
\* average, but the rating that was rounded with every one of them is 4.65.
MCFirstReviews == {<<>>, <<3, 5, 5, 5, 5, 5, 5, 5, 4, 4, 5>>}

Symmetry == Permutations(Requests) \cup Permutations(Docs)
=============================================================================
