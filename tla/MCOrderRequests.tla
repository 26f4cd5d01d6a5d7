--------------------------- MODULE MCOrderRequests --------------------------
(* OrderRequests for TLC: the model values of the configurations.          *)
EXTENDS OrderRequests, TLC

CONSTANTS p1, k1, k2, c1, small, large, empty

\* Slots, page keys and valid payloads are interchangeable.
Interchangeable == Permutations(Slots) \cup Permutations(PageKeys)
                     \cup Permutations(Valid)
=============================================================================
