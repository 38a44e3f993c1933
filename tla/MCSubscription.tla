--------------------------- MODULE MCSubscription ---------------------------
(* TLC instances of Subscription: an address and a block subscription, and  *)
(* a server that gives out the lowest free number on each socket.           *)
EXTENDS Subscription, TLC

CONSTANTS addr, blocks

MCFilters == addr :> 2 @@ blocks :> 1

MCLowest(free) == {i \in free : \A j \in free : i <= j}

=============================================================================
