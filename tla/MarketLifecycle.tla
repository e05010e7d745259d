--------------------------- MODULE MarketLifecycle ---------------------------
(***************************************************************************)
(* What deploying promises of each market, whatever the scripts do and     *)
(* wherever they are stopped: a market is created with nothing in it, gets *)
(* its pool once, lists a reserve once and only when its oracle prices it, *)
(* configures a reserve only when it is listed and never takes a listing,  *)
(* a configuration or a pause back.  One market moves at a time.           *)
(***************************************************************************)
CONSTANT Asset

VARIABLE market    \* address provider |-> [pool, priced, listed, enabled, paused]

NewMarket == [pool |-> FALSE, priced |-> {}, listed |-> {}, enabled |-> {}, paused |-> FALSE]

Init == market = << >>

Create ==
    \E p \in DOMAIN market' \ DOMAIN market :
        market' = [q \in DOMAIN market \union {p} |-> IF q = p THEN NewMarket ELSE market[q]]

CreatePool(p) ==
    /\ ~market[p].pool
    /\ market' = [market EXCEPT ![p].pool = TRUE]

(* The prices of what is listed are never withdrawn.                       *)
Price(p) ==
    /\ market' = [market EXCEPT ![p].priced = market'[p].priced]
    /\ market[p].listed \subseteq market'[p].priced
    /\ market'[p].priced \subseteq Asset

List(p) ==
    \E a \in market[p].priced \ market[p].listed :
        /\ market[p].pool
        /\ market' = [market EXCEPT ![p].listed = @ \union {a}]

(* As collateral; several reserves at a time.                              *)
Enable(p) ==
    /\ market' = [market EXCEPT ![p].enabled = market'[p].enabled]
    /\ market[p].enabled \subseteq market'[p].enabled
    /\ market'[p].enabled \subseteq market[p].listed

Pause(p) ==
    /\ market[p].pool
    /\ market' = [market EXCEPT ![p].paused = TRUE]

Next == Create \/ \E p \in DOMAIN market : CreatePool(p) \/ Price(p) \/ List(p) \/ Enable(p) \/ Pause(p)

Spec == Init /\ [][Next]_market
----------------------------------------------------------------------------
(* The consequence that users rely on: no reserve is listed without a      *)
(* price, and none is collateral that is not listed.                       *)
ListedArePriced ==
    \A p \in DOMAIN market :
        /\ market[p].listed \subseteq market[p].priced
        /\ market[p].enabled \subseteq market[p].listed
=============================================================================
