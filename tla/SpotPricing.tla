------------------------------- MODULE SpotPricing -------------------------------
(***************************************************************************)
(* Spot prices (worker/src/jobs/spot-pricing.ts) of one type of GPU, and   *)
(* what a launch makes of them (workspaceService.ts, warm-pool.ts): a pass *)
(* sets the price of each region from the share of its warm pool that is   *)
(* free and from the time since the last rental; a cold launch locks the   *)
(* price it reads, and the session that starts minutes later is billed at  *)
(* it; a warm launch is billed at the price of the moment.  Neither looks  *)
(* at the region when it reads the price.                                  *)
(***************************************************************************)
EXTENDS Integers

CONSTANTS
    Regions,        \* rows of WarmPoolConfig of the type, one per region
    BasePrice,      \* basePriceCents: nothing changes the column's default (55)
    Ceiling,        \* the type's ceiling in cents (200 or 500)
    Rentals,        \* workspaces of customers
    MaxTarget,      \* bound: targetCount (50 in the route that sets it)
    MaxStock        \* bound: free warm workspaces of a region

ASSUME PriceAssumption ==
    /\ {BasePrice, Ceiling, MaxTarget, MaxStock} \subseteq Nat
    /\ 40 <= Ceiling

VARIABLES
    price,          \* region -> currentSpotPriceCents
    rentedAgo,      \* region -> time since lastRentalAt
    target,         \* region -> targetCount
    pricing,        \* the price pass: regions to do, and target and rentedAgo as it listed them
    rental          \* workspace -> where its launch is, and the cents it read or is billed at

spotVars == <<price, rentedAgo, target, pricing, rental>>

Floor == 40

\* Time since the last rental: none yet, up to twelve hours, and steps of six hours from
\* there, of which only the first three count.
Never == -2
Lately == -1
Idleness == {Never, Lately} \cup 0 .. 3

SpotTypeOK ==
    /\ price \in [Regions -> Nat]
    /\ rentedAgo \in [Regions -> Idleness]
    /\ target \in [Regions -> 0 .. MaxTarget]
    /\ pricing \in [todo : SUBSET Regions, ago : [Regions -> Idleness], target : [Regions -> 0 .. MaxTarget]]
    /\ rental \in [Rentals -> [at : {"none"}] \cup
                              [at : {"cold", "warm", "booting", "running"}, cents : Nat]]

-----------------------------------------------------------------------------
(* The price, in cents: the multiplier is 1.5 less the free share of the   *)
(* pool below one half, 1 up to the full pool, and a discount beyond.      *)

Rounded(n, d) == (2 * n + d) \div (2 * d)

Percent(ago) == IF ago = Never THEN 90 ELSE 100 - 5 * (IF ago = Lately THEN 0 ELSE ago)

RawCents(stock, goal, ago) ==
    IF goal = 0 \/ stock >= goal THEN Rounded(BasePrice * Percent(ago), 100)
    ELSE IF 2 * stock < goal THEN Rounded(BasePrice * (3 * goal - 2 * stock), 2 * goal)
    ELSE BasePrice

Least(a, b) == IF a < b THEN a ELSE b

SpotCents(stock, goal, ago) ==
    LET raw == RawCents(stock, goal, ago) IN Least(Ceiling, IF raw < Floor THEN Floor ELSE raw)

-----------------------------------------------------------------------------
(* The pass.                                                               *)

SpotInit ==
    /\ price = [r \in Regions |-> BasePrice]
    /\ rentedAgo = [r \in Regions |-> Never]
    /\ target = [r \in Regions |-> Least(1, MaxTarget)]
    /\ pricing = [todo |-> {}, ago |-> rentedAgo, target |-> target]
    /\ rental = [w \in Rentals |-> [at |-> "none"]]

ListConfigs ==
    /\ pricing.todo = {}
    /\ pricing' = [todo |-> Regions, ago |-> rentedAgo, target |-> target]
    /\ UNCHANGED <<price, rentedAgo, target, rental>>

PriceRegion(r) ==
    /\ r \in pricing.todo
    /\ \E stock \in 0 .. MaxStock :
          price' = [price EXCEPT ![r] = SpotCents(stock, pricing.target[r], pricing.ago[r])]
    /\ pricing' = [pricing EXCEPT !.todo = @ \ {r}]
    /\ UNCHANGED <<rentedAgo, target, rental>>

\* Time passes; an author sets the size of a pool (author/usage.ts).
TimeWithoutRental(r) ==
    /\ rentedAgo[r] \in Lately .. 2
    /\ rentedAgo' = [rentedAgo EXCEPT ![r] = @ + 1]
    /\ UNCHANGED <<price, target, pricing, rental>>

UpdateWarmPool(r) ==
    /\ \E t \in 0 .. MaxTarget : target' = [target EXCEPT ![r] = t]
    /\ UNCHANGED <<price, rentedAgo, pricing, rental>>

-----------------------------------------------------------------------------
(* Launches.                                                               *)

\* The price of any row of the type is read, and that row's last rental is now.
ReadPrice(w, path) ==
    /\ rental[w].at = "none"
    /\ \E r \in Regions :
          /\ rental' = [rental EXCEPT ![w] = [at |-> path, cents |-> price[r]]]
          /\ rentedAgo' = [rentedAgo EXCEPT ![r] = Lately]
    /\ UNCHANGED <<price, target, pricing>>

\* The workspace is created with the price in lockedSpotPriceCents.
CreateColdWorkspace(w) ==
    /\ rental[w].at = "cold"
    /\ rental' = [rental EXCEPT ![w].at = "booting"]
    /\ UNCHANGED <<price, rentedAgo, target, pricing>>

\* Fault: the session is billed at the price of the moment it starts.
StartColdAtSpot(w) ==
    /\ rental[w].at = "booting"
    /\ \E r \in Regions : rental' = [rental EXCEPT ![w] = [at |-> "running", cents |-> price[r]]]
    /\ UNCHANGED <<price, rentedAgo, target, pricing>>

StartColdSession(w) ==
    /\ rental[w].at = "booting"
    /\ rental' = [rental EXCEPT ![w].at = "running"]
    /\ UNCHANGED <<price, rentedAgo, target, pricing>>

StartWarmSession(w) ==
    /\ rental[w].at = "warm"
    /\ rental' = [rental EXCEPT ![w].at = "running"]
    /\ UNCHANGED <<price, rentedAgo, target, pricing>>

EndRental(w) ==
    /\ rental[w].at # "none"
    /\ rental' = [rental EXCEPT ![w] = [at |-> "none"]]
    /\ UNCHANGED <<price, rentedAgo, target, pricing>>

SpotNext ==
    \/ ListConfigs
    \/ \E r \in Regions : PriceRegion(r) \/ TimeWithoutRental(r) \/ UpdateWarmPool(r)
    \/ \E w \in Rentals :
          \/ \E path \in {"cold", "warm"} : ReadPrice(w, path)
          \/ CreateColdWorkspace(w) \/ StartColdSession(w) \/ StartWarmSession(w) \/ EndRental(w)

SpotSpec == SpotInit /\ [][SpotNext]_spotVars

-----------------------------------------------------------------------------
(* Properties.                                                             *)

\* The price a customer's launch read is the price the session is billed at, however many
\* price passes run while the workspace boots (no bait and switch).
PriceReadIsKept ==
    [][\A w \in Rentals :
          rental[w].at # "none" /\ rental'[w].at # "none" => rental'[w].cents = rental[w].cents]_spotVars

\* A pool with more of its target free is never dearer, and every price keeps within the
\* floor and the ceiling.
SpotPriceSound ==
    \A goal \in 0 .. MaxTarget, ago \in Idleness, s \in 0 .. MaxStock, t \in 0 .. MaxStock :
        /\ Floor <= SpotCents(s, goal, ago) /\ SpotCents(s, goal, ago) <= Ceiling
        /\ s <= t => SpotCents(t, goal, ago) <= SpotCents(s, goal, ago)
=============================================================================
