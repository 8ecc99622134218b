-------------------------- MODULE PaidServicesProofs ---------------------------
(***************************************************************************)
(* What PaidServices promises for any engagements, requests, prices and    *)
(* bounds.  The sums over reservations and sales change by one summand in  *)
(* a step; the invariant ties each reservation to the engagement, the      *)
(* workspace or the purchase it is for, and the counters a purchase has    *)
(* read to the sales there were.                                           *)
(***************************************************************************)
EXTENDS PaidServices, FiniteSetTheorems, TLAPS

Holdings == [status : {"none", "pending", "confirmed", "released"}, amount : Nat]
Sales == [earnings : Nat, downloads : Nat]

--------------------------------------------------------------------------------
(* Sums.                                                                   *)

LEMMA CreditsOfOne ==
    ASSUME NEW x, NEW n \in Nat
    PROVE  IsFiniteSet({x} \X (1 .. n)) /\ Cardinality({x} \X (1 .. n)) = n
<1>1. IsFiniteSet({x}) /\ Cardinality({x}) = 1
  BY FS_Singleton
<1>2. IsFiniteSet(1 .. n) /\ Cardinality(1 .. n) = n
  BY FS_Interval
<1>3. /\ IsFiniteSet({x} \X (1 .. n))
      /\ Cardinality({x} \X (1 .. n)) = Cardinality({x}) * Cardinality(1 .. n)
  BY <1>1, <1>2, FS_Product
<1>. QED
  BY <1>1, <1>2, <1>3

LEMMA TotalType ==
    ASSUME NEW S, IsFiniteSet(S), NEW amount \in [S -> Nat]
    PROVE  IsFiniteSet(Credits(amount)) /\ Total(amount) \in Nat
<1> DEFINE f == [x \in S |-> {x} \X (1 .. amount[x])]
           T == {{x} \X (1 .. amount[x]) : x \in DOMAIN amount}
<1>1. f \in Surjection(S, T)
  BY DEF Surjection
<1>2. IsFiniteSet(T)
  BY <1>1, FS_Surjection
<1>3. ASSUME NEW u \in T PROVE IsFiniteSet(u)
  <2>1. PICK x \in S : u = {x} \X (1 .. amount[x])
    OBVIOUS
  <2>2. amount[x] \in Nat
    OBVIOUS
  <2>. QED
    BY <2>1, <2>2, CreditsOfOne
<1>4. IsFiniteSet(UNION T)
  BY <1>2, <1>3, FS_UNION
<1>. QED
  BY <1>4, FS_CardinalityType DEF Total, Credits

LEMMA TotalOfNothing ==
    ASSUME NEW amount, DOMAIN amount = {}
    PROVE  Total(amount) = 0
<1>1. Credits(amount) = {}
  BY DEF Credits
<1>. QED
  BY <1>1, FS_EmptySet DEF Total

(* One more amount.                                                        *)
LEMMA TotalOfMore ==
    ASSUME NEW S, IsFiniteSet(S), NEW x, x \notin S,
           NEW a \in [S -> Nat], NEW b \in [S \cup {x} -> Nat],
           \A y \in S : b[y] = a[y]
    PROVE  Total(b) = Total(a) + b[x]
<1> DEFINE C == {x} \X (1 .. b[x])
<1>1. Credits(b) = Credits(a) \cup C
  <2>1. ASSUME NEW u \in Credits(b) PROVE u \in Credits(a) \cup C
    <3>1. PICK y \in S \cup {x} : u \in {y} \X (1 .. b[y])
      BY <2>1 DEF Credits
    <3>2. CASE y = x
      BY <3>1, <3>2
    <3>3. CASE y \in S
      BY <3>1, <3>3 DEF Credits
    <3>. QED
      BY <3>1, <3>2, <3>3
  <2>2. ASSUME NEW u \in Credits(a) PROVE u \in Credits(b)
    <3>1. PICK y \in S : u \in {y} \X (1 .. a[y])
      BY <2>2 DEF Credits
    <3>. QED
      BY <3>1 DEF Credits
  <2>3. C \subseteq Credits(b)
    BY DEF Credits
  <2>. QED
    BY <2>1, <2>2, <2>3
<1>2. Credits(a) \cap C = {}
  BY DEF Credits
<1>3. b[x] \in Nat
  OBVIOUS
<1>4. IsFiniteSet(C) /\ Cardinality(C) = b[x]
  BY <1>3, CreditsOfOne
<1>5. IsFiniteSet(Credits(a)) /\ Total(a) \in Nat
  BY TotalType
<1>. HIDE DEF C
<1>6. Cardinality(Credits(a) \cup C)
        = Cardinality(Credits(a)) + Cardinality(C) - Cardinality(Credits(a) \cap C)
  BY <1>4, <1>5, FS_Union
<1>7. Cardinality(Credits(a) \cap C) = 0
  BY <1>2, FS_EmptySet
<1>8. Total(b) = Cardinality(Credits(a) \cup C) /\ Total(a) = Cardinality(Credits(a))
  BY <1>1 DEF Total
<1>. QED
  BY <1>3, <1>4, <1>5, <1>6, <1>7, <1>8

--------------------------------------------------------------------------------
(* What the account has been charged, what is reserved and what was sold.  *)

SoldIn(p) == {s \in Requests : p[s] # Unsold}
PendingIn(h) == {r \in Paid \cup Requests : h[r].status = "pending"}
ChargedBy(W, h) == W \cup {e \in Engagements : h[e].status = "confirmed"}

CostTotal(S) == Total([c \in S |-> Cost[c]])
PriceTotal(p) == Total([s \in SoldIn(p) |-> Price[p[s]]])
ShareTotal(p) == Total([s \in SoldIn(p) |-> (Price[p[s]] * SharePct) \div 100])
PendingTotal(h) == Total([r \in PendingIn(h) |-> h[r].amount])

LEMMA FiniteIds ==
    /\ IsFiniteSet(Requests)
    /\ IsFiniteSet(Paid)
    /\ IsFiniteSet(Paid \cup Requests)
<1>1. /\ IsFiniteSet(Engagements) /\ IsFiniteSet(Allocations)
      /\ IsFiniteSet(Workspaces) /\ IsFiniteSet(Requests)
  BY PaidAssumption
<1>2. IsFiniteSet(Engagements \cup Allocations)
  BY <1>1, FS_Union
<1>3. IsFiniteSet(Paid)
  BY <1>1, <1>2, FS_Union DEF Paid
<1>. QED
  BY <1>1, <1>3, FS_Union

LEMMA CostMore ==
    ASSUME NEW S \in SUBSET Paid, NEW x \in Paid
    PROVE  /\ CostTotal(S) \in Nat
           /\ x \notin S => CostTotal(S \cup {x}) = CostTotal(S) + Cost[x]
<1>1. IsFiniteSet(S)
  BY FiniteIds, FS_Subset
<1> DEFINE a == [c \in S |-> Cost[c]]
           b == [c \in S \cup {x} |-> Cost[c]]
<1>2. /\ a \in [S -> Nat] /\ b \in [S \cup {x} -> Nat]
      /\ \A y \in S : b[y] = a[y]
      /\ b[x] = Cost[x]
  BY PaidAssumption
<1>3. Total(a) = CostTotal(S) /\ Total(b) = CostTotal(S \cup {x})
  BY DEF CostTotal
<1>. HIDE DEF a, b
<1>4. Total(a) \in Nat
  BY <1>1, <1>2, TotalType
<1>5. ASSUME x \notin S PROVE Total(b) = Total(a) + b[x]
  BY <1>1, <1>2, <1>5, TotalOfMore
<1>. QED
  BY <1>2, <1>3, <1>4, <1>5

LEMMA ShareType ==
    ASSUME NEW t \in Templates
    PROVE  Share(t) \in Nat /\ Price[t] \in Nat /\ (Price[t] * SharePct) \div 100 \in Nat
<1>1. Price[t] \in Nat /\ SharePct \in Nat
  BY PaidAssumption
<1>2. Price[t] * SharePct \in Nat
  BY <1>1
<1>. QED
  BY <1>1, <1>2 DEF Share

LEMMA SaleTypes ==
    ASSUME NEW p \in [Requests -> Templates \cup {Unsold}]
    PROVE  /\ IsFiniteSet(SoldIn(p)) /\ Cardinality(SoldIn(p)) \in Nat
           /\ PriceTotal(p) \in Nat /\ ShareTotal(p) \in Nat
           /\ [s \in SoldIn(p) |-> Price[p[s]]] \in [SoldIn(p) -> Nat]
           /\ [s \in SoldIn(p) |-> (Price[p[s]] * SharePct) \div 100] \in [SoldIn(p) -> Nat]
<1>1. SoldIn(p) \subseteq Requests /\ \A s \in SoldIn(p) : p[s] \in Templates
  BY DEF SoldIn
<1>2. IsFiniteSet(SoldIn(p)) /\ Cardinality(SoldIn(p)) \in Nat
  BY <1>1, FiniteIds, FS_Subset, FS_CardinalityType
<1>3. [s \in SoldIn(p) |-> Price[p[s]]] \in [SoldIn(p) -> Nat]
  BY <1>1, ShareType
<1>4. [s \in SoldIn(p) |-> (Price[p[s]] * SharePct) \div 100] \in [SoldIn(p) -> Nat]
  BY <1>1, ShareType
<1>5. PriceTotal(p) \in Nat
  BY <1>2, <1>3, TotalType DEF PriceTotal
<1>6. ShareTotal(p) \in Nat
  BY <1>2, <1>4, TotalType DEF ShareTotal
<1>. QED
  BY <1>2, <1>3, <1>4, <1>5, <1>6

(* One sale more.                                                          *)
LEMMA SaleMore ==
    ASSUME NEW p \in [Requests -> Templates \cup {Unsold}], NEW s \in Requests,
           p[s] = Unsold, NEW t \in Templates, NEW q \in [Requests -> Templates \cup {Unsold}],
           q[s] = t, \A x \in Requests \ {s} : q[x] = p[x]
    PROVE  /\ PriceTotal(q) = PriceTotal(p) + Price[t]
           /\ ShareTotal(q) = ShareTotal(p) + Share(t)
           /\ Cardinality(SoldIn(q)) = Cardinality(SoldIn(p)) + 1
<1>1. q \in [Requests -> Templates \cup {Unsold}] /\ q[s] = t
  OBVIOUS
<1>2. SoldIn(q) = SoldIn(p) \cup {s} /\ s \notin SoldIn(p)
  BY PaidAssumption DEF SoldIn, Unsold
<1>3. \A x \in SoldIn(p) : q[x] = p[x]
  BY <1>2 DEF SoldIn
<1>4. IsFiniteSet(SoldIn(p))
  BY SaleTypes
<1>5. Cardinality(SoldIn(q)) = Cardinality(SoldIn(p)) + 1
  BY <1>2, <1>4, FS_AddElement
<1>6. PriceTotal(q) = PriceTotal(p) + Price[t]
  <2> DEFINE a == [x \in SoldIn(p) |-> Price[p[x]]]
             b == [x \in SoldIn(q) |-> Price[q[x]]]
  <2>1. a \in [SoldIn(p) -> Nat] /\ b \in [SoldIn(p) \cup {s} -> Nat]
    <3>1. b \in [SoldIn(q) -> Nat]
      BY <1>1, SaleTypes
    <3>. QED
      BY <3>1, <1>2, SaleTypes
  <2>2. ASSUME NEW x \in SoldIn(p) PROVE b[x] = a[x]
    <3>1. x \in SoldIn(q) /\ q[x] = p[x]
      BY <1>2, <1>3
    <3>. QED
      BY <3>1
  <2>4. b[s] = Price[t]
    BY <1>1, <1>2
  <2>3. Total(a) = PriceTotal(p) /\ Total(b) = PriceTotal(q)
    BY DEF PriceTotal
  <2>. HIDE DEF a, b
  <2>. QED
    BY <1>2, <1>4, <2>1, <2>2, <2>3, <2>4, TotalOfMore
<1>7. ShareTotal(q) = ShareTotal(p) + Share(t)
  <2> DEFINE a == [x \in SoldIn(p) |-> (Price[p[x]] * SharePct) \div 100]
             b == [x \in SoldIn(q) |-> (Price[q[x]] * SharePct) \div 100]
  <2>1. a \in [SoldIn(p) -> Nat] /\ b \in [SoldIn(p) \cup {s} -> Nat]
    <3>1. b \in [SoldIn(q) -> Nat]
      BY <1>1, SaleTypes
    <3>. QED
      BY <3>1, <1>2, SaleTypes
  <2>2. ASSUME NEW x \in SoldIn(p) PROVE b[x] = a[x]
    <3>1. x \in SoldIn(q) /\ q[x] = p[x]
      BY <1>2, <1>3
    <3>. QED
      BY <3>1
  <2>4. b[s] = Share(t)
    BY <1>1, <1>2 DEF Share
  <2>3. Total(a) = ShareTotal(p) /\ Total(b) = ShareTotal(q)
    BY DEF ShareTotal
  <2>. HIDE DEF a, b
  <2>5. Total(b) = Total(a) + b[s]
    BY <1>2, <1>4, <2>1, <2>2, TotalOfMore
  <2>. QED
    BY <2>3, <2>4, <2>5, ShareType
<1>. QED
  BY <1>1, <1>5, <1>6, <1>7

LEMMA PendingTypes ==
    ASSUME NEW h \in [Paid \cup Requests -> Holdings]
    PROVE  /\ IsFiniteSet(PendingIn(h))
           /\ PendingTotal(h) \in Nat
           /\ [r \in PendingIn(h) |-> h[r].amount] \in [PendingIn(h) -> Nat]
<1>1. PendingIn(h) \subseteq Paid \cup Requests
  BY DEF PendingIn
<1>2. IsFiniteSet(PendingIn(h))
  BY <1>1, FiniteIds, FS_Subset
<1>3. [r \in PendingIn(h) |-> h[r].amount] \in [PendingIn(h) -> Nat]
  BY <1>1 DEF Holdings
<1>. QED
  BY <1>2, <1>3, TotalType DEF PendingTotal

(* A reservation more is pending, ...                                      *)
LEMMA PendingMore ==
    ASSUME NEW h \in [Paid \cup Requests -> Holdings], NEW r \in Paid \cup Requests,
           NEW g \in [Paid \cup Requests -> Holdings],
           h[r].status # "pending", g[r].status = "pending",
           \A x \in (Paid \cup Requests) \ {r} : g[x] = h[x]
    PROVE  PendingTotal(g) = PendingTotal(h) + g[r].amount
<1>1. PendingIn(g) = PendingIn(h) \cup {r} /\ r \notin PendingIn(h)
  BY DEF PendingIn
<1>2. \A x \in PendingIn(h) : g[x] = h[x]
  BY <1>1 DEF PendingIn
<1> DEFINE a == [x \in PendingIn(h) |-> h[x].amount]
           b == [x \in PendingIn(g) |-> g[x].amount]
<1>3. a \in [PendingIn(h) -> Nat] /\ b \in [PendingIn(h) \cup {r} -> Nat]
  <2>1. b \in [PendingIn(g) -> Nat]
    BY PendingTypes
  <2>. QED
    BY <2>1, <1>1, PendingTypes
<1>4. (\A x \in PendingIn(h) : b[x] = a[x]) /\ b[r] = g[r].amount
  BY <1>1, <1>2
<1>5. Total(a) = PendingTotal(h) /\ Total(b) = PendingTotal(g)
  BY DEF PendingTotal
<1>6. IsFiniteSet(PendingIn(h))
  BY PendingTypes
<1>. HIDE DEF a, b
<1>. QED
  BY <1>1, <1>3, <1>4, <1>5, <1>6, TotalOfMore

(* ... or a reservation that is not pending changes.                       *)
LEMMA PendingSame ==
    ASSUME NEW h, NEW g, NEW r \in Paid \cup Requests,
           h[r].status # "pending", g[r].status # "pending",
           \A x \in (Paid \cup Requests) \ {r} : g[x] = h[x]
    PROVE  PendingTotal(g) = PendingTotal(h)
<1>1. PendingIn(g) = PendingIn(h) /\ r \notin PendingIn(h)
  BY DEF PendingIn
<1>2. \A x \in PendingIn(h) : g[x] = h[x]
  BY <1>1 DEF PendingIn
<1>3. [x \in PendingIn(h) |-> h[x].amount] = [x \in PendingIn(g) |-> g[x].amount]
  BY <1>1, <1>2
<1>. QED
  BY <1>3 DEF PendingTotal

--------------------------------------------------------------------------------
(* The invariant.                                                          *)

Typed ==
    /\ balance \in Int
    /\ granted \in 0 .. MaxGranted
    /\ held \in [Paid \cup Requests -> Holdings]
    /\ engagement \in [Engagements ->
                    [status : {NotCreated, "draft", "running", "completed", "failed"},
                     deducted : BOOLEAN]]
    /\ sections \in [Engagements -> BOOLEAN]
    /\ workspaces \subseteq Workspaces
    /\ asked \in [Engagements -> 0 .. MaxRuns]
    /\ queue \in [Engagements -> Nat]
    /\ running \subseteq Engagements
    /\ request \in [Requests -> [pc : {"idle", "buying", "done"},
                                 template : Templates \cup {Unsold}, seen : Sales]]
    /\ purchases \in [Requests -> Templates \cup {Unsold}]
    /\ contributor \in Sales
    /\ crashes \in 0 .. MaxCrashes

(* Only what was created is queued and run, its reservation is of its      *)
(* cost, and the reservation goes with the results.                        *)
EngagementOK(e) ==
    /\ queue[e] <= asked[e]
    /\ e \in running => queue[e] > 0
    /\ queue[e] > 0 => engagement[e].status # NotCreated
    /\ engagement[e].status = NotCreated <=> held[e].status = "none"
    /\ held[e].status # "none" => held[e].amount = Cost[e]
    /\ held[e].status = "confirmed" => sections[e]
    /\ sections[e] \/ engagement[e].deducted \/ engagement[e].status = "failed"
            => held[e].status \in {"confirmed", "released"}

WorkspacesPaid == \A w \in workspaces : held[w].status = "confirmed"

(* The counters a purchase has read were covered by the sales.             *)
RequestOK(s) ==
    /\ request[s].pc = "buying" => request[s].template \in Templates
    /\ request[s].pc # "done" => purchases[s] = Unsold
    /\ request[s].seen.earnings <= ShareTotal(purchases)
    /\ request[s].seen.downloads <= Cardinality(SoldIn(purchases))

Spent == granted - balance = CostTotal(ChargedBy(workspaces, held)) + PriceTotal(purchases)

Covered == PendingTotal(held) <= balance

Earned ==
    /\ contributor.earnings <= ShareTotal(purchases)
    /\ contributor.downloads <= Cardinality(SoldIn(purchases))

IInv ==
    /\ Typed
    /\ \A e \in Engagements : EngagementOK(e)
    /\ WorkspacesPaid
    /\ \A s \in Requests : RequestOK(s)
    /\ Spent
    /\ Covered
    /\ Earned

--------------------------------------------------------------------------------
(* The calls of the credit account.                                        *)

LEMMA SameCount == \A S : Account!Cardinality(S) = Cardinality(S)
BY DEF Account!Cardinality, Cardinality, Account!IsFiniteSet, IsFiniteSet

LEMMA AvailableIs == Account!Available = balance - PendingTotal(held)
BY SameCount DEF Account!Available, Account!Pending, Account!Total, Account!Credits,
       PendingTotal, PendingIn, Total, Credits

Others(r) == \A x \in (Paid \cup Requests) \ {r} : held'[x] = held[x]

LEMMA ReserveCall ==
    ASSUME Typed, Covered, NEW r \in Paid \cup Requests, NEW n \in Nat, Account!Reserve(r, n)
    PROVE  /\ held[r].status = "none" /\ held' \in [Paid \cup Requests -> Holdings]
           /\ held'[r] = [status |-> "pending", amount |-> n] /\ Others(r)
           /\ balance' = balance /\ Covered'
<1>1. /\ held[r] = [status |-> "none", amount |-> 0]
      /\ n <= Account!Available
      /\ held' = [held EXCEPT ![r] = [status |-> "pending", amount |-> n]]
      /\ balance' = balance
  BY DEF Account!Reserve, Account!NoReservation, Account!Becomes
<1>2. held \in [Paid \cup Requests -> Holdings] /\ balance \in Int
  BY DEF Typed
<1>3. [status |-> "pending", amount |-> n] \in Holdings
  BY DEF Holdings
<1>4. /\ held' \in [Paid \cup Requests -> Holdings]
      /\ held'[r] = [status |-> "pending", amount |-> n]
      /\ Others(r)
  BY <1>1, <1>2, <1>3 DEF Others
<1>5. held[r].status # "pending" /\ held'[r].status = "pending" /\ held'[r].amount = n
  BY <1>1, <1>4
<1>6. PendingTotal(held') = PendingTotal(held) + n
  BY <1>1, <1>2, <1>4, <1>5, PendingMore DEF Others
<1>7. PendingTotal(held) \in Nat
  BY <1>2, PendingTypes
<1>8. PendingTotal(held') <= balance'
  BY <1>1, <1>2, <1>6, <1>7, AvailableIs
<1>. QED
  BY <1>1, <1>4, <1>8 DEF Covered

(* Confirming takes the reserved credits, releasing keeps them.            *)
LEMMA SettleCall ==
    ASSUME Typed, Covered, NEW r \in Paid \cup Requests,
           Account!Confirm(r) \/ Account!Release(r)
    PROVE  /\ held[r].status = "pending" /\ held' \in [Paid \cup Requests -> Holdings]
           /\ held'[r].amount = held[r].amount /\ Others(r)
           /\ Account!Confirm(r) => /\ held'[r].status = "confirmed"
                                    /\ balance' = balance - held[r].amount
           /\ Account!Release(r) => held'[r].status = "released" /\ balance' = balance
           /\ Covered'
<1>1. held \in [Paid \cup Requests -> Holdings] /\ balance \in Int
  BY DEF Typed
<1>2. held[r].amount \in Nat
  BY <1>1 DEF Holdings
<1>3. PICK status \in {"confirmed", "released"} :
        /\ held[r].status = "pending"
        /\ held' = [held EXCEPT ![r] = [status |-> status, amount |-> held[r].amount]]
        /\ balance' = IF status = "confirmed" THEN balance - held[r].amount ELSE balance
        /\ Account!Confirm(r) => status = "confirmed"
        /\ Account!Release(r) => status = "released"
  <2>1. CASE Account!Confirm(r)
    <3>1. held'[r].status = "confirmed"
      BY <1>1, <2>1 DEF Account!Confirm, Account!Becomes
    <3>2. ~Account!Release(r)
      BY <1>1, <3>1 DEF Account!Release, Account!Becomes
    <3>. QED
      BY <2>1, <3>2 DEF Account!Confirm, Account!Becomes
  <2>2. CASE Account!Release(r)
    <3>1. held'[r].status = "released"
      BY <1>1, <2>2 DEF Account!Release, Account!Becomes
    <3>2. ~Account!Confirm(r)
      BY <1>1, <3>1 DEF Account!Confirm, Account!Becomes
    <3>. QED
      BY <2>2, <3>2 DEF Account!Release, Account!Becomes
  <2>. QED
    BY <2>1, <2>2
<1>4. [status |-> status, amount |-> held[r].amount] \in Holdings
  BY <1>2 DEF Holdings
<1>5. /\ held' \in [Paid \cup Requests -> Holdings]
      /\ held'[r] = [status |-> status, amount |-> held[r].amount]
      /\ Others(r)
  BY <1>1, <1>3, <1>4 DEF Others
<1>6. held'[r].status = status /\ held'[r].amount = held[r].amount
  BY <1>5
<1>7. PendingTotal(held) = PendingTotal(held') + held[r].amount
  <2>1. \A x \in (Paid \cup Requests) \ {r} : held[x] = held'[x]
    BY <1>5 DEF Others
  <2>. QED
    BY <1>1, <1>3, <1>5, <1>6, <2>1, PendingMore
<1>8. PendingTotal(held') \in Nat
  BY <1>5, PendingTypes
<1>9. PendingTotal(held') <= balance'
  BY <1>1, <1>2, <1>3, <1>7, <1>8 DEF Covered
<1>. QED
  BY <1>3, <1>5, <1>6, <1>9 DEF Covered

LEMMA PayCall ==
    ASSUME Typed, Covered, NEW r \in Paid \cup Requests, NEW n \in Nat, Account!Pay(r, n)
    PROVE  /\ held[r].status = "none" /\ held' \in [Paid \cup Requests -> Holdings]
           /\ held'[r] = [status |-> "confirmed", amount |-> n] /\ Others(r)
           /\ balance' = balance - n /\ Covered'
<1>1. /\ held[r] = [status |-> "none", amount |-> 0]
      /\ n <= Account!Available
      /\ held' = [held EXCEPT ![r] = [status |-> "confirmed", amount |-> n]]
      /\ balance' = balance - n
  BY DEF Account!Pay, Account!NoReservation, Account!Becomes
<1>2. held \in [Paid \cup Requests -> Holdings] /\ balance \in Int
  BY DEF Typed
<1>3. [status |-> "confirmed", amount |-> n] \in Holdings
  BY DEF Holdings
<1>4. /\ held' \in [Paid \cup Requests -> Holdings]
      /\ held'[r] = [status |-> "confirmed", amount |-> n]
      /\ Others(r)
  BY <1>1, <1>2, <1>3 DEF Others
<1>5. held[r].status # "pending" /\ held'[r].status # "pending"
  BY <1>1, <1>4
<1>6. PendingTotal(held') = PendingTotal(held)
  BY <1>4, <1>5, PendingSame DEF Others
<1>7. PendingTotal(held) \in Nat
  BY <1>2, PendingTypes
<1>8. PendingTotal(held') <= balance'
  BY <1>1, <1>2, <1>6, <1>7, AvailableIs
<1>. QED
  BY <1>1, <1>4, <1>8 DEF Covered

--------------------------------------------------------------------------------
(* What a step leaves alone.                                               *)

LEMMA AccountKept ==
    ASSUME Spent, Covered, UNCHANGED <<account, granted, workspaces, purchases>>
    PROVE  Spent' /\ Covered'
BY DEF Spent, Covered, account

LEMMA MarketKept ==
    ASSUME IInv, UNCHANGED market
    PROVE  (\A s \in Requests : RequestOK(s)') /\ Earned'
BY DEF IInv, market, RequestOK, Earned

(* An engagement no step of the account or of its runs is about.           *)
LEMMA EngagementKept ==
    ASSUME NEW e \in Engagements, EngagementOK(e),
           queue'[e] = queue[e], asked'[e] = asked[e], e \in running' <=> e \in running,
           engagement'[e] = engagement[e], sections'[e] = sections[e], held'[e] = held[e]
    PROVE  EngagementOK(e)'
BY DEF EngagementOK

LEMMA ChargedType ==
    ASSUME Typed
    PROVE  /\ ChargedBy(workspaces, held) \in SUBSET Paid
           /\ CostTotal(ChargedBy(workspaces, held)) \in Nat
           /\ PriceTotal(purchases) \in Nat
<1>1. ChargedBy(workspaces, held) \in SUBSET Paid
  BY DEF Typed, ChargedBy, Paid
<1>2. PriceTotal(purchases) \in Nat
  BY SaleTypes DEF Typed
<1>3. CASE Paid = {}
  <2>1. ChargedBy(workspaces, held) = {}
    BY <1>1, <1>3
  <2>2. DOMAIN [c \in ChargedBy(workspaces, held) |-> Cost[c]] = {}
    BY <2>1
  <2>3. CostTotal(ChargedBy(workspaces, held)) = 0
    BY <2>2, TotalOfNothing DEF CostTotal
  <2>. QED
    BY <1>1, <1>2, <2>3
<1>4. CASE Paid # {}
  <2>1. PICK x : x \in Paid
    BY <1>4
  <2>. QED
    BY <1>1, <1>2, <2>1, CostMore
<1>. QED
  BY <1>3, <1>4

(* What is charged comes out of the balance.                               *)
LEMMA SpentMore ==
    ASSUME IInv, NEW n \in Nat, balance' = balance - n, granted' = granted,
           CostTotal(ChargedBy(workspaces', held')) + PriceTotal(purchases')
             = CostTotal(ChargedBy(workspaces, held)) + PriceTotal(purchases) + n
    PROVE  Spent'
<1>1. balance \in Int /\ granted \in Int
  BY DEF IInv, Typed
<1>2. CostTotal(ChargedBy(workspaces, held)) + PriceTotal(purchases) = granted - balance
  BY DEF IInv, Spent
<1>3. granted' - balance' = (granted - balance) + n
  BY <1>1
<1>4. granted' - balance' = CostTotal(ChargedBy(workspaces', held')) + PriceTotal(purchases')
  BY <1>2, <1>3
<1>. QED
  BY <1>4 DEF Spent

--------------------------------------------------------------------------------
(* One lemma for each action.                                              *)

LEMMA AddStep ==
    ASSUME IInv, NEW amount \in TopUps, add_credits(amount)
    PROVE  IInv'
<1>1. /\ granted + amount <= MaxGranted
      /\ balance' = balance + amount /\ held' = held
      /\ granted' = granted + amount
      /\ UNCHANGED <<fdd, workspaces, market>>
  BY DEF add_credits, Account!Add
<1>2. amount \in Nat /\ balance \in Int /\ granted \in 0 .. MaxGranted /\ MaxGranted \in Nat
  BY PaidAssumption DEF IInv, Typed
<1>3. Typed'
  <2>1. granted' \in 0 .. MaxGranted /\ balance' \in Int
    BY <1>1, <1>2
  <2>. QED
    BY <1>1, <2>1 DEF IInv, Typed, fdd, market
<1>4. \A e \in Engagements : EngagementOK(e)'
  BY <1>1, EngagementKept DEF IInv, fdd
<1>5. WorkspacesPaid'
  BY <1>1 DEF IInv, WorkspacesPaid
<1>6. (\A s \in Requests : RequestOK(s)') /\ Earned'
  BY <1>1, MarketKept
<1>7. Spent'
  <2>1. ChargedBy(workspaces, held)' = ChargedBy(workspaces, held) /\ purchases' = purchases
    BY <1>1 DEF market
  <2>. QED
    BY <1>1, <1>2, <2>1, ChargedType DEF IInv, Spent
<1>8. Covered'
  <2>1. PendingTotal(held) \in Nat /\ PendingTotal(held) <= balance
    BY PendingTypes DEF IInv, Typed, Covered
  <2>. QED
    BY <1>1, <1>2, <2>1 DEF Covered
<1>. QED
  BY <1>3, <1>4, <1>5, <1>6, <1>7, <1>8 DEF IInv

LEMMA CreateEngagementStep ==
    ASSUME IInv, NEW e \in Engagements, create_engagement(e)
    PROVE  IInv'
<1>1. /\ engagement[e].status = NotCreated
      /\ Account!Reserve(e, Cost[e])
      /\ engagement' = [engagement EXCEPT ![e] = Engagement("draft", FALSE)]
      /\ UNCHANGED <<granted, sections, asked, queue, running, crashes, workspaces, market>>
  BY DEF create_engagement
<1>2. e \in Paid /\ e \in Paid \cup Requests /\ Cost[e] \in Nat
  BY PaidAssumption DEF Paid
<1>3. /\ held[e].status = "none" /\ held' \in [Paid \cup Requests -> Holdings]
      /\ held'[e] = [status |-> "pending", amount |-> Cost[e]] /\ Others(e)
      /\ balance' = balance /\ Covered'
  BY <1>1, <1>2, ReserveCall DEF IInv
<1>4. Typed'
  <2>1. Engagement("draft", FALSE) \in
            [status : {NotCreated, "draft", "running", "completed", "failed"}, deducted : BOOLEAN]
    BY DEF Engagement
  <2>2. engagement' \in [Engagements ->
            [status : {NotCreated, "draft", "running", "completed", "failed"}, deducted : BOOLEAN]]
    BY <1>1, <2>1 DEF IInv, Typed
  <2>. QED
    BY <1>1, <1>3, <2>2 DEF IInv, Typed, market
<1>5. ASSUME NEW x \in Engagements PROVE EngagementOK(x)'
  <2>1. CASE x = e
    <3>1. engagement'[e].status = "draft" /\ ~engagement'[e].deducted
      BY <1>1 DEF IInv, Typed, Engagement
    <3>2. held'[e].status = "pending" /\ held'[e].amount = Cost[e]
      BY <1>3
    <3>3. EngagementOK(e)
      BY DEF IInv
    <3>4. ~sections[e]
      BY <1>1, <1>3, <3>3 DEF EngagementOK
    <3>. QED
      BY <1>1, <2>1, <3>1, <3>2, <3>3, <3>4 DEF EngagementOK, NotCreated
  <2>2. CASE x # e
    <3>1. engagement'[x] = engagement[x] /\ held'[x] = held[x]
      BY <1>1, <1>3, <2>2 DEF IInv, Typed, Others, Paid
    <3>. QED
      BY <1>1, <3>1, EngagementKept DEF IInv
  <2>. QED
    BY <2>1, <2>2
<1>6. ChargedBy(workspaces', held') = ChargedBy(workspaces, held)
  <2>1. held'[e].status # "confirmed" /\ held[e].status # "confirmed"
    BY <1>3
  <2>. QED
    BY <1>1, <1>3, <2>1 DEF ChargedBy, Others, Paid
<1>7. WorkspacesPaid'
  <2>1. \A w \in workspaces : w # e /\ w \in Paid \cup Requests
    BY PaidAssumption DEF IInv, Typed, Paid
  <2>. QED
    BY <1>1, <1>3, <2>1 DEF IInv, WorkspacesPaid, Others
<1>8. Spent'
  BY <1>1, <1>3, <1>6 DEF IInv, Spent, market
<1>9. (\A s \in Requests : RequestOK(s)') /\ Earned'
  BY <1>1, MarketKept
<1>. QED
  BY <1>3, <1>4, <1>5, <1>7, <1>8, <1>9 DEF IInv

(* A step of the engagements that leaves the account alone.                *)
LEMMA FddStep ==
    ASSUME IInv, UNCHANGED <<account, granted, workspaces, market>>, Typed',
           \A e \in Engagements : EngagementOK(e)'
    PROVE  IInv'
<1>1. Spent' /\ Covered'
  BY AccountKept DEF IInv, market
<1>2. (\A s \in Requests : RequestOK(s)') /\ Earned'
  BY MarketKept
<1>3. WorkspacesPaid'
  BY DEF IInv, WorkspacesPaid, account
<1>. QED
  BY <1>1, <1>2, <1>3 DEF IInv

LEMMA RunEngagementEndpointStep ==
    ASSUME IInv, NEW e \in Engagements, run_engagement_endpoint(e)
    PROVE  IInv'
<1>1. /\ engagement[e].status # NotCreated /\ asked[e] < MaxRuns
      /\ asked' = [asked EXCEPT ![e] = @ + 1]
      /\ UNCHANGED <<account, granted, sections, running, crashes, workspaces, market>>
  BY DEF run_engagement_endpoint
<1>2. PICK sent \in BOOLEAN, saved \in BOOLEAN :
        /\ queue' = [queue EXCEPT ![e] = IF sent THEN @ + 1 ELSE @]
        /\ engagement' = [engagement EXCEPT ![e].status = IF saved THEN "running" ELSE @]
  BY DEF run_engagement_endpoint
<1>3. /\ engagement'[e].status \in {"running", engagement[e].status}
      /\ engagement'[e].deducted = engagement[e].deducted
      /\ engagement' \in [Engagements ->
            [status : {NotCreated, "draft", "running", "completed", "failed"}, deducted : BOOLEAN]]
  BY <1>2 DEF IInv, Typed
<1>4. /\ queue[e] \in Nat /\ asked[e] \in 0 .. MaxRuns /\ MaxRuns \in Nat
      /\ queue'[e] \in {queue[e], queue[e] + 1} /\ asked'[e] = asked[e] + 1
  BY <1>1, <1>2, PaidAssumption DEF IInv, Typed
<1>5. /\ queue' \in [Engagements -> Nat]
      /\ asked' \in [Engagements -> 0 .. MaxRuns]
  <2>1. queue[e] + 1 \in Nat /\ asked[e] + 1 \in 0 .. MaxRuns
    BY <1>1, <1>4
  <2>. QED
    BY <1>1, <1>2, <2>1 DEF IInv, Typed
<1>6. Typed'
  BY <1>1, <1>3, <1>5 DEF IInv, Typed, account, market
<1>7. ASSUME NEW x \in Engagements PROVE EngagementOK(x)'
  <2>1. CASE x = e
    <3>1. EngagementOK(e)
      BY DEF IInv
    <3>2. queue'[e] <= asked'[e]
      BY <1>4, <3>1 DEF EngagementOK
    <3>3. e \in running' => queue'[e] > 0
      BY <1>1, <1>4, <3>1 DEF EngagementOK
    <3>4. engagement'[e].status # NotCreated
      BY <1>1, <1>3 DEF NotCreated
    <3>5. engagement'[e].status = "failed" => engagement[e].status = "failed"
      BY <1>3
    <3>. QED
      BY <1>1, <1>3, <2>1, <3>1, <3>2, <3>3, <3>4, <3>5 DEF EngagementOK, account
  <2>2. CASE x # e
    <3>1. /\ engagement'[x] = engagement[x] /\ queue'[x] = queue[x]
          /\ asked'[x] = asked[x]
      BY <1>1, <1>2, <2>2 DEF IInv, Typed
    <3>. QED
      BY <1>1, <3>1, EngagementKept DEF IInv, account
  <2>. QED
    BY <2>1, <2>2
<1>. QED
  BY <1>1, <1>6, <1>7, FddStep

LEMMA RunStartsStep ==
    ASSUME IInv, NEW e \in Engagements, RunStarts(e)
    PROVE  IInv'
<1>1. /\ queue[e] > 0
      /\ running' = running \cup {e}
      /\ UNCHANGED <<account, granted, engagement, sections, asked, queue, crashes,
                     workspaces, market>>
  BY DEF RunStarts
<1>2. Typed'
  BY <1>1 DEF IInv, Typed, account, market
<1>3. \A x \in Engagements : EngagementOK(x)'
  BY <1>1 DEF IInv, EngagementOK, account
<1>. QED
  BY <1>1, <1>2, <1>3, FddStep

(* The message of a run is there, and is taken away.                       *)
LEMMA Acknowledged ==
    ASSUME IInv, NEW e \in Engagements, e \in running, Acknowledge(e)
    PROVE  /\ queue' \in [Engagements -> Nat] /\ running' \subseteq Engagements
           /\ e \notin running' /\ queue'[e] <= queue[e]
           /\ queue[e] > 0 /\ engagement[e].status # NotCreated /\ held[e].status # "none"
           /\ \A x \in Engagements \ {e} : queue'[x] = queue[x] /\ (x \in running' <=> x \in running)
<1>1. queue' = [queue EXCEPT ![e] = @ - 1] /\ running' = running \ {e}
  BY DEF Acknowledge
<1>2. queue \in [Engagements -> Nat] /\ running \subseteq Engagements
  BY DEF IInv, Typed
<1>3. queue[e] > 0 /\ engagement[e].status # NotCreated /\ held[e].status # "none"
  BY DEF IInv, EngagementOK
<1>4. queue[e] - 1 \in Nat
  BY <1>2, <1>3
<1>. QED
  BY <1>1, <1>2, <1>3, <1>4

LEMMA RunRaisesStep ==
    ASSUME IInv, NEW e \in Engagements, RunRaises(e)
    PROVE  IInv'
<1>1. /\ e \in running /\ Acknowledge(e)
      /\ UNCHANGED <<account, granted, engagement, sections, asked, crashes,
                     workspaces, market>>
  BY DEF RunRaises
<1>2. /\ queue' \in [Engagements -> Nat] /\ running' \subseteq Engagements
      /\ e \notin running' /\ queue'[e] <= queue[e]
      /\ queue[e] > 0 /\ engagement[e].status # NotCreated
      /\ \A x \in Engagements \ {e} : queue'[x] = queue[x] /\ (x \in running' <=> x \in running)
  BY <1>1, Acknowledged
<1>3. Typed'
  BY <1>1, <1>2 DEF IInv, Typed, account, market
<1>4. ASSUME NEW x \in Engagements PROVE EngagementOK(x)'
  <2>1. CASE x = e
    <3>1. queue'[e] \in Nat /\ queue[e] \in Nat /\ asked[e] \in 0 .. MaxRuns /\ MaxRuns \in Nat
      BY <1>2, PaidAssumption DEF IInv, Typed
    <3>2. EngagementOK(e)
      BY DEF IInv
    <3>3. queue'[e] <= asked'[e]
      BY <1>1, <1>2, <3>1, <3>2 DEF EngagementOK
    <3>. QED
      BY <1>1, <1>2, <2>1, <3>2, <3>3 DEF EngagementOK, account
  <2>2. CASE x # e
    <3>1. queue'[x] = queue[x] /\ (x \in running' <=> x \in running)
      BY <1>2, <2>2
    <3>. QED
      BY <1>1, <3>1, EngagementKept DEF IInv, account
  <2>. QED
    BY <2>1, <2>2
<1>. QED
  BY <1>1, <1>3, <1>4, FddStep

LEMMA WorkerLostStep ==
    ASSUME IInv, NEW e \in Engagements, WorkerLost(e)
    PROVE  IInv'
<1>1. /\ crashes < MaxCrashes /\ crashes' = crashes + 1
      /\ running' = running \ {e}
      /\ UNCHANGED <<account, granted, engagement, sections, asked, queue,
                     workspaces, market>>
  BY DEF WorkerLost
<1>2. crashes' \in 0 .. MaxCrashes
  BY <1>1, PaidAssumption DEF IInv, Typed
<1>3. Typed'
  BY <1>1, <1>2 DEF IInv, Typed, account, market
<1>4. \A x \in Engagements : EngagementOK(x)'
  BY <1>1 DEF IInv, EngagementOK, account
<1>. QED
  BY <1>1, <1>3, <1>4, FddStep

(* What settling does: a reservation that is pending is confirmed or       *)
(* released, any other is left alone.                                      *)
LEMMA Settled ==
    ASSUME IInv, NEW e \in Engagements, NEW charge \in BOOLEAN, Settle(e, charge),
           held[e].status # "none", UNCHANGED <<granted, workspaces, purchases>>
    PROVE  /\ balance' \in Int
           /\ held' \in [Paid \cup Requests -> Holdings] /\ Others(e)
           /\ held'[e].status \in {"confirmed", "released"}
           /\ held'[e].status = "confirmed" => charge \/ held[e].status = "confirmed"
           /\ held'[e].amount = held[e].amount
           /\ Spent' /\ Covered'
<1>1. /\ e \in Paid /\ e \in Paid \cup Requests /\ Cost[e] \in Nat
      /\ e \notin Workspaces
  BY PaidAssumption DEF Paid
<1>2. /\ Typed /\ Spent /\ Covered /\ balance \in Int
      /\ held \in [Paid \cup Requests -> Holdings]
      /\ held[e].status \in {"none", "pending", "confirmed", "released"}
      /\ held[e].amount = Cost[e]
  BY <1>1 DEF IInv, Typed, Holdings, EngagementOK
<1>3. CASE held[e].status # "pending"
  <2>1. UNCHANGED account
    BY <1>3 DEF Settle
  <2>2. Spent' /\ Covered'
    BY <1>2, <2>1, AccountKept
  <2>3. balance' = balance /\ held' = held
    BY <2>1 DEF account
  <2>. QED
    BY <1>2, <1>3, <2>2, <2>3 DEF Others
<1>4. CASE held[e].status = "pending" /\ charge
  <2>1. Account!Confirm(e)
    BY <1>4 DEF Settle
  <2>2. /\ held' \in [Paid \cup Requests -> Holdings] /\ Others(e)
        /\ held'[e].amount = held[e].amount /\ held'[e].status = "confirmed"
        /\ balance' = balance - Cost[e] /\ Covered'
    BY <1>1, <1>2, <2>1, SettleCall
  <2>3. e \notin ChargedBy(workspaces, held)
    BY <1>1, <1>2, <1>4 DEF ChargedBy, Typed
  <2>4. ChargedBy(workspaces', held') = ChargedBy(workspaces, held) \cup {e}
    BY <2>2 DEF ChargedBy, Others, Paid
  <2>5. CostTotal(ChargedBy(workspaces', held')) = CostTotal(ChargedBy(workspaces, held)) + Cost[e]
    BY <1>1, <1>2, <2>3, <2>4, ChargedType, CostMore
  <2>6. Spent'
    BY <1>1, <1>2, <2>2, <2>5, ChargedType, SpentMore
  <2>. QED
    BY <1>1, <1>2, <1>4, <2>2, <2>6
<1>5. CASE held[e].status = "pending" /\ ~charge
  <2>1. Account!Release(e)
    BY <1>5 DEF Settle
  <2>2. /\ held' \in [Paid \cup Requests -> Holdings] /\ Others(e)
        /\ held'[e].amount = held[e].amount /\ held'[e].status = "released"
        /\ balance' = balance /\ Covered'
    BY <1>1, <1>2, <2>1, SettleCall
  <2>3. ChargedBy(workspaces', held') = ChargedBy(workspaces, held)
    BY <1>5, <2>2 DEF ChargedBy, Others, Paid
  <2>4. Spent'
    BY <1>2, <2>2, <2>3 DEF Spent
  <2>. QED
    BY <1>2, <2>2, <2>4
<1>. QED
  BY <1>3, <1>4, <1>5

LEMMA RunEngagementStep ==
    ASSUME IInv, NEW e \in Engagements, run_engagement(e)
    PROVE  IInv'
<1>1. /\ e \in running /\ Acknowledge(e)
      /\ UNCHANGED <<granted, asked, crashes, workspaces, market>>
  BY DEF run_engagement
<1>2. PICK completed \in BOOLEAN :
        /\ Settle(e, completed)
        /\ sections' = [sections EXCEPT ![e] = @ \/ completed]
        /\ engagement' = [engagement EXCEPT ![e] =
                Engagement(IF completed THEN "completed" ELSE "failed", @.deducted \/ completed)]
  BY DEF run_engagement
<1>3. /\ queue' \in [Engagements -> Nat] /\ running' \subseteq Engagements
      /\ e \notin running' /\ queue'[e] <= queue[e]
      /\ queue[e] > 0 /\ engagement[e].status # NotCreated /\ held[e].status # "none"
      /\ \A x \in Engagements \ {e} : queue'[x] = queue[x] /\ (x \in running' <=> x \in running)
  BY <1>1, Acknowledged
<1>4. purchases' = purchases
  BY <1>1 DEF market
<1>5. /\ balance' \in Int
      /\ held' \in [Paid \cup Requests -> Holdings] /\ Others(e)
      /\ held'[e].status \in {"confirmed", "released"}
      /\ held'[e].status = "confirmed" => completed \/ held[e].status = "confirmed"
      /\ held'[e].amount = held[e].amount
      /\ Spent' /\ Covered'
  BY <1>1, <1>2, <1>3, <1>4, Settled
<1>6. /\ sections' \in [Engagements -> BOOLEAN]
      /\ sections'[e] <=> sections[e] \/ completed
  BY <1>2 DEF IInv, Typed
<1>7. /\ engagement' \in [Engagements ->
            [status : {NotCreated, "draft", "running", "completed", "failed"}, deducted : BOOLEAN]]
      /\ engagement'[e].status \in {"completed", "failed"}
  <2> DEFINE new == Engagement(IF completed THEN "completed" ELSE "failed",
                               engagement[e].deducted \/ completed)
  <2>1. engagement[e].deducted \in BOOLEAN
    BY DEF IInv, Typed
  <2>2. /\ new \in [status : {NotCreated, "draft", "running", "completed", "failed"},
                    deducted : BOOLEAN]
        /\ new.status \in {"completed", "failed"}
    BY <2>1 DEF Engagement
  <2>3. engagement' = [engagement EXCEPT ![e] = new]
    BY <1>2
  <2>. HIDE DEF new
  <2>. QED
    BY <2>2, <2>3 DEF IInv, Typed
<1>8. Typed'
  BY <1>1, <1>3, <1>5, <1>6, <1>7 DEF IInv, Typed, market
<1>9. ASSUME NEW x \in Engagements PROVE EngagementOK(x)'
  <2>1. CASE x = e
    <3>1. EngagementOK(e)
      BY DEF IInv
    <3>2. queue'[e] \in Nat /\ queue[e] \in Nat /\ asked[e] \in 0 .. MaxRuns /\ MaxRuns \in Nat
      BY <1>3, PaidAssumption DEF IInv, Typed
    <3>3. queue'[e] <= asked'[e]
      BY <1>1, <1>3, <3>1, <3>2 DEF EngagementOK
    <3>4. engagement'[e].status # NotCreated /\ held'[e].status # "none"
      BY <1>5, <1>7 DEF NotCreated
    <3>5. held'[e].amount = Cost[e]
      BY <1>3, <1>5, <3>1 DEF EngagementOK
    <3>6. held'[e].status = "confirmed" => sections'[e]
      BY <1>5, <1>6, <3>1 DEF EngagementOK
    <3>. QED
      BY <1>3, <1>5, <2>1, <3>3, <3>4, <3>5, <3>6 DEF EngagementOK
  <2>2. CASE x # e
    <3>1. queue'[x] = queue[x] /\ (x \in running' <=> x \in running)
      BY <1>3, <2>2
    <3>2. engagement'[x] = engagement[x] /\ sections'[x] = sections[x] /\ held'[x] = held[x]
      BY <1>2, <1>5, <2>2 DEF IInv, Typed, Others, Paid
    <3>. QED
      BY <1>1, <3>1, <3>2, EngagementKept DEF IInv
  <2>. QED
    BY <2>1, <2>2
<1>10. WorkspacesPaid'
  <2>1. \A w \in workspaces : w # e /\ w \in Paid \cup Requests
    BY PaidAssumption DEF IInv, Typed, Paid
  <2>. QED
    BY <1>1, <1>5, <2>1 DEF IInv, WorkspacesPaid, Others
<1>11. (\A s \in Requests : RequestOK(s)') /\ Earned'
  BY <1>1, MarketKept
<1>. QED
  BY <1>5, <1>8, <1>9, <1>10, <1>11 DEF IInv

(* A step of the account that is not about an engagement.                  *)
LEMMA EngagementsUntouched ==
    ASSUME IInv, NEW r, r \notin Engagements, Others(r), UNCHANGED fdd
    PROVE  \A e \in Engagements : EngagementOK(e)'
<1>1. \A e \in Engagements : held'[e] = held[e]
  BY DEF Others, Paid
<1>. QED
  BY <1>1, EngagementKept DEF IInv, fdd

LEMMA CreatePpaStep ==
    ASSUME IInv, NEW e \in Allocations, create_ppa_engagement(e)
    PROVE  IInv'
<1>1. Account!Reserve(e, Cost[e]) /\ UNCHANGED <<granted, fdd, workspaces, market>>
  BY DEF create_ppa_engagement
<1>2. /\ e \in Paid /\ e \in Paid \cup Requests /\ Cost[e] \in Nat
      /\ e \notin Engagements /\ e \notin Workspaces
  BY PaidAssumption DEF Paid
<1>3. /\ held' \in [Paid \cup Requests -> Holdings] /\ Others(e)
      /\ balance' = balance /\ Covered'
  BY <1>1, <1>2, ReserveCall DEF IInv
<1>4. Typed'
  BY <1>1, <1>3 DEF IInv, Typed, fdd, market
<1>5. \A x \in Engagements : EngagementOK(x)'
  BY <1>1, <1>2, <1>3, EngagementsUntouched
<1>6. WorkspacesPaid'
  BY <1>1, <1>2, <1>3 DEF IInv, Typed, WorkspacesPaid, Others, Paid
<1>7. ChargedBy(workspaces', held') = ChargedBy(workspaces, held)
  BY <1>1, <1>2, <1>3 DEF ChargedBy, Others, Paid
<1>8. Spent'
  BY <1>1, <1>3, <1>7 DEF IInv, Spent, market
<1>9. (\A s \in Requests : RequestOK(s)') /\ Earned'
  BY <1>1, MarketKept
<1>. QED
  BY <1>3, <1>4, <1>5, <1>6, <1>8, <1>9 DEF IInv

LEMMA CreateWorkspaceStep ==
    ASSUME IInv, NEW w \in Workspaces, create_workspace(w)
    PROVE  IInv'
<1>1. /\ Account!Pay(w, Cost[w]) /\ workspaces' = workspaces \cup {w}
      /\ UNCHANGED <<granted, fdd, market>>
  BY DEF create_workspace
<1>2. w \in Paid /\ w \in Paid \cup Requests /\ Cost[w] \in Nat /\ w \notin Engagements
  BY PaidAssumption DEF Paid
<1>3. /\ held[w].status = "none" /\ held' \in [Paid \cup Requests -> Holdings]
      /\ held'[w] = [status |-> "confirmed", amount |-> Cost[w]] /\ Others(w)
      /\ balance' = balance - Cost[w] /\ Covered'
  BY <1>1, <1>2, PayCall DEF IInv
<1>4. Typed'
  <2>1. balance' \in Int
    BY <1>2, <1>3 DEF IInv, Typed
  <2>. QED
    BY <1>1, <1>3, <2>1 DEF IInv, Typed, fdd, market
<1>5. \A x \in Engagements : EngagementOK(x)'
  BY <1>1, <1>2, <1>3, EngagementsUntouched
<1>6. WorkspacesPaid'
  <2>1. held'[w].status = "confirmed"
    BY <1>3
  <2>2. \A x \in workspaces : x \in Paid \cup Requests
    BY DEF IInv, Typed, Paid
  <2>. QED
    BY <1>1, <1>3, <2>1, <2>2 DEF IInv, WorkspacesPaid, Others
<1>7. Spent'
  <2>1. w \notin ChargedBy(workspaces, held)
    BY <1>2, <1>3 DEF IInv, WorkspacesPaid, ChargedBy
  <2>2. ChargedBy(workspaces', held') = ChargedBy(workspaces, held) \cup {w}
    BY <1>1, <1>2, <1>3 DEF ChargedBy, Others, Paid
  <2>3. CostTotal(ChargedBy(workspaces', held')) = CostTotal(ChargedBy(workspaces, held)) + Cost[w]
    BY <1>2, <2>1, <2>2, ChargedType, CostMore DEF IInv
  <2>4. purchases' = purchases
    BY <1>1 DEF market
  <2>5. CostTotal(ChargedBy(workspaces, held)) \in Nat /\ PriceTotal(purchases) \in Nat
    BY ChargedType DEF IInv
  <2>6. CostTotal(ChargedBy(workspaces', held')) + PriceTotal(purchases')
          = CostTotal(ChargedBy(workspaces, held)) + PriceTotal(purchases) + Cost[w]
    BY <1>2, <2>3, <2>4, <2>5
  <2>. QED
    BY <1>1, <1>2, <1>3, <2>6, SpentMore
<1>8. (\A s \in Requests : RequestOK(s)') /\ Earned'
  BY <1>1, MarketKept
<1>. QED
  BY <1>3, <1>4, <1>5, <1>6, <1>7, <1>8 DEF IInv

(* A step of the marketplace that sells nothing.                           *)
LEMMA UnsoldStep ==
    ASSUME IInv, UNCHANGED <<account, granted, fdd, workspaces, purchases, contributor>>,
           request' \in [Requests -> [pc : {"idle", "buying", "done"},
                                      template : Templates \cup {Unsold}, seen : Sales]],
           \A s \in Requests : RequestOK(s)'
    PROVE  IInv'
<1>1. Spent' /\ Covered'
  BY AccountKept DEF IInv
<1>2. Typed'
  BY DEF IInv, Typed, account, fdd
<1>3. \A e \in Engagements : EngagementOK(e)'
  BY EngagementKept DEF IInv, account, fdd
<1>4. WorkspacesPaid'
  BY DEF IInv, WorkspacesPaid, account
<1>5. Earned'
  BY DEF IInv, Earned
<1>. QED
  BY <1>1, <1>2, <1>3, <1>4, <1>5 DEF IInv

LEMMA FindTemplateStep ==
    ASSUME IInv, NEW s \in Requests, NEW t \in Templates, FindTemplate(s, t)
    PROVE  IInv'
<1> DEFINE new == Request(IF Bought(t) = {} THEN "buying" ELSE "done", t, contributor)
<1>1. /\ request[s] = Idle
      /\ request' = [request EXCEPT ![s] = new]
      /\ UNCHANGED <<account, granted, fdd, workspaces, purchases, contributor>>
  BY DEF FindTemplate
<1>2. /\ new \in [pc : {"idle", "buying", "done"}, template : Templates \cup {Unsold},
                  seen : Sales]
      /\ new.template = t /\ new.seen = contributor
  BY DEF Request, IInv, Typed
<1>. HIDE DEF new
<1>3. /\ request' \in [Requests -> [pc : {"idle", "buying", "done"},
                                    template : Templates \cup {Unsold}, seen : Sales]]
      /\ request'[s] = new
      /\ \A x \in Requests \ {s} : request'[x] = request[x]
  BY <1>1, <1>2 DEF IInv, Typed
<1>4. ASSUME NEW x \in Requests PROVE RequestOK(x)'
  <2>1. CASE x = s
    <3>1. request[s].pc # "done" /\ RequestOK(s)
      BY <1>1 DEF Idle, Request, IInv
    <3>2. purchases[s] = Unsold
      BY <3>1 DEF RequestOK
    <3>. QED
      BY <1>1, <1>2, <1>3, <2>1, <3>2 DEF RequestOK, IInv, Earned
  <2>2. CASE x # s
    BY <1>1, <1>3, <2>2 DEF RequestOK, IInv
  <2>. QED
    BY <2>1, <2>2
<1>. QED
  BY <1>1, <1>3, <1>4, UnsoldStep

LEMMA PurchaseFailsStep ==
    ASSUME IInv, NEW s \in Requests, PurchaseFails(s)
    PROVE  IInv'
<1>1. /\ request' = [request EXCEPT ![s].pc = "done"]
      /\ UNCHANGED <<account, granted, fdd, workspaces, purchases, contributor>>
  BY DEF PurchaseFails
<1>2. /\ request' \in [Requests -> [pc : {"idle", "buying", "done"},
                                    template : Templates \cup {Unsold}, seen : Sales]]
      /\ request'[s].pc = "done" /\ request'[s].seen = request[s].seen
      /\ \A x \in Requests \ {s} : request'[x] = request[x]
  BY <1>1 DEF IInv, Typed
<1>3. ASSUME NEW x \in Requests PROVE RequestOK(x)'
  <2>1. CASE x = s
    BY <1>1, <1>2, <2>1 DEF RequestOK, IInv
  <2>2. CASE x # s
    BY <1>1, <1>2, <2>2 DEF RequestOK, IInv
  <2>. QED
    BY <2>1, <2>2
<1>. QED
  BY <1>1, <1>2, <1>3, UnsoldStep

LEMMA PurchaseStep ==
    ASSUME IInv, NEW s \in Requests, purchase_template(s)
    PROVE  IInv'
<1> DEFINE t == request[s].template
           seen == request[s].seen
<1>1. /\ request[s].pc = "buying"
      /\ PayPrice(s, t)
      /\ purchases' = [purchases EXCEPT ![s] = t]
      /\ contributor' = [earnings |-> seen.earnings + Share(t),
                         downloads |-> seen.downloads + 1]
      /\ request' = [request EXCEPT ![s].pc = "done"]
      /\ UNCHANGED <<granted, fdd, workspaces>>
  BY DEF purchase_template
<1>2. /\ RequestOK(s) /\ Typed /\ Spent /\ Covered
      /\ request \in [Requests -> [pc : {"idle", "buying", "done"},
                                   template : Templates \cup {Unsold}, seen : Sales]]
      /\ purchases \in [Requests -> Templates \cup {Unsold}]
      /\ held \in [Paid \cup Requests -> Holdings]
      /\ balance \in Int
  BY DEF IInv, Typed
<1>3. t \in Templates /\ purchases[s] = Unsold
  BY <1>1, <1>2 DEF RequestOK
<1>4. seen.earnings \in Nat /\ seen.downloads \in Nat
  BY <1>2 DEF Sales
<1>5. Share(t) \in Nat /\ Price[t] \in Nat
  BY <1>3, ShareType
<1>6. /\ request' \in [Requests -> [pc : {"idle", "buying", "done"},
                                    template : Templates \cup {Unsold}, seen : Sales]]
      /\ request'[s].pc = "done"
      /\ \A x \in Requests : request'[x].seen = request[x].seen
      /\ \A x \in Requests \ {s} : request'[x] = request[x]
  BY <1>1, <1>2
<1>7. seen.earnings <= ShareTotal(purchases) /\ seen.downloads <= Cardinality(SoldIn(purchases))
  BY <1>2 DEF RequestOK
<1>. HIDE DEF t, seen
<1>8. /\ purchases' \in [Requests -> Templates \cup {Unsold}]
      /\ PriceTotal(purchases') = PriceTotal(purchases) + Price[t]
      /\ ShareTotal(purchases') = ShareTotal(purchases) + Share(t)
      /\ Cardinality(SoldIn(purchases')) = Cardinality(SoldIn(purchases)) + 1
  <2>1. /\ purchases \in [Requests -> Templates \cup {Unsold}] /\ purchases[s] = Unsold
        /\ purchases' \in [Requests -> Templates \cup {Unsold}] /\ purchases'[s] = t
        /\ \A x \in Requests \ {s} : purchases'[x] = purchases[x]
    BY <1>1, <1>2, <1>3
  <2>. QED
    BY <1>3, <2>1, SaleMore
<1>9. /\ PriceTotal(purchases) \in Nat /\ ShareTotal(purchases) \in Nat
      /\ Cardinality(SoldIn(purchases)) \in Nat
  BY <1>2, SaleTypes
<1>10. /\ balance' = balance - Price[t]
       /\ held' \in [Paid \cup Requests -> Holdings] /\ Others(s) /\ Covered'
  <2>1. CASE IsFree(t)
    <3>1. Price[t] = 0 /\ UNCHANGED account
      BY <1>1, <2>1 DEF PayPrice, IsFree
    <3>. QED
      BY <1>2, <3>1 DEF account, Covered, Others
  <2>2. CASE ~IsFree(t)
    <3>1. Account!Pay(s, Price[t])
      BY <1>1, <2>2 DEF PayPrice
    <3>. QED
      BY <1>2, <1>5, <3>1, PayCall
  <2>. QED
    BY <2>1, <2>2
<1>11. contributor' \in Sales
  <2>1. seen.earnings + Share(t) \in Nat /\ seen.downloads + 1 \in Nat
    BY <1>4, <1>5
  <2>. QED
    BY <1>1, <2>1 DEF Sales
<1>12. Typed'
  <2>1. balance' \in Int
    BY <1>2, <1>5, <1>10
  <2>. QED
    BY <1>1, <1>2, <1>6, <1>8, <1>10, <1>11, <2>1 DEF Typed, fdd
<1>13. s \notin Engagements /\ s \notin Workspaces
  BY PaidAssumption
<1>14. \A e \in Engagements : EngagementOK(e)'
  BY <1>1, <1>10, <1>13, EngagementsUntouched
<1>15. WorkspacesPaid'
  BY <1>1, <1>10, <1>13 DEF IInv, Typed, WorkspacesPaid, Others, Paid
<1>16. Spent'
  <2>1. ChargedBy(workspaces', held') = ChargedBy(workspaces, held)
    BY <1>1, <1>10, <1>13 DEF ChargedBy, Others, Paid
  <2>2. CostTotal(ChargedBy(workspaces, held)) \in Nat
    BY <1>2, ChargedType
  <2>3. CostTotal(ChargedBy(workspaces', held')) + PriceTotal(purchases')
          = CostTotal(ChargedBy(workspaces, held)) + PriceTotal(purchases) + Price[t]
    BY <1>5, <1>8, <1>9, <2>1, <2>2
  <2>. QED
    BY <1>1, <1>5, <1>10, <2>3, SpentMore
<1>17. Earned'
  <2>1. /\ contributor'.earnings = seen.earnings + Share(t)
        /\ contributor'.downloads = seen.downloads + 1
    BY <1>1
  <2>. QED
    BY <1>4, <1>5, <1>7, <1>8, <1>9, <2>1 DEF Earned
<1>18. ASSUME NEW x \in Requests PROVE RequestOK(x)'
  <2>1. RequestOK(x) /\ request[x].seen \in Sales
    BY <1>2 DEF IInv
  <2>2. request[x].seen.earnings \in Nat /\ request[x].seen.downloads \in Nat
    BY <2>1 DEF Sales
  <2>3. /\ request'[x].seen.earnings <= ShareTotal(purchases')
        /\ request'[x].seen.downloads <= Cardinality(SoldIn(purchases'))
    BY <1>5, <1>6, <1>8, <1>9, <2>1, <2>2 DEF RequestOK
  <2>4. CASE x = s
    BY <1>6, <2>3, <2>4 DEF RequestOK
  <2>5. CASE x # s
    <3>1. request'[x] = request[x] /\ purchases'[x] = purchases[x]
      BY <1>1, <1>2, <1>6, <2>5
    <3>. QED
      BY <2>1, <2>3, <3>1 DEF RequestOK
  <2>. QED
    BY <2>4, <2>5
<1>. QED
  BY <1>10, <1>12, <1>14, <1>15, <1>16, <1>17, <1>18 DEF IInv

--------------------------------------------------------------------------------
LEMMA InitIInv == Init => IInv
<1> SUFFICES ASSUME Init PROVE IInv
  OBVIOUS
<1>1. /\ balance = 0 /\ granted = 0
      /\ held = [r \in Paid \cup Requests |-> [status |-> "none", amount |-> 0]]
  BY DEF Init, Account!Init, Account!NoReservation
<1>2. [status |-> "none", amount |-> 0] \in Holdings
  BY DEF Holdings
<1>3. NoSales \in Sales
  BY DEF NoSales, Sales
<1>4. Idle \in [pc : {"idle", "buying", "done"}, template : Templates \cup {Unsold}, seen : Sales]
  BY <1>3 DEF Idle, Request
<1>5. Engagement(NotCreated, FALSE) \in
        [status : {NotCreated, "draft", "running", "completed", "failed"}, deducted : BOOLEAN]
  BY DEF Engagement
<1>6. Typed
  <2>1. held \in [Paid \cup Requests -> Holdings]
    BY <1>1, <1>2
  <2>2. /\ balance \in Int /\ granted \in 0 .. MaxGranted /\ crashes \in 0 .. MaxCrashes
        /\ 0 \in 0 .. MaxRuns
    BY <1>1, PaidAssumption DEF Init
  <2>3. request \in [Requests -> [pc : {"idle", "buying", "done"},
                                  template : Templates \cup {Unsold}, seen : Sales]]
    BY <1>4 DEF Init
  <2>4. engagement \in [Engagements ->
            [status : {NotCreated, "draft", "running", "completed", "failed"}, deducted : BOOLEAN]]
    BY <1>5 DEF Init
  <2>. QED
    BY <1>3, <2>1, <2>2, <2>3, <2>4 DEF Typed, Init
<1>7. ASSUME NEW e \in Engagements PROVE EngagementOK(e)
  <2>1. held[e].status = "none"
    BY <1>1 DEF Paid
  <2>2. engagement[e].status = NotCreated /\ ~engagement[e].deducted
    BY DEF Init, Engagement
  <2>3. queue[e] = 0 /\ asked[e] = 0 /\ e \notin running /\ ~sections[e]
    BY DEF Init
  <2>. QED
    BY <2>1, <2>2, <2>3 DEF EngagementOK, NotCreated
<1>8. WorkspacesPaid
  BY DEF Init, WorkspacesPaid
<1>9. SoldIn(purchases) = {}
  BY DEF Init, SoldIn
<1>10. PriceTotal(purchases) = 0 /\ ShareTotal(purchases) = 0 /\ Cardinality(SoldIn(purchases)) = 0
  BY <1>9, TotalOfNothing, FS_EmptySet DEF PriceTotal, ShareTotal
<1>11. Spent
  <2>1. ChargedBy(workspaces, held) = {}
    BY <1>1 DEF Init, ChargedBy, Paid
  <2>2. CostTotal(ChargedBy(workspaces, held)) = 0
    BY <2>1, TotalOfNothing DEF CostTotal
  <2>. QED
    BY <1>1, <1>10, <2>2 DEF Spent
<1>12. Covered
  <2>1. PendingIn(held) = {}
    BY <1>1 DEF PendingIn
  <2>2. PendingTotal(held) = 0
    BY <2>1, TotalOfNothing DEF PendingTotal
  <2>. QED
    BY <1>1, <2>2 DEF Covered
<1>13. Earned
  BY <1>10 DEF Init, Earned, NoSales
<1>14. ASSUME NEW s \in Requests PROVE RequestOK(s)
  <2>1. request[s].pc = "idle" /\ request[s].seen = NoSales /\ purchases[s] = Unsold
    BY DEF Init, Idle, Request
  <2>2. request[s].seen.earnings = 0 /\ request[s].seen.downloads = 0
    BY <2>1 DEF NoSales
  <2>. QED
    BY <1>10, <2>1, <2>2 DEF RequestOK
<1>. QED
  BY <1>6, <1>7, <1>8, <1>11, <1>12, <1>13, <1>14 DEF IInv

LEMMA NextIInv == IInv /\ [Next]_vars => IInv'
<1> SUFFICES ASSUME IInv, [Next]_vars PROVE IInv'
  OBVIOUS
<1>1. CASE \E amount \in TopUps : add_credits(amount)
  BY <1>1, AddStep
<1>2. ASSUME NEW e \in Engagements,
             \/ create_engagement(e) \/ run_engagement_endpoint(e) \/ RunStarts(e)
             \/ run_engagement(e) \/ RunRaises(e) \/ WorkerLost(e)
      PROVE  IInv'
  BY <1>2, CreateEngagementStep, RunEngagementEndpointStep, RunStartsStep, RunEngagementStep,
     RunRaisesStep, WorkerLostStep
<1>3. CASE \E e \in Allocations : create_ppa_engagement(e)
  BY <1>3, CreatePpaStep
<1>4. CASE \E w \in Workspaces : create_workspace(w)
  BY <1>4, CreateWorkspaceStep
<1>5. ASSUME NEW s \in Requests,
             (\E t \in Templates : FindTemplate(s, t)) \/ purchase_template(s) \/ PurchaseFails(s)
      PROVE  IInv'
  BY <1>5, FindTemplateStep, PurchaseStep, PurchaseFailsStep
<1>6. CASE UNCHANGED vars
  <2>1. UNCHANGED <<account, granted, workspaces, purchases>> /\ UNCHANGED market
    BY <1>6 DEF vars, market
  <2>2. Typed' /\ \A e \in Engagements : EngagementOK(e)'
    BY <1>6, EngagementKept DEF vars, account, fdd, market, IInv, Typed
  <2>. QED
    BY <1>6, <2>1, <2>2, FddStep DEF vars
<1>. QED
  BY <1>1, <1>2, <1>3, <1>4, <1>5, <1>6 DEF Next

(* The inductive invariant, for any engagements, prices and bounds.        *)
THEOREM PaidInvariant == Spec => []IInv
BY InitIInv, NextIInv, PTL DEF Spec

(* Every variable keeps its type; in particular the balance of the account *)
(* is never negative and never more than was added.                        *)
THEOREM PaidTypeOK == Spec => []TypeOK
<1>1. IInv => TypeOK
  <2> SUFFICES ASSUME IInv PROVE TypeOK
    OBVIOUS
  <2>1. balance \in 0 .. MaxGranted
    <3>1. PendingTotal(held) \in Nat /\ PendingTotal(held) <= balance
      BY PendingTypes DEF IInv, Typed, Covered
    <3>2. /\ balance \in Int /\ granted \in 0 .. MaxGranted /\ MaxGranted \in Nat
          /\ CostTotal(ChargedBy(workspaces, held)) \in Nat /\ PriceTotal(purchases) \in Nat
      BY PaidAssumption, ChargedType DEF IInv, Typed
    <3>3. granted - balance = CostTotal(ChargedBy(workspaces, held)) + PriceTotal(purchases)
      BY DEF IInv, Spent
    <3>. QED
      BY <3>1, <3>2, <3>3
  <2>2. \A e \in Engagements : queue[e] \in 0 .. asked[e]
    BY PaidAssumption DEF IInv, Typed, EngagementOK
  <2>3. running \subseteq {e \in Engagements : queue[e] > 0}
    BY DEF IInv, Typed, EngagementOK
  <2>4. \A s \in Requests :
            /\ request[s].pc \in {"idle", "buying", "done"}
            /\ request[s].template \in Templates \cup {Unsold}
    BY DEF IInv, Typed
  <2>5. {contributor.earnings, contributor.downloads} \subseteq Nat
    BY DEF IInv, Typed, Sales
  <2>. QED
    BY <2>1, <2>2, <2>3, <2>4, <2>5 DEF TypeOK, IInv, Typed, Holdings
<1>. QED
  BY <1>1, PaidInvariant, PTL

(* Charged only for a committed section, however often an engagement runs. *)
THEOREM PaidOnlyForWork == Spec => []PaidForWork
<1>1. IInv => PaidForWork
  BY DEF IInv, EngagementOK, PaidForWork
<1>. QED
  BY <1>1, PaidInvariant, PTL

(* An engagement with a result holds no credits any more.                  *)
THEOREM PaidResultsAreSettled == Spec => []ResultsAreSettled
<1>1. IInv => ResultsAreSettled
  BY DEF IInv, EngagementOK, ResultsAreSettled
<1>. QED
  BY <1>1, PaidInvariant, PTL

(* The balance is what was added less the cost of the charged engagements, *)
(* the workspaces and the purchases, for any number of them.               *)
THEOREM PaidSpentOnServices == Spec => []SpentOnServices
<1>1. IInv => SpentOnServices
  BY DEF IInv, Spent, SpentOnServices, CostTotal, PriceTotal, ChargedBy, SoldIn, Charged, Sold
<1>. QED
  BY <1>1, PaidInvariant, PTL

(* A reservation is settled once and what it paid for stays, whatever runs *)
(* and purchases come later.                                               *)
THEOREM PaidSettledForGood == Spec => SettledForGood
<1> DEFINE SettledStays(r) == held[r].status \in {"confirmed", "released"} => held'[r] = held[r]
           Stays ==
                /\ \A r \in Paid \cup Requests : SettledStays(r)
                /\ \A e \in Engagements : sections[e] => sections'[e]
                /\ workspaces \subseteq workspaces'
                /\ \A s \in Requests : purchases[s] # Unsold => purchases'[s] = purchases[s]
<1>1. ASSUME IInv, [Next]_vars PROVE Stays
  <2>1. /\ held \in [Paid \cup Requests -> Holdings]
        /\ sections \in [Engagements -> BOOLEAN]
        /\ purchases \in [Requests -> Templates \cup {Unsold}]
        /\ Paid = Engagements \cup Allocations \cup Workspaces
    BY <1>1 DEF IInv, Typed, Paid
  <2>2. ASSUME NEW r \in Paid \cup Requests, NEW amount,
               \/ Account!Reserve(r, amount) \/ Account!Pay(r, amount)
               \/ Account!Confirm(r) \/ Account!Release(r)
        PROVE  \A q \in Paid \cup Requests : SettledStays(q)
    <3>1. held[r].status \notin {"confirmed", "released"}
      BY <2>2 DEF Account!Reserve, Account!Pay, Account!Confirm, Account!Release,
                  Account!NoReservation
    <3>2. \A q \in Paid \cup Requests : q # r => held'[q] = held[q]
      BY <2>1, <2>2 DEF Account!Reserve, Account!Pay, Account!Confirm, Account!Release,
                         Account!Becomes
    <3>. QED
      BY <3>1, <3>2
  <2>3. ASSUME NEW amount \in TopUps, add_credits(amount) PROVE Stays
    BY <2>3 DEF add_credits, Account!Add, fdd, market
  <2>4. ASSUME NEW e \in Engagements,
               \/ create_engagement(e) \/ run_engagement_endpoint(e) \/ RunStarts(e)
               \/ RunRaises(e) \/ WorkerLost(e)
        PROVE  Stays
    <3>1. UNCHANGED <<sections, workspaces, purchases>>
      BY <2>4 DEF create_engagement, run_engagement_endpoint, RunStarts, RunRaises, WorkerLost, market
    <3>2. Account!Reserve(e, Cost[e]) \/ UNCHANGED held
      BY <2>4 DEF create_engagement, run_engagement_endpoint, RunStarts, RunRaises, WorkerLost, account
    <3>. QED
      BY <2>1, <2>2, <3>1, <3>2
  <2>5. ASSUME NEW e \in Engagements, run_engagement(e) PROVE Stays
    <3>1. UNCHANGED <<workspaces, purchases>>
      BY <2>5 DEF run_engagement, market
    <3>2. PICK completed \in BOOLEAN :
            Settle(e, completed) /\ sections' = [sections EXCEPT ![e] = @ \/ completed]
      BY <2>5 DEF run_engagement
    <3>3. Account!Confirm(e) \/ Account!Release(e) \/ UNCHANGED held
      BY <3>2 DEF Settle, account
    <3>4. \A f \in Engagements : sections[f] => sections'[f]
      BY <2>1, <3>2
    <3>. QED
      BY <2>1, <2>2, <3>1, <3>3, <3>4
  <2>6. ASSUME NEW e \in Allocations, create_ppa_engagement(e) PROVE Stays
    <3>1. Account!Reserve(e, Cost[e]) /\ UNCHANGED <<sections, workspaces, purchases>>
      BY <2>6 DEF create_ppa_engagement, fdd, market
    <3>. QED
      BY <2>1, <2>2, <3>1
  <2>7. ASSUME NEW w \in Workspaces, create_workspace(w) PROVE Stays
    <3>1. /\ Account!Pay(w, Cost[w]) /\ UNCHANGED <<sections, purchases>>
          /\ workspaces \subseteq workspaces'
      BY <2>7 DEF create_workspace, fdd, market
    <3>. QED
      BY <2>1, <2>2, <3>1
  <2>8. ASSUME NEW s \in Requests,
               (\E t \in Templates : FindTemplate(s, t)) \/ PurchaseFails(s)
        PROVE  Stays
    BY <2>8 DEF FindTemplate, PurchaseFails, account, fdd
  <2>9. ASSUME NEW s \in Requests, purchase_template(s) PROVE Stays
    <3>1. purchases[s] = Unsold
      BY <1>1, <2>9 DEF purchase_template, IInv, RequestOK
    <3>2. UNCHANGED <<sections, workspaces>>
      BY <2>9 DEF purchase_template, fdd
    <3>3. \A q \in Requests : q # s => purchases'[q] = purchases[q]
      BY <2>1, <2>9 DEF purchase_template
    <3>4. Account!Pay(s, Price[request[s].template]) \/ UNCHANGED held
      BY <2>9 DEF purchase_template, PayPrice, account
    <3>. QED
      BY <2>2, <3>1, <3>2, <3>3, <3>4
  <2>10. CASE UNCHANGED vars
    BY <2>10 DEF vars, account, fdd, market
  <2>. QED
    BY <1>1, <2>3, <2>4, <2>5, <2>6, <2>7, <2>8, <2>9, <2>10 DEF Next
<1>2. IInv /\ [Next]_vars => [Stays]_vars
  BY <1>1
<1>3. SettledForGood <=> [][Stays]_vars
  BY DEF SettledForGood
<1>. QED
  BY <1>2, <1>3, PaidInvariant, PTL DEF Spec

(* Overlapping purchases never credit the contributor more than the shares *)
(* of the sales.                                                           *)
THEOREM PaidEarningsCovered == Spec => []EarningsCoveredBySales
<1>1. IInv => EarningsCoveredBySales
  BY DEF IInv, Earned, EarningsCoveredBySales, ShareTotal, SoldIn, Sold
<1>. QED
  BY <1>1, PaidInvariant, PTL

================================================================================
