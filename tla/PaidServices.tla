---------------------------- MODULE PaidServices -----------------------------
(***************************************************************************)
(* What a tenant spends prepaid credits on: due diligence engagements      *)
(* (modules/fdd), purchase price allocations (modules/ppa), M&A            *)
(* workspaces (modules/ma_workspace) and templates of the marketplace      *)
(* (modules/marketplace).  They call the credit service inside their own   *)
(* transaction; the service is used here through its abstract              *)
(* specification, CreditAccount, which CreditLedger implements.            *)
(*                                                                         *)
(* An engagement reserves credits when it is created and settles them when *)
(* it is run.  A run is a Celery task, delivered again when its worker is  *)
(* lost, and the user may ask for a run any number of times.  A purchase   *)
(* reads the template and its contributor first and writes the counters it *)
(* read back, plus one sale, when it commits.  One tenant buys, and all    *)
(* templates are by one contributor.                                       *)
(***************************************************************************)
EXTENDS Totals

CONSTANTS
    Engagements,   \* FDDEngagement ids
    Allocations,   \* PPAEngagement ids
    Workspaces,    \* MAWorkspace ids
    Requests,      \* purchase requests
    Templates,     \* published templates
    Cost,          \* credits an engagement, an allocation, a workspace costs
    Price,         \* price_credits of a template
    SharePct,      \* revenue_share_pct of the contributor, in hundredths
    TopUps,        \* amounts add_credits is called with
    MaxGranted,    \* bound on the credits added
    MaxRuns,       \* bound on the runs asked for, per engagement
    MaxCrashes     \* bound on lost workers

Paid == Engagements \cup Allocations \cup Workspaces

(* Every id is a uuid4, so rows of different tables have different ids.    *)
ASSUME PaidAssumption ==
    /\ \A S \in {Engagements, Allocations, Workspaces, Requests} : IsFiniteSet(S)
    /\ Engagements \cap (Allocations \cup Workspaces \cup Requests) = {}
    /\ Workspaces \cap (Allocations \cup Requests) = {}
    /\ Requests \cap Allocations = {}
    /\ "none" \notin Templates
    /\ Cost \in [Paid -> Nat]
    /\ Price \in [Templates -> Nat]
    /\ SharePct \in 0 .. 100
    /\ TopUps \subseteq Nat
    /\ {MaxGranted, MaxRuns, MaxCrashes} \subseteq Nat

VARIABLES
    balance, held,   \* the tenant's account
    granted,         \* credits added to it so far
    engagement,      \* fdd_engagements
    sections,        \* whether fdd_sections has a completed row
    workspaces,      \* ma_workspaces
    asked,           \* runs asked for so far
    queue,           \* run_fdd_engagement_task messages not acknowledged
    running,         \* engagements whose row a run has locked
    request,         \* purchase requests under way
    purchases,       \* marketplace_purchases: the template each request bought
    contributor,     \* total_earnings and total_downloads
    crashes

account == <<balance, held>>
fdd == <<engagement, sections, asked, queue, running, crashes>>
market == <<request, purchases, contributor>>
vars == <<account, granted, fdd, workspaces, market>>

Account == INSTANCE CreditAccount WITH
    ReservationIds <- Paid \cup Requests,
    Amounts <- TopUps

NotCreated == "none"
Unsold == "none"

(* credits_deducted_at is set or not.                                      *)
Engagement(status, deducted) == [status |-> status, deducted |-> deducted]

Request(pc, template, seen) == [pc |-> pc, template |-> template, seen |-> seen]
NoSales == [earnings |-> 0, downloads |-> 0]
Idle == Request("idle", Unsold, NoSales)

Init ==
    /\ Account!Init
    /\ granted = 0
    /\ engagement = [e \in Engagements |-> Engagement(NotCreated, FALSE)]
    /\ sections = [e \in Engagements |-> FALSE]
    /\ workspaces = {}
    /\ asked = [e \in Engagements |-> 0]
    /\ queue = [e \in Engagements |-> 0]
    /\ running = {}
    /\ request = [s \in Requests |-> Idle]
    /\ purchases = [s \in Requests |-> Unsold]
    /\ contributor = NoSales
    /\ crashes = 0

add_credits(amount) ==
    /\ granted + amount <= MaxGranted
    /\ Account!Add(amount)
    /\ granted' = granted + amount
    /\ UNCHANGED <<fdd, workspaces, market>>

--------------------------------------------------------------------------------
(* Engagements                                                             *)

create_engagement(e) ==
    /\ engagement[e].status = NotCreated
    /\ Account!Reserve(e, Cost[e])
    /\ engagement' = [engagement EXCEPT ![e] = Engagement("draft", FALSE)]
    /\ UNCHANGED <<granted, sections, asked, queue, running, crashes, workspaces, market>>

(* Asks for a run without looking at the status.  The task is sent before  *)
(* the request commits: the message may be lost, and the error swallowed,  *)
(* or the request may fail after it was sent.  Setting the status it       *)
(* already has writes nothing; any other status waits for the row.         *)
run_engagement_endpoint(e) ==
    /\ engagement[e].status # NotCreated
    /\ asked[e] < MaxRuns
    /\ engagement[e].status = "running" \/ e \notin running
    /\ asked' = [asked EXCEPT ![e] = @ + 1]
    /\ \E sent, saved \in BOOLEAN :
        /\ sent \/ saved
        /\ queue' = [queue EXCEPT ![e] = IF sent THEN @ + 1 ELSE @]
        /\ engagement' = [engagement EXCEPT ![e].status = IF saved THEN "running" ELSE @]
    /\ UNCHANGED <<account, granted, sections, running, crashes, workspaces, market>>

(* A worker takes the task.  updated_at always changes, so the run holds   *)
(* the engagement's row until it ends: runs of one engagement take turns.  *)
RunStarts(e) ==
    /\ queue[e] > 0
    /\ e \notin running
    /\ running' = running \cup {e}
    /\ UNCHANGED <<account, granted, engagement, sections, asked, queue, crashes,
                   workspaces, market>>

Acknowledge(e) ==
    /\ queue' = [queue EXCEPT ![e] = @ - 1]
    /\ running' = running \ {e}

(* Faults: a run without a completed section is charged, ...               *)
SettleConfirming(e, charge) ==
    IF held[e].status # "pending" THEN UNCHANGED account ELSE Account!Confirm(e)

(* ... or its reservation is not released.                                 *)
SettleWork(e, charge) ==
    IF held[e].status # "pending" \/ ~charge THEN UNCHANGED account ELSE Account!Confirm(e)

(* Nothing is charged or given back when the reservation is not pending.   *)
Settle(e, charge) ==
    IF held[e].status # "pending" THEN UNCHANGED account
    ELSE IF charge THEN Account!Confirm(e)
    ELSE Account!Release(e)

(* The end of a run, committed: one completed section is enough.           *)
run_engagement(e) ==
    /\ e \in running
    /\ Acknowledge(e)
    /\ \E completed \in BOOLEAN :
        /\ Settle(e, completed)
        /\ sections' = [sections EXCEPT ![e] = @ \/ completed]
        /\ engagement' = [engagement EXCEPT ![e] =
                Engagement(IF completed THEN "completed" ELSE "failed",
                           @.deducted \/ completed)]
    /\ UNCHANGED <<granted, asked, crashes, workspaces, market>>

(* Fault: the task that fails is delivered again, for ever.                *)
RunRaisesUnacknowledged(e) ==
    /\ e \in running
    /\ running' = running \ {e}
    /\ UNCHANGED <<account, granted, engagement, sections, asked, queue, crashes,
                   workspaces, market>>

(* An exception leaves run_engagement: all it did is rolled back, and the  *)
(* message of a task that fails is acknowledged, not retried.              *)
RunRaises(e) ==
    /\ e \in running
    /\ Acknowledge(e)
    /\ UNCHANGED <<account, granted, engagement, sections, asked, crashes,
                   workspaces, market>>

(* The worker is lost: the message is delivered again.                     *)
WorkerLost(e) ==
    /\ e \in running
    /\ crashes < MaxCrashes
    /\ crashes' = crashes + 1
    /\ running' = running \ {e}
    /\ UNCHANGED <<account, granted, engagement, sections, asked, queue,
                   workspaces, market>>

(* run_ppa is not here: it updates the allocation row it has inserted, the *)
(* trigger of the append-only table refuses, and everything is undone.     *)
create_ppa_engagement(e) ==
    /\ Account!Reserve(e, Cost[e])
    /\ UNCHANGED <<granted, fdd, workspaces, market>>

create_workspace(w) ==
    /\ Account!Pay(w, Cost[w])
    /\ workspaces' = workspaces \cup {w}
    /\ UNCHANGED <<granted, fdd, market>>

--------------------------------------------------------------------------------
(* The marketplace                                                         *)

Bought(t) == {s \in Requests : purchases[s] = t}

(* _require_published_template and the search for an earlier purchase,     *)
(* neither of which locks anything.  A request that finds one ends here.   *)
FindTemplate(s, t) ==
    /\ request[s] = Idle
    /\ request' = [request EXCEPT ![s] =
            Request(IF Bought(t) = {} THEN "buying" ELSE "done", t, contributor)]
    /\ UNCHANGED <<account, granted, fdd, workspaces, purchases, contributor>>

IsFree(t) == Price[t] = 0

(* Fault: the contributor earns the whole price.                           *)
PriceAsShare(t) == Price[t]

Share(t) == (Price[t] * SharePct) \div 100

(* Fault: the purchase is reserved and not confirmed.                      *)
ReservePrice(s, t) == IF IsFree(t) THEN UNCHANGED account ELSE Account!Reserve(s, Price[t])

PayPrice(s, t) == IF IsFree(t) THEN UNCHANGED account ELSE Account!Pay(s, Price[t])

(* Pays, records the purchase and writes the contributor's counters.       *)
purchase_template(s) ==
    LET t == request[s].template
        seen == request[s].seen
    IN  /\ request[s].pc = "buying"
        /\ PayPrice(s, t)
        /\ purchases' = [purchases EXCEPT ![s] = t]
        /\ contributor' = [earnings |-> seen.earnings + Share(t),
                           downloads |-> seen.downloads + 1]
        /\ request' = [request EXCEPT ![s].pc = "done"]
        /\ UNCHANGED <<granted, fdd, workspaces>>

(* InsufficientCreditsError, or any failure before the commit.             *)
PurchaseFails(s) ==
    /\ request[s].pc = "buying"
    /\ request' = [request EXCEPT ![s].pc = "done"]
    /\ UNCHANGED <<account, granted, fdd, workspaces, purchases, contributor>>

--------------------------------------------------------------------------------
Next ==
    \/ \E amount \in TopUps : add_credits(amount)
    \/ \E e \in Engagements :
        \/ create_engagement(e)
        \/ run_engagement_endpoint(e)
        \/ RunStarts(e)
        \/ run_engagement(e)
        \/ RunRaises(e)
        \/ WorkerLost(e)
    \/ \E e \in Allocations : create_ppa_engagement(e)
    \/ \E w \in Workspaces : create_workspace(w)
    \/ \E s \in Requests :
        \/ \E t \in Templates : FindTemplate(s, t)
        \/ purchase_template(s)
        \/ PurchaseFails(s)

Spec == Init /\ [][Next]_vars

(* Celery delivers what is queued, and a run that started ends.            *)
FairSpec ==
    /\ Spec
    /\ \A e \in Engagements :
        /\ WF_vars(RunStarts(e))
        /\ WF_vars(run_engagement(e) \/ RunRaises(e))

--------------------------------------------------------------------------------
(* Every variable has its type; no more messages are queued than were sent. *)
TypeOK ==
    /\ balance \in 0 .. MaxGranted
    /\ held \in [Paid \cup Requests ->
                    [status : {"none", "pending", "confirmed", "released"}, amount : Nat]]
    /\ granted \in 0 .. MaxGranted
    /\ engagement \in [Engagements ->
                    [status : {NotCreated, "draft", "running", "completed", "failed"},
                     deducted : BOOLEAN]]
    /\ sections \in [Engagements -> BOOLEAN]
    /\ workspaces \subseteq Workspaces
    /\ asked \in [Engagements -> 0 .. MaxRuns]
    /\ \A e \in Engagements : queue[e] \in 0 .. asked[e]
    /\ running \subseteq {e \in Engagements : queue[e] > 0}
    /\ \A s \in Requests :
        /\ request[s].pc \in {"idle", "buying", "done"}
        /\ request[s].template \in Templates \cup {Unsold}
    /\ purchases \in [Requests -> Templates \cup {Unsold}]
    /\ {contributor.earnings, contributor.downloads} \subseteq Nat
    /\ crashes \in 0 .. MaxCrashes

(* The tenant pays for an engagement only when some run of it committed a  *)
(* completed section, however often the engagement was run and whatever    *)
(* workers were lost (run_engagement confirms under completed_sections).   *)
PaidForWork ==
    \A e \in Engagements : held[e].status = "confirmed" => sections[e]

(* An engagement with a committed result, a report or a failure, holds no  *)
(* credits any more: run_engagement confirms or releases what create_engagement *)
(* reserved in the transaction that writes the result.                     *)
ResultsAreSettled ==
    \A e \in Engagements :
        sections[e] \/ engagement[e].deducted \/ engagement[e].status = "failed"
            => held[e].status \in {"confirmed", "released"}

Sold == {s \in Requests : purchases[s] # Unsold}
Charged == workspaces \cup {e \in Engagements : held[e].status = "confirmed"}

(* Every credit that left the account went to a charged engagement, a      *)
(* workspace or a purchase that exists, at its price, and nothing else     *)
(* did: requests that fail, runs that raise and lost workers cost nothing. *)
SpentOnServices ==
    granted - balance =
        Total([c \in Charged |-> Cost[c]]) + Total([s \in Sold |-> Price[purchases[s]]])

(* The contributor is never credited more than the shares of the sales,    *)
(* and no sale counts twice: purchases that overlap overwrite each other's *)
(* counters (purchase_template), so the counters can only fall behind.     *)
EarningsCoveredBySales ==
    /\ contributor.earnings <=
            Total([s \in Sold |-> (Price[purchases[s]] * SharePct) \div 100])
    /\ contributor.downloads <= Cardinality(Sold)

(* What was settled stays settled: later runs, workers lost and purchases  *)
(* under way neither charge a reservation that was released nor give back  *)
(* one that was charged, and what a tenant has received stays: a report,   *)
(* a workspace, a purchase (run_engagement, purchase_template).            *)
SettledForGood ==
    [][/\ \A r \in Paid \cup Requests :
            held[r].status \in {"confirmed", "released"} => held'[r] = held[r]
       /\ \A e \in Engagements : sections[e] => sections'[e]
       /\ workspaces \subseteq workspaces'
       /\ \A s \in Requests : purchases[s] # Unsold => purchases'[s] = purchases[s]]_vars

(* A run that was queued ends: its message is acknowledged, although       *)
(* workers are lost and runs of one engagement wait for each other.        *)
QueuedRunsEnd ==
    \A e \in Engagements : queue[e] > 0 ~> queue[e] = 0

================================================================================
