----------------------------- MODULE PlanCredits -----------------------------
(***************************************************************************)
(* The plan credits of a tenant (modules/payment/application/              *)
(* credit_service.py) behind the idempotency middleware                    *)
(* (shared_kernel/idempotency.py): requests that buy and use credits, each *)
(* under a key, their duplicates, and the answers kept in Redis.           *)
(*                                                                         *)
(* The ledger is append-only and each row repeats the balance.  A purchase *)
(* takes the balance from the sum of the rows, a consumption from the      *)
(* youngest one, which it locks although nobody ever changes it.           *)
(* Allocations of a plan have no caller.  The key that the provider gets   *)
(* comes from the body of the request, if at all, and is left out.  The    *)
(* clocks that order the rows agree, and amounts are positive.             *)
(***************************************************************************)
EXTENDS Integers, Sequences, FiniteSets, TLC, Totals

CONSTANTS
    Requests,    \* what clients send; several may share a key
    KeyOf,       \* the Idempotency-Key of each
    Op,          \* "top_up" or "consume"
    Amount,      \* how many credits
    MaxExpiries  \* bounds how often Redis loses an answer

ASSUME PlanCreditsAssumption ==
    /\ Op \in [Requests -> {"top_up", "consume"}]
    /\ Amount \in [Requests -> Nat \ {0}]
    /\ MaxExpiries \in Nat

Keys == {KeyOf[r] : r \in Requests}

VARIABLES
    cache,     \* the answer Redis has for each key
    excused,   \* keys with duplicates in flight, a lost or an expired answer
    expiries,
    charged,   \* requests for which the provider took money
    ledger,    \* the committed rows of credit_ledger
    pc,        \* where the endpoint of each request is
    seen,      \* the balance or the number of the row it has read
    overlap,   \* whether one has read while another had read and not ended
    front,     \* where the middleware of each request is
    answer     \* what the endpoint or the middleware answers

handler == <<pc, seen, overlap>>
vars == <<cache, excused, expiries, charged, ledger, pc, seen, overlap, front, answer>>

Answer(kind, r) == [kind |-> kind, of |-> r]
NoAnswer == [kind |-> "none"]

Init ==
    /\ cache = [k \in Keys |-> NoAnswer]
    /\ excused = {}
    /\ expiries = 0
    /\ charged = {}
    /\ ledger = <<>>
    /\ pc = [r \in Requests |-> "idle"]
    /\ seen = [r \in Requests |-> 0]
    /\ overlap = FALSE
    /\ front = [r \in Requests |-> "idle"]
    /\ answer = [r \in Requests |-> NoAnswer]

--------------------------------------------------------------------------------
(* The middleware                                                          *)

InFlight(r) == front[r] \in {"waiting", "store"} \/ pc[r] \notin {"idle", "ended"}

Twins(r) == {s \in Requests \ {r} : KeyOf[s] = KeyOf[r] /\ InFlight(s)}

(* A request whose key has an answer gets it.  Any other one is handled,   *)
(* also when a duplicate of it is being handled.                           *)
dispatch(r) ==
    /\ front[r] = "idle"
    /\ IF cache[KeyOf[r]] # NoAnswer
       THEN /\ answer' = [answer EXCEPT ![r] = cache[KeyOf[r]]]
            /\ front' = [front EXCEPT ![r] = "done"]
            /\ UNCHANGED <<pc, excused>>
       ELSE /\ front' = [front EXCEPT ![r] = "waiting"]
            /\ pc' = [pc EXCEPT ![r] = IF Op[r] = "top_up" THEN "charge" ELSE "latest"]
            /\ excused' = IF Twins(r) = {} THEN excused ELSE excused \cup {KeyOf[r]}
            /\ UNCHANGED answer
    /\ UNCHANGED <<cache, expiries, charged, ledger, seen, overlap>>

(* The answer of the endpoint, unless the client has been told of a        *)
(* timeout already.                                                        *)
Respond(r, kind) ==
    IF front[r] = "waiting"
    THEN /\ answer' = [answer EXCEPT ![r] = Answer(kind, r)]
         /\ front' = [front EXCEPT ![r] = "store"]
    ELSE UNCHANGED <<answer, front>>

(* RequestTimeoutMiddleware, which is inside: it answers, and the endpoint *)
(* it no longer waits for goes on.                                         *)
RequestTimeout(r) ==
    /\ front[r] = "waiting"
    /\ pc[r] # "ended"
    /\ Respond(r, "timeout")
    /\ UNCHANGED <<cache, excused, expiries, charged, ledger, handler>>

(* Fault: only the answer to a success is kept.                            *)
StoreSuccess(r) ==
    /\ front[r] = "store"
    /\ cache' = IF answer[r].kind = "ok"
                THEN [cache EXCEPT ![KeyOf[r]] = answer[r]] ELSE cache
    /\ front' = [front EXCEPT ![r] = "done"]
    /\ UNCHANGED <<excused, expiries, charged, ledger, handler, answer>>

(* Whatever was answered is kept, errors too, over what a duplicate left.  *)
_store_cached_response(r) ==
    /\ front[r] = "store"
    /\ cache' = [cache EXCEPT ![KeyOf[r]] = answer[r]]
    /\ front' = [front EXCEPT ![r] = "done"]
    /\ UNCHANGED <<excused, expiries, charged, ledger, handler, answer>>

Lost(r) ==
    /\ front' = [front EXCEPT ![r] = "lost"]
    /\ answer' = [answer EXCEPT ![r] = NoAnswer]
    /\ excused' = excused \cup {KeyOf[r]}

(* Redis fails or the process is lost before the answer is kept.           *)
StoreFails(r) ==
    /\ front[r] = "store"
    /\ Lost(r)
    /\ UNCHANGED <<cache, expiries, charged, ledger, handler>>

(* 24 hours have passed, or Redis was restarted.                           *)
Expire(k) ==
    /\ expiries < MaxExpiries
    /\ cache[k] # NoAnswer
    /\ cache' = [cache EXCEPT ![k] = NoAnswer]
    /\ excused' = excused \cup {k}
    /\ expiries' = expiries + 1
    /\ UNCHANGED <<charged, ledger, handler, front, answer>>

--------------------------------------------------------------------------------
(* The endpoints                                                           *)

At(r, where) == pc' = [pc EXCEPT ![r] = where]

(* top_up_credits: the provider takes the money ...                        *)
create_top_up_charge(r) ==
    /\ pc[r] = "charge"
    /\ charged' = charged \cup {r}
    /\ At(r, "balance")
    /\ UNCHANGED <<cache, excused, expiries, ledger, seen, overlap, front, answer>>

(* ... or answers with an error, or not at all, in which case it may have  *)
(* taken the money: InsufficientCreditsError.                              *)
Declined(r) ==
    /\ pc[r] = "charge"
    /\ \E taken \in BOOLEAN : charged' = IF taken THEN charged \cup {r} ELSE charged
    /\ At(r, "ended")
    /\ Respond(r, "refused")
    /\ UNCHANGED <<cache, excused, expiries, ledger, seen, overlap>>

(* What the rows add, less what they take: an amount below zero has no     *)
(* credits.                                                                *)
SumOfDeltas ==
    Total([i \in DOMAIN ledger |-> ledger[i].delta]) - Total([i \in DOMAIN ledger |-> -ledger[i].delta])

(* What r has read is current until another one ends.                      *)
Reads(r, value) ==
    /\ seen' = [seen EXCEPT ![r] = value]
    /\ overlap' = (overlap \/ \E s \in Requests \ {r} : pc[s] \in {"lock", "insert"})

(* Fault: only the rows of purchases are summed.                           *)
GetBalanceGross(r) ==
    /\ pc[r] = "balance"
    /\ Reads(r, Total([i \in DOMAIN ledger |-> ledger[i].delta]))
    /\ At(r, "insert")
    /\ UNCHANGED <<cache, excused, expiries, charged, ledger, front, answer>>

get_balance(r) ==
    /\ pc[r] = "balance"
    /\ Reads(r, SumOfDeltas)
    /\ At(r, "insert")
    /\ UNCHANGED <<cache, excused, expiries, charged, ledger, front, answer>>

(* SELECT ... ORDER BY created_at DESC LIMIT 1 chooses the row, ...        *)
ReadLatest(r) ==
    /\ pc[r] = "latest"
    /\ Reads(r, Len(ledger))
    /\ At(r, "lock")
    /\ UNCHANGED <<cache, excused, expiries, charged, ledger, front, answer>>

Holds(r, row) == Op[r] = "consume" /\ pc[r] = "insert" /\ seen[r] = row

BalanceAfter(row) == IF row = 0 THEN 0 ELSE ledger[row].after

(* ... FOR UPDATE waits for it and does not choose again.                  *)
consume_credits(r) ==
    /\ pc[r] = "lock"
    /\ seen[r] # 0 => \A s \in Requests : ~Holds(s, seen[r])
    /\ IF BalanceAfter(seen[r]) < Amount[r]
       THEN At(r, "ended") /\ Respond(r, "refused")
       ELSE At(r, "insert") /\ UNCHANGED <<front, answer>>
    /\ UNCHANGED <<cache, excused, expiries, charged, ledger, seen, overlap>>

Row(r) ==
    IF Op[r] = "top_up"
    THEN [delta |-> Amount[r], after |-> seen[r] + Amount[r], of |-> r]
    ELSE [delta |-> -Amount[r], after |-> BalanceAfter(seen[r]) - Amount[r], of |-> r]

(* Fault: the answer is on its way and the commit fails.                   *)
RecordAnswering(r) ==
    /\ pc[r] = "insert"
    /\ \E saved \in BOOLEAN : ledger' = IF saved THEN Append(ledger, Row(r)) ELSE ledger
    /\ At(r, "ended")
    /\ Respond(r, "ok")
    /\ UNCHANGED <<cache, excused, expiries, charged, seen, overlap>>

(* insert_financial_record under the chain lock, and the commit that ends  *)
(* the request before its answer is sent.                                  *)
Record(r) ==
    /\ pc[r] = "insert"
    /\ ledger' = Append(ledger, Row(r))
    /\ At(r, "ended")
    /\ Respond(r, "ok")
    /\ UNCHANGED <<cache, excused, expiries, charged, seen, overlap>>

(* An error nobody handles or a lost process: no answer.  The provider may *)
(* have taken the money.                                                   *)
Fail(r) ==
    /\ pc[r] \notin {"idle", "ended"}
    /\ At(r, "ended")
    /\ \E taken \in BOOLEAN :
        charged' = IF taken /\ pc[r] = "charge" THEN charged \cup {r} ELSE charged
    /\ IF front[r] = "waiting" THEN Lost(r) ELSE UNCHANGED <<front, answer, excused>>
    /\ UNCHANGED <<cache, expiries, ledger, seen, overlap>>

--------------------------------------------------------------------------------
Finished ==
    /\ \A r \in Requests : front[r] \in {"done", "lost"} /\ pc[r] \in {"idle", "ended"}
    /\ UNCHANGED vars

Next ==
    \/ \E r \in Requests :
        \/ dispatch(r)
        \/ RequestTimeout(r)
        \/ _store_cached_response(r)
        \/ StoreFails(r)
        \/ create_top_up_charge(r)
        \/ Declined(r)
        \/ get_balance(r)
        \/ ReadLatest(r)
        \/ consume_credits(r)
        \/ Record(r)
        \/ Fail(r)
    \/ \E k \in Keys : Expire(k)
    \/ Finished

Spec == Init /\ [][Next]_vars

--------------------------------------------------------------------------------
AnswersTo(R) ==
    {NoAnswer} \cup [kind : {"ok", "refused", "timeout"}, of : R]

(* The type invariant; an answer kept under a key is that of a request     *)
(* with this key.                                                          *)
TypeOK ==
    /\ \A k \in Keys : cache[k] \in AnswersTo({r \in Requests : KeyOf[r] = k})
    /\ excused \subseteq Keys
    /\ expiries \in 0..MaxExpiries
    /\ charged \subseteq Requests
    /\ ledger \in Seq([delta : Int, after : Int, of : Requests])
    /\ pc \in [Requests -> {"idle", "charge", "balance", "latest", "lock", "insert", "ended"}]
    /\ seen \in [Requests -> Int]
    /\ overlap \in BOOLEAN
    /\ front \in [Requests -> {"idle", "waiting", "store", "done", "lost"}]
    /\ answer \in [Requests -> AnswersTo(Requests)]

Recorded(r) == \E i \in DOMAIN ledger : ledger[i].of = r

(* A client that is told of a success, by the endpoint or from Redis, will *)
(* find it: the request that the answer tells of has the client's key and  *)
(* its row is committed (IdempotencyMiddleware, get_async_session).        *)
AnswersAreBacked ==
    \A r \in Requests :
        front[r] = "done" /\ answer[r].kind = "ok" =>
            KeyOf[answer[r].of] = KeyOf[r] /\ Recorded(answer[r].of)

(* The customer is charged twice under one key only when duplicates were   *)
(* in flight together or an answer was lost or had expired: a client that  *)
(* waits for its answer and asks again pays once, also after a refusal or  *)
(* a timeout (IdempotencyMiddleware, top_up_credits).                      *)
RepeatedWithoutCharge ==
    \A r, s \in charged : KeyOf[r] = KeyOf[s] /\ r # s => KeyOf[r] \in excused

(* Requests that read and write the ledger one after the other, whatever   *)
(* fails, times out or goes on unattended, never use more than was bought, *)
(* and the youngest row shows what is left: the two ways of computing the  *)
(* balance agree (get_balance, consume_credits).  Overlapping ones can.    *)
SerialUseIsCovered ==
    ~overlap => /\ SumOfDeltas >= 0
                /\ BalanceAfter(Len(ledger)) = SumOfDeltas

================================================================================
