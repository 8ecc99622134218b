-------------------------- MODULE PlanCreditsProofs --------------------------
(***************************************************************************)
(* What the idempotency middleware promises in front of the plan credits,  *)
(* for any requests, keys and amounts, and what the ledger behind it does. *)
(* In the first part the balances play no role: the invariant says where a *)
(* request is, what the answers tell of, and what has to be true for two   *)
(* requests to be handled under one key.  The second part is about the     *)
(* balances, which are sums over the ledger.                               *)
(***************************************************************************)
EXTENDS PlanCredits, FiniteSetTheorems, TLAPS

Places == {"idle", "charge", "balance", "latest", "lock", "insert", "ended"}
Fronts == {"idle", "waiting", "store", "done", "lost"}

(* The variables that are no numbers.  Rows are told apart by the request  *)
(* they belong to.                                                         *)
Typed ==
    /\ cache \in [Keys -> AnswersTo(Requests)]
    /\ excused \subseteq Keys
    /\ charged \subseteq Requests
    /\ ledger \in Seq({ledger[i] : i \in DOMAIN ledger})
    /\ pc \in [Requests -> Places]
    /\ front \in [Requests -> Fronts]
    /\ answer \in [Requests -> AnswersTo(Requests)]

(* An answer that may be shown under key k is that of a request with this  *)
(* key, and if it tells of a success the row is there.                     *)
RecordedIn(rows, r) == \E i \in DOMAIN rows : rows[i].of = r

Backed(rows, a, k) ==
    a # NoAnswer => /\ a.of \in Requests /\ KeyOf[a.of] = k
                    /\ a.kind = "ok" => RecordedIn(rows, a.of)

AnswersOK ==
    /\ \A k \in Keys : Backed(ledger, cache[k], k)
    /\ \A r \in Requests : Backed(ledger, answer[r], KeyOf[r])

(* A request that is handled has passed the middleware; while its key is   *)
(* not excused, Redis has an answer once its own middleware is through.    *)
RequestOK(r) ==
    /\ front[r] = "idle" => pc[r] = "idle"
    /\ front[r] = "store" => answer[r] # NoAnswer
    /\ front[r] = "lost" => KeyOf[r] \in excused
    /\ front[r] = "done" => cache[KeyOf[r]] # NoAnswer \/ KeyOf[r] \in excused
    /\ r \in charged => pc[r] # "idle"

(* Two requests are handled under one key only if it is excused.           *)
HandledOnce ==
    \A r, s \in Requests :
        KeyOf[r] = KeyOf[s] /\ r # s /\ pc[r] # "idle" /\ pc[s] # "idle" => KeyOf[r] \in excused

IInv ==
    /\ Typed
    /\ AnswersOK
    /\ \A r \in Requests : RequestOK(r)
    /\ HandledOnce

--------------------------------------------------------------------------------
(* Answers and rows.                                                       *)

LEMMA KeyTyped == ASSUME NEW r \in Requests PROVE KeyOf[r] \in Keys
BY DEF Keys

LEMMA AnswerTyped ==
    ASSUME NEW r \in Requests, NEW kind \in {"ok", "refused", "timeout"}
    PROVE  /\ Answer(kind, r) \in AnswersTo(Requests)
           /\ Answer(kind, r) # NoAnswer
           /\ Answer(kind, r).kind = kind /\ Answer(kind, r).of = r
<1>1. Answer(kind, r).kind = kind /\ Answer(kind, r).of = r /\ NoAnswer.kind = "none"
  BY DEF Answer, NoAnswer
<1>2. Answer(kind, r) \in [kind : {"ok", "refused", "timeout"}, of : Requests]
  BY DEF Answer
<1>. QED
  BY <1>1, <1>2 DEF AnswersTo

LEMMA NoAnswerTyped == NoAnswer \in AnswersTo(Requests) /\ NoAnswer.kind = "none"
BY DEF AnswersTo, NoAnswer

(* A list is one of its own elements.                                      *)
LEMMA RangeOfList ==
    ASSUME NEW S, NEW t \in Seq(S)
    PROVE  t \in Seq({t[i] : i \in DOMAIN t})
<1> DEFINE T == {t[i] : i \in DOMAIN t}
<1>1. Len(t) \in Nat /\ DOMAIN t = 1..Len(t) /\ t = [i \in 1..Len(t) |-> t[i]]
  OBVIOUS
<1>2. \A i \in 1..Len(t) : t[i] \in T
  BY <1>1
<1>. HIDE DEF T
<1>3. t \in [1..Len(t) -> T]
  BY <1>1, <1>2
<1>4. t \in Seq(T)
  BY <1>1, <1>3
<1>. QED
  BY <1>4 DEF T

(* Rows are only added.                                                    *)
RowsKept ==
    /\ ledger' \in Seq({ledger'[i] : i \in DOMAIN ledger'})
    /\ \A r \in Requests : RecordedIn(ledger, r) => RecordedIn(ledger', r)

LEMMA RowAdded ==
    ASSUME Typed, NEW row, ledger' = Append(ledger, row)
    PROVE  RowsKept /\ RecordedIn(ledger', row.of)
<1> DEFINE S == {ledger[i] : i \in DOMAIN ledger} \cup {row}
<1>1. ledger \in Seq(S) /\ row \in S
  <2>1. ledger \in Seq({ledger[i] : i \in DOMAIN ledger})
    BY DEF Typed
  <2>2. Len(ledger) \in Nat /\ DOMAIN ledger = 1..Len(ledger)
    BY <2>1
  <2>3. ledger \in [1..Len(ledger) -> S]
    BY <2>1, <2>2
  <2>. HIDE DEF S
  <2>4. ledger \in Seq(S)
    BY <2>2, <2>3
  <2>. QED
    BY <2>4 DEF S
<1>. HIDE DEF S
<1>2. /\ ledger' \in Seq(S) /\ DOMAIN ledger = 1..Len(ledger) /\ Len(ledger) \in Nat
      /\ DOMAIN ledger' = 1..(Len(ledger) + 1) /\ Len(ledger') = Len(ledger) + 1
      /\ \A i \in 1..Len(ledger) : ledger'[i] = ledger[i]
      /\ ledger'[Len(ledger) + 1] = row
  BY <1>1
<1>3. ledger' \in Seq({ledger'[i] : i \in DOMAIN ledger'})
  BY <1>2, RangeOfList
<1>4. \A r \in Requests : RecordedIn(ledger, r) => RecordedIn(ledger', r)
  <2>. SUFFICES ASSUME NEW r, NEW i \in DOMAIN ledger, ledger[i].of = r PROVE RecordedIn(ledger', r)
    BY DEF RecordedIn
  <2>1. i \in DOMAIN ledger' /\ ledger'[i] = ledger[i]
    BY <1>2
  <2>. QED
    BY <2>1 DEF RecordedIn
<1>5. RecordedIn(ledger', row.of)
  <2>1. Len(ledger) + 1 \in DOMAIN ledger'
    BY <1>2
  <2>. QED
    BY <1>2, <2>1 DEF RecordedIn
<1>. QED
  BY <1>3, <1>4, <1>5 DEF RowsKept

LEMMA RowsStay == ASSUME Typed, ledger' = ledger PROVE RowsKept
BY DEF Typed, RowsKept

LEMMA BackedStays ==
    ASSUME RowsKept, NEW a, NEW k, Backed(ledger, a, k)
    PROVE  Backed(ledger', a, k)
BY DEF Backed, RowsKept

--------------------------------------------------------------------------------
(* A step of one request that leaves Redis alone: its endpoint goes on, it *)
(* is answered, or its answer is lost.                                     *)
LEMMA RequestStep ==
    ASSUME IInv, NEW r \in Requests, RowsKept,
           cache' = cache, excused \subseteq excused', excused' \subseteq Keys,
           NEW where \in Places, pc' = [pc EXCEPT ![r] = where],
           where = pc[r] \/ (where # "idle" /\ pc[r] # "idle"),
           charged' = charged \/ (charged' = charged \cup {r} /\ pc[r] # "idle"),
           NEW f, front' = [front EXCEPT ![r] = f],
           NEW a, answer' = [answer EXCEPT ![r] = a],
           \/ f = front[r] /\ a = answer[r]
           \/ /\ front[r] # "idle" /\ f = "store"
              /\ \E kind \in {"ok", "refused", "timeout"} :
                    a = Answer(kind, r) /\ (kind = "ok" => RecordedIn(ledger', r))
           \/ front[r] # "idle" /\ f = "lost" /\ a = NoAnswer /\ KeyOf[r] \in excused'
    PROVE  IInv'
<1>1. /\ pc \in [Requests -> Places] /\ front \in [Requests -> Fronts]
      /\ answer \in [Requests -> AnswersTo(Requests)] /\ charged \subseteq Requests
      /\ cache \in [Keys -> AnswersTo(Requests)]
  BY DEF IInv, Typed
<1>2. f \in Fronts /\ a \in AnswersTo(Requests)
  BY <1>1, AnswerTyped, NoAnswerTyped DEF Fronts
<1>3. /\ pc'[r] = where /\ front'[r] = f /\ answer'[r] = a
      /\ \A s \in Requests \ {r} : pc'[s] = pc[s] /\ front'[s] = front[s] /\ answer'[s] = answer[s]
  BY <1>1
<1>4. Typed'
  BY <1>1, <1>2 DEF Typed, RowsKept
<1>5. Backed(ledger', a, KeyOf[r])
  <2>1. CASE a = answer[r]
    BY <2>1, BackedStays DEF IInv, AnswersOK
  <2>2. ASSUME NEW kind \in {"ok", "refused", "timeout"}, a = Answer(kind, r),
               kind = "ok" => RecordedIn(ledger', r)
        PROVE  Backed(ledger', a, KeyOf[r])
    BY <2>2, AnswerTyped DEF Backed
  <2>3. CASE a = NoAnswer
    BY <2>3, NoAnswerTyped DEF Backed
  <2>. QED
    BY <2>1, <2>2, <2>3
<1>6. AnswersOK'
  <2>1. \A k \in Keys : Backed(ledger', cache'[k], k)
    BY BackedStays DEF IInv, AnswersOK
  <2>2. \A s \in Requests : Backed(ledger', answer'[s], KeyOf[s])
    BY <1>3, <1>5, BackedStays DEF IInv, AnswersOK
  <2>. QED
    BY <2>1, <2>2 DEF AnswersOK
<1>7. ASSUME NEW s \in Requests PROVE RequestOK(s)'
  <2>1. RequestOK(s)
    BY DEF IInv
  <2>2. CASE s # r
    BY <1>3, <2>1, <2>2 DEF RequestOK
  <2>3. CASE s = r
    <3>1. /\ f = "idle" => where = "idle"
          /\ f = "store" => a # NoAnswer
          /\ f = "lost" => KeyOf[r] \in excused'
          /\ f = "done" => cache[KeyOf[r]] # NoAnswer \/ KeyOf[r] \in excused'
      BY <2>1, <2>3, AnswerTyped DEF RequestOK
    <3>2. r \in charged' => where # "idle"
      BY <2>1, <2>3 DEF RequestOK
    <3>. QED
      BY <1>3, <2>3, <3>1, <3>2 DEF RequestOK
  <2>. QED
    BY <2>2, <2>3
<1>8. HandledOnce'
  BY <1>3 DEF IInv, HandledOnce
<1>. QED
  BY <1>4, <1>6, <1>7, <1>8 DEF IInv

(* The answer of the endpoint, or none when it is too late.                *)
LEMMA Responded ==
    ASSUME IInv, NEW r \in Requests, NEW kind \in {"ok", "refused", "timeout"}, Respond(r, kind),
           kind = "ok" => RecordedIn(ledger', r)
    PROVE  \E f, a :
               /\ front' = [front EXCEPT ![r] = f]
               /\ answer' = [answer EXCEPT ![r] = a]
               /\ \/ f = front[r] /\ a = answer[r]
                  \/ /\ front[r] # "idle" /\ f = "store"
                     /\ \E k \in {"ok", "refused", "timeout"} :
                           a = Answer(k, r) /\ (k = "ok" => RecordedIn(ledger', r))
<1>1. CASE front[r] = "waiting"
  <2>1. /\ front' = [front EXCEPT ![r] = "store"]
        /\ answer' = [answer EXCEPT ![r] = Answer(kind, r)]
    BY <1>1 DEF Respond
  <2>. QED
    BY <1>1, <2>1
<1>2. CASE front[r] # "waiting"
  <2>1. UNCHANGED <<front, answer>>
    BY <1>2 DEF Respond
  <2>2. front' = [front EXCEPT ![r] = front[r]] /\ answer' = [answer EXCEPT ![r] = answer[r]]
    BY <2>1 DEF IInv, Typed
  <2>. QED
    BY <2>2
<1>. QED
  BY <1>1, <1>2

LEMMA Unanswered ==
    ASSUME IInv, NEW r \in Requests, UNCHANGED <<front, answer>>
    PROVE  front' = [front EXCEPT ![r] = front[r]] /\ answer' = [answer EXCEPT ![r] = answer[r]]
BY DEF IInv, Typed

--------------------------------------------------------------------------------
(* The middleware.                                                         *)

(* A request that Redis has no answer for is handled.  If another one with *)
(* its key has been handled, that one is in flight, or its answer was lost *)
(* or has expired.                                                         *)
LEMMA DispatchStep ==
    ASSUME IInv, NEW r \in Requests, dispatch(r)
    PROVE  IInv'
<1>1. /\ pc \in [Requests -> Places] /\ front \in [Requests -> Fronts]
      /\ answer \in [Requests -> AnswersTo(Requests)]
      /\ cache \in [Keys -> AnswersTo(Requests)] /\ excused \subseteq Keys
      /\ KeyOf[r] \in Keys /\ Typed
  BY KeyTyped DEF IInv, Typed
<1>2. front[r] = "idle" /\ pc[r] = "idle" /\ UNCHANGED <<cache, expiries, charged, ledger, seen, overlap>>
  BY DEF dispatch, IInv, RequestOK
<1>3. RowsKept
  BY <1>1, <1>2, RowsStay
<1>4. CASE cache[KeyOf[r]] # NoAnswer
  <2>1. /\ answer' = [answer EXCEPT ![r] = cache[KeyOf[r]]]
        /\ front' = [front EXCEPT ![r] = "done"]
        /\ UNCHANGED <<pc, excused>>
    BY <1>4 DEF dispatch
  <2>2. /\ answer'[r] = cache[KeyOf[r]] /\ front'[r] = "done"
        /\ \A s \in Requests \ {r} : answer'[s] = answer[s] /\ front'[s] = front[s]
    BY <1>1, <2>1
  <2>3. Typed'
    BY <1>1, <1>2, <2>1 DEF Typed, Fronts
  <2>4. AnswersOK'
    BY <1>1, <1>2, <2>2 DEF IInv, AnswersOK
  <2>5. ASSUME NEW s \in Requests PROVE RequestOK(s)'
    <3>1. CASE s = r
      BY <1>2, <1>4, <2>1, <2>2, <3>1 DEF IInv, RequestOK
    <3>2. CASE s # r
      BY <1>2, <2>1, <2>2, <3>2 DEF IInv, RequestOK
    <3>. QED
      BY <3>1, <3>2
  <2>6. HandledOnce'
    BY <2>1 DEF IInv, HandledOnce
  <2>. QED
    BY <2>3, <2>4, <2>5, <2>6 DEF IInv
<1>5. CASE cache[KeyOf[r]] = NoAnswer
  <2> DEFINE where == IF Op[r] = "top_up" THEN "charge" ELSE "latest"
  <2>1. /\ front' = [front EXCEPT ![r] = "waiting"]
        /\ pc' = [pc EXCEPT ![r] = where]
        /\ excused' = IF Twins(r) = {} THEN excused ELSE excused \cup {KeyOf[r]}
        /\ answer' = answer
    BY <1>5 DEF dispatch
  <2>2. where \in Places /\ where # "idle"
    BY DEF Places
  <2>. HIDE DEF where
  <2>3. /\ pc'[r] = where /\ front'[r] = "waiting"
        /\ \A s \in Requests \ {r} : pc'[s] = pc[s] /\ front'[s] = front[s]
    BY <1>1, <2>1
  <2>4. excused \subseteq excused' /\ excused' \subseteq Keys
    BY <1>1, <2>1
  <2>5. Typed'
    BY <1>1, <1>2, <2>1, <2>2, <2>4 DEF Typed, Fronts
  <2>6. AnswersOK'
    BY <1>2, <2>1 DEF IInv, AnswersOK
  <2>7. ASSUME NEW s \in Requests PROVE RequestOK(s)'
    <3>1. CASE s = r
      BY <1>2, <2>2, <2>3, <3>1 DEF IInv, RequestOK
    <3>2. CASE s # r
      BY <1>2, <2>1, <2>3, <2>4, <3>2 DEF IInv, RequestOK
    <3>. QED
      BY <3>1, <3>2
  <2>8. ASSUME NEW s \in Requests, s # r, KeyOf[s] = KeyOf[r], pc[s] # "idle"
        PROVE  KeyOf[r] \in excused'
    <3>1. CASE InFlight(s)
      <4>1. Twins(r) # {}
        BY <2>8, <3>1 DEF Twins
      <4>. QED
        BY <2>1, <4>1
    <3>2. CASE ~InFlight(s)
      <4>1. front[s] \in {"done", "lost"}
        BY <1>1, <2>8, <3>2 DEF InFlight, Fronts, IInv, RequestOK
      <4>2. KeyOf[s] \in excused
        BY <1>5, <2>8, <4>1 DEF IInv, RequestOK
      <4>. QED
        BY <2>4, <2>8, <4>2
    <3>. QED
      BY <3>1, <3>2
  <2>9. HandledOnce'
    <3>. SUFFICES ASSUME NEW s \in Requests, NEW u \in Requests, KeyOf[s] = KeyOf[u], s # u,
                         pc'[s] # "idle", pc'[u] # "idle"
                  PROVE  KeyOf[s] \in excused'
      BY DEF HandledOnce
    <3>1. CASE s # r /\ u # r
      BY <2>3, <2>4, <3>1 DEF IInv, HandledOnce
    <3>2. CASE s = r
      BY <2>3, <2>8, <3>2
    <3>3. CASE u = r
      BY <2>3, <2>8, <3>3
    <3>. QED
      BY <3>1, <3>2, <3>3
  <2>. QED
    BY <2>5, <2>6, <2>7, <2>9 DEF IInv
<1>. QED
  BY <1>4, <1>5

LEMMA StoreStep ==
    ASSUME IInv, NEW r \in Requests, _store_cached_response(r)
    PROVE  IInv'
<1>. USE DEF _store_cached_response, handler
<1>1. /\ front \in [Requests -> Fronts] /\ cache \in [Keys -> AnswersTo(Requests)]
      /\ answer \in [Requests -> AnswersTo(Requests)] /\ KeyOf[r] \in Keys /\ Typed
      /\ answer[r] # NoAnswer
  BY KeyTyped DEF IInv, Typed, RequestOK
<1>2. /\ cache'[KeyOf[r]] = answer[r] /\ front'[r] = "done"
      /\ \A k \in Keys \ {KeyOf[r]} : cache'[k] = cache[k]
      /\ \A s \in Requests \ {r} : front'[s] = front[s]
  BY <1>1
<1>3. Typed'
  BY <1>1 DEF Typed, Fronts
<1>4. AnswersOK'
  BY <1>2 DEF IInv, AnswersOK
<1>5. ASSUME NEW s \in Requests PROVE RequestOK(s)'
  <2>1. KeyOf[s] \in Keys /\ RequestOK(s)
    BY KeyTyped DEF IInv
  <2>2. cache[KeyOf[s]] # NoAnswer => cache'[KeyOf[s]] # NoAnswer
    BY <1>1, <1>2, <2>1
  <2>3. CASE s = r
    BY <1>1, <1>2, <2>1, <2>3 DEF RequestOK
  <2>4. CASE s # r
    BY <1>2, <2>1, <2>2, <2>4 DEF RequestOK
  <2>. QED
    BY <2>3, <2>4
<1>6. HandledOnce'
  BY DEF IInv, HandledOnce
<1>. QED
  BY <1>3, <1>4, <1>5, <1>6 DEF IInv

(* An answer that expires excuses its key.                                 *)
LEMMA ExpireStep ==
    ASSUME IInv, NEW k \in Keys, Expire(k)
    PROVE  IInv'
<1>. USE DEF Expire, handler
<1>1. cache \in [Keys -> AnswersTo(Requests)] /\ Typed
  BY DEF IInv, Typed
<1>2. /\ cache'[k] = NoAnswer /\ \A m \in Keys \ {k} : cache'[m] = cache[m]
      /\ k \in excused' /\ excused \subseteq excused'
  BY <1>1
<1>3. Typed'
  BY <1>1, NoAnswerTyped DEF Typed
<1>4. AnswersOK'
  <2>1. Backed(ledger', NoAnswer, k)
    BY NoAnswerTyped DEF Backed
  <2>. QED
    BY <1>2, <2>1 DEF IInv, AnswersOK
<1>5. ASSUME NEW s \in Requests PROVE RequestOK(s)'
  BY <1>2, KeyTyped DEF IInv, RequestOK
<1>6. HandledOnce'
  BY <1>2 DEF IInv, HandledOnce
<1>. QED
  BY <1>3, <1>4, <1>5, <1>6 DEF IInv

(* The client is answered for the endpoint that goes on, or not at all.    *)
LEMMA TimeoutStep ==
    ASSUME IInv, NEW r \in Requests, RequestTimeout(r)
    PROVE  IInv'
<1>. USE DEF RequestTimeout, handler
<1>1. pc[r] \in Places /\ pc' = [pc EXCEPT ![r] = pc[r]] /\ RowsKept /\ excused \subseteq Keys
  BY RowsStay DEF IInv, Typed
<1>2. UNCHANGED <<cache, excused, charged>>
  OBVIOUS
<1>. QED
  BY <1>1, <1>2, Responded, RequestStep

LEMMA StoreFailsStep ==
    ASSUME IInv, NEW r \in Requests, StoreFails(r)
    PROVE  IInv'
<1>. USE DEF StoreFails, Lost, handler
<1>1. pc[r] \in Places /\ pc' = [pc EXCEPT ![r] = pc[r]] /\ RowsKept
  BY RowsStay DEF IInv, Typed
<1>2. excused \subseteq excused' /\ excused' \subseteq Keys /\ KeyOf[r] \in excused'
  BY KeyTyped DEF IInv, Typed
<1>3. /\ front' = [front EXCEPT ![r] = "lost"] /\ answer' = [answer EXCEPT ![r] = NoAnswer]
      /\ UNCHANGED <<cache, charged>> /\ front[r] # "idle"
  OBVIOUS
<1>. QED
  BY <1>1, <1>2, <1>3, RequestStep

--------------------------------------------------------------------------------
(* The endpoints.                                                          *)

LEMMA EndpointStep ==
    ASSUME IInv, NEW r \in Requests,
           create_top_up_charge(r) \/ Declined(r) \/ get_balance(r) \/ ReadLatest(r) \/ consume_credits(r)
    PROVE  IInv'
<1>1. /\ UNCHANGED <<cache, excused, ledger>> /\ pc[r] # "idle"
      /\ charged' = charged \/ charged' = charged \cup {r}
  BY DEF create_top_up_charge, Declined, get_balance, ReadLatest, consume_credits
<1>2. RowsKept /\ excused \subseteq Keys
  BY <1>1, RowsStay DEF IInv, Typed
<1>3. PICK where \in Places \ {"idle"} : pc' = [pc EXCEPT ![r] = where]
  BY DEF create_top_up_charge, Declined, get_balance, ReadLatest, consume_credits, At, Places
<1>4. UNCHANGED <<front, answer>> \/ Respond(r, "refused")
  BY DEF create_top_up_charge, Declined, get_balance, ReadLatest, consume_credits
<1>5. CASE UNCHANGED <<front, answer>>
  BY <1>1, <1>2, <1>3, <1>5, Unanswered, RequestStep
<1>6. CASE Respond(r, "refused")
  BY <1>1, <1>2, <1>3, <1>6, Responded, RequestStep
<1>. QED
  BY <1>4, <1>5, <1>6

(* The success is answered in the step that commits the row.               *)
LEMMA RecordStep ==
    ASSUME IInv, NEW r \in Requests, Record(r)
    PROVE  IInv'
<1>. USE DEF Record, At
<1>1. Row(r).of = r
  BY DEF Row
<1>2. Typed /\ excused \subseteq Keys
  BY DEF IInv, Typed
<1>3. RowsKept /\ RecordedIn(ledger', r)
  BY <1>1, <1>2, RowAdded
<1>4. /\ pc' = [pc EXCEPT ![r] = "ended"] /\ pc[r] # "idle" /\ "ended" \in Places
      /\ UNCHANGED <<cache, excused, charged>> /\ Respond(r, "ok")
  BY DEF Places
<1>. QED
  BY <1>2, <1>3, <1>4, Responded, RequestStep

LEMMA FailStep ==
    ASSUME IInv, NEW r \in Requests, Fail(r)
    PROVE  IInv'
<1>. USE DEF Fail, At
<1>1. /\ pc' = [pc EXCEPT ![r] = "ended"] /\ pc[r] # "idle" /\ "ended" \in Places
      /\ UNCHANGED <<cache, ledger>>
      /\ charged' = charged \/ charged' = charged \cup {r}
  BY DEF Places
<1>2. RowsKept /\ excused \subseteq Keys /\ KeyOf[r] \in Keys
  BY <1>1, RowsStay, KeyTyped DEF IInv, Typed
<1>3. CASE front[r] = "waiting"
  <2>1. /\ front' = [front EXCEPT ![r] = "lost"] /\ answer' = [answer EXCEPT ![r] = NoAnswer]
        /\ excused' = excused \cup {KeyOf[r]}
    BY <1>3 DEF Lost
  <2>2. excused \subseteq excused' /\ excused' \subseteq Keys /\ KeyOf[r] \in excused'
    BY <1>2, <2>1
  <2>. QED
    BY <1>1, <1>2, <1>3, <2>1, <2>2, RequestStep
<1>4. CASE front[r] # "waiting"
  <2>1. UNCHANGED <<front, answer, excused>>
    BY <1>4
  <2>. QED
    BY <1>1, <1>2, <2>1, Unanswered, RequestStep
<1>. QED
  BY <1>3, <1>4

LEMMA StutterStep ==
    ASSUME IInv, UNCHANGED vars
    PROVE  IInv'
<1>. USE DEF vars
<1>1. Typed' /\ AnswersOK' /\ HandledOnce'
  BY DEF IInv, Typed, AnswersOK, HandledOnce
<1>2. \A r \in Requests : RequestOK(r)'
  BY DEF IInv, RequestOK
<1>. QED
  BY <1>1, <1>2 DEF IInv

--------------------------------------------------------------------------------
LEMMA InitIInv == Init => IInv
<1>. SUFFICES ASSUME Init PROVE IInv
  OBVIOUS
<1>. USE DEF Init
<1>1. Typed
  <2>1. ledger \in Seq({ledger[i] : i \in DOMAIN ledger})
    OBVIOUS
  <2>. QED
    BY <2>1, NoAnswerTyped DEF Typed, Places, Fronts
<1>2. AnswersOK
  BY NoAnswerTyped, KeyTyped DEF AnswersOK, Backed
<1>3. \A r \in Requests : RequestOK(r)
  BY DEF RequestOK
<1>4. HandledOnce
  BY DEF HandledOnce
<1>. QED
  BY <1>1, <1>2, <1>3, <1>4 DEF IInv

LEMMA StepIInv == IInv /\ [Next]_vars => IInv'
<1>. SUFFICES ASSUME IInv, [Next]_vars PROVE IInv'
  OBVIOUS
<1>. QED
  BY DispatchStep, TimeoutStep, StoreStep, StoreFailsStep, EndpointStep, RecordStep, FailStep,
     ExpireStep, StutterStep DEF Next, Finished

(* The invariant above holds for any requests, keys, amounts and expiries. *)
THEOREM PlanInvariant == Spec => []IInv
<1>1. Init => IInv
  BY InitIInv
<1>2. IInv /\ [Next]_vars => IInv'
  BY StepIInv
<1>. QED
  BY <1>1, <1>2, PTL DEF Spec

(* A client that is told of a success finds its row, under its key         *)
(* (IdempotencyMiddleware, get_async_session).                             *)
THEOREM PlanAnswersAreBacked == Spec => []AnswersAreBacked
<1>1. IInv => AnswersAreBacked
  BY NoAnswerTyped DEF IInv, AnswersOK, Backed, RecordedIn, AnswersAreBacked, Recorded
<1>. QED
  BY <1>1, PlanInvariant, PTL

(* Nobody is charged twice under a key, unless duplicates were in flight   *)
(* together or an answer was lost or had expired (IdempotencyMiddleware,   *)
(* top_up_credits).                                                        *)
THEOREM PlanRepeatedWithoutCharge == Spec => []RepeatedWithoutCharge
<1>1. IInv => RepeatedWithoutCharge
  <2>. SUFFICES ASSUME IInv, NEW r \in charged, NEW s \in charged, KeyOf[r] = KeyOf[s], r # s
                PROVE  KeyOf[r] \in excused
    BY DEF RepeatedWithoutCharge
  <2>1. r \in Requests /\ s \in Requests
    BY DEF IInv, Typed
  <2>. QED
    BY <2>1 DEF IInv, RequestOK, HandledOnce
<1>. QED
  BY <1>1, PlanInvariant, PTL

--------------------------------------------------------------------------------
(* The balances.  A row of the ledger that is appended changes the sum by  *)
(* its delta.                                                              *)

Rows == [delta : Int, after : Int, of : Requests]

Gained(rows) == [i \in DOMAIN rows |-> rows[i].delta]
Spent(rows) == [i \in DOMAIN rows |-> -rows[i].delta]
Sum(rows) == Total(Gained(rows)) - Total(Spent(rows))
After(rows, n) == IF n = 0 THEN 0 ELSE rows[n].after

Above(n) == IF n > 0 THEN n ELSE 0

LEMMA CreditsOfOne ==
    ASSUME NEW x, NEW n \in Int
    PROVE  IsFiniteSet({x} \X (1 .. n)) /\ Cardinality({x} \X (1 .. n)) = Above(n)
<1>1. IsFiniteSet({x}) /\ Cardinality({x}) = 1
  BY FS_Singleton
<1>2. IsFiniteSet(1 .. n) /\ Cardinality(1 .. n) = IF 1 > n THEN 0 ELSE n - 1 + 1
  BY FS_Interval
<1>3. /\ IsFiniteSet({x} \X (1 .. n))
      /\ Cardinality({x} \X (1 .. n)) = Cardinality({x}) * Cardinality(1 .. n)
  BY <1>1, <1>2, FS_Product
<1>. QED
  BY <1>1, <1>2, <1>3 DEF Above

LEMMA TotalType ==
    ASSUME NEW S, IsFiniteSet(S), NEW amount \in [S -> Int]
    PROVE  IsFiniteSet(Credits(amount)) /\ Total(amount) \in Nat
<1> DEFINE f == [x \in S |-> {x} \X (1 .. amount[x])]
           T == {{x} \X (1 .. amount[x]) : x \in DOMAIN amount}
<1>1. IsFiniteSet(T)
  BY FS_Surjection, f \in Surjection(S, T) DEF Surjection
<1>2. ASSUME NEW u \in T PROVE IsFiniteSet(u)
  <2>1. PICK x \in S : u = {x} \X (1 .. amount[x])
    OBVIOUS
  <2>2. amount[x] \in Int
    OBVIOUS
  <2>. QED
    BY <2>1, <2>2, CreditsOfOne
<1>3. IsFiniteSet(UNION T)
  BY <1>1, <1>2, FS_UNION
<1>. QED
  BY <1>3, FS_CardinalityType DEF Total, Credits

(* The total of a list of amounts and one more.                            *)
LEMMA TotalOfLonger ==
    ASSUME NEW n \in Nat, NEW a \in [1 .. n -> Int], NEW b \in [1 .. (n + 1) -> Int],
           \A i \in 1 .. n : b[i] = a[i]
    PROVE  Total(b) = Total(a) + Above(b[n + 1])
<1> DEFINE last == {n + 1} \X (1 .. b[n + 1])
<1>1. DOMAIN a = 1 .. n /\ DOMAIN b = (1 .. n) \cup {n + 1} /\ n + 1 \notin 1 .. n
  OBVIOUS
<1>2. Credits(b) = Credits(a) \cup last
  <2>1. ASSUME NEW u \in Credits(b) PROVE u \in Credits(a) \cup last
    <3>1. PICK i \in DOMAIN b : u \in {i} \X (1 .. b[i])
      BY DEF Credits
    <3>2. CASE i = n + 1
      BY <3>1, <3>2
    <3>3. CASE i \in 1 .. n
      BY <1>1, <3>1, <3>3 DEF Credits
    <3>. QED
      BY <1>1, <3>2, <3>3
  <2>2. ASSUME NEW u \in Credits(a) PROVE u \in Credits(b)
    <3>1. PICK i \in 1 .. n : u \in {i} \X (1 .. a[i])
      BY <1>1 DEF Credits
    <3>. QED
      BY <1>1, <3>1 DEF Credits
  <2>3. last \subseteq Credits(b)
    BY <1>1 DEF Credits
  <2>. QED
    BY <2>1, <2>2, <2>3
<1>3. Credits(a) \cap last = {}
  BY <1>1 DEF Credits
<1>4. b[n + 1] \in Int
  BY <1>1
<1>5. IsFiniteSet(last) /\ Cardinality(last) = Above(b[n + 1])
  BY <1>4, CreditsOfOne
<1>6. IsFiniteSet(Credits(a)) /\ Total(a) \in Nat
  <2>1. IsFiniteSet(1 .. n)
    BY FS_Interval
  <2>. QED
    BY <2>1, TotalType
<1>. HIDE DEF last
<1>7. Cardinality(Credits(a) \cup last)
        = Cardinality(Credits(a)) + Cardinality(last) - Cardinality(Credits(a) \cap last)
  BY <1>5, <1>6, FS_Union
<1>8. Cardinality(Credits(a) \cap last) = 0
  BY <1>3, FS_EmptySet
<1>. QED
  BY <1>2, <1>4, <1>5, <1>6, <1>7, <1>8 DEF Total, Above

LEMMA RowTypes ==
    ASSUME NEW rows \in Seq(Rows)
    PROVE  /\ Len(rows) \in Nat /\ DOMAIN rows = 1 .. Len(rows)
           /\ \A i \in 1 .. Len(rows) : rows[i] \in Rows /\ rows[i].delta \in Int /\ rows[i].after \in Int
<1>1. Len(rows) \in Nat /\ DOMAIN rows = 1 .. Len(rows) /\ \A i \in 1 .. Len(rows) : rows[i] \in Rows
  OBVIOUS
<1>2. \A row \in Rows : row.delta \in Int /\ row.after \in Int
  BY DEF Rows
<1>. QED
  BY <1>1, <1>2

LEMMA SumType ==
    ASSUME NEW rows \in Seq(Rows)
    PROVE  Sum(rows) \in Int
<1>1. Len(rows) \in Nat /\ DOMAIN rows = 1 .. Len(rows) /\ \A i \in 1 .. Len(rows) : rows[i].delta \in Int
  BY RowTypes
<1>2. Gained(rows) \in [1 .. Len(rows) -> Int] /\ Spent(rows) \in [1 .. Len(rows) -> Int]
  BY <1>1 DEF Gained, Spent
<1>3. IsFiniteSet(1 .. Len(rows))
  BY <1>1, FS_Interval
<1>4. Total(Gained(rows)) \in Nat /\ Total(Spent(rows)) \in Nat
  BY <1>2, <1>3, TotalType
<1>. QED
  BY <1>4 DEF Sum

LEMMA SumOfNothing == Sum(<<>>) = 0
<1>1. Credits(Gained(<<>>)) = {} /\ Credits(Spent(<<>>)) = {}
  BY DEF Credits, Gained, Spent
<1>2. Total(Gained(<<>>)) = 0 /\ Total(Spent(<<>>)) = 0
  BY <1>1, FS_EmptySet DEF Total
<1>. QED
  BY <1>2 DEF Sum

LEMMA SumOfLonger ==
    ASSUME NEW rows \in Seq(Rows), NEW row \in Rows
    PROVE  Sum(Append(rows, row)) = Sum(rows) + row.delta
<1> DEFINE n == Len(rows)
           longer == Append(rows, row)
<1>1. n \in Nat /\ DOMAIN rows = 1 .. n /\ DOMAIN longer = 1 .. (n + 1)
  OBVIOUS
<1>2. /\ \A i \in 1 .. n : longer[i] = rows[i] /\ rows[i].delta \in Int
      /\ longer[n + 1] = row /\ row.delta \in Int
  <2>1. row.delta \in Int
    BY DEF Rows
  <2>2. /\ \A i \in 1 .. n : longer[i] = rows[i]
        /\ longer[n + 1] = row
    OBVIOUS
  <2>. QED
    BY <2>1, <2>2, RowTypes
<1>. HIDE DEF n, longer
<1>3. /\ Gained(rows) \in [1 .. n -> Int] /\ Spent(rows) \in [1 .. n -> Int]
      /\ Gained(longer) \in [1 .. (n + 1) -> Int] /\ Spent(longer) \in [1 .. (n + 1) -> Int]
  <2>1. \A i \in 1 .. (n + 1) : longer[i].delta \in Int /\ -longer[i].delta \in Int
    BY <1>1, <1>2
  <2>. QED
    BY <1>1, <1>2, <2>1 DEF Gained, Spent
<1>4. /\ \A i \in 1 .. n : Gained(longer)[i] = Gained(rows)[i] /\ Spent(longer)[i] = Spent(rows)[i]
      /\ Gained(longer)[n + 1] = row.delta /\ Spent(longer)[n + 1] = -row.delta
  <2>1. \A i \in 1 .. n : i \in 1 .. (n + 1)
    BY <1>1
  <2>2. n + 1 \in 1 .. (n + 1)
    BY <1>1
  <2>. QED
    BY <1>1, <1>2, <2>1, <2>2 DEF Gained, Spent
<1>5. Total(Gained(longer)) = Total(Gained(rows)) + Above(row.delta)
  BY <1>1, <1>3, <1>4, TotalOfLonger
<1>6. Total(Spent(longer)) = Total(Spent(rows)) + Above(-row.delta)
  BY <1>1, <1>3, <1>4, TotalOfLonger
<1>7. Total(Gained(rows)) \in Nat /\ Total(Spent(rows)) \in Nat
  <2>1. IsFiniteSet(1 .. n)
    BY <1>1, FS_Interval
  <2>. QED
    BY <1>3, <2>1, TotalType
<1>8. Above(row.delta) - Above(-row.delta) = row.delta /\ Above(row.delta) \in Int /\ Above(-row.delta) \in Int
  BY <1>2 DEF Above
<1>9. Sum(longer) = Sum(rows) + row.delta
  BY <1>2, <1>5, <1>6, <1>7, <1>8 DEF Sum
<1>. QED
  BY <1>9 DEF longer

(* The numbers, and the row a consumption has read: it is one of those     *)
(* that are there.  Which endpoint a request is in says what it wants.     *)
Numbers ==
    /\ pc \in [Requests -> Places]
    /\ ledger \in Seq(Rows)
    /\ seen \in [Requests -> Int]
    /\ overlap \in BOOLEAN
    /\ expiries \in 0 .. MaxExpiries

ReadOK(r) ==
    /\ pc[r] \in {"charge", "balance"} => Op[r] = "top_up"
    /\ pc[r] \in {"latest", "lock"} => Op[r] = "consume"
    /\ Op[r] = "consume" => seen[r] \in 0 .. Len(ledger)

(* A request between its read and its commit that no other one overlaps:   *)
(* it is the only one, what it has read is current, and what it takes is   *)
(* there.                                                                  *)
Alone(r) ==
    pc[r] \in {"lock", "insert"} =>
        /\ \A s \in Requests \ {r} : pc[s] \notin {"lock", "insert"}
        /\ Op[r] = "top_up" => seen[r] = Sum(ledger)
        /\ Op[r] = "consume" => /\ seen[r] = Len(ledger)
                                /\ pc[r] = "insert" => After(ledger, seen[r]) >= Amount[r]

Serial ==
    ~overlap => /\ Sum(ledger) >= 0
                /\ After(ledger, Len(ledger)) = Sum(ledger)
                /\ \A r \in Requests : Alone(r)

Balances == Numbers /\ (\A r \in Requests : ReadOK(r)) /\ Serial

(* An endpoint goes to a place where nothing is read or written.           *)
LEMMA OutsideStep ==
    ASSUME Balances, NEW r \in Requests, UNCHANGED <<ledger, seen, overlap>>,
           expiries' \in 0 .. MaxExpiries,
           NEW where \in Places, pc' = [pc EXCEPT ![r] = where],
           where = pc[r] \/ where \notin {"lock", "insert"},
           where \in {"charge", "balance"} => Op[r] = "top_up",
           where \in {"latest", "lock"} => Op[r] = "consume"
    PROVE  Balances'
<1>1. pc \in [Requests -> Places]
  BY DEF Balances, Numbers
<1>2. pc'[r] = where /\ \A s \in Requests \ {r} : pc'[s] = pc[s]
  BY <1>1
<1>3. Numbers'
  BY <1>1 DEF Balances, Numbers
<1>4. ASSUME NEW s \in Requests PROVE ReadOK(s)'
  BY <1>2 DEF Balances, ReadOK
<1>5. Serial'
  <2>1. ASSUME ~overlap, NEW s \in Requests PROVE Alone(s)'
    <3>1. Alone(s) /\ Alone(r)
      BY <2>1 DEF Balances, Serial
    <3>2. \A u \in Requests : pc'[u] \in {"lock", "insert"} => pc'[u] = pc[u]
      BY <1>2
    <3>. QED
      BY <3>1, <3>2 DEF Alone
  <2>. QED
    BY <2>1 DEF Balances, Serial
<1>. QED
  BY <1>3, <1>4, <1>5 DEF Balances

(* Redis and the middleware leave the ledger and the endpoints alone.      *)
LEMMA OutsideKept ==
    ASSUME Balances, UNCHANGED <<ledger, handler>>, expiries' \in 0 .. MaxExpiries
    PROVE  Balances'
<1>1. Numbers' /\ (\A r \in Requests : ReadOK(r)') /\ (\A r \in Requests : Alone(r) => Alone(r)')
  BY DEF Balances, Numbers, ReadOK, Alone, handler
<1>2. Serial'
  BY <1>1 DEF Balances, Serial, handler
<1>. QED
  BY <1>1, <1>2 DEF Balances

(* A request reads: nobody else may be between its read and its commit, or *)
(* this counts as an overlap.                                              *)
LEMMA ReadStep ==
    ASSUME Balances, NEW r \in Requests, UNCHANGED <<ledger, expiries>>,
           NEW value \in Int, Reads(r, value),
           NEW where \in {"lock", "insert"}, pc' = [pc EXCEPT ![r] = where],
           \/ Op[r] = "top_up" /\ where = "insert" /\ value = Sum(ledger)
           \/ Op[r] = "consume" /\ where = "lock" /\ value = Len(ledger)
    PROVE  Balances'
<1>1. /\ pc \in [Requests -> Places] /\ seen \in [Requests -> Int] /\ overlap \in BOOLEAN
      /\ ledger \in Seq(Rows) /\ Len(ledger) \in Nat
  BY RowTypes DEF Balances, Numbers
<1>2. /\ pc'[r] = where /\ seen'[r] = value
      /\ \A s \in Requests \ {r} : pc'[s] = pc[s] /\ seen'[s] = seen[s]
  BY <1>1 DEF Reads
<1>3. overlap' = (overlap \/ \E s \in Requests \ {r} : pc[s] \in {"lock", "insert"})
  BY DEF Reads
<1>4. Numbers'
  BY <1>1, <1>3 DEF Balances, Numbers, Reads, Places
<1>5. ASSUME NEW s \in Requests PROVE ReadOK(s)'
  BY <1>1, <1>2 DEF Balances, ReadOK
<1>6. Serial'
  <2>1. ASSUME ~overlap', NEW s \in Requests PROVE Alone(s)'
    <3>1. \A u \in Requests \ {r} : pc'[u] \notin {"lock", "insert"}
      BY <1>2, <1>3, <2>1
    <3>2. CASE s = r
      BY <1>2, <3>1, <3>2 DEF Alone
    <3>3. CASE s # r
      BY <3>1, <3>3 DEF Alone
    <3>. QED
      BY <3>2, <3>3
  <2>2. ~overlap' => ~overlap
    BY <1>3
  <2>. QED
    BY <2>1, <2>2 DEF Balances, Serial
<1>. QED
  BY <1>4, <1>5, <1>6 DEF Balances

(* The row it waited for is its own, and the balance is enough or not.     *)
LEMMA ConsumeStep ==
    ASSUME Balances, NEW r \in Requests, consume_credits(r)
    PROVE  Balances'
<1>1. /\ UNCHANGED <<ledger, seen, overlap, expiries>> /\ pc[r] = "lock" /\ Op[r] = "consume"
      /\ expiries \in 0 .. MaxExpiries /\ pc \in [Requests -> Places]
  BY DEF consume_credits, Balances, ReadOK, Numbers
<1>2. CASE BalanceAfter(seen[r]) < Amount[r]
  <2>1. pc' = [pc EXCEPT ![r] = "ended"] /\ "ended" \in Places
    BY <1>2 DEF consume_credits, At, Places
  <2>. QED
    BY <1>1, <2>1, OutsideStep
<1>3. CASE ~(BalanceAfter(seen[r]) < Amount[r])
  <2>1. pc' = [pc EXCEPT ![r] = "insert"]
    BY <1>3 DEF consume_credits, At
  <2>2. pc'[r] = "insert" /\ \A s \in Requests \ {r} : pc'[s] = pc[s]
    BY <1>1, <2>1
  <2>3. After(ledger, seen[r]) >= Amount[r]
    <3>1. ledger \in Seq(Rows) /\ seen[r] \in 0 .. Len(ledger) /\ Amount[r] \in Int
      BY <1>1, PlanCreditsAssumption DEF Balances, Numbers, ReadOK
    <3>2. After(ledger, seen[r]) \in Int
      BY <3>1, RowTypes DEF After
    <3>. QED
      BY <1>3, <3>1, <3>2 DEF BalanceAfter, After
  <2>4. Numbers'
    BY <1>1, <2>1 DEF Balances, Numbers, Places
  <2>5. ASSUME NEW s \in Requests PROVE ReadOK(s)'
    BY <1>1, <2>2 DEF Balances, ReadOK
  <2>6. Serial'
    <3>1. ASSUME ~overlap, NEW s \in Requests PROVE Alone(s)'
      <4>1. Alone(s) /\ Alone(r)
        BY <3>1 DEF Balances, Serial
      <4>2. \A u \in Requests \ {r} : pc'[u] \notin {"lock", "insert"}
        BY <1>1, <2>2, <4>1 DEF Alone
      <4>3. CASE s = r
        BY <1>1, <2>2, <2>3, <4>1, <4>2, <4>3 DEF Alone
      <4>4. CASE s # r
        BY <4>2, <4>4 DEF Alone
      <4>. QED
        BY <4>3, <4>4
    <3>. QED
      BY <1>1, <3>1 DEF Balances, Serial
  <2>. QED
    BY <2>4, <2>5, <2>6 DEF Balances
<1>. QED
  BY <1>2, <1>3

LEMMA RowType ==
    ASSUME Balances, NEW r \in Requests
    PROVE  Row(r) \in Rows
<1>1. /\ Op[r] \in {"top_up", "consume"} /\ Amount[r] \in Int /\ seen[r] \in Int
      /\ ledger \in Seq(Rows)
  BY PlanCreditsAssumption DEF Balances, Numbers
<1>2. CASE Op[r] = "top_up"
  <2>1. seen[r] + Amount[r] \in Int
    BY <1>1
  <2>. QED
    BY <1>1, <1>2, <2>1 DEF Row, Rows
<1>3. CASE Op[r] = "consume"
  <2>1. seen[r] \in 0 .. Len(ledger)
    BY <1>3 DEF Balances, ReadOK
  <2>2. BalanceAfter(seen[r]) \in Int
    BY <1>1, <2>1, RowTypes DEF BalanceAfter
  <2>3. BalanceAfter(seen[r]) - Amount[r] \in Int /\ -Amount[r] \in Int
    BY <1>1, <2>2
  <2>. QED
    BY <1>3, <2>3 DEF Row, Rows
<1>. QED
  BY <1>1, <1>2, <1>3

(* The row of a request that was alone continues the ledger.               *)
LEMMA RecordBalances ==
    ASSUME Balances, NEW r \in Requests, Record(r)
    PROVE  Balances'
<1>1. /\ ledger' = Append(ledger, Row(r)) /\ pc' = [pc EXCEPT ![r] = "ended"] /\ pc[r] = "insert"
      /\ UNCHANGED <<expiries, seen, overlap>>
  BY DEF Record, At
<1>2. /\ ledger \in Seq(Rows) /\ pc \in [Requests -> Places] /\ seen \in [Requests -> Int]
      /\ Row(r) \in Rows /\ Op[r] \in {"top_up", "consume"} /\ Amount[r] \in Nat
  BY RowType, PlanCreditsAssumption DEF Balances, Numbers
<1>3. pc'[r] = "ended" /\ \A s \in Requests \ {r} : pc'[s] = pc[s]
  BY <1>1, <1>2
<1>4. /\ ledger' \in Seq(Rows) /\ Len(ledger') = Len(ledger) + 1 /\ Len(ledger) \in Nat
      /\ ledger'[Len(ledger')] = Row(r)
  BY <1>1, <1>2
<1>5. Sum(ledger') = Sum(ledger) + Row(r).delta /\ Sum(ledger) \in Int
  BY <1>1, <1>2, SumOfLonger, SumType
<1>6. Numbers'
  BY <1>1, <1>2, <1>4 DEF Balances, Numbers, Places
<1>7. ASSUME NEW s \in Requests PROVE ReadOK(s)'
  <2>1. ReadOK(s)
    BY DEF Balances
  <2>2. seen[s] \in 0 .. Len(ledger) => seen[s] \in 0 .. Len(ledger')
    BY <1>4
  <2>. QED
    BY <1>1, <1>3, <2>1, <2>2 DEF ReadOK
<1>8. ASSUME ~overlap
      PROVE  /\ Sum(ledger') >= 0 /\ After(ledger', Len(ledger')) = Sum(ledger')
             /\ \A s \in Requests : Alone(s)'
  <2>1. Alone(r) /\ Sum(ledger) >= 0 /\ After(ledger, Len(ledger)) = Sum(ledger)
    BY <1>8 DEF Balances, Serial
  <2>2. \A s \in Requests : Alone(s)'
    BY <1>1, <1>3, <2>1 DEF Alone
  <2>3. After(ledger', Len(ledger')) = Row(r).after
    BY <1>4 DEF After
  <2>4. CASE Op[r] = "top_up"
    <3>1. seen[r] = Sum(ledger)
      BY <1>1, <2>1, <2>4 DEF Alone
    <3>2. Row(r).delta = Amount[r] /\ Row(r).after = seen[r] + Amount[r]
      BY <2>4 DEF Row
    <3>. QED
      BY <1>2, <1>5, <2>1, <2>2, <2>3, <3>1, <3>2
  <2>5. CASE Op[r] = "consume"
    <3>1. seen[r] = Len(ledger) /\ After(ledger, seen[r]) >= Amount[r]
      BY <1>1, <2>1, <2>5 DEF Alone
    <3>2. Row(r).delta = -Amount[r] /\ Row(r).after = After(ledger, seen[r]) - Amount[r]
      BY <2>5 DEF Row, BalanceAfter, After
    <3>. QED
      BY <1>2, <1>5, <2>1, <2>2, <2>3, <3>1, <3>2
  <2>. QED
    BY <1>2, <2>4, <2>5
<1>9. Serial'
  BY <1>1, <1>8 DEF Serial
<1>. QED
  BY <1>6, <1>7, <1>9 DEF Balances

LEMMA InitBalances == Init => Balances
<1>. SUFFICES ASSUME Init PROVE Balances
  OBVIOUS
<1>. USE DEF Init
<1>1. Numbers
  <2>1. <<>> \in Seq(Rows) /\ 0 \in 0 .. MaxExpiries /\ "idle" \in Places
    BY PlanCreditsAssumption DEF Places
  <2>2. /\ pc \in [Requests -> Places] /\ seen \in [Requests -> Int]
        /\ ledger \in Seq(Rows) /\ expiries \in 0 .. MaxExpiries
    BY <2>1
  <2>3. overlap \in BOOLEAN
    OBVIOUS
  <2>. QED
    BY <2>2, <2>3 DEF Numbers
<1>2. \A r \in Requests : ReadOK(r) /\ Alone(r)
  BY DEF ReadOK, Alone
<1>3. Serial
  BY <1>2, SumOfNothing DEF Serial, After
<1>. QED
  BY <1>1, <1>2, <1>3 DEF Balances

LEMMA StepBalances == IInv /\ Balances /\ [Next]_vars => Balances'
<1>. SUFFICES ASSUME IInv, Balances, [Next]_vars PROVE Balances'
  OBVIOUS
<1>1. expiries \in 0 .. MaxExpiries /\ ledger \in Seq(Rows) /\ pc \in [Requests -> Places]
  BY DEF Balances, Numbers
<1>2. ASSUME NEW r \in Requests, dispatch(r) PROVE Balances'
  <2>1. UNCHANGED <<expiries, ledger, seen, overlap>> /\ pc[r] = "idle"
    BY <1>2 DEF dispatch, IInv, RequestOK
  <2>2. CASE pc' = pc
    BY <1>1, <2>1, <2>2, OutsideKept DEF handler
  <2>3. CASE pc' = [pc EXCEPT ![r] = IF Op[r] = "top_up" THEN "charge" ELSE "latest"]
    <3>1. Op[r] \in {"top_up", "consume"}
      BY PlanCreditsAssumption
    <3>2. CASE Op[r] = "top_up"
      <4>1. pc' = [pc EXCEPT ![r] = "charge"] /\ "charge" \in Places
        BY <2>3, <3>2 DEF Places
      <4>. QED
        BY <1>1, <2>1, <3>2, <4>1, OutsideStep
    <3>3. CASE Op[r] = "consume"
      <4>1. pc' = [pc EXCEPT ![r] = "latest"] /\ "latest" \in Places
        BY <2>3, <3>3 DEF Places
      <4>. QED
        BY <1>1, <2>1, <3>3, <4>1, OutsideStep
    <3>. QED
      BY <3>1, <3>2, <3>3
  <2>. QED
    BY <1>2, <2>2, <2>3 DEF dispatch
<1>3. ASSUME NEW r \in Requests, RequestTimeout(r) \/ _store_cached_response(r) \/ StoreFails(r)
      PROVE  Balances'
  BY <1>1, <1>3, OutsideKept DEF RequestTimeout, _store_cached_response, StoreFails
<1>4. ASSUME NEW r \in Requests, create_top_up_charge(r) PROVE Balances'
  <2>1. /\ UNCHANGED <<expiries, ledger, seen, overlap>> /\ pc' = [pc EXCEPT ![r] = "balance"]
        /\ "balance" \in Places /\ Op[r] = "top_up"
    BY <1>4 DEF create_top_up_charge, At, Places, Balances, ReadOK
  <2>. QED
    BY <1>1, <2>1, OutsideStep
<1>5. ASSUME NEW r \in Requests, Declined(r) \/ Fail(r) PROVE Balances'
  <2>1. /\ UNCHANGED <<expiries, ledger, seen, overlap>> /\ pc' = [pc EXCEPT ![r] = "ended"]
        /\ "ended" \in Places
    BY <1>5 DEF Declined, Fail, At, Places
  <2>. QED
    BY <1>1, <2>1, OutsideStep
<1>6. ASSUME NEW r \in Requests, get_balance(r) PROVE Balances'
  <2>1. /\ UNCHANGED <<expiries, ledger>> /\ pc' = [pc EXCEPT ![r] = "insert"]
        /\ Op[r] = "top_up" /\ Reads(r, SumOfDeltas)
    BY <1>6 DEF get_balance, At, Balances, ReadOK
  <2>2. SumOfDeltas = Sum(ledger) /\ Sum(ledger) \in Int
    BY <1>1, SumType DEF SumOfDeltas, Sum, Gained, Spent
  <2>. QED
    BY <2>1, <2>2, ReadStep
<1>7. ASSUME NEW r \in Requests, ReadLatest(r) PROVE Balances'
  <2>1. /\ UNCHANGED <<expiries, ledger>> /\ pc' = [pc EXCEPT ![r] = "lock"]
        /\ Op[r] = "consume" /\ Reads(r, Len(ledger))
    BY <1>7 DEF ReadLatest, At, Balances, ReadOK
  <2>2. Len(ledger) \in Int
    BY <1>1, RowTypes
  <2>. QED
    BY <2>1, <2>2, ReadStep
<1>8. ASSUME NEW k \in Keys, Expire(k) PROVE Balances'
  <2>1. expiries' \in 0 .. MaxExpiries
    BY <1>1, <1>8, PlanCreditsAssumption DEF Expire
  <2>. QED
    BY <1>8, <2>1, OutsideKept DEF Expire
<1>9. CASE UNCHANGED vars
  BY <1>1, <1>9, OutsideKept DEF vars, handler
<1>. QED
  BY <1>2, <1>3, <1>4, <1>5, <1>6, <1>7, <1>8, <1>9, ConsumeStep, RecordBalances DEF Next, Finished

(* The second invariant: what a request that no other one overlaps has     *)
(* read is current until it commits, for any requests and amounts.         *)
THEOREM PlanBalances == Spec => []Balances
<1>1. Init => Balances
  BY InitBalances
<1>2. IInv /\ Balances /\ [Next]_vars => Balances'
  BY StepBalances
<1>. QED
  BY <1>1, <1>2, PlanInvariant, PTL DEF Spec

(* Requests that do not overlap in the ledger never use more than was      *)
(* bought, and both ways of computing the balance agree (get_balance,      *)
(* consume_credits).                                                       *)
THEOREM PlanSerialUseIsCovered == Spec => []SerialUseIsCovered
<1>1. Balances => SerialUseIsCovered
  BY DEF Balances, Serial, SerialUseIsCovered, Sum, Gained, Spent, SumOfDeltas, After, BalanceAfter
<1>. QED
  BY <1>1, PlanBalances, PTL

(* The state stays well typed; in particular an answer kept under a key is *)
(* that of a request with this key (_store_cached_response).               *)
THEOREM PlanTypeOK == Spec => []TypeOK
<1>1. ASSUME IInv, Balances PROVE TypeOK
  <2>1. ASSUME NEW k \in Keys PROVE cache[k] \in AnswersTo({r \in Requests : KeyOf[r] = k})
    <3>1. cache[k] \in AnswersTo(Requests) /\ Backed(ledger, cache[k], k)
      BY <1>1 DEF IInv, Typed, AnswersOK
    <3>2. CASE cache[k] = NoAnswer
      BY <3>2 DEF AnswersTo
    <3>3. CASE cache[k] # NoAnswer
      <4>1. cache[k] \in [kind : {"ok", "refused", "timeout"}, of : Requests]
        BY <3>1, <3>3 DEF AnswersTo
      <4>2. cache[k].of \in {r \in Requests : KeyOf[r] = k}
        BY <3>1, <3>3 DEF Backed
      <4>3. cache[k] \in [kind : {"ok", "refused", "timeout"}, of : {r \in Requests : KeyOf[r] = k}]
        BY <4>1, <4>2
      <4>. QED
        BY <4>3 DEF AnswersTo
    <3>. QED
      BY <3>2, <3>3
  <2>2. /\ excused \subseteq Keys /\ charged \subseteq Requests
        /\ front \in [Requests -> Fronts] /\ answer \in [Requests -> AnswersTo(Requests)]
    BY <1>1 DEF IInv, Typed
  <2>. QED
    BY <1>1, <2>1, <2>2 DEF Balances, Numbers, TypeOK, Places, Fronts, Rows
<1>. QED
  BY <1>1, PlanInvariant, PlanBalances, PTL

================================================================================
