--------------------------- MODULE IntentPipeline ---------------------------
(***************************************************************************)
(* The intent pipeline (core/intent/service.py, dispatcher.py,             *)
(* executors.py): every governed mutation is an intent that is looked up   *)
(* by its idempotency key, inserted, checked by guards and an approval     *)
(* policy, executed by a job and recorded, all in the database transaction *)
(* of the request.  A batch intent submits its items as child intents in   *)
(* that same transaction, without savepoints, and notes the items whose    *)
(* submission raised; a retry intent submits these again.                  *)
(*                                                                         *)
(* Other requests see a row only when it is committed, or by waiting for   *)
(* it: the unique index on (tenant, intent_type, entity, idempotency_key)  *)
(* makes a second INSERT wait for the end of the first, and the first      *)
(* event of an intent takes the chain lock of canonical_intent_events.     *)
(* One tenant; what a mutation does is abstracted to none, part or all.    *)
(***************************************************************************)
EXTENDS Naturals, Sequences

CONSTANTS
    Txns,               \* concurrent sessions
    NoTxn,
    NoKey,              \* an item that names no key of its own
    DefaultEntity,      \* the tenant's first entity, used for batches
    Calls,              \* mutations and batches clients submit
    RetryKeys,          \* keys of their retry requests
    approval_required   \* whether a policy asks for an approver

Statuses == {"DRAFT", "SUBMITTED", "VALIDATED", "APPROVED", "EXECUTING",
             "EXECUTED", "RECORDED", "PARTIAL_SUCCESS", "REJECTED"}

ASSUME IntentAssumption ==
    /\ NoTxn \notin Txns
    /\ approval_required \in BOOLEAN
    /\ \A r \in Calls :
        /\ r.type \in {"MUTATION", "BATCH_MUTATION"}
        /\ Len(r.items) \in Nat /\ DOMAIN r.items = 1..Len(r.items)
        /\ \A n \in DOMAIN r.items :
            r.items[n] = [key |-> r.items[n].key, entity |-> r.items[n].entity,
                          target |-> r.items[n].target]

(* uq_canonical_intents_idempotency identifies an intent.                  *)
IdOf(r) == <<r.type, r.entity, r.key>>
NoId == <<>>

(* Answers that name no intent.                                            *)
Refused == <<"REFUSED">>
Error == <<"ERROR">>

Batches == {IdOf(r) : r \in {c \in Calls : c.type = "BATCH_MUTATION"}}

(* retry_batch_intent.                                                     *)
Retries ==
    {[type |-> "RETRY_BATCH_MUTATION", key |-> k, entity |-> DefaultEntity,
      target |-> NoKey, role |-> "approver", items |-> <<>>, of |-> b] :
        k \in RetryKeys, b \in Batches}

VARIABLES
    intents,    \* canonical_intents and canonical_jobs, committed: id -> row
    rows,       \* rows a session has flushed and not committed
    events,     \* holder of the chain lock of canonical_intent_events
    pc,         \* where a session is in submit_intent
    req,        \* the request it submits
    batch,      \* the batch it is an item of
    answer      \* what its client was or will be told

vars == <<intents, rows, events, pc, req, batch, answer>>

NoRequest ==
    [type |-> "NONE", key |-> NoKey, entity |-> DefaultEntity, target |-> NoKey,
     role |-> "operator", items |-> <<>>, of |-> NoId]

NoBatch == [req |-> NoRequest, items |-> <<>>, next |-> 0, failed |-> <<>>]

(* What a session sees: committed rows and its own.                        *)
View(t) ==
    [i \in DOMAIN intents \cup DOMAIN rows[t] |->
        IF i \in DOMAIN rows[t] THEN rows[t][i] ELSE intents[i]]

(* Rows of a session with row i written.                                   *)
With(t, i, row) == [j \in DOMAIN rows[t] \cup {i} |-> IF j = i THEN row ELSE rows[t][j]]

Me(t) == IdOf(req[t])
Mine(t) == rows[t][Me(t)]

Init ==
    /\ intents = <<>>
    /\ rows = [t \in Txns |-> <<>>]
    /\ events = NoTxn
    /\ pc = [t \in Txns |-> "idle"]
    /\ req = [t \in Txns |-> NoRequest]
    /\ batch = [t \in Txns |-> NoBatch]
    /\ answer = [t \in Txns |-> NoId]

--------------------------------------------------------------------------------
(* Fault: the chain lock is not freed.                                     *)
FinishLocked(t, told) ==
    /\ rows' = [rows EXCEPT ![t] = <<>>]
    /\ pc' = [pc EXCEPT ![t] = "idle"]
    /\ batch' = [batch EXCEPT ![t] = NoBatch]
    /\ answer' = [answer EXCEPT ![t] = told]
    /\ UNCHANGED events

(* The end of a transaction drops what was not committed and frees the     *)
(* lock; the client learns the outcome.                                    *)
Finish(t, told) ==
    /\ rows' = [rows EXCEPT ![t] = <<>>]
    /\ events' = IF events = t THEN NoTxn ELSE events
    /\ pc' = [pc EXCEPT ![t] = "idle"]
    /\ batch' = [batch EXCEPT ![t] = NoBatch]
    /\ answer' = [answer EXCEPT ![t] = told]

Rollback(t, told) ==
    /\ Finish(t, told)
    /\ UNCHANGED <<intents, req>>

(* submit_intent returns: to the client, or to the loop of the batch.      *)
Return(t, id) ==
    /\ IF batch[t] = NoBatch
       THEN /\ pc' = [pc EXCEPT ![t] = "done"]
            /\ answer' = [answer EXCEPT ![t] = id]
            /\ UNCHANGED batch
       ELSE /\ pc' = [pc EXCEPT ![t] = "items"]
            /\ batch' = [batch EXCEPT ![t].next = @ + 1]
            /\ UNCHANGED answer
    /\ UNCHANGED <<intents, req>>

(* What a batch does when the submission of an item raised, with the       *)
(* number it notes and the item it goes on with.                           *)
NoteFailure(t, written, failed, next) ==
    /\ rows' = [rows EXCEPT ![t] = written]
    /\ batch' = [batch EXCEPT ![t].next = next, ![t].failed = Append(@, failed)]
    /\ pc' = [pc EXCEPT ![t] = "items"]
    /\ UNCHANGED <<intents, events, req, answer>>

(* Faults: the failed item is noted under the wrong number, ...            *)
RaiseOffByOne(t, written, told) ==
    IF batch[t] = NoBatch
    THEN Rollback(t, told)
    ELSE NoteFailure(t, written, batch[t].next + 1, batch[t].next + 1)

(* ... and the request is committed although it failed.                    *)
RaiseCommits(t, written, told) ==
    IF batch[t] = NoBatch
    THEN /\ rows' = [rows EXCEPT ![t] = written]
         /\ pc' = [pc EXCEPT ![t] = "done"]
         /\ UNCHANGED <<intents, events, req, batch, answer>>
    ELSE NoteFailure(t, written, batch[t].next, batch[t].next + 1)

(* submit_intent raises with the rows as written so far: the request is    *)
(* rolled back, or the batch notes the item and goes on.                   *)
Raise(t, written, told) ==
    IF batch[t] = NoBatch
    THEN Rollback(t, told)
    ELSE NoteFailure(t, written, batch[t].next, batch[t].next + 1)

--------------------------------------------------------------------------------
Call(t, r) ==
    /\ pc[t] = "idle"
    /\ req' = [req EXCEPT ![t] = r]
    /\ answer' = [answer EXCEPT ![t] = NoId]
    /\ pc' = [pc EXCEPT ![t] = "lookup"]
    /\ UNCHANGED <<intents, rows, events, batch>>

(* _find_existing_intent: by type, key and target, not by entity.          *)
Existing(t) ==
    {i \in DOMAIN View(t) : /\ i[1] = req[t].type
                            /\ i[3] = req[t].key
                            /\ View(t)[i].target = req[t].target}

(* A known intent is answered from its row, whatever its status.           *)
Replay(t) ==
    /\ pc[t] = "lookup"
    /\ \E i \in Existing(t) : Existing(t) = {i} /\ Return(t, i)
    /\ UNCHANGED <<rows, events>>

(* scalar_one_or_none raises MultipleResultsFound.                         *)
Ambiguous(t) ==
    /\ pc[t] = "lookup"
    /\ \E i, j \in Existing(t) : i # j
    /\ Raise(t, rows[t], Error)

FindNone(t) ==
    /\ pc[t] = "lookup"
    /\ Existing(t) = {}
    /\ pc' = [pc EXCEPT ![t] = "insert"]
    /\ UNCHANGED <<intents, rows, events, req, batch, answer>>

(* _resolve_entity raises: the payload names no entity, a malformed one or *)
(* one of somebody else, or the tenant has none.                           *)
EntityNotResolved(t) ==
    /\ pc[t] = "lookup"
    /\ Existing(t) = {}
    /\ Raise(t, rows[t], Error)

DraftOf(t) ==
    [target |-> req[t].target, items |-> req[t].items,
     parent |-> IF batch[t] = NoBatch THEN NoId ELSE IdOf(batch[t].req),
     status |-> "DRAFT", job |-> "none", wrote |-> "none", failed |-> <<>>]

(* Fault: the INSERT replaces the row it conflicts with.                   *)
CreateDraftUpserts(t) ==
    /\ pc[t] = "insert"
    /\ \A s \in Txns : Me(t) \notin DOMAIN rows[s]
    /\ rows' = [rows EXCEPT ![t] = With(t, Me(t), DraftOf(t))]
    /\ pc' = [pc EXCEPT ![t] = "submit"]
    /\ UNCHANGED <<intents, events, req, batch, answer>>

(* create_draft: the INSERT waits for an uncommitted row of the same key.  *)
create_draft(t) ==
    /\ pc[t] = "insert"
    /\ \A s \in Txns : Me(t) \notin DOMAIN rows[s]
    /\ Me(t) \notin DOMAIN intents
    /\ rows' = [rows EXCEPT ![t] = With(t, Me(t), DraftOf(t))]
    /\ pc' = [pc EXCEPT ![t] = "submit"]
    /\ UNCHANGED <<intents, events, req, batch, answer>>

(* The unique index refuses the row: no statement of the session succeeds  *)
(* any more, so the whole request fails, also from within a batch.         *)
IntegrityError(t) ==
    /\ pc[t] = "insert"
    /\ Me(t) \in DOMAIN intents \cup DOMAIN rows[t]
    /\ Rollback(t, Error)

(* The first event of the intent takes the chain lock.                     *)
submit_existing_intent(t) ==
    /\ pc[t] = "submit"
    /\ events \in {NoTxn, t}
    /\ events' = t
    /\ rows' = [rows EXCEPT ![t] = With(t, Me(t), [Mine(t) EXCEPT !.status = "SUBMITTED"])]
    /\ pc' = [pc EXCEPT ![t] = "validate"]
    /\ UNCHANGED <<intents, req, batch, answer>>

(* validate_intent: the guards pass, ...                                   *)
validate_intent(t) ==
    /\ pc[t] = "validate"
    /\ rows' = [rows EXCEPT ![t] = With(t, Me(t), [Mine(t) EXCEPT !.status = "VALIDATED"])]
    /\ pc' = [pc EXCEPT ![t] = "approve"]
    /\ UNCHANGED <<intents, events, req, batch, answer>>

(* ... or refuse, ...                                                      *)
reject_intent(t) ==
    /\ pc[t] = "validate"
    /\ Raise(t, With(t, Me(t), [Mine(t) EXCEPT !.status = "REJECTED"]), Refused)

(* ... or choke on the payload, as the approval policy may.                *)
BadPayload(t) ==
    /\ pc[t] \in {"validate", "approve"}
    /\ Raise(t, rows[t], Error)

Granted(t) == approval_required => req[t].role = "approver"

(* No approver asked for it: the intent is left VALIDATED.                 *)
AwaitApproval(t) ==
    /\ pc[t] = "approve"
    /\ ~Granted(t)
    /\ Return(t, Me(t))
    /\ UNCHANGED <<rows, events>>

(* approve_intent, create_job, JOB_DISPATCHED.                             *)
approve_intent(t) ==
    /\ pc[t] = "approve"
    /\ Granted(t)
    /\ rows' = [rows EXCEPT ![t] = With(t, Me(t), [Mine(t) EXCEPT !.status = "EXECUTING",
                                                                  !.job = "RUNNING"])]
    /\ pc' = [pc EXCEPT ![t] = "execute"]
    /\ UNCHANGED <<intents, events, req, batch, answer>>

(* The executor succeeds: mark_executed, mark_recorded.                    *)
mark_recorded(t) ==
    /\ pc[t] = "execute"
    /\ req[t].type = "MUTATION"
    /\ rows' = [rows EXCEPT ![t] = With(t, Me(t), [Mine(t) EXCEPT !.status = "RECORDED",
                                                  !.job = "SUCCEEDED", !.wrote = "all"])]
    /\ Return(t, Me(t))
    /\ UNCHANGED events

(* The executor raises, before or after it wrote something.                *)
ExecutorFails(t) ==
    /\ pc[t] = "execute"
    /\ req[t].type = "MUTATION"
    /\ \E wrote \in {"none", "part"} :
        Raise(t, With(t, Me(t), [Mine(t) EXCEPT !.status = "REJECTED", !.job = "FAILED",
                                                !.wrote = wrote]), Error)

--------------------------------------------------------------------------------
(* BatchMutationExecutor and RetryBatchMutationExecutor: the items.        *)
StartBatch(t) ==
    /\ pc[t] = "execute"
    /\ \/ /\ req[t].type = "BATCH_MUTATION"
          /\ batch' = [batch EXCEPT ![t] = [NoBatch EXCEPT !.req = req[t], !.next = 1,
                                                           !.items = req[t].items]]
       \/ /\ req[t].type = "RETRY_BATCH_MUTATION"
          /\ req[t].of \in DOMAIN View(t)
          /\ LET parent == View(t)[req[t].of] IN
             batch' = [batch EXCEPT ![t] = [NoBatch EXCEPT !.req = req[t], !.next = 1,
                        !.items = [n \in DOMAIN parent.failed |->
                            [parent.items[parent.failed[n]] EXCEPT !.key = NoKey]]]]
    /\ pc' = [pc EXCEPT ![t] = "items"]
    /\ UNCHANGED <<intents, rows, events, req, answer>>

ParentNotFound(t) ==
    /\ pc[t] = "execute"
    /\ req[t].type = "RETRY_BATCH_MUTATION"
    /\ req[t].of \notin DOMAIN View(t)
    /\ Rollback(t, Error)

(* The key of an item: its own, or derived from that of the batch.         *)
ItemRequest(b, n) ==
    [type |-> "MUTATION", entity |-> b.items[n].entity, target |-> b.items[n].target,
     key |-> IF b.items[n].key = NoKey THEN <<b.req.key, n>> ELSE b.items[n].key,
     role |-> b.req.role, items |-> <<>>, of |-> NoId]

NextItem(t) ==
    /\ pc[t] = "items"
    /\ batch[t].next \in DOMAIN batch[t].items
    /\ req' = [req EXCEPT ![t] = ItemRequest(batch[t], batch[t].next)]
    /\ pc' = [pc EXCEPT ![t] = "lookup"]
    /\ UNCHANGED <<intents, rows, events, batch, answer>>

(* All items were tried: the batch is recorded with those that failed.     *)
EndBatch(t) ==
    LET b == batch[t]
        id == IdOf(b.req)
    IN
    /\ pc[t] = "items"
    /\ b.next \notin DOMAIN b.items
    /\ rows' = [rows EXCEPT ![t] = With(t, id, [rows[t][id] EXCEPT
            !.status = IF b.failed = <<>> THEN "RECORDED" ELSE "PARTIAL_SUCCESS",
            !.job = "SUCCEEDED", !.wrote = "all", !.items = b.items, !.failed = b.failed])]
    /\ req' = [req EXCEPT ![t] = b.req]
    /\ batch' = [batch EXCEPT ![t] = NoBatch]
    /\ answer' = [answer EXCEPT ![t] = id]
    /\ pc' = [pc EXCEPT ![t] = "done"]
    /\ UNCHANGED <<intents, events>>

--------------------------------------------------------------------------------
Commit(t) ==
    /\ pc[t] = "done"
    /\ intents' = View(t)
    /\ Finish(t, answer[t])
    /\ UNCHANGED req

(* Fault: the answer is sent before the commit.                            *)
FailAnswered(t) ==
    /\ pc[t] # "idle"
    /\ Rollback(t, answer[t])

(* A crash, a lost connection or a database error at any statement.        *)
Fail(t) ==
    /\ pc[t] # "idle"
    /\ Rollback(t, Error)

(* PostgreSQL aborts one of two sessions that wait for each other: a batch *)
(* with the chain lock inserts a key whose uncommitted row belongs to a    *)
(* session that waits for the chain lock.                                  *)
DeadlockAbort(t) ==
    /\ \E s \in Txns \ {t} :
        \/ pc[t] = "submit" /\ events = s /\ pc[s] = "insert" /\ Me(s) \in DOMAIN rows[t]
        \/ pc[s] = "submit" /\ events = t /\ pc[t] = "insert" /\ Me(t) \in DOMAIN rows[s]
    /\ Rollback(t, Error)

Step(t) ==
    \/ Replay(t) \/ Ambiguous(t) \/ FindNone(t) \/ EntityNotResolved(t)
    \/ create_draft(t) \/ IntegrityError(t)
    \/ validate_intent(t) \/ reject_intent(t) \/ BadPayload(t)
    \/ AwaitApproval(t) \/ approve_intent(t)
    \/ mark_recorded(t) \/ ExecutorFails(t)
    \/ StartBatch(t) \/ ParentNotFound(t) \/ NextItem(t) \/ EndBatch(t)
    \/ Commit(t)
    \/ DeadlockAbort(t)

Next ==
    \E t \in Txns :
        \/ \E r \in Calls \cup Retries : Call(t, r)
        \/ submit_existing_intent(t)
        \/ Step(t)
        \/ Fail(t)

Spec == Init /\ [][Next]_vars

(* A submission that was started goes on.  PostgreSQL serves the waiters   *)
(* of a lock and of a unique index in order of arrival, hence strong       *)
(* fairness of the two steps that may wait.                                *)
Fairness ==
    \A t \in Txns :
        /\ SF_vars(create_draft(t))
        /\ SF_vars(submit_existing_intent(t))
        /\ WF_vars(Step(t))

FairSpec == Spec /\ Fairness

--------------------------------------------------------------------------------
Row ==
    [status : Statuses, job : {"none", "RUNNING", "SUCCEEDED", "FAILED"},
     wrote : {"none", "part", "all"}]

(* The pipeline's state is well typed.                                     *)
TypeOK ==
    /\ \A t \in Txns : \A i \in DOMAIN View(t) :
            [status |-> View(t)[i].status, job |-> View(t)[i].job, wrote |-> View(t)[i].wrote] \in Row
    /\ events \in Txns \cup {NoTxn}
    /\ pc \in [Txns -> {"idle", "lookup", "insert", "submit", "validate", "approve", "execute",
                        "items", "done"}]
    /\ \A t \in Txns : batch[t].next \in 0..(Len(batch[t].items) + 1)

(* What other requests see of an intent a client submitted is the end of   *)
(* its way through the pipeline: it waits for an approval and did nothing, *)
(* or its job succeeded; never a status in between, whatever failed        *)
(* (submit_intent, dispatch_intent).                                       *)
SubmittedIsSettled ==
    \A i \in DOMAIN intents :
        intents[i].parent = NoId =>
            \/ /\ intents[i].status = "VALIDATED"
               /\ intents[i].job = "none"
               /\ intents[i].wrote = "none"
            \/ /\ intents[i].status \in {"RECORDED", "PARTIAL_SUCCESS"}
               /\ intents[i].job = "SUCCEEDED"
               /\ intents[i].wrote = "all"

(* The intent that was looked up or created for an item of a stored batch. *)
ItemIntent(b, n) ==
    IdOf(ItemRequest([req |-> [NoRequest EXCEPT !.key = b[3]], items |-> intents[b].items], n))

(* The keys mutations go by, each with the entity it is used for and the   *)
(* batch that derives it, if one does: an item of a batch names its key or *)
(* has it derived, a retry derives the keys of the items that failed,      *)
(* which it numbers anew, and a client sends the key of a single mutation. *)
ItemUses(r) ==
    {<<ItemRequest([req |-> r, items |-> r.items], n).key, r.items[n].entity,
       IF r.items[n].key = NoKey THEN IdOf(r) ELSE NoId>> : n \in DOMAIN r.items}

RetryUses(r) ==
    {<<<<k, n>>, r.items[m].entity, <<"RETRY_BATCH_MUTATION", DefaultEntity, k>>>> :
        k \in RetryKeys, n \in DOMAIN r.items, m \in DOMAIN r.items}

KeyUses ==
    UNION {IF r.type = "MUTATION" THEN {<<r.key, r.entity, NoId>>}
                                  ELSE ItemUses(r) \cup RetryUses(r) : r \in Calls}

(* No key is used for two entities, unless by one batch or retry alone.    *)
OneEntityPerKey ==
    \A u, v \in KeyUses : u[1] = v[1] /\ (u[3] = NoId \/ u[3] # v[3]) => u[2] = v[2]

(* The items a stored batch reports as failed.                             *)
FailedItems(b) ==
    {n \in DOMAIN intents[b].items :
        \E k \in DOMAIN intents[b].failed : intents[b].failed[k] = n}

(* The batch has itself carried out the item, as that item asks for it.    *)
CarriedOut(b, n) ==
    LET i == ItemIntent(b, n) IN
    /\ i \in DOMAIN intents
    /\ intents[i].parent = b
    /\ intents[i].target = intents[b].items[n].target
    /\ intents[i].wrote = "all"

(* A batch accounts for its items: one it reports as failed it did not     *)
(* carry out, so that it may be retried (or only later, for another item   *)
(* with its key); every other one is stored, and was carried out or waits  *)
(* for an approver, unless it was answered from an intent that was there   *)
(* before, be it of an earlier item with its key that failed               *)
(* (BatchMutationExecutor, RetryBatchMutationExecutor). A failed item may  *)
(* have left an intent, half done, or none (_resolve_entity). This is so   *)
(* where entities share no key: the lookup leaves the entity out, so an    *)
(* item may be answered with the intent of another entity, or be reported  *)
(* as failed because two intents answer to its key, one of them its own.   *)
BatchAccountsForItems ==
    OneEntityPerKey =>
        \A b \in DOMAIN intents : \A n \in DOMAIN intents[b].items :
            b[1] # "MUTATION" /\ intents[b].job = "SUCCEEDED" =>
                LET item == intents[ItemIntent(b, n)]
                    SameIntent(m) == ItemIntent(b, m) = ItemIntent(b, n)
                IN
                IF n \in FailedItems(b)
                THEN \/ ~CarriedOut(b, n)
                     \/ \E m \in DOMAIN intents[b].items \ FailedItems(b) : m > n /\ SameIntent(m)
                ELSE /\ ItemIntent(b, n) \in DOMAIN intents
                     /\ \/ item.wrote = "all" \/ item.status = "VALIDATED" \/ item.parent # b
                        \/ \E m \in FailedItems(b) : m < n /\ SameIntent(m)

(* A stored intent is final: no duplicate, retry or later batch changes    *)
(* it or carries it out again (_find_existing_intent, create_draft).       *)
StoredIntentsFinal ==
    [][\A i \in DOMAIN intents : i \in DOMAIN intents' /\ intents'[i] = intents[i]]_vars

(* What a client was told of, it will find: the intent it got in its       *)
(* answer is stored, under the type and the key it sent, although the      *)
(* session may fail up to the commit (get_async_session, submit_intent).   *)
AnswersAreKept ==
    \A t \in Txns :
        pc[t] = "idle" /\ answer[t] \notin {NoId, Refused, Error} =>
            /\ answer[t] \in DOMAIN intents
            /\ answer[t][1] = req[t].type
            /\ answer[t][3] = req[t].key

(* Every submission ends, although batches and single intents may wait     *)
(* for each other's rows and locks.                                        *)
SubmissionsEnd == \A t \in Txns : pc[t] # "idle" ~> pc[t] = "idle"

================================================================================
