--------------------------- MODULE GovernedJournals ---------------------------
(***************************************************************************)
(* Journals and period close as they run: every request is a database      *)
(* transaction at READ COMMITTED whose checks, writes and COMMIT are        *)
(* separate statements.  A journal operation is an intent: its first event *)
(* takes the chain lock of canonical_intent_events, which it keeps to the  *)
(* end, so intents of a tenant run one after the other.  The guards then   *)
(* read the journal and the period, their event takes the chain lock of    *)
(* canonical_governance_events, and only then the executor runs            *)
(* (core/intent/service.py, core/intent/guards.py, journal_service.py).    *)
(* Closing and reopening a period is no intent: it takes the second lock   *)
(* only (closing_checklist/api/routes.py, governance_service.py).          *)
(*                                                                         *)
(* One tenant, one entity, balanced journals.                              *)
(***************************************************************************)
EXTENDS JournalBook

CONSTANTS
    Txns,                   \* concurrent sessions
    Clerks,                 \* those that serve journal requests
    Closers,                \* those that serve period requests
    NoTxn,
    RoleOf,                 \* "operator" or "approver", per user
    Scopes,                 \* levels on which periods are closed
    LockTypes,              \* kinds of close requested
    require_reviewer,       \* approval policy of the tenant
    require_distinct_poster

ASSUME JournalAssumption ==
    /\ Cardinality(Periods) \in Nat \ {0}
    /\ Periods = 1..Cardinality(Periods)
    /\ MaxPerPeriod \in Nat
    /\ NoUser \notin Users
    /\ NoTxn \notin Txns
    /\ Clerks \subseteq Txns
    /\ Closers \subseteq Txns
    /\ RoleOf \in [Users -> {"operator", "approver"}]
    /\ Scopes \subseteq {"entity", "global"}
    /\ LockTypes \subseteq {"SOFT_CLOSED", "HARD_CLOSED"}
    /\ require_reviewer \in BOOLEAN
    /\ require_distinct_poster \in BOOLEAN

VARIABLES
    today,     \* the period date.today() falls into
    lock,      \* holders of the two chain locks
    pc,        \* where a request is
    req,       \* what it asks for
    ok,        \* verdict of its guards
    flushed    \* rows it has written and not yet committed

vars == <<journals, gl, periods, today, lock, pc, req, ok, flushed>>

Chains == {"intent_events", "governance_events"}
Ops == {"create", "submit", "review", "approve", "post", "reverse"}
Posted == {"PUSHED", "PUSH_IN_PROGRESS"}

(* Nothing written; new journal rows, posted journal numbers, period rows.  *)
Nothing == [journals |-> <<>>, gl |-> {}, periods |-> {}]

NoRequest == [op |-> "none", n |-> NoNumber, p |-> 0, u |-> NoUser,
              scope |-> "entity", to |-> "OPEN"]

Init ==
    /\ BookInit
    /\ today = 1
    /\ lock = [c \in Chains |-> NoTxn]
    /\ pc = [t \in Txns |-> "idle"]
    /\ req = [t \in Txns |-> NoRequest]
    /\ ok = [t \in Txns |-> FALSE]
    /\ flushed = [t \in Txns |-> Nothing]

--------------------------------------------------------------------------------
(* Period checks.                                                          *)
SoftClosed(p) ==
    /\ ~HardClosed(p)
    /\ \E scope \in {"entity", "global"} : periods[p][scope] = "SOFT_CLOSED"

assert_period_allows_modification(p) == ~HardClosed(p)

assert_period_allows_posting(p, u) ==
    /\ ~HardClosed(p)
    /\ SoftClosed(p) => RoleOf[u] = "approver"

(* _generate_jv_number: one more than the journals the period has.         *)
NumberFor(p) == <<p, Cardinality({n \in Numbers : PeriodOf(n) = p /\ journals[n] # NoJournal}) + 1>>

(* Bound: a period has room for MaxPerPeriod journals.                     *)
Room(p) == NumberFor(p) \in Numbers

(* The guards of an intent: who asks, whether the journal exists, whether  *)
(* the period is open for it and the status fits.                          *)
ActorAuthorized(r) == r.op \in {"approve", "post", "reverse"} => RoleOf[r.u] = "approver"

TargetExists(r) == r.op # "create" => journals[r.n] # NoJournal

RequestPeriod(r) == IF r.op = "create" THEN r.p ELSE PeriodOf(r.n)

PeriodMode(r) == IF r.op \in {"post", "reverse"} THEN "post" ELSE "modify"

CheckPeriod(r) ==
    \/ PeriodMode(r) = "post" /\ assert_period_allows_posting(RequestPeriod(r), r.u)
    \/ PeriodMode(r) = "modify" /\ assert_period_allows_modification(RequestPeriod(r))

StateValid(r) ==
    /\ r.op = "post" => journals[r.n].status = "APPROVED"
    /\ r.op = "reverse" => journals[r.n].status = "PUSHED"

(* IntentGuardAdapter.evaluate.                                            *)
GuardsPass(r) == ActorAuthorized(r) /\ TargetExists(r) /\ CheckPeriod(r) /\ StateValid(r)

--------------------------------------------------------------------------------
(* A request for a journal operation reaches the intent service; the       *)
(* routes let only approvers approve, post and reverse.                    *)
CallIntent(t, op, n, p, u) ==
    /\ t \in Clerks
    /\ pc[t] = "idle"
    /\ op \in {"approve", "post", "reverse"} => RoleOf[u] = "approver"
    /\ IF op = "create" THEN n = NoNumber /\ Room(p) ELSE p = 0 /\ journals[n] # NoJournal
    /\ req' = [req EXCEPT ![t] = [NoRequest EXCEPT !.op = op, !.n = n, !.p = p, !.u = u]]
    /\ pc' = [pc EXCEPT ![t] = "queued"]
    /\ UNCHANGED <<journals, gl, periods, today, lock, ok, flushed>>

(* _emit_event: the first event of the intent takes the chain lock.        *)
LockIntentEvents(t) ==
    /\ pc[t] = "queued"
    /\ lock["intent_events"] = NoTxn
    /\ lock' = [lock EXCEPT !["intent_events"] = t]
    /\ pc' = [pc EXCEPT ![t] = "guards"]
    /\ UNCHANGED <<journals, gl, periods, today, req, ok, flushed>>

(* validate_intent: the guards read before their event is written.         *)
EvaluateGuards(t) ==
    /\ pc[t] = "guards"
    /\ ok' = [ok EXCEPT ![t] = GuardsPass(req[t])]
    /\ pc' = [pc EXCEPT ![t] = "gated"]
    /\ UNCHANGED <<journals, gl, periods, today, lock, req, flushed>>

(* A request for a period, by an approver, goes straight to its guards.    *)
CallPeriod(t, r) ==
    /\ t \in Closers
    /\ pc[t] = "idle"
    /\ RoleOf[r.u] = "approver"
    /\ req' = [req EXCEPT ![t] = r]
    /\ ok' = [ok EXCEPT ![t] = TRUE]
    /\ pc' = [pc EXCEPT ![t] = "gated"]
    /\ UNCHANGED <<journals, gl, periods, today, lock, flushed>>

(* A hard close names an entity.                                           *)
lock_period_endpoint(t, p, scope, to, u) ==
    /\ to = "HARD_CLOSED" => scope = "entity"
    /\ CallPeriod(t, [NoRequest EXCEPT !.op = "lock", !.p = p, !.u = u,
                                       !.scope = scope, !.to = to])

unlock_period_endpoint(t, p, scope, u) ==
    CallPeriod(t, [NoRequest EXCEPT !.op = "unlock", !.p = p, !.u = u,
                                    !.scope = scope, !.to = "REOPENED"])

(* Fault: the guard event does not take the chain lock.                    *)
LockGovernanceShared(t) ==
    /\ pc[t] = "gated"
    /\ lock' = [lock EXCEPT !["governance_events"] = t]
    /\ pc' = [pc EXCEPT ![t] = "deciding"]
    /\ UNCHANGED <<journals, gl, periods, today, req, ok, flushed>>

(* evaluate_mutation: the event GUARD_EVALUATED takes the chain lock.      *)
LockGovernance(t) ==
    /\ pc[t] = "gated"
    /\ lock["governance_events"] = NoTxn
    /\ lock' = [lock EXCEPT !["governance_events"] = t]
    /\ pc' = [pc EXCEPT ![t] = "deciding"]
    /\ UNCHANGED <<journals, gl, periods, today, req, ok, flushed>>

--------------------------------------------------------------------------------
(* The checks of the executors, on what they read themselves.              *)
(* Fault: the period was checked by the guards and is not checked again.   *)
CreateAllowedByGuards(r) == Room(r.p)

CreateAllowed(r) ==
    /\ assert_period_allows_modification(r.p)
    /\ Room(r.p)

SubmitAllowed(r) ==
    /\ assert_period_allows_modification(PeriodOf(r.n))
    /\ journals[r.n].status = "DRAFT"

ReviewAllowed(r) ==
    /\ assert_period_allows_modification(PeriodOf(r.n))
    /\ journals[r.n].status \in {"SUBMITTED", "PENDING_REVIEW", "RESUBMITTED"}

(* Fault: the maker may approve.                                           *)
ApproveAllowedToMaker(r) ==
    /\ assert_period_allows_modification(PeriodOf(r.n))
    /\ journals[r.n].status \in {"SUBMITTED"} \cup ReviewSource
    /\ require_reviewer =>
            journals[r.n].reviewed_by # NoUser \/ journals[r.n].status \in ReviewSource

ApproveAllowed(r) ==
    /\ assert_period_allows_modification(PeriodOf(r.n))
    /\ journals[r.n].status \in {"SUBMITTED"} \cup ReviewSource
    /\ journals[r.n].created_by # r.u
    /\ require_reviewer =>
            journals[r.n].reviewed_by # NoUser \/ journals[r.n].status \in ReviewSource

PostAllowed(r) ==
    /\ journals[r.n].status = "APPROVED"
    /\ assert_period_allows_posting(PeriodOf(r.n), r.u)
    /\ require_distinct_poster => journals[r.n].reviewed_by # r.u
    /\ gl[r.n] = 0

(* reverse_journal checks the period of today, not that of the original.   *)
ReverseAllowed(r) ==
    /\ journals[r.n].status \in Posted
    /\ assert_period_allows_posting(today, r.u)

ExecutorAllows(r) ==
    CASE r.op = "create"  -> CreateAllowed(r)
      [] r.op = "submit"  -> SubmitAllowed(r)
      [] r.op = "review"  -> ReviewAllowed(r)
      [] r.op = "approve" ->
            \/ ApproveAllowed(r)
            \/ assert_period_allows_modification(PeriodOf(r.n)) /\ journals[r.n].status = "APPROVED"
      [] r.op = "post"    -> PostAllowed(r) \/ journals[r.n].status \in Posted
      [] r.op = "reverse" -> ReverseAllowed(r)
      [] r.op = "lock"    -> r.to = "HARD_CLOSED" => Settled(r.p)
      [] r.op = "unlock"  -> TRUE

Write(t, rows, posted, closed) ==
    /\ pc[t] = "deciding"
    /\ ok[t]
    /\ ExecutorAllows(req[t])
    /\ flushed' = [flushed EXCEPT ![t] = [journals |-> rows, gl |-> posted, periods |-> closed]]
    /\ pc' = [pc EXCEPT ![t] = "done"]
    /\ UNCHANGED <<journals, gl, periods, today, lock, req, ok>>

(* One row of accounting_jv_aggregates.                                    *)
Row(n, jv) == [m \in {n} |-> jv]

create_journal_draft(t) ==
    /\ req[t].op = "create"
    /\ Write(t, Row(NumberFor(req[t].p), Draft(req[t].u)), {}, {})

submit_journal(t) ==
    /\ req[t].op = "submit"
    /\ Write(t, Row(req[t].n, [journals[req[t].n] EXCEPT !.status = "SUBMITTED"]), {}, {})

review_journal(t) ==
    /\ req[t].op = "review"
    /\ Write(t, Row(req[t].n, [journals[req[t].n] EXCEPT !.status = "UNDER_REVIEW",
                                                        !.reviewed_by = req[t].u]), {}, {})

(* An approved journal is left as it is.                                   *)
approve_journal(t) ==
    /\ req[t].op = "approve"
    /\ IF journals[req[t].n].status = "APPROVED"
       THEN Write(t, <<>>, {}, {})
       ELSE Write(t, Row(req[t].n, [journals[req[t].n] EXCEPT !.status = "APPROVED",
                                                             !.approved_by = req[t].u]), {}, {})

(* Fault: posting leaves the journal approved.                             *)
PostKeepsStatus(t) ==
    /\ req[t].op = "post"
    /\ Write(t, <<>>, {req[t].n}, {})

(* A posted journal is left as it is.                                      *)
post_journal(t) ==
    /\ req[t].op = "post"
    /\ IF journals[req[t].n].status \in Posted
       THEN Write(t, <<>>, {}, {})
       ELSE Write(t, Row(req[t].n, [journals[req[t].n] EXCEPT !.status = "PUSHED"]),
                  {req[t].n}, {})

(* reverse_journal: the checks ...                                         *)
reverse_journal(t) ==
    /\ pc[t] = "deciding"
    /\ ok[t]
    /\ req[t].op = "reverse"
    /\ ReverseAllowed(req[t])
    /\ pc' = [pc EXCEPT ![t] = "reversing"]
    /\ UNCHANGED <<journals, gl, periods, today, lock, req, ok, flushed>>

(* The reversal gets a number whose lines are not in the ledger yet.        *)
PostReversalAllowed == Room(today) /\ gl[NumberFor(today)] = 0

(* Fault: the original stays posted.                                       *)
PostReversalOnly(t) ==
    LET n == req[t].n
        r == NumberFor(today)
    IN
    /\ pc[t] = "reversing"
    /\ PostReversalAllowed
    /\ flushed' = [flushed EXCEPT ![t] =
            [journals |-> Row(r, Reversal(n, req[t].u)), gl |-> {r}, periods |-> {}]]
    /\ pc' = [pc EXCEPT ![t] = "done"]
    /\ UNCHANGED <<journals, gl, periods, today, lock, req, ok>>

(* ... and, with date.today() read again, the reversal, which is created,  *)
(* approved and posted at once; the original is voided.                    *)
PostReversal(t) ==
    LET n == req[t].n
        r == NumberFor(today)
    IN
    /\ pc[t] = "reversing"
    /\ PostReversalAllowed
    /\ flushed' = [flushed EXCEPT ![t] =
            [journals |-> [m \in {n, r} |-> IF m = r THEN Reversal(n, req[t].u)
                                            ELSE [journals[n] EXCEPT !.status = "VOIDED"]],
             gl |-> {r}, periods |-> {}]]
    /\ pc' = [pc EXCEPT ![t] = "done"]
    /\ UNCHANGED <<journals, gl, periods, today, lock, req, ok>>

(* run_close_readiness (for a hard close) and lock_period.                 *)
lock_period(t) ==
    /\ req[t].op = "lock"
    /\ Write(t, <<>>, {}, {<<req[t].p, req[t].scope, req[t].to>>})

unlock_period(t) ==
    /\ req[t].op = "unlock"
    /\ Write(t, <<>>, {}, {<<req[t].p, req[t].scope, req[t].to>>})

(* An approval policy asks for a role the actor does not have: the intent  *)
(* is committed as VALIDATED and nothing is executed.                      *)
AwaitApproval(t) ==
    /\ pc[t] = "deciding"
    /\ ok[t]
    /\ req[t].op \in Ops
    /\ pc' = [pc EXCEPT ![t] = "done"]
    /\ UNCHANGED <<journals, gl, periods, today, lock, req, ok, flushed>>

--------------------------------------------------------------------------------
(* The end of the transaction frees its locks.                             *)
Finish(t) ==
    /\ lock' = [c \in Chains |-> IF lock[c] = t THEN NoTxn ELSE lock[c]]
    /\ pc' = [pc EXCEPT ![t] = "idle"]
    /\ req' = [req EXCEPT ![t] = NoRequest]
    /\ ok' = [ok EXCEPT ![t] = FALSE]
    /\ flushed' = [flushed EXCEPT ![t] = Nothing]
    /\ UNCHANGED today

Commit(t) ==
    LET w == flushed[t] IN
    /\ pc[t] = "done"
    /\ journals' = [n \in Numbers |-> IF n \in DOMAIN w.journals THEN w.journals[n] ELSE journals[n]]
    /\ gl' = [n \in Numbers |-> IF n \in w.gl THEN gl[n] + 1 ELSE gl[n]]
    /\ periods' = [p \in Periods |->
            [scope \in {"entity", "global"} |->
                IF <<p, scope, req[t].to>> \in w.periods THEN req[t].to ELSE periods[p][scope]]]
    /\ Finish(t)

(* A guard failed, an executor raised, the close is not ready: the request *)
(* is rolled back.                                                         *)
Refuse(t) ==
    /\ \/ pc[t] = "deciding" /\ ~(ok[t] /\ ExecutorAllows(req[t]))
       \/ pc[t] = "reversing" /\ ~PostReversalAllowed
    /\ Finish(t)
    /\ UNCHANGED book

(* An exception or a lost connection at any other statement.               *)
Fail(t) ==
    /\ pc[t] # "idle"
    /\ Finish(t)
    /\ UNCHANGED book

(* The month ends.                                                         *)
Tick ==
    /\ today + 1 \in Periods
    /\ today' = today + 1
    /\ UNCHANGED <<journals, gl, periods, lock, pc, req, ok, flushed>>

--------------------------------------------------------------------------------
Call(t) ==
    \E u \in Users :
        \/ \E p \in Periods : CallIntent(t, "create", NoNumber, p, u)
        \/ \E op \in Ops \ {"create"}, n \in Numbers : CallIntent(t, op, n, 0, u)
        \/ \E p \in Periods, scope \in Scopes :
            \/ \E to \in LockTypes : lock_period_endpoint(t, p, scope, to, u)
            \/ unlock_period_endpoint(t, p, scope, u)

Execute(t) ==
    \/ create_journal_draft(t)
    \/ submit_journal(t)
    \/ review_journal(t)
    \/ approve_journal(t)
    \/ post_journal(t)
    \/ reverse_journal(t)
    \/ PostReversal(t)
    \/ lock_period(t)
    \/ unlock_period(t)

Next ==
    \/ \E t \in Txns :
        \/ Call(t)
        \/ LockIntentEvents(t)
        \/ EvaluateGuards(t)
        \/ LockGovernance(t)
        \/ Execute(t)
        \/ AwaitApproval(t)
        \/ Commit(t)
        \/ Refuse(t)
        \/ Fail(t)
    \/ Tick

Spec == Init /\ [][Next]_vars

--------------------------------------------------------------------------------
Journal ==
    [status : {"NONE", "DRAFT", "SUBMITTED", "UNDER_REVIEW", "APPROVED", "PUSHED", "VOIDED"},
     created_by : Users \cup {NoUser}, reviewed_by : Users \cup {NoUser},
     approved_by : Users \cup {NoUser}, reverses : Numbers \cup {NoNumber}]

PeriodStatus == {"OPEN", "SOFT_CLOSED", "HARD_CLOSED", "REOPENED"}

(* Journals, periods and requests are well typed; in particular a journal  *)
(* is never in one of the states only the retired JV endpoints set.        *)
TypeOK ==
    /\ journals \in [Numbers -> Journal]
    /\ gl \in [Numbers -> Nat]
    /\ periods \in [Periods -> [{"entity", "global"} -> PeriodStatus]]
    /\ today \in Periods
    /\ lock \in [Chains -> Txns \cup {NoTxn}]
    /\ pc \in [Txns -> {"idle", "queued", "guards", "gated", "deciding", "reversing", "done"}]
    /\ \A t \in Txns : req[t].op \in Ops \cup {"none", "lock", "unlock"}
    /\ ok \in [Txns -> BOOLEAN]
    /\ \A t \in Txns : /\ DOMAIN flushed[t].journals \subseteq Numbers
                        /\ flushed[t].gl \subseteq Numbers

(* The lines of a journal are in the general ledger exactly once if it was *)
(* posted and not at all otherwise, also when posts of the journal race    *)
(* (post_journal, _append_gl_entries).                                     *)
PostedOnce ==
    \A n \in Numbers :
        gl[n] = IF journals[n].status \in {"PUSHED", "VOIDED"} THEN 1 ELSE 0

(* A journal is voided exactly if one posted reversal undoes it            *)
(* (reverse_journal).                                                      *)
ReversedOnce ==
    \A n \in Numbers :
        Cardinality({r \in Numbers : journals[r].reverses = n}) =
            IF journals[n].status = "VOIDED" THEN 1 ELSE 0

(* A hard-closed period has no journal that waits for a decision or for    *)
(* posting, although the readiness check and the close are statements      *)
(* between which journals move (run_close_readiness, lock_period).         *)
HardClosedIsSettled == \A p \in Periods : HardClosed(p) => Settled(p)

(* Nobody approves a journal of their own, and the tenant's policy of a    *)
(* review before approval is kept; reversals are approved by their maker   *)
(* (approve_journal).                                                      *)
FourEyes ==
    \A n \in Numbers :
        /\ journals[n].status \in {"APPROVED", "PUSHED", "VOIDED"}
        /\ journals[n].reverses = NoNumber
        => /\ journals[n].approved_by \notin {NoUser, journals[n].created_by}
           /\ require_reviewer => journals[n].reviewed_by # NoUser

(* The journals of a hard-closed period only change by a reversal: no      *)
(* journal is created, advanced or posted in it, whatever the guards of a  *)
(* request saw before the close.                                           *)
ClosedPeriodOnlyReversed ==
    [][\A n \in Numbers :
        /\ HardClosed(PeriodOf(n))
        /\ journals'[n] # journals[n]
        => journals'[n].status = "VOIDED" \/ journals'[n].reverses # NoNumber]_vars

(* Concurrent requests behave like operations carried out one at a time on *)
(* the state of the moment: commits are the steps of JournalBook.          *)
ImplementsBook == BookSpec

================================================================================
