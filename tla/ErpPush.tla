------------------------------- MODULE ErpPush -------------------------------
(***************************************************************************)
(* The push of an approved journal voucher to the tenant's ERP             *)
(* (modules/erp_push/application/posting_service.py, push_task.py).        *)
(* execute_push checks the gates, looks for the youngest run of the        *)
(* voucher's idempotency key, commits a run PUSH_IN_PROGRESS, calls the    *)
(* ERP with no transaction open, and appends the runs that tell the        *)
(* outcome.  It is called by an API request, once, or by a Celery task     *)
(* that is retried after every exception and delivered again when its      *)
(* worker is lost (tasks/celery_app.py: acks_late, reject_on_worker_lost). *)
(*                                                                         *)
(* One version of one voucher and one connector, hence one idempotency     *)
(* key: compute_idempotency_key has neither the connection nor the         *)
(* simulation flag.  The ERP is the environment: it may create the         *)
(* journal and fail to say so.  The requests carry no key of theirs the    *)
(* ERP could recognise a repetition by.                                    *)
(***************************************************************************)
EXTENDS Naturals, Sequences, FiniteSets

CONSTANTS
    Jobs,         \* calls of execute_push
    Tasks,        \* those made by Celery tasks
    MaySimulate,  \* requests that may ask for a simulation
    MaxRetries,   \* _MAX_PUSH_RETRIES
    MaxPosts,     \* attempts of with_backoff
    MaxCrashes    \* bound on lost workers and processes

ASSUME PushAssumption ==
    /\ IsFiniteSet(Jobs)
    /\ Tasks \subseteq Jobs
    /\ MaySimulate \subseteq Jobs \ Tasks
    /\ MaxRetries \in Nat
    /\ MaxPosts \in Nat \ {0}
    /\ MaxCrashes \in Nat

VARIABLES
    runs,      \* erp_push_runs of the key, oldest first
    copies,    \* journals the ERP has created for the voucher
    gates,     \* whether run_all_push_gates would pass now
    pc,        \* where a call is
    posts,     \* HTTP requests of the current attempt
    outcome,   \* PushResult of the current attempt
    retries,   \* Task.request.retries
    told,      \* status of the run returned to the caller
    crashes

vars == <<runs, copies, gates, pc, posts, outcome, retries, told, crashes>>

Statuses == {"PUSH_IN_PROGRESS", "PUSHED", "PUSH_FAILED", "DEAD_LETTER"}

(* external_journal_id: none, one of the ERP, or a made up SIM-... one.    *)
Ids == {"none", "erp", "sim"}

Run(status, id) == [status |-> status, id |-> id]
NoRun == Run("none", "none")

Latest == IF runs = <<>> THEN NoRun ELSE runs[Len(runs)]

Idle == {"queued", "done", "failed"}
Ended == {"done", "failed"}

Init ==
    /\ runs = <<>>
    /\ copies = 0
    /\ gates \in BOOLEAN
    /\ pc = [j \in Jobs |-> "queued"]
    /\ posts = [j \in Jobs |-> 0]
    /\ outcome = [j \in Jobs |-> "none"]
    /\ retries = [j \in Jobs |-> 0]
    /\ told = [j \in Jobs |-> "none"]
    /\ crashes = 0

--------------------------------------------------------------------------------
(* The call leaves execute_push for where; what it knew is gone.           *)
Leave(j, where) ==
    /\ pc' = [pc EXCEPT ![j] = where]
    /\ posts' = [posts EXCEPT ![j] = 0]
    /\ outcome' = [outcome EXCEPT ![j] = "none"]

Return(j, status) ==
    /\ Leave(j, "done")
    /\ told' = [told EXCEPT ![j] = status]
    /\ UNCHANGED retries

(* Fault: self.retry without a limit.                                      *)
RaiseForEver(j) ==
    /\ Leave(j, IF j \in Tasks THEN "queued" ELSE "failed")
    /\ UNCHANGED <<retries, told>>

(* An exception, SoftPushError or any other: a task is retried, up to a    *)
(* limit, and a request fails.                                             *)
Raise(j) ==
    LET again == j \in Tasks /\ retries[j] < MaxRetries IN
    /\ Leave(j, IF again THEN "queued" ELSE "failed")
    /\ retries' = [retries EXCEPT ![j] = IF again THEN @ + 1 ELSE @]
    /\ UNCHANGED told

(* gate_jv_approved, gate_period_open, the account mappings and the        *)
(* connection.  A GateFailure is raised as a ValidationError.              *)
run_all_push_gates(j) ==
    /\ pc[j] = "queued"
    /\ IF gates
       THEN /\ pc' = [pc EXCEPT ![j] = "lookup"]
            /\ UNCHANGED <<posts, outcome, retries, told>>
       ELSE Raise(j)
    /\ UNCHANGED <<runs, copies, gates, crashes>>

(* _poll_erp_for_status has something to ask for.                          *)
Pollable(run) == run.status = "PUSH_IN_PROGRESS" /\ run.id # "none"

(* Fault: the lookup takes a failure for the end of the matter only.       *)
LookupForgets(j) ==
    /\ pc[j] = "lookup"
    /\ pc' = [pc EXCEPT ![j] = "announce"]
    /\ UNCHANGED <<runs, copies, gates, posts, outcome, retries, told, crashes>>

(* The youngest run of the key decides: a PUSHED one is returned, one that *)
(* is in progress and has an ERP id is recovered, and anything else leads  *)
(* to another attempt.  No row is locked.                                  *)
Lookup(j) ==
    /\ pc[j] = "lookup"
    /\ IF Latest.status = "PUSHED" \/ Pollable(Latest)
       THEN /\ runs' = IF Pollable(Latest) THEN Append(runs, Run("PUSHED", Latest.id)) ELSE runs
            /\ Return(j, "PUSHED")
       ELSE /\ pc' = [pc EXCEPT ![j] = "announce"]
            /\ UNCHANGED <<runs, posts, outcome, retries, told>>
    /\ UNCHANGED <<copies, gates, crashes>>

(* Fault: the run is written with the outcome only.                        *)
AnnounceLater(j) ==
    /\ pc[j] = "announce"
    /\ pc' = [pc EXCEPT ![j] = "dispatch"]
    /\ UNCHANGED <<runs, copies, gates, posts, outcome, retries, told, crashes>>

(* The run PUSH_IN_PROGRESS, its idempotency row and event are committed.  *)
Announce(j) ==
    /\ pc[j] = "announce"
    /\ runs' = Append(runs, Run("PUSH_IN_PROGRESS", "none"))
    /\ pc' = [pc EXCEPT ![j] = "dispatch"]
    /\ UNCHANGED <<copies, gates, posts, outcome, retries, told, crashes>>

(* The attempt has its PushResult.                                         *)
Result(j, result) ==
    /\ outcome' = [outcome EXCEPT ![j] = result]
    /\ pc' = [pc EXCEPT ![j] = "record"]
    /\ UNCHANGED <<posts, retries, told>>

(* The connection, its secret and its token are found ...                  *)
Dispatch(j) ==
    /\ pc[j] = "dispatch"
    /\ pc' = [pc EXCEPT ![j] = "post"]
    /\ UNCHANGED <<runs, copies, gates, posts, outcome, retries, told, crashes>>

(* ... and a simulation ends without a request to the ERP ...              *)
Simulate(j) ==
    /\ pc[j] = "dispatch"
    /\ j \in MaySimulate
    /\ Result(j, "sim")
    /\ UNCHANGED <<runs, copies, gates, crashes>>

(* ... or they are not: NotFoundError, ValidationError, a token error.     *)
DispatchRaises(j) ==
    /\ pc[j] = "dispatch"
    /\ Raise(j)
    /\ UNCHANGED <<runs, copies, gates, crashes>>

(* A connector without push, or a payload that cannot be encoded.          *)
DispatchRefuses(j) ==
    /\ pc[j] = "dispatch"
    /\ Result(j, "HARD")
    /\ UNCHANGED <<runs, copies, gates, crashes>>

Created(created) == copies' = IF created THEN copies + 1 ELSE copies

(* Fault: an error of the network counts as a success.                     *)
RequestErrorTrusted(j, created) ==
    /\ pc[j] = "post"
    /\ Created(created)
    /\ Result(j, "erp")
    /\ UNCHANGED <<runs, gates, crashes>>

(* A timeout, a broken connection or a status nobody expects: the journal  *)
(* may exist.  It is a SOFT failure, and with_backoff does not repeat it.  *)
RequestError(j, created) ==
    /\ pc[j] = "post"
    /\ Created(created)
    /\ Result(j, "SOFT")
    /\ UNCHANGED <<runs, gates, crashes>>

(* 429 and 5xx: with_backoff posts the journal again and gives up with a   *)
(* SOFT failure.  Behind a 502 or 504 the journal may exist.               *)
RetryableStatus(j, created) ==
    /\ pc[j] = "post"
    /\ Created(created)
    /\ IF posts[j] + 1 < MaxPosts
       THEN /\ posts' = [posts EXCEPT ![j] = @ + 1]
            /\ UNCHANGED <<pc, outcome, retries, told>>
       ELSE Result(j, "SOFT")
    /\ UNCHANGED <<runs, gates, crashes>>

Accepted(j) ==
    /\ pc[j] = "post"
    /\ Created(TRUE)
    /\ Result(j, "erp")
    /\ UNCHANGED <<runs, gates, crashes>>

(* 400, 401, 404, 422, or Tally's LINEERROR; an answer of Tally that cannot *)
(* be parsed counts as a refusal too, although the journal may exist.      *)
Rejected(j, created) ==
    /\ pc[j] = "post"
    /\ Created(created)
    /\ Result(j, "HARD")
    /\ UNCHANGED <<runs, gates, crashes>>

(* The body of a 200 cannot be parsed, or the task's soft time limit ends  *)
(* the wait: an exception although the journal may exist.                  *)
PostRaises(j, created) ==
    /\ pc[j] = "post"
    /\ Created(created)
    /\ Raise(j)
    /\ UNCHANGED <<runs, gates, crashes>>

(* The runs an outcome leaves behind, and what the caller gets.            *)
RunsOf(result) ==
    IF result \in {"erp", "sim"} THEN <<Run("PUSHED", result)>>
    ELSE IF result = "HARD" THEN <<Run("PUSH_FAILED", "none"), Run("DEAD_LETTER", "none")>>
    ELSE <<Run("PUSH_FAILED", "none")>>

Record(j) ==
    /\ pc[j] = "record"
    /\ runs' = runs \o RunsOf(outcome[j])
    /\ CASE outcome[j] = "SOFT" -> Raise(j)
         [] outcome[j] = "HARD" -> Return(j, "DEAD_LETTER")
         [] OTHER -> Return(j, "PUSHED")
    /\ UNCHANGED <<copies, gates, crashes>>

(* The worker or the process is lost in the middle of a call.  The broker  *)
(* delivers a task again, without counting a retry; a request is gone.     *)
Crash(j) ==
    /\ pc[j] \notin Idle
    /\ crashes < MaxCrashes
    /\ crashes' = crashes + 1
    /\ Leave(j, IF j \in Tasks THEN "queued" ELSE "failed")
    /\ UNCHANGED <<runs, copies, gates, retries, told>>

(* The voucher is approved, posted or voided, the period locked, a mapping *)
(* or a connection changed, by other parts of the system.                  *)
GatesChange ==
    /\ \E j \in Jobs : pc[j] \notin Ended
    /\ gates' = ~gates
    /\ UNCHANGED <<runs, copies, pc, posts, outcome, retries, told, crashes>>

Step(j) ==
    \/ run_all_push_gates(j)
    \/ Lookup(j)
    \/ Announce(j)
    \/ Dispatch(j)
    \/ Simulate(j)
    \/ DispatchRaises(j)
    \/ DispatchRefuses(j)
    \/ \E created \in BOOLEAN :
        \/ RequestError(j, created)
        \/ RetryableStatus(j, created)
        \/ PostRaises(j, created)
        \/ Rejected(j, created)
    \/ Accepted(j)
    \/ Record(j)

(* All calls have ended.                                                   *)
Finished ==
    /\ \A j \in Jobs : pc[j] \in Ended
    /\ UNCHANGED vars

Next ==
    \/ \E j \in Jobs : Step(j) \/ Crash(j)
    \/ GatesChange
    \/ Finished

Spec == Init /\ [][Next]_vars

(* Workers and requests go on; their crashes are finitely many.            *)
FairSpec == Spec /\ \A j \in Jobs : WF_vars(Step(j))

--------------------------------------------------------------------------------
Rows(statuses) == {k \in DOMAIN runs : runs[k].status \in statuses}
Attempts == Cardinality(Rows({"PUSH_IN_PROGRESS"}))

(* Every variable has its type; a task is retried MaxRetries times at      *)
(* most, and a journal sent MaxPosts times in one attempt.                 *)
TypeOK ==
    /\ runs \in Seq([status : Statuses, id : Ids])
    /\ copies \in Nat
    /\ gates \in BOOLEAN
    /\ pc \in [Jobs -> Idle \cup {"lookup", "announce", "dispatch", "post", "record"}]
    /\ posts \in [Jobs -> 0..(MaxPosts - 1)]
    /\ outcome \in [Jobs -> {"none", "erp", "sim", "HARD", "SOFT"}]
    /\ retries \in [Jobs -> 0..MaxRetries]
    /\ told \in [Jobs -> {"none", "PUSHED", "DEAD_LETTER"}]
    /\ crashes \in 0..MaxCrashes

(* "the sequence MUST be": the mark is committed before the ERP is called, *)
(* so however attempts fail, crash or overlap, the ERP holds no journal    *)
(* beyond what the committed PUSH_IN_PROGRESS runs announce                *)
(* (execute_push, with_backoff).                                           *)
CopiesAreAnnounced == copies <= MaxPosts * Attempts

(* Every run that says PUSHED with an id of the ERP stands for a journal   *)
(* of its own there: no answer that was lost is taken for a success and    *)
(* none is recorded twice (execute_push).                                  *)
PushedRunsAreInErp ==
    Cardinality({k \in Rows({"PUSHED"}) : runs[k].id = "erp"}) <= copies

(* The push is over: the youngest run is PUSHED and no call is beyond the  *)
(* lookup.                                                                 *)
Settled ==
    /\ Latest.status = "PUSHED"
    /\ \A j \in Jobs : pc[j] \in Idle \cup {"lookup"}

(* Once it is over it stays over: no retry, redelivery or later request    *)
(* calls the ERP again (the lookup of execute_push).                       *)
SettledIsFinal == [][Settled => copies' = copies /\ Settled']_vars

(* Every call ends, whatever the ERP does: retries are bounded, and so is  *)
(* what with_backoff repeats (push_journal_task).                          *)
PushesEnd == \A j \in Jobs : <>(pc[j] \in Ended)

(* "If step 5 crashes after commit of step 4, the retry will find          *)
(* idempotency_key already in DB and can re-use the external_id by         *)
(* re-polling the ERP": an attempt that was cut short is not repeated      *)
(* (_poll_erp_for_status).                                                 *)
PushedAtMostOnce == copies <= 1

================================================================================
