------------------------- MODULE IntentPipelineProofs -------------------------
(***************************************************************************)
(* Proofs about IntentPipeline, for every set of sessions, every set of    *)
(* mutations and batches and whatever keys, entities and targets they name.*)
(***************************************************************************)
EXTENDS IntentPipeline, TLAPS

Jobs == {"none", "RUNNING", "SUCCEEDED", "FAILED"}
Extents == {"none", "part", "all"}

IsList(s) == Len(s) \in Nat /\ DOMAIN s = 1..Len(s)

(* A row of canonical_intents with its job.                                *)
RowOK(row) ==
    /\ row = [target |-> row.target, items |-> row.items, parent |-> row.parent,
              status |-> row.status, job |-> row.job, wrote |-> row.wrote,
              failed |-> row.failed]
    /\ row.status \in Statuses
    /\ row.job \in Jobs
    /\ row.wrote \in Extents
    /\ row.failed \in Seq(Nat)

BatchOK(b) ==
    /\ b = [req |-> b.req, items |-> b.items, next |-> b.next, failed |-> b.failed]
    /\ IsList(b.req.items)
    /\ IsList(b.items)
    /\ b.next \in 0..(Len(b.items) + 1)
    /\ b.failed \in Seq(Nat)

Shapes ==
    /\ rows = [t \in Txns |-> rows[t]]
    /\ req = [t \in Txns |-> req[t]]
    /\ batch = [t \in Txns |-> batch[t]]
    /\ answer = [t \in Txns |-> answer[t]]
    /\ events \in Txns \cup {NoTxn}
    /\ pc \in [Txns -> {"idle", "lookup", "insert", "submit", "validate", "approve", "execute",
                        "items", "done"}]

SessionTyped(t) ==
    /\ \A i \in DOMAIN rows[t] : RowOK(rows[t][i])
    /\ IsList(req[t].items)
    /\ BatchOK(batch[t])

Typed ==
    /\ Shapes
    /\ \A i \in DOMAIN intents : RowOK(intents[i])
    /\ \A t \in Txns : SessionTyped(t)

(* A row belongs to the committed table or to one session.                 *)
Apart ==
    /\ \A t \in Txns : DOMAIN rows[t] \cap DOMAIN intents = {}
    /\ \A s, t \in Txns : s # t => DOMAIN rows[s] \cap DOMAIN rows[t] = {}

(* The end of an intent's way through the pipeline.                        *)
SettledRow(row) ==
    \/ row.status = "VALIDATED" /\ row.job = "none" /\ row.wrote = "none"
    \/ /\ row.status \in {"RECORDED", "PARTIAL_SUCCESS"}
       /\ row.job = "SUCCEEDED"
       /\ row.wrote = "all"

InBatch(t) == batch[t] # NoBatch

(* The intent a client asked session t for.                                *)
Top(t) == IF InBatch(t) THEN IdOf(batch[t].req) ELSE Me(t)

(* Where a session is tells what it has inserted: the row of its intent    *)
(* from create_draft on, and that of the batch while its items run.        *)
Place(t) ==
    /\ pc[t] \in {"idle", "done"} => ~InBatch(t)
    /\ pc[t] = "items" => InBatch(t)
    /\ pc[t] \in {"idle", "lookup", "insert"} /\ ~InBatch(t) => DOMAIN rows[t] = {}
    /\ pc[t] \in {"submit", "validate", "approve", "execute"} => Me(t) \in DOMAIN rows[t]
    /\ InBatch(t) =>
        /\ batch[t].req.type \in {"BATCH_MUTATION", "RETRY_BATCH_MUTATION"}
        /\ IdOf(batch[t].req) \in DOMAIN rows[t]
        /\ batch[t].next >= 1
        /\ pc[t] # "items" => req[t].type = "MUTATION" /\ batch[t].next \in DOMAIN batch[t].items

(* All other rows a session has written are children of its batch.         *)
Children(t) == \A i \in DOMAIN rows[t] : i # Top(t) => rows[t][i].parent # NoId

(* The way of an intent outside a batch.                                   *)
Way(t) ==
    ~InBatch(t) =>
        /\ pc[t] \in {"submit", "validate"} => Mine(t).job = "none" /\ Mine(t).wrote = "none"
        /\ pc[t] = "approve" =>
            Mine(t).status = "VALIDATED" /\ Mine(t).job = "none" /\ Mine(t).wrote = "none"
        /\ pc[t] = "done" /\ Me(t) \in DOMAIN rows[t] => SettledRow(Mine(t))

Names(id, r) == id[1] = r.type /\ id[3] = r.key

(* The answer of a session is an intent it sees before it commits, and a   *)
(* stored one afterwards.                                                  *)
Told(t) ==
    /\ pc[t] = "done" => /\ answer[t] \in DOMAIN intents \cup DOMAIN rows[t]
                         /\ Names(answer[t], req[t])
    /\ pc[t] = "idle" /\ answer[t] \notin {NoId, Refused, Error} =>
            answer[t] \in DOMAIN intents /\ Names(answer[t], req[t])

SessionOK(t) == Place(t) /\ Children(t) /\ Way(t) /\ Told(t)

IInv == Typed /\ Apart /\ SubmittedIsSettled /\ \A t \in Txns : SessionOK(t)

-------------------------------------------------------------------------------
(* A session is not disturbed by a step of another one: committed rows     *)
(* only become more.                                                       *)
LEMMA Undisturbed ==
    ASSUME NEW s \in Txns, SessionOK(s), SessionTyped(s), DOMAIN intents \subseteq DOMAIN intents',
           rows'[s] = rows[s], pc'[s] = pc[s], req'[s] = req[s], batch'[s] = batch[s],
           answer'[s] = answer[s]
    PROVE  SessionOK(s)' /\ SessionTyped(s)'
  <1>1. /\ Me(s)' = Me(s) /\ Mine(s)' = Mine(s) /\ InBatch(s)' = InBatch(s)
        /\ Top(s)' = Top(s) /\ IdOf(batch[s].req)' = IdOf(batch[s].req)
    BY DEF Me, Mine, InBatch, Top, IdOf
  <1>2. Place(s)' /\ Children(s)' /\ Way(s)'
    BY <1>1 DEF SessionOK, Place, Children, Way
  <1>3. Told(s)'
    BY DEF SessionOK, Told, Names
  <1>4. SessionTyped(s)'
    BY DEF SessionTyped
  <1> QED
    BY <1>2, <1>3, <1>4 DEF SessionOK

(* A step of session t that commits nothing has to be looked at for t      *)
(* only, and for the rows it inserts.                                      *)
LEMMA OneSession ==
    ASSUME IInv, NEW t \in Txns, intents' = intents, Shapes', SessionTyped(t)', SessionOK(t)',
           \A s \in Txns \ {t} :
                /\ rows'[s] = rows[s] /\ pc'[s] = pc[s] /\ req'[s] = req[s]
                /\ batch'[s] = batch[s] /\ answer'[s] = answer[s],
           \A i \in DOMAIN rows'[t] \ DOMAIN rows[t] :
                i \notin DOMAIN intents /\ \A s \in Txns : i \notin DOMAIN rows[s]
    PROVE  IInv'
  <1>1. \A s \in Txns : SessionOK(s)' /\ SessionTyped(s)'
    <2> SUFFICES ASSUME NEW s \in Txns, s # t PROVE SessionOK(s)' /\ SessionTyped(s)'
      OBVIOUS
    <2>1. SessionOK(s) /\ SessionTyped(s)
      BY DEF IInv, Typed
    <2>2. /\ rows'[s] = rows[s] /\ pc'[s] = pc[s] /\ req'[s] = req[s]
          /\ batch'[s] = batch[s] /\ answer'[s] = answer[s]
      OBVIOUS
    <2> QED
      BY <2>1, <2>2, Undisturbed
  <1>2. Typed'
    BY <1>1 DEF IInv, Typed
  <1>3. Apart'
    <2>1. \A s \in Txns : DOMAIN rows'[s] \cap DOMAIN intents = {}
      BY DEF IInv, Apart
    <2>2. \A s \in Txns : s # t => DOMAIN rows'[s] \cap DOMAIN rows'[t] = {}
      BY DEF IInv, Apart
    <2>3. \A s, u \in Txns : s # t /\ u # t /\ s # u => DOMAIN rows'[s] \cap DOMAIN rows'[u] = {}
      BY DEF IInv, Apart
    <2> QED
      BY <2>1, <2>2, <2>3 DEF Apart
  <1>4. SubmittedIsSettled'
    BY DEF IInv, SubmittedIsSettled
  <1> QED
    BY <1>1, <1>2, <1>3, <1>4 DEF IInv

(* The end of a transaction that commits nothing.                          *)
LEMMA RollbackStep ==
    ASSUME IInv, NEW t \in Txns, NEW told \in {NoId, Refused, Error}, Rollback(t, told)
    PROVE  IInv'
  <1> USE DEF IInv, Typed, Shapes
  <1>1. /\ intents' = intents /\ req' = req
        /\ rows' = [rows EXCEPT ![t] = <<>>] /\ pc' = [pc EXCEPT ![t] = "idle"]
        /\ batch' = [batch EXCEPT ![t] = NoBatch] /\ answer' = [answer EXCEPT ![t] = told]
        /\ events' = IF events = t THEN NoTxn ELSE events
    BY DEF Rollback, Finish
  <1>2. Shapes'
    BY <1>1
  <1>3. /\ rows'[t] = <<>> /\ pc'[t] = "idle" /\ batch'[t] = NoBatch /\ answer'[t] = told
        /\ req'[t] = req[t]
    BY <1>1
  <1>4. DOMAIN rows'[t] = {}
    BY <1>3
  <1>5. BatchOK(NoBatch)
    BY DEF BatchOK, NoBatch, IsList
  <1>6. SessionTyped(t)'
    BY <1>3, <1>4, <1>5 DEF SessionTyped
  <1>7. SessionOK(t)'
    BY <1>3, <1>4 DEF SessionOK, Place, Children, Way, Told, InBatch
  <1>8. \A s \in Txns \ {t} :
            /\ rows'[s] = rows[s] /\ pc'[s] = pc[s] /\ req'[s] = req[s]
            /\ batch'[s] = batch[s] /\ answer'[s] = answer[s]
    BY <1>1
  <1> HIDE DEF IInv, Typed, Shapes
  <1> QED
    BY <1>1, <1>2, <1>4, <1>6, <1>7, <1>8, OneSession

(* Rewriting the row of a session's intent, but for its parent.            *)
LEMMA WithMine ==
    ASSUME NEW t \in Txns, NEW row, RowOK(row), SessionTyped(t), Children(t),
           Me(t) \in DOMAIN rows[t], row.parent = Mine(t).parent
    PROVE  LET new == With(t, Me(t), row) IN
           /\ DOMAIN new = DOMAIN rows[t]
           /\ new[Me(t)] = row
           /\ \A i \in DOMAIN new : RowOK(new[i])
           /\ \A i \in DOMAIN new : i # Top(t) => new[i].parent # NoId
  <1> DEFINE new == With(t, Me(t), row)
  <1>1. DOMAIN new = DOMAIN rows[t] /\ \A i \in DOMAIN new : new[i] = IF i = Me(t) THEN row ELSE rows[t][i]
    BY DEF With
  <1> HIDE DEF new
  <1>2. new[Me(t)] = row /\ \A i \in DOMAIN new : RowOK(new[i])
    BY <1>1 DEF SessionTyped
  <1>3. \A i \in DOMAIN new : i # Top(t) => new[i].parent # NoId
    BY <1>1 DEF Children, Mine
  <1> QED
    BY <1>1, <1>2, <1>3 DEF new

(* A row moved on by the pipeline: its status, ...                         *)
ToStatus(row, status) == [row EXCEPT !.status = status]

(* ... also that of its job, ...                                           *)
ToJob(row, status, job) == [row EXCEPT !.status = status, !.job = job]

(* ... and what it wrote.                                                  *)
ToWork(row, status, job, wrote) == [row EXCEPT !.status = status, !.job = job, !.wrote = wrote]

(* The fields of a row.                                                    *)
LEMMA RowFields ==
    ASSUME NEW row, RowOK(row)
    PROVE  \E a, b, c, d, e, f, g :
                row = [target |-> a, items |-> b, parent |-> c, status |-> d, job |-> e,
                       wrote |-> f, failed |-> g]
  BY DEF RowOK

(* A row stays a row when its status changes.                              *)
LEMMA StatusMoved ==
    ASSUME NEW row, RowOK(row), NEW status \in Statuses
    PROVE  LET moved == ToStatus(row, status) IN
           /\ RowOK(moved) /\ moved.status = status /\ moved.parent = row.parent
           /\ moved.job = row.job /\ moved.wrote = row.wrote
  <1>1. PICK a, b, c, d, e, f, g :
            row = [target |-> a, items |-> b, parent |-> c, status |-> d, job |-> e,
                   wrote |-> f, failed |-> g]
    BY RowFields
  <1>2. ToStatus(row, status) =
            [target |-> a, items |-> b, parent |-> c, status |-> status, job |-> e,
             wrote |-> f, failed |-> g]
    BY <1>1 DEF ToStatus
  <1> QED
    BY <1>1, <1>2 DEF RowOK

(* A row stays a row when its job changes.                                 *)
LEMMA JobMoved ==
    ASSUME NEW row, RowOK(row), NEW status \in Statuses, NEW job \in Jobs
    PROVE  LET moved == ToJob(row, status, job) IN
           /\ RowOK(moved) /\ moved.status = status /\ moved.parent = row.parent
           /\ moved.job = job /\ moved.wrote = row.wrote
  <1> DEFINE first == ToStatus(row, status)
  <1>1. RowOK(first) /\ first.status = status /\ first.parent = row.parent /\ first.wrote = row.wrote
    BY StatusMoved
  <1>2. ToJob(row, status, job) = [first EXCEPT !.job = job]
    BY Zenon DEF ToJob, ToStatus
  <1> HIDE DEF first
  <1>3. PICK a, b, c, d, e, f, g :
            first = [target |-> a, items |-> b, parent |-> c, status |-> d, job |-> e,
                     wrote |-> f, failed |-> g]
    BY <1>1, RowFields
  <1>4. ToJob(row, status, job) =
            [target |-> a, items |-> b, parent |-> c, status |-> d, job |-> job,
             wrote |-> f, failed |-> g]
    BY <1>2, <1>3
  <1> QED
    BY <1>1, <1>3, <1>4 DEF RowOK

(* A row stays a row when its work is noted.                               *)
LEMMA WorkMoved ==
    ASSUME NEW row, RowOK(row), NEW status \in Statuses, NEW job \in Jobs, NEW wrote \in Extents
    PROVE  LET moved == ToWork(row, status, job, wrote) IN
           /\ RowOK(moved) /\ moved.status = status /\ moved.parent = row.parent
           /\ moved.job = job /\ moved.wrote = wrote
  <1> DEFINE second == ToJob(row, status, job)
  <1>1. RowOK(second) /\ second.status = status /\ second.parent = row.parent /\ second.job = job
    BY JobMoved
  <1>2. ToWork(row, status, job, wrote) = [second EXCEPT !.wrote = wrote]
    BY Zenon DEF ToWork, ToJob
  <1> HIDE DEF second
  <1>3. PICK a, b, c, d, e, f, g :
            second = [target |-> a, items |-> b, parent |-> c, status |-> d, job |-> e,
                      wrote |-> f, failed |-> g]
    BY <1>1, RowFields
  <1>4. ToWork(row, status, job, wrote) =
            [target |-> a, items |-> b, parent |-> c, status |-> d, job |-> e,
             wrote |-> wrote, failed |-> g]
    BY <1>2, <1>3
  <1> QED
    BY <1>1, <1>3, <1>4 DEF RowOK

(* submit_intent returns id, having left the rows of the session as new.   *)
LEMMA ReturnStep ==
    ASSUME IInv, NEW t \in Txns, NEW id, NEW new, Return(t, id),
           pc[t] \in {"lookup", "approve", "execute"},
           rows' = [rows EXCEPT ![t] = new], events' = events,
           DOMAIN new = DOMAIN rows[t],
           \A i \in DOMAIN new : RowOK(new[i]),
           \A i \in DOMAIN new : i # Top(t) => new[i].parent # NoId,
           ~InBatch(t) => /\ id \in DOMAIN intents \cup DOMAIN new
                          /\ Names(id, req[t])
                          /\ Me(t) \in DOMAIN new => SettledRow(new[Me(t)])
    PROVE  IInv'
  <1> USE DEF IInv, Typed, Shapes
  <1>1. intents' = intents /\ req' = req /\ rows'[t] = new
    BY DEF Return
  <1>2. \A s \in Txns \ {t} :
            /\ rows'[s] = rows[s] /\ pc'[s] = pc[s] /\ req'[s] = req[s]
            /\ batch'[s] = batch[s] /\ answer'[s] = answer[s]
    BY DEF Return
  <1>3. CASE ~InBatch(t)
    <2>1. /\ pc' = [pc EXCEPT ![t] = "done"] /\ answer' = [answer EXCEPT ![t] = id]
          /\ batch' = batch
      BY <1>3 DEF Return, InBatch
    <2>2. Shapes' /\ pc'[t] = "done" /\ answer'[t] = id
      BY <1>1, <2>1
    <2>3. Me(t)' = Me(t) /\ Mine(t)' = new[Me(t)] /\ ~InBatch(t)' /\ Top(t)' = Top(t)
      BY <1>1, <1>3, <2>1 DEF Me, Mine, InBatch, Top, IdOf
    <2>4. SessionTyped(t)'
      BY <1>1, <2>1 DEF SessionTyped
    <2>5. Place(t)' /\ Children(t)' /\ Way(t)'
      BY <1>1, <1>3, <2>2, <2>3 DEF Place, Children, Way
    <2>6. Told(t)'
      BY <1>1, <1>3, <2>2 DEF Told, Names
    <2>7. SessionOK(t)'
      BY <2>5, <2>6 DEF SessionOK
    <2> HIDE DEF IInv, Typed, Shapes
    <2> QED
      BY <1>1, <1>2, <2>2, <2>4, <2>7, OneSession
  <1>4. CASE InBatch(t)
    <2> DEFINE b == batch[t]
    <2>1. /\ pc' = [pc EXCEPT ![t] = "items"] /\ answer' = answer
          /\ batch' = [batch EXCEPT ![t].next = @ + 1]
      BY <1>4 DEF Return, InBatch
    <2>2. Shapes' /\ pc'[t] = "items"
      BY <1>1, <2>1
    <2>3. BatchOK(b) /\ Place(t)
      BY DEF SessionOK, SessionTyped
    <2>4. b.next \in DOMAIN b.items /\ b.next >= 1
      BY <1>4, <2>3 DEF Place
    <2>5. /\ batch'[t] = [b EXCEPT !.next = b.next + 1]
          /\ batch'[t] = [req |-> b.req, items |-> b.items, next |-> b.next + 1, failed |-> b.failed]
      BY <2>1, <2>3 DEF BatchOK
    <2>6. BatchOK(batch[t])'
      BY <2>3, <2>4, <2>5 DEF BatchOK, IsList
    <2>7. /\ batch'[t].req = b.req /\ batch'[t].next = b.next + 1
          /\ b.req.type \in {"BATCH_MUTATION", "RETRY_BATCH_MUTATION"}
      BY <1>4, <2>3, <2>5 DEF Place
    <2>8. InBatch(t)'
      BY <2>7 DEF InBatch, NoBatch, NoRequest
    <2>9. Top(t)' = Top(t) /\ IdOf(batch[t].req)' = IdOf(b.req)
      BY <1>4, <2>7, <2>8 DEF Top, IdOf
    <2>10. SessionTyped(t)'
      BY <1>1, <2>6 DEF SessionTyped
    <2>11. Place(t)'
      BY <1>1, <1>4, <2>2, <2>3, <2>4, <2>7, <2>8, <2>9 DEF Place, BatchOK
    <2>12. Children(t)' /\ Way(t)' /\ Told(t)'
      BY <1>1, <2>2, <2>8, <2>9 DEF Children, Way, Told
    <2>13. SessionOK(t)'
      BY <2>11, <2>12 DEF SessionOK
    <2> HIDE DEF IInv, Typed, Shapes
    <2> QED
      BY <1>1, <1>2, <2>2, <2>10, <2>13, OneSession
  <1> QED
    BY <1>3, <1>4

(* submit_intent raises: the request is rolled back, or the batch notes    *)
(* the item.                                                               *)
LEMMA RaiseStep ==
    ASSUME IInv, NEW t \in Txns, NEW new, NEW told \in {Refused, Error}, Raise(t, new, told),
           pc[t] \in {"lookup", "validate", "approve", "execute"},
           DOMAIN new = DOMAIN rows[t],
           \A i \in DOMAIN new : RowOK(new[i]),
           \A i \in DOMAIN new : i # Top(t) => new[i].parent # NoId
    PROVE  IInv'
  <1>1. CASE ~InBatch(t)
    BY <1>1, RollbackStep DEF Raise, InBatch
  <1>2. CASE InBatch(t)
    <2> USE DEF IInv, Typed, Shapes
    <2> DEFINE b == batch[t]
    <2>1. /\ rows' = [rows EXCEPT ![t] = new]
          /\ batch' = [batch EXCEPT ![t].next = b.next + 1, ![t].failed = Append(@, b.next)]
          /\ pc' = [pc EXCEPT ![t] = "items"]
          /\ UNCHANGED <<intents, events, req, answer>>
      BY <1>2 DEF Raise, InBatch, NoteFailure
    <2>2. Shapes' /\ pc'[t] = "items" /\ rows'[t] = new
      BY <2>1
    <2>3. BatchOK(b) /\ Place(t)
      BY DEF SessionOK, SessionTyped
    <2>4. b.next \in DOMAIN b.items /\ b.next >= 1
      BY <1>2, <2>3 DEF Place
    <2>5. batch'[t] = [req |-> b.req, items |-> b.items, next |-> b.next + 1,
                       failed |-> Append(b.failed, b.next)]
      BY <2>1, <2>3 DEF BatchOK
    <2>6. BatchOK(batch[t])'
      <3>1. b.next \in Nat /\ b.failed \in Seq(Nat)
        BY <2>3 DEF BatchOK
      <3>2. Append(b.failed, b.next) \in Seq(Nat)
        BY <3>1
      <3> QED
        BY <2>3, <2>4, <2>5, <3>2 DEF BatchOK, IsList
    <2>7. /\ batch'[t].req = b.req /\ batch'[t].next = b.next + 1
          /\ b.req.type \in {"BATCH_MUTATION", "RETRY_BATCH_MUTATION"}
      BY <1>2, <2>3, <2>5 DEF Place
    <2>8. InBatch(t)'
      BY <2>7 DEF InBatch, NoBatch, NoRequest
    <2>9. Top(t)' = Top(t) /\ IdOf(batch[t].req)' = IdOf(b.req)
      BY <1>2, <2>7, <2>8 DEF Top, IdOf
    <2>10. SessionTyped(t)'
      BY <2>1, <2>2, <2>6 DEF SessionTyped
    <2>11. Place(t)'
      BY <1>2, <2>2, <2>3, <2>4, <2>7, <2>8, <2>9 DEF Place, BatchOK
    <2>12. Children(t)' /\ Way(t)' /\ Told(t)'
      BY <2>2, <2>8, <2>9 DEF Children, Way, Told
    <2>13. SessionOK(t)'
      BY <2>11, <2>12 DEF SessionOK
    <2>14. \A s \in Txns \ {t} :
            /\ rows'[s] = rows[s] /\ pc'[s] = pc[s] /\ req'[s] = req[s]
            /\ batch'[s] = batch[s] /\ answer'[s] = answer[s]
      BY <2>1
    <2> HIDE DEF IInv, Typed, Shapes
    <2> QED
      BY <2>1, <2>2, <2>10, <2>13, <2>14, OneSession
  <1> QED
    BY <1>1, <1>2

(* A request comes in.                                                     *)
LEMMA CallStep ==
    ASSUME IInv, NEW t \in Txns, NEW r \in Calls \cup Retries, Call(t, r)
    PROVE  IInv'
  <1> USE DEF IInv, Typed, Shapes
  <1>1. /\ pc[t] = "idle" /\ req' = [req EXCEPT ![t] = r] /\ answer' = [answer EXCEPT ![t] = NoId]
        /\ pc' = [pc EXCEPT ![t] = "lookup"] /\ UNCHANGED <<intents, rows, events, batch>>
    BY DEF Call
  <1>2. Shapes' /\ pc'[t] = "lookup" /\ req'[t] = r
    BY <1>1
  <1>3. IsList(r.items)
    <2>1. CASE r \in Calls
      BY <2>1, IntentAssumption DEF IsList
    <2>2. CASE r \in Retries
      BY <2>2 DEF Retries, IsList
    <2> QED
      BY <2>1, <2>2
  <1>4. SessionTyped(t)'
    BY <1>1, <1>2, <1>3 DEF SessionTyped
  <1>5. ~InBatch(t) /\ DOMAIN rows[t] = {}
    BY <1>1 DEF SessionOK, Place
  <1>6. ~InBatch(t)' /\ DOMAIN rows'[t] = {}
    BY <1>1, <1>5 DEF InBatch
  <1>7. SessionOK(t)'
    BY <1>2, <1>6 DEF SessionOK, Place, Children, Way, Told
  <1>8. \A s \in Txns \ {t} : pc'[s] = pc[s] /\ req'[s] = req[s] /\ answer'[s] = answer[s]
    BY <1>1
  <1> HIDE DEF IInv, Typed, Shapes
  <1> QED
    BY <1>1, <1>2, <1>4, <1>7, <1>8, OneSession

(* The lookup of the key: replay, ambiguity or a new intent, whose entity  *)
(* is resolved or not.                                                     *)
LEMMA LookupStep ==
    ASSUME IInv, NEW t \in Txns,
           Replay(t) \/ Ambiguous(t) \/ FindNone(t) \/ EntityNotResolved(t)
    PROVE  IInv'
  <1>0. /\ SessionOK(t) /\ SessionTyped(t) /\ Shapes
        /\ \A i \in DOMAIN rows[t] : RowOK(rows[t][i])
        /\ \A i \in DOMAIN rows[t] : i # Top(t) => rows[t][i].parent # NoId
    BY DEF IInv, Typed, SessionOK, SessionTyped, Children
  <1>1. CASE Replay(t)
    <2>1. PICK i \in Existing(t) : Return(t, i)
      BY <1>1 DEF Replay
    <2>2. pc[t] = "lookup" /\ rows' = rows /\ events' = events
      BY <1>1 DEF Replay
    <2>3. rows' = [rows EXCEPT ![t] = rows[t]]
      BY <1>0, <2>2 DEF Shapes
    <2>4. i \in DOMAIN intents \cup DOMAIN rows[t] /\ Names(i, req[t])
      BY DEF Existing, View, Names
    <2>5. ~InBatch(t) => DOMAIN rows[t] = {}
      BY <1>0, <2>2 DEF SessionOK, Place
    <2> QED
      BY <1>0, <2>1, <2>2, <2>3, <2>4, <2>5, ReturnStep
  <1>2. CASE Ambiguous(t)
    BY <1>0, <1>2, RaiseStep DEF Ambiguous
  <1>3. CASE FindNone(t)
    <2>1. /\ pc[t] = "lookup" /\ pc' = [pc EXCEPT ![t] = "insert"]
          /\ UNCHANGED <<intents, rows, events, req, batch, answer>>
      BY <1>3 DEF FindNone
    <2>2. Shapes' /\ pc'[t] = "insert" /\ \A s \in Txns \ {t} : pc'[s] = pc[s]
      BY <1>0, <2>1 DEF Shapes
    <2>3. SessionTyped(t)'
      BY <1>0, <2>1 DEF SessionTyped
    <2>4. InBatch(t)' = InBatch(t) /\ Top(t)' = Top(t) /\ IdOf(batch[t].req)' = IdOf(batch[t].req)
      BY <2>1 DEF InBatch, Top, Me, IdOf
    <2>5. SessionOK(t)'
      BY <1>0, <2>1, <2>2, <2>4 DEF SessionOK, Place, Children, Way, Told
    <2> QED
      BY <2>1, <2>2, <2>3, <2>5, OneSession
  <1>4. CASE EntityNotResolved(t)
    BY <1>0, <1>4, RaiseStep DEF EntityNotResolved
  <1> QED
    BY <1>1, <1>2, <1>3, <1>4

(* The INSERT of a key that no session and no committed row has.           *)
LEMMA CreateDraftStep ==
    ASSUME IInv, NEW t \in Txns, create_draft(t)
    PROVE  IInv'
  <1> DEFINE row == DraftOf(t)
             new == With(t, Me(t), row)
  <1>0. SessionOK(t) /\ SessionTyped(t) /\ Shapes
    BY DEF IInv, Typed
  <1>1. /\ pc[t] = "insert" /\ pc' = [pc EXCEPT ![t] = "submit"]
        /\ rows' = [rows EXCEPT ![t] = new]
        /\ Me(t) \notin DOMAIN intents /\ \A s \in Txns : Me(t) \notin DOMAIN rows[s]
        /\ UNCHANGED <<intents, events, req, batch, answer>>
    BY DEF create_draft
  <1>2. RowOK(row) /\ row.job = "none" /\ row.wrote = "none"
    BY DEF DraftOf, RowOK, Statuses, Jobs, Extents
  <1>3. InBatch(t) => row.parent # NoId
    BY DEF DraftOf, InBatch, IdOf, NoId
  <1>4. /\ DOMAIN new = DOMAIN rows[t] \cup {Me(t)}
        /\ \A i \in DOMAIN new : new[i] = IF i = Me(t) THEN row ELSE rows[t][i]
    BY DEF With
  <1> HIDE DEF row, new
  <1>5. /\ Shapes' /\ pc'[t] = "submit" /\ rows'[t] = new
        /\ \A s \in Txns \ {t} : pc'[s] = pc[s] /\ rows'[s] = rows[s]
    BY <1>0, <1>1 DEF Shapes
  <1>6. SessionTyped(t)'
    BY <1>0, <1>1, <1>2, <1>4, <1>5 DEF SessionTyped
  <1>7. /\ InBatch(t)' = InBatch(t) /\ Top(t)' = Top(t) /\ Me(t)' = Me(t)
        /\ IdOf(batch[t].req)' = IdOf(batch[t].req) /\ Mine(t)' = row
    BY <1>1, <1>4, <1>5 DEF InBatch, Top, Me, IdOf, Mine
  <1>8. Place(t)'
    BY <1>0, <1>1, <1>4, <1>5, <1>7 DEF SessionOK, Place
  <1>9. Children(t)'
    <2>1. ~InBatch(t) => Top(t) = Me(t)
      BY DEF Top
    <2> QED
      BY <1>0, <1>3, <1>4, <1>5, <1>7, <2>1 DEF SessionOK, Children
  <1>10. Way(t)' /\ Told(t)'
    BY <1>2, <1>5, <1>7 DEF Way, Told
  <1>11. SessionOK(t)'
    BY <1>8, <1>9, <1>10 DEF SessionOK
  <1> QED
    BY <1>1, <1>4, <1>5, <1>6, <1>11, OneSession

(* The events of the pipeline move the row on: submitted, validated,       *)
(* approved and executing.                                                 *)
LEMMA AdvanceStep ==
    ASSUME IInv, NEW t \in Txns,
           submit_existing_intent(t) \/ validate_intent(t) \/ approve_intent(t)
    PROVE  IInv'
  <1>0. SessionOK(t) /\ SessionTyped(t) /\ Shapes /\ Children(t)
    BY DEF IInv, Typed, SessionOK
  <1>1. pc[t] \in {"submit", "validate", "approve"}
    BY DEF submit_existing_intent, validate_intent, approve_intent
  <1>2. Me(t) \in DOMAIN rows[t]
    BY <1>0, <1>1 DEF SessionOK, Place
  <1>3. RowOK(Mine(t))
    BY <1>0, <1>2 DEF SessionTyped, Mine
  <1>4. ASSUME NEW row, RowOK(row), row.parent = Mine(t).parent, NEW to \in {"validate", "approve", "execute"},
               rows' = [rows EXCEPT ![t] = With(t, Me(t), row)],
               pc' = [pc EXCEPT ![t] = to], events' \in Txns \cup {NoTxn},
               UNCHANGED <<intents, req, batch, answer>>,
               ~InBatch(t) /\ to # "execute" => row.job = "none" /\ row.wrote = "none",
               to = "approve" => row.status = "VALIDATED"
        PROVE  IInv'
    <2> DEFINE new == With(t, Me(t), row)
    <2>1. /\ DOMAIN new = DOMAIN rows[t] /\ new[Me(t)] = row
          /\ \A i \in DOMAIN new : RowOK(new[i])
          /\ \A i \in DOMAIN new : i # Top(t) => new[i].parent # NoId
      BY <1>0, <1>2, <1>4, WithMine
    <2> HIDE DEF new
    <2>2. /\ Shapes' /\ pc'[t] = to /\ rows'[t] = new
          /\ \A s \in Txns \ {t} : pc'[s] = pc[s] /\ rows'[s] = rows[s]
      BY <1>0, <1>4 DEF Shapes, new
    <2>3. SessionTyped(t)'
      BY <1>0, <1>4, <2>1, <2>2 DEF SessionTyped
    <2>4. /\ InBatch(t)' = InBatch(t) /\ Top(t)' = Top(t) /\ Me(t)' = Me(t)
          /\ IdOf(batch[t].req)' = IdOf(batch[t].req) /\ Mine(t)' = row
      BY <1>4, <2>1, <2>2 DEF InBatch, Top, Me, IdOf, Mine
    <2>5. Place(t)'
      BY <1>0, <1>1, <1>2, <1>4, <2>1, <2>2, <2>4 DEF SessionOK, Place
    <2>6. Children(t)' /\ Way(t)' /\ Told(t)'
      BY <1>4, <2>1, <2>2, <2>4 DEF Children, Way, Told
    <2>7. SessionOK(t)'
      BY <2>5, <2>6 DEF SessionOK
    <2> QED
      BY <1>4, <2>1, <2>2, <2>3, <2>7, OneSession
  <1>5. Way(t) /\ events \in Txns \cup {NoTxn}
    BY <1>0 DEF SessionOK, Shapes
  <1>6. CASE submit_existing_intent(t)
    <2> DEFINE row == ToStatus(Mine(t), "SUBMITTED")
    <2>1. RowOK(row) /\ row.parent = Mine(t).parent /\ row.job = Mine(t).job /\ row.wrote = Mine(t).wrote
      BY <1>3, StatusMoved DEF Statuses
    <2>2. pc[t] = "submit"
      BY <1>6 DEF submit_existing_intent
    <2>3. ~InBatch(t) => row.job = "none" /\ row.wrote = "none"
      BY <1>5, <2>1, <2>2 DEF Way
    <2>4. /\ rows' = [rows EXCEPT ![t] = With(t, Me(t), row)] /\ pc' = [pc EXCEPT ![t] = "validate"]
          /\ events' \in Txns \cup {NoTxn} /\ UNCHANGED <<intents, req, batch, answer>>
      BY <1>6 DEF submit_existing_intent, ToStatus
    <2> HIDE DEF row
    <2> QED
      BY <1>4, <2>1, <2>3, <2>4
  <1>7. CASE validate_intent(t)
    <2> DEFINE row == ToStatus(Mine(t), "VALIDATED")
    <2>1. /\ RowOK(row) /\ row.parent = Mine(t).parent /\ row.job = Mine(t).job
          /\ row.wrote = Mine(t).wrote /\ row.status = "VALIDATED"
      BY <1>3, StatusMoved DEF Statuses
    <2>2. pc[t] = "validate"
      BY <1>7 DEF validate_intent
    <2>3. ~InBatch(t) => row.job = "none" /\ row.wrote = "none"
      BY <1>5, <2>1, <2>2 DEF Way
    <2>4. /\ rows' = [rows EXCEPT ![t] = With(t, Me(t), row)] /\ pc' = [pc EXCEPT ![t] = "approve"]
          /\ events' \in Txns \cup {NoTxn} /\ UNCHANGED <<intents, req, batch, answer>>
      BY <1>5, <1>7 DEF validate_intent, ToStatus
    <2> HIDE DEF row
    <2> QED
      BY <1>4, <2>1, <2>3, <2>4
  <1>8. CASE approve_intent(t)
    <2> DEFINE row == ToJob(Mine(t), "EXECUTING", "RUNNING")
    <2>0. "EXECUTING" \in Statuses /\ "RUNNING" \in Jobs
      BY DEF Statuses, Jobs
    <2>1. RowOK(row) /\ row.parent = Mine(t).parent
      BY <1>3, <2>0, JobMoved
    <2>2. /\ rows' = [rows EXCEPT ![t] = With(t, Me(t), row)] /\ pc' = [pc EXCEPT ![t] = "execute"]
          /\ events' \in Txns \cup {NoTxn} /\ UNCHANGED <<intents, req, batch, answer>>
      BY <1>5, <1>8 DEF approve_intent, ToJob
    <2> HIDE DEF row
    <2> QED
      BY <1>4, <2>1, <2>2
  <1> QED
    BY <1>6, <1>7, <1>8

(* The intent ends without being recorded: refused, choked on or left to   *)
(* wait for an approver.                                                   *)
LEMMA RefuseStep ==
    ASSUME IInv, NEW t \in Txns, reject_intent(t) \/ BadPayload(t) \/ AwaitApproval(t)
    PROVE  IInv'
  <1>0. /\ SessionOK(t) /\ SessionTyped(t) /\ Shapes /\ Children(t) /\ Place(t) /\ Way(t)
        /\ \A i \in DOMAIN rows[t] : RowOK(rows[t][i])
        /\ \A i \in DOMAIN rows[t] : i # Top(t) => rows[t][i].parent # NoId
    BY DEF IInv, Typed, SessionOK, SessionTyped, Children
  <1>1. CASE reject_intent(t)
    <2> DEFINE row == ToStatus(Mine(t), "REJECTED")
               new == With(t, Me(t), row)
    <2>1. pc[t] = "validate"
      BY <1>1 DEF reject_intent
    <2>2. Me(t) \in DOMAIN rows[t]
      BY <1>0, <2>1 DEF Place
    <2>3. RowOK(Mine(t))
      BY <1>0, <2>2 DEF Mine
    <2>4. RowOK(row) /\ row.parent = Mine(t).parent
      BY <2>3, StatusMoved DEF Statuses
    <2>5. Raise(t, new, Refused)
      BY <1>1 DEF reject_intent, ToStatus
    <2> HIDE DEF row
    <2>6. /\ DOMAIN new = DOMAIN rows[t]
          /\ \A i \in DOMAIN new : RowOK(new[i])
          /\ \A i \in DOMAIN new : i # Top(t) => new[i].parent # NoId
      BY <1>0, <2>2, <2>4, WithMine
    <2> HIDE DEF new
    <2> QED
      BY <2>1, <2>5, <2>6, RaiseStep
  <1>2. CASE BadPayload(t)
    BY <1>0, <1>2, RaiseStep DEF BadPayload
  <1>3. CASE AwaitApproval(t)
    <2>1. pc[t] = "approve" /\ Return(t, Me(t)) /\ rows' = rows /\ events' = events
      BY <1>3 DEF AwaitApproval
    <2>2. rows' = [rows EXCEPT ![t] = rows[t]]
      BY <1>0, <2>1 DEF Shapes
    <2>3. Me(t) \in DOMAIN rows[t] /\ Names(Me(t), req[t])
      BY <1>0, <2>1 DEF Place, Names, Me, IdOf
    <2>4. ~InBatch(t) => SettledRow(rows[t][Me(t)])
      BY <1>0, <2>1 DEF Way, SettledRow, Mine
    <2> DEFINE new == rows[t]
               id == Me(t)
    <2>5. /\ DOMAIN new = DOMAIN rows[t] /\ rows' = [rows EXCEPT ![t] = new]
          /\ \A i \in DOMAIN new : RowOK(new[i])
          /\ \A i \in DOMAIN new : i # Top(t) => new[i].parent # NoId
      BY <1>0, <2>2
    <2>6. /\ Return(t, id) /\ pc[t] \in {"lookup", "approve", "execute"} /\ events' = events
          /\ id \in DOMAIN intents \cup DOMAIN new /\ Names(id, req[t])
          /\ ~InBatch(t) => SettledRow(new[Me(t)])
      BY <2>1, <2>3, <2>4
    <2> HIDE DEF new, id
    <2> QED
      BY <2>5, <2>6, ReturnStep
  <1> QED
    BY <1>1, <1>2, <1>3

(* The executor of a single mutation succeeds or raises.                   *)
LEMMA ExecutorStep ==
    ASSUME IInv, NEW t \in Txns, mark_recorded(t) \/ ExecutorFails(t)
    PROVE  IInv'
  <1>0. SessionOK(t) /\ SessionTyped(t) /\ Shapes /\ Children(t) /\ Place(t)
    BY DEF IInv, Typed, SessionOK
  <1>1. pc[t] = "execute"
    BY DEF mark_recorded, ExecutorFails
  <1>2. Me(t) \in DOMAIN rows[t]
    BY <1>0, <1>1 DEF Place
  <1>3. RowOK(Mine(t))
    BY <1>0, <1>2 DEF SessionTyped, Mine
  <1>4. ASSUME NEW row, RowOK(row), row.parent = Mine(t).parent
        PROVE  LET new == With(t, Me(t), row) IN
               /\ DOMAIN new = DOMAIN rows[t] /\ new[Me(t)] = row
               /\ \A i \in DOMAIN new : RowOK(new[i])
               /\ \A i \in DOMAIN new : i # Top(t) => new[i].parent # NoId
    BY <1>0, <1>2, <1>4, WithMine
  <1>5. CASE mark_recorded(t)
    <2> DEFINE row == ToWork(Mine(t), "RECORDED", "SUCCEEDED", "all")
               new == With(t, Me(t), row)
    <2>1. "RECORDED" \in Statuses /\ "SUCCEEDED" \in Jobs /\ "all" \in Extents
      BY DEF Statuses, Jobs, Extents
    <2>2. /\ RowOK(row) /\ row.parent = Mine(t).parent
          /\ row.status = "RECORDED" /\ row.job = "SUCCEEDED" /\ row.wrote = "all"
      BY <1>3, <2>1, WorkMoved
    <2>3. rows' = [rows EXCEPT ![t] = new] /\ Return(t, Me(t)) /\ events' = events
      BY <1>5 DEF mark_recorded, ToWork
    <2>4. SettledRow(row)
      BY <2>2 DEF SettledRow
    <2> HIDE DEF row
    <2>5. /\ DOMAIN new = DOMAIN rows[t] /\ new[Me(t)] = row
          /\ \A i \in DOMAIN new : RowOK(new[i])
          /\ \A i \in DOMAIN new : i # Top(t) => new[i].parent # NoId
      BY <1>4, <2>2
    <2>6. Names(Me(t), req[t])
      BY DEF Names, Me, IdOf
    <2> HIDE DEF new
    <2> QED
      BY <1>1, <1>2, <2>3, <2>4, <2>5, <2>6, ReturnStep
  <1>6. CASE ExecutorFails(t)
    <2>1. PICK wrote \in {"none", "part"} :
            Raise(t, With(t, Me(t), [Mine(t) EXCEPT !.status = "REJECTED", !.job = "FAILED",
                                                    !.wrote = wrote]), Error)
      BY <1>6 DEF ExecutorFails
    <2> DEFINE row == ToWork(Mine(t), "REJECTED", "FAILED", wrote)
               new == With(t, Me(t), row)
    <2>2. "REJECTED" \in Statuses /\ "FAILED" \in Jobs /\ wrote \in Extents
      BY DEF Statuses, Jobs, Extents
    <2>3. RowOK(row) /\ row.parent = Mine(t).parent
      BY <1>3, <2>2, WorkMoved
    <2>4. Raise(t, new, Error)
      BY <2>1 DEF ToWork
    <2> HIDE DEF row
    <2>5. /\ DOMAIN new = DOMAIN rows[t]
          /\ \A i \in DOMAIN new : RowOK(new[i])
          /\ \A i \in DOMAIN new : i # Top(t) => new[i].parent # NoId
      BY <1>4, <2>3
    <2> HIDE DEF new
    <2> QED
      BY <1>1, <2>4, <2>5, RaiseStep
  <1> QED
    BY <1>5, <1>6

(* A batch or a retry starts: its items run under its row.                 *)
LEMMA StartBatchStep ==
    ASSUME IInv, NEW t \in Txns, StartBatch(t)
    PROVE  IInv'
  <1>0. SessionOK(t) /\ SessionTyped(t) /\ Shapes /\ Place(t) /\ Children(t)
    BY DEF IInv, Typed, SessionOK
  <1>1. /\ pc[t] = "execute" /\ pc' = [pc EXCEPT ![t] = "items"]
        /\ UNCHANGED <<intents, rows, events, req, answer>>
        /\ req[t].type \in {"BATCH_MUTATION", "RETRY_BATCH_MUTATION"}
    BY DEF StartBatch
  <1>2. ~InBatch(t) /\ Me(t) \in DOMAIN rows[t]
    BY <1>0, <1>1 DEF Place
  <1>3. \E items : /\ IsList(items)
                   /\ batch' = [batch EXCEPT ![t] = [req |-> req[t], items |-> items, next |-> 1,
                                                     failed |-> <<>>]]
    <2>1. CASE req[t].type = "BATCH_MUTATION"
      <3>1. batch' = [batch EXCEPT ![t] = [req |-> req[t], items |-> req[t].items, next |-> 1,
                                           failed |-> <<>>]]
        BY <2>1 DEF StartBatch, NoBatch
      <3> QED
        BY <1>0, <3>1 DEF SessionTyped
    <2>2. CASE req[t].type = "RETRY_BATCH_MUTATION"
      <3> DEFINE parent == View(t)[req[t].of]
                 again == [n \in DOMAIN parent.failed |->
                                [parent.items[parent.failed[n]] EXCEPT !.key = NoKey]]
      <3>1. /\ req[t].of \in DOMAIN View(t)
            /\ batch' = [batch EXCEPT ![t] = [req |-> req[t], items |-> again, next |-> 1,
                                              failed |-> <<>>]]
        BY <2>2 DEF StartBatch, NoBatch
      <3>2. RowOK(parent)
        BY <1>0, <3>1 DEF View, IInv, Typed, SessionTyped
      <3>3. DOMAIN again = 1..Len(parent.failed) /\ Len(parent.failed) \in Nat
        BY <3>2 DEF RowOK
      <3>4. IsList(again)
        <4> HIDE DEF again
        <4> QED
          BY <3>3 DEF IsList
      <3> QED
        BY <3>1, <3>4
    <2> QED
      BY <1>1, <2>1, <2>2
  <1>4. PICK items : /\ IsList(items)
                     /\ batch' = [batch EXCEPT ![t] = [req |-> req[t], items |-> items, next |-> 1,
                                                       failed |-> <<>>]]
    BY <1>3
  <1>5. /\ Shapes' /\ pc'[t] = "items"
        /\ batch'[t] = [req |-> req[t], items |-> items, next |-> 1, failed |-> <<>>]
        /\ \A s \in Txns \ {t} : pc'[s] = pc[s] /\ batch'[s] = batch[s]
    BY <1>0, <1>1, <1>4 DEF Shapes
  <1>6. BatchOK(batch[t])'
    <2>1. <<>> \in Seq(Nat)
      OBVIOUS
    <2>2. 1 \in 0..(Len(items) + 1)
      BY <1>4 DEF IsList
    <2>3. IsList(req[t].items)
      BY <1>0 DEF SessionTyped
    <2> QED
      <3>1. /\ batch'[t].req = req[t] /\ batch'[t].items = items
            /\ batch'[t].next = 1 /\ batch'[t].failed = <<>>
        BY <1>5
      <3>2. batch'[t] = [req |-> batch'[t].req, items |-> batch'[t].items, next |-> batch'[t].next,
                         failed |-> batch'[t].failed]
        BY <1>5
      <3> QED
        BY <1>4, <2>1, <2>2, <2>3, <3>1, <3>2 DEF BatchOK, IsList
  <1>7. SessionTyped(t)'
    BY <1>0, <1>1, <1>6 DEF SessionTyped
  <1>8. InBatch(t)'
    BY <1>1, <1>5 DEF InBatch, NoBatch, NoRequest
  <1>9. Top(t)' = Top(t) /\ IdOf(batch[t].req)' = Me(t)
    BY <1>1, <1>2, <1>5, <1>8 DEF Top, Me, IdOf
  <1>10. Place(t)'
    BY <1>1, <1>2, <1>5, <1>8, <1>9 DEF Place
  <1>11. Children(t)' /\ Way(t)' /\ Told(t)'
    BY <1>0, <1>1, <1>5, <1>8, <1>9 DEF Children, Way, Told
  <1>12. SessionOK(t)'
    BY <1>10, <1>11 DEF SessionOK
  <1> QED
    BY <1>1, <1>5, <1>7, <1>12, OneSession

(* The batch goes on to its next item, or is recorded.                     *)
LEMMA ItemsStep ==
    ASSUME IInv, NEW t \in Txns, NextItem(t) \/ EndBatch(t)
    PROVE  IInv'
  <1> DEFINE b == batch[t]
  <1>0. /\ SessionOK(t) /\ SessionTyped(t) /\ Shapes /\ Place(t) /\ Children(t)
        /\ pc[t] = "items" /\ BatchOK(b)
    BY DEF IInv, Typed, SessionOK, SessionTyped, NextItem, EndBatch
  <1>1. /\ InBatch(t) /\ b.req.type \in {"BATCH_MUTATION", "RETRY_BATCH_MUTATION"}
        /\ IdOf(b.req) \in DOMAIN rows[t] /\ b.next >= 1
    BY <1>0 DEF Place
  <1>2. CASE NextItem(t)
    <2> DEFINE r == ItemRequest(b, b.next)
    <2>1. /\ b.next \in DOMAIN b.items /\ req' = [req EXCEPT ![t] = r]
          /\ pc' = [pc EXCEPT ![t] = "lookup"]
          /\ UNCHANGED <<intents, rows, events, batch, answer>>
      BY <1>2 DEF NextItem
    <2>2. r.type = "MUTATION" /\ r.items = <<>>
      BY DEF ItemRequest
    <2> HIDE DEF r
    <2>3. /\ Shapes' /\ pc'[t] = "lookup" /\ req'[t] = r
          /\ \A s \in Txns \ {t} : pc'[s] = pc[s] /\ req'[s] = req[s]
      BY <1>0, <2>1 DEF Shapes
    <2>4. IsList(r.items)
      BY <2>2 DEF IsList
    <2>5. SessionTyped(t)'
      BY <1>0, <2>1, <2>3, <2>4 DEF SessionTyped
    <2>6. InBatch(t)' /\ Top(t)' = Top(t) /\ IdOf(batch[t].req)' = IdOf(b.req)
      BY <1>1, <2>1 DEF InBatch, Top, IdOf
    <2>7. Place(t)'
      BY <1>0, <1>1, <2>1, <2>2, <2>3, <2>6 DEF Place
    <2>8. Children(t)' /\ Way(t)' /\ Told(t)'
      BY <1>0, <2>1, <2>3, <2>6 DEF Children, Way, Told
    <2>9. SessionOK(t)'
      BY <2>7, <2>8 DEF SessionOK
    <2> QED
      BY <2>1, <2>3, <2>5, <2>9, OneSession
  <1>3. CASE EndBatch(t)
    <2> DEFINE id == IdOf(b.req)
               old == rows[t][id]
               status == IF b.failed = <<>> THEN "RECORDED" ELSE "PARTIAL_SUCCESS"
               row == [old EXCEPT !.status = status, !.job = "SUCCEEDED", !.wrote = "all",
                                  !.items = b.items, !.failed = b.failed]
               new == With(t, id, row)
    <2>1. /\ rows' = [rows EXCEPT ![t] = new] /\ req' = [req EXCEPT ![t] = b.req]
          /\ batch' = [batch EXCEPT ![t] = NoBatch] /\ answer' = [answer EXCEPT ![t] = id]
          /\ pc' = [pc EXCEPT ![t] = "done"] /\ UNCHANGED <<intents, events>>
      BY <1>3 DEF EndBatch
    <2>2. RowOK(old) /\ status \in {"RECORDED", "PARTIAL_SUCCESS"}
      BY <1>0, <1>1 DEF SessionTyped
    <2>3. RowOK(row) /\ SettledRow(row) /\ row.parent = old.parent
      <3> HIDE DEF status, old
      <3> DEFINE work == ToWork(old, status, "SUCCEEDED", "all")
      <3>1. status \in Statuses /\ "SUCCEEDED" \in Jobs /\ "all" \in Extents /\ b.failed \in Seq(Nat)
        BY <1>0, <2>2 DEF Statuses, Jobs, Extents, BatchOK
      <3>2. /\ RowOK(work) /\ work.status = status /\ work.parent = old.parent
            /\ work.job = "SUCCEEDED" /\ work.wrote = "all"
        BY <2>2, <3>1, WorkMoved
      <3>3. row = [[work EXCEPT !.items = b.items] EXCEPT !.failed = b.failed]
        BY Zenon DEF ToWork
      <3> HIDE DEF work, row
      <3>4. PICK x, i, c, d, e, f, g :
                work = [target |-> x, items |-> i, parent |-> c, status |-> d, job |-> e,
                        wrote |-> f, failed |-> g]
        BY <3>2, RowFields
      <3>5. [work EXCEPT !.items = b.items] =
                [target |-> x, items |-> b.items, parent |-> c, status |-> d, job |-> e,
                 wrote |-> f, failed |-> g]
        BY <3>4
      <3>6. row = [target |-> x, items |-> b.items, parent |-> c, status |-> d, job |-> e,
                   wrote |-> f, failed |-> b.failed]
        BY <3>3, <3>5
      <3> QED
        BY <2>2, <3>1, <3>2, <3>4, <3>6 DEF RowOK, SettledRow
    <2> HIDE DEF row, status, old
    <2>4. /\ DOMAIN new = DOMAIN rows[t] /\ new[id] = row
          /\ \A i \in DOMAIN new : i # id => new[i] = rows[t][i]
      BY <1>1 DEF With
    <2> HIDE DEF new
    <2>5. /\ Shapes' /\ pc'[t] = "done" /\ rows'[t] = new /\ req'[t] = b.req
          /\ batch'[t] = NoBatch /\ answer'[t] = id
          /\ \A s \in Txns \ {t} :
                /\ rows'[s] = rows[s] /\ pc'[s] = pc[s] /\ req'[s] = req[s]
                /\ batch'[s] = batch[s] /\ answer'[s] = answer[s]
      BY <1>0, <2>1 DEF Shapes
    <2>6. IsList(b.req.items) /\ BatchOK(NoBatch)
      BY <1>0 DEF BatchOK, NoBatch, IsList, SessionTyped
    <2>7. SessionTyped(t)'
      BY <1>0, <2>3, <2>4, <2>5, <2>6 DEF SessionTyped
    <2>8. ~InBatch(t)' /\ Me(t)' = id /\ Top(t)' = id /\ Mine(t)' = row /\ Top(t) = id
      BY <1>1, <2>4, <2>5 DEF InBatch, Me, Top, Mine, IdOf
    <2>9. Place(t)' /\ Way(t)'
      BY <2>3, <2>5, <2>8 DEF Place, Way
    <2>10. Children(t)'
      BY <1>0, <2>4, <2>5, <2>8 DEF Children
    <2>11. Told(t)'
      BY <1>1, <2>1, <2>4, <2>5 DEF Told, Names, IdOf
    <2>12. SessionOK(t)'
      BY <2>9, <2>10, <2>11 DEF SessionOK
    <2> QED
      BY <2>1, <2>4, <2>5, <2>7, <2>12, OneSession
  <1> QED
    BY <1>2, <1>3

(* A transaction that ends without a commit.                               *)
LEMMA AbortStep ==
    ASSUME IInv, NEW t \in Txns,
           IntegrityError(t) \/ ParentNotFound(t) \/ DeadlockAbort(t) \/ Fail(t)
    PROVE  IInv'
  BY RollbackStep DEF IntegrityError, ParentNotFound, DeadlockAbort, Fail

(* A commit adds the rows of the session to those that are stored.         *)
LEMMA CommitFacts ==
    ASSUME IInv, NEW t \in Txns, Commit(t)
    PROVE  /\ DOMAIN intents' = DOMAIN intents \cup DOMAIN rows[t]
           /\ \A i \in DOMAIN intents : intents'[i] = intents[i]
           /\ \A i \in DOMAIN rows[t] : intents'[i] = rows[t][i]
  <1>1. intents' = View(t)
    BY DEF Commit
  <1>2. DOMAIN rows[t] \cap DOMAIN intents = {}
    BY DEF IInv, Apart
  <1> QED
    BY <1>1, <1>2 DEF View

(* After a commit the rows are shared, the session is idle, and what its   *)
(* client was told is stored.                                              *)
LEMMA CommitStep ==
    ASSUME IInv, NEW t \in Txns, Commit(t)
    PROVE  IInv'
  <1>0. SessionOK(t) /\ SessionTyped(t) /\ Shapes /\ pc[t] = "done"
    BY DEF IInv, Typed, Commit
  <1>1. /\ DOMAIN intents' = DOMAIN intents \cup DOMAIN rows[t]
        /\ \A i \in DOMAIN intents : intents'[i] = intents[i]
        /\ \A i \in DOMAIN rows[t] : intents'[i] = rows[t][i]
    BY CommitFacts
  <1>2. /\ rows' = [rows EXCEPT ![t] = <<>>] /\ pc' = [pc EXCEPT ![t] = "idle"]
        /\ batch' = [batch EXCEPT ![t] = NoBatch] /\ answer' = [answer EXCEPT ![t] = answer[t]]
        /\ events' = IF events = t THEN NoTxn ELSE events
        /\ req' = req
    BY DEF Commit, Finish
  <1>3. /\ rows'[t] = <<>> /\ pc'[t] = "idle" /\ batch'[t] = NoBatch /\ answer'[t] = answer[t]
        /\ \A s \in Txns \ {t} :
                /\ rows'[s] = rows[s] /\ pc'[s] = pc[s] /\ req'[s] = req[s]
                /\ batch'[s] = batch[s] /\ answer'[s] = answer[s]
    BY <1>0, <1>2 DEF Shapes
  <1>4. Shapes'
    BY <1>0, <1>2 DEF Shapes
  <1>5. DOMAIN rows'[t] = {}
    BY <1>3
  <1>6. BatchOK(NoBatch)
    BY DEF BatchOK, NoBatch, NoRequest, IsList
  <1>7. SessionTyped(t)'
    BY <1>0, <1>2, <1>3, <1>5, <1>6 DEF SessionTyped
  <1>8. Place(t)' /\ Children(t)' /\ Way(t)'
    BY <1>3, <1>5 DEF Place, Children, Way, InBatch
  <1>9. Told(t)'
    BY <1>0, <1>1, <1>2, <1>3 DEF SessionOK, Told, Names
  <1>10. \A s \in Txns : SessionOK(s)' /\ SessionTyped(s)'
    <2> SUFFICES ASSUME NEW s \in Txns, s # t PROVE SessionOK(s)' /\ SessionTyped(s)'
      BY <1>7, <1>8, <1>9 DEF SessionOK
    <2>1. SessionOK(s) /\ SessionTyped(s)
      BY DEF IInv, Typed
    <2>2. DOMAIN intents \subseteq DOMAIN intents'
      BY <1>1
    <2> QED
      BY <1>3, <2>1, <2>2, Undisturbed
  <1>11. Typed'
    <2>1. \A i \in DOMAIN intents' : RowOK(intents'[i])
      BY <1>0, <1>1 DEF IInv, Typed, SessionTyped
    <2> QED
      BY <1>4, <1>10, <2>1 DEF Typed
  <1>12. Apart'
    <2>1. \A s \in Txns \ {t} : DOMAIN rows[s] \cap (DOMAIN intents \cup DOMAIN rows[t]) = {}
      BY DEF IInv, Apart
    <2>2. \A s \in Txns : DOMAIN rows'[s] \cap DOMAIN intents' = {}
      BY <1>1, <1>3, <1>5, <2>1
    <2>3. \A s, u \in Txns : s # u => DOMAIN rows'[s] \cap DOMAIN rows'[u] = {}
      BY <1>3, <1>5 DEF IInv, Apart
    <2> QED
      BY <2>2, <2>3 DEF Apart
  <1>13. SubmittedIsSettled'
    <2> SUFFICES ASSUME NEW i \in DOMAIN intents', intents'[i].parent = NoId
                 PROVE  SettledRow(intents'[i])
      BY DEF SubmittedIsSettled, SettledRow
    <2>1. CASE i \in DOMAIN intents
      BY <1>1, <2>1 DEF IInv, SubmittedIsSettled, SettledRow
    <2>2. CASE i \in DOMAIN rows[t]
      <3>1. ~InBatch(t)
        BY <1>0 DEF SessionOK, Place
      <3>2. i = Me(t)
        BY <1>0, <1>1, <2>2, <3>1 DEF SessionOK, Children, Top
      <3>3. SettledRow(Mine(t))
        BY <1>0, <2>2, <3>1, <3>2 DEF SessionOK, Way
      <3> QED
        BY <1>1, <2>2, <3>2, <3>3 DEF Mine
    <2> QED
      BY <1>1, <2>1, <2>2
  <1> QED
    BY <1>10, <1>11, <1>12, <1>13 DEF IInv

(* The first state.                                                        *)
LEMMA InitIInv == Init => IInv
  <1> SUFFICES ASSUME Init PROVE IInv
    OBVIOUS
  <1>1. DOMAIN intents = {} /\ \A t \in Txns : DOMAIN rows[t] = {}
    BY DEF Init
  <1>2. Shapes
    BY DEF Init, Shapes
  <1>3. BatchOK(NoBatch) /\ IsList(NoRequest.items)
    BY DEF BatchOK, NoBatch, NoRequest, IsList
  <1>4. Typed
    BY <1>1, <1>2, <1>3 DEF Init, Typed, SessionTyped
  <1>5. \A t \in Txns : SessionOK(t)
    BY <1>1 DEF Init, SessionOK, Place, Children, Way, Told, InBatch
  <1> QED
    BY <1>1, <1>4, <1>5 DEF IInv, Apart, SubmittedIsSettled

(* Every step keeps the invariant.                                         *)
LEMMA StepIInv ==
    ASSUME IInv, [Next]_vars
    PROVE  IInv'
  <1>1. CASE UNCHANGED vars
    <2>1. UNCHANGED <<intents, rows, events, pc, req, batch, answer>>
      BY <1>1 DEF vars
    <2>2. \A s \in Txns : SessionOK(s)' /\ SessionTyped(s)'
      BY <2>1, Undisturbed DEF IInv, Typed
    <2>3. Typed' /\ Apart' /\ SubmittedIsSettled'
      BY <2>1, <2>2 DEF IInv, Typed, Shapes, Apart, SubmittedIsSettled
    <2> QED
      BY <2>2, <2>3 DEF IInv
  <1>2. CASE Next
    BY <1>2, CallStep, LookupStep, CreateDraftStep, AdvanceStep, RefuseStep, ExecutorStep,
       StartBatchStep, ItemsStep, AbortStep, CommitStep DEF Next, Step
  <1> QED
    BY <1>1, <1>2

(* The inductive invariant holds in every state: a row belongs to one      *)
(* session or to everybody, only the intent a client asked for may be on   *)
(* its way, and answers name rows that can be seen.                        *)
THEOREM PipelineInvariant == Spec => []IInv
  BY InitIInv, StepIInv, PTL DEF Spec

(* Rows, sessions and batches keep their types; a batch never runs past    *)
(* the item after its last one.                                            *)
THEOREM PipelineTypeOK == Spec => []TypeOK
  <1>1. IInv => TypeOK
    <2> SUFFICES ASSUME IInv PROVE TypeOK
      OBVIOUS
    <2>1. \A t \in Txns : \A i \in DOMAIN View(t) :
            [status |-> View(t)[i].status, job |-> View(t)[i].job, wrote |-> View(t)[i].wrote] \in Row
      <3> SUFFICES ASSUME NEW t \in Txns, NEW i \in DOMAIN View(t)
                   PROVE  RowOK(View(t)[i])
        BY DEF RowOK, Row, Jobs, Extents
      <3> QED
        BY DEF View, IInv, Typed, SessionTyped
    <2>2. \A t \in Txns : batch[t].next \in 0..(Len(batch[t].items) + 1)
      BY DEF IInv, Typed, SessionTyped, BatchOK
    <2> QED
      BY <2>1, <2>2 DEF TypeOK, IInv, Typed, Shapes
  <1> QED
    BY <1>1, PipelineInvariant, PTL

(* What other requests see of an intent a client submitted is the end of   *)
(* its way through the pipeline.                                           *)
THEOREM PipelineSubmittedIsSettled == Spec => []SubmittedIsSettled
  <1>1. IInv => SubmittedIsSettled
    BY DEF IInv
  <1> QED
    BY <1>1, PipelineInvariant, PTL

(* What a client was told of is stored, under the type and key it sent.    *)
THEOREM PipelineAnswersAreKept == Spec => []AnswersAreKept
  <1>1. IInv => AnswersAreKept
    BY DEF IInv, SessionOK, Told, Names, AnswersAreKept
  <1> QED
    BY <1>1, PipelineInvariant, PTL

(* No duplicate, retry or later batch changes a stored intent.             *)
THEOREM PipelineStoredIntentsFinal == Spec => StoredIntentsFinal
  <1> DEFINE Final == \A i \in DOMAIN intents : i \in DOMAIN intents' /\ intents'[i] = intents[i]
  <1>1. ASSUME IInv, [Next]_vars PROVE [Final]_vars
    <2>1. ASSUME NEW t \in Txns, Commit(t) PROVE Final
      BY <1>1, <2>1, CommitFacts
    <2>2. CASE UNCHANGED vars
      BY <2>2
    <2>3. ASSUME NEW t \in Txns, Step(t), ~Commit(t) PROVE intents' = intents
      BY <2>3 DEF Step, Replay, Ambiguous, FindNone, EntityNotResolved, create_draft, IntegrityError, validate_intent,
           reject_intent, BadPayload, AwaitApproval, approve_intent, mark_recorded, ExecutorFails,
           StartBatch, ParentNotFound, NextItem, EndBatch, DeadlockAbort, Return, Raise, Rollback,
           NoteFailure
    <2>4. ASSUME NEW t \in Txns, (\E r \in Calls \cup Retries : Call(t, r))
                                 \/ submit_existing_intent(t) \/ Fail(t)
          PROVE  intents' = intents
      BY <2>4 DEF Call, submit_existing_intent, Fail, Rollback
    <2> QED
      BY <1>1, <2>1, <2>2, <2>3, <2>4 DEF Next
  <1>2. StoredIntentsFinal <=> [][Final]_vars
    BY DEF StoredIntentsFinal
  <1> QED
    BY <1>1, <1>2, PipelineInvariant, PTL DEF Spec

-------------------------------------------------------------------------------
(* What a batch reports of its items, where entities share no key.         *)

(* The intent an item of a batch is submitted as.                          *)
ItemOf(key, items, n) ==
    <<"MUTATION", items[n].entity, IF items[n].key = NoKey THEN <<key, n>> ELSE items[n].key>>

(* An intent that a session with rows own sees beside the rows kept for    *)
(* everybody, ...                                                          *)
Seen(own, kept, i) == i \in DOMAIN own \/ i \in DOMAIN kept

(* A row that does not say that batch by carried it out.                   *)
Harmless(row, by) == row.parent # by \/ row.wrote # "all"

(* Batch by did not carry out item n as the item asks for it.              *)
UndoneRow(row, by, target) == Harmless(row, by) \/ row.target # target

Undone(own, kept, by, key, items, n) ==
    LET i == ItemOf(key, items, n) IN
    /\ i \in DOMAIN own => UndoneRow(own[i], by, items[n].target)
    /\ i \in DOMAIN kept => UndoneRow(kept[i], by, items[n].target)

(* One that batch by did not create, or that was carried out or waits for  *)
(* an approver.                                                            *)
Settled(by, row) == row.parent # by \/ row.wrote = "all" \/ row.status = "VALIDATED"

Answered(own, kept, by, i) ==
    \/ i \in DOMAIN own /\ Settled(by, own[i])
    \/ i \in DOMAIN kept /\ Settled(by, kept[i])

(* The items noted as failed.                                              *)
FailedAt(failed, n) == \E k \in DOMAIN failed : failed[k] = n

(* An earlier item that goes by the same intent failed, ...                *)
FailedBefore(key, items, failed, n) ==
    \E k \in DOMAIN failed : failed[k] < n /\ ItemOf(key, items, failed[k]) = ItemOf(key, items, n)

(* ... or a later one did not.                                             *)
PassedLater(key, items, failed, tried, n) ==
    \E m \in tried : m > n /\ ~FailedAt(failed, m) /\ ItemOf(key, items, m) = ItemOf(key, items, n)

(* Of the items that were tried, the failed ones are undone and the others *)
(* are seen and answered.                                                  *)
Accounted(own, kept, by, key, items, failed, tried) ==
    /\ \A k \in DOMAIN failed :
            /\ failed[k] \in tried
            /\ \/ Undone(own, kept, by, key, items, failed[k])
               \/ PassedLater(key, items, failed, tried, failed[k])
    /\ \A n \in tried :
            \/ FailedAt(failed, n)
            \/ /\ Seen(own, kept, ItemOf(key, items, n))
               /\ \/ Answered(own, kept, by, ItemOf(key, items, n))
                  \/ FailedBefore(key, items, failed, n)

Tried(b) == {n \in DOMAIN b.items : n < b.next}

(* The key of a mutation is used for its entity, by a client or by one of  *)
(* the batches.                                                            *)
Named(i, batches) ==
    /\ i = <<i[1], i[2], i[3]>>
    /\ i[1] = "MUTATION" => \E by \in batches \cup {NoId} : <<i[3], i[2], by>> \in KeyUses

(* The same for the item of a batch; its key is derived by that batch.     *)
ItemNamed(r, items, n) ==
    \/ items[n].key = NoKey /\ <<<<r.key, n>>, items[n].entity, IdOf(r)>> \in KeyUses
    \/ items[n].key # NoKey /\ <<items[n].key, items[n].entity, NoId>> \in KeyUses

(* A batch has the items a client sent, and failed on some of them.        *)
Origin(i, row) ==
    i[1] = "BATCH_MUTATION" =>
        /\ \E r \in Calls : r.type = "BATCH_MUTATION" /\ row.items = r.items
        /\ Len(row.failed) <= Len(row.items)
        /\ \A k \in DOMAIN row.failed : row.failed[k] \in DOMAIN row.items

(* A row names a batch of the same table, or none.                         *)
Parented(row, batches) == row.parent \in batches \cup {NoId}

(* A batch that was carried out.                                           *)
Carried(i, row) == i[1] # "MUTATION" /\ row.job = "SUCCEEDED"

(* A session works on a request of a client or on an item of its batch.    *)
Asked(t) ==
    /\ pc[t] # "idle" /\ ~InBatch(t) => req[t] \in Calls \cup Retries
    /\ InBatch(t) =>
        /\ batch[t].req \in Calls \cup Retries
        /\ batch[t].req.type = "BATCH_MUTATION" => batch[t].items = batch[t].req.items
        /\ \A n \in DOMAIN batch[t].items : ItemNamed(batch[t].req, batch[t].items, n)
        /\ Len(batch[t].failed) < batch[t].next
        /\ pc[t] # "items" =>
            /\ Me(t) = ItemOf(batch[t].req.key, batch[t].items, batch[t].next)
            /\ req[t].target = batch[t].items[batch[t].next].target

Working(t) == pc[t] \in {"submit", "validate", "approve", "execute"}

(* An intent on its way has done nothing, and the items tried that go by   *)
(* it failed.                                                              *)
Fresh(t) ==
    Working(t) =>
        /\ Mine(t).wrote = "none"
        /\ pc[t] = "approve" => Mine(t).status = "VALIDATED"
        /\ InBatch(t) =>
            \A n \in Tried(batch[t]) :
                ItemOf(batch[t].req.key, batch[t].items, n) = Me(t) => FailedAt(batch[t].failed, n)

(* A session has written its intent alone; the mutations a batch has       *)
(* written are items it has tried, or tries.                               *)
Kin(t) ==
    /\ ~InBatch(t) /\ pc[t] # "done" => DOMAIN rows[t] \subseteq {Me(t)}
    /\ InBatch(t) =>
        \A i \in DOMAIN rows[t] : i[1] = "MUTATION" =>
            \/ \E n \in Tried(batch[t]) : i = ItemOf(batch[t].req.key, batch[t].items, n)
            \/ i = Me(t) /\ Working(t)

(* A running batch accounts for the items it has tried, ...                *)
Running(t) ==
    InBatch(t) => Accounted(rows[t], intents, IdOf(batch[t].req), batch[t].req.key, batch[t].items, batch[t].failed,
                            Tried(batch[t]))

(* ... one that has ended for all of them, ...                             *)
Ended(t) ==
    \A i \in DOMAIN rows[t] :
        /\ Named(i, DOMAIN rows[t]) /\ Origin(i, rows[t][i]) /\ Parented(rows[t][i], DOMAIN rows[t])
        /\ Carried(i, rows[t][i]) =>
            /\ pc[t] = "done"
            /\ Accounted(rows[t], intents, i, i[3], rows[t][i].items, rows[t][i].failed,
                         DOMAIN rows[t][i].items)

(* ... and so does one that is stored.                                     *)
Stored ==
    \A i \in DOMAIN intents :
        /\ Named(i, DOMAIN intents) /\ Origin(i, intents[i]) /\ Parented(intents[i], DOMAIN intents)
        /\ Carried(i, intents[i]) =>
            Accounted(intents, intents, i, i[3], intents[i].items, intents[i].failed,
                      DOMAIN intents[i].items)

Accounts(t) == Asked(t) /\ Fresh(t) /\ Kin(t) /\ Running(t) /\ Ended(t)

AInv == Stored /\ \A t \in Txns : Accounts(t)

-------------------------------------------------------------------------------
(* The intent looked up or created for an item is the one it goes by.      *)
LEMMA ItemIdentity ==
    ASSUME NEW b, NEW n
    PROVE  /\ IdOf(ItemRequest(b, n)) = ItemOf(b.req.key, b.items, n)
           /\ ItemRequest(b, n).type = "MUTATION"
  BY DEF IdOf, ItemRequest, ItemOf

(* A row that stays where it is, or moves from own to kept, and none that  *)
(* is new and was carried out by batch by.                                 *)
Keeps(own, kept, own2, kept2, by, i) ==
    /\ i \in DOMAIN own => \/ i \in DOMAIN own2 /\ own2[i] = own[i]
                           \/ i \in DOMAIN kept2 /\ kept2[i] = own[i]
    /\ i \in DOMAIN kept => i \in DOMAIN kept2 /\ kept2[i] = kept[i]
    /\ i \in DOMAIN own2 => \/ i \in DOMAIN own /\ own2[i] = own[i]
                            \/ i \in DOMAIN kept /\ own2[i] = kept[i]
                            \/ Harmless(own2[i], by)
    /\ i \in DOMAIN kept2 => \/ i \in DOMAIN own /\ kept2[i] = own[i]
                             \/ i \in DOMAIN kept /\ kept2[i] = kept[i]
                             \/ Harmless(kept2[i], by)

(* What is said of an item stays true of it.                               *)
LEMMA KeepsItem ==
    ASSUME NEW own, NEW kept, NEW own2, NEW kept2, NEW by, NEW key, NEW items, NEW n,
           Keeps(own, kept, own2, kept2, by, ItemOf(key, items, n))
    PROVE  /\ Seen(own, kept, ItemOf(key, items, n)) => Seen(own2, kept2, ItemOf(key, items, n))
           /\ Answered(own, kept, by, ItemOf(key, items, n)) => Answered(own2, kept2, by, ItemOf(key, items, n))
           /\ Undone(own, kept, by, key, items, n) => Undone(own2, kept2, by, key, items, n)
  <1> DEFINE i == ItemOf(key, items, n)
  <1> HIDE DEF i
  <1>1. Keeps(own, kept, own2, kept2, by, i)
    BY DEF i
  <1>2. /\ Seen(own, kept, i) => Seen(own2, kept2, i)
        /\ Answered(own, kept, by, i) => Answered(own2, kept2, by, i)
    BY <1>1 DEF Keeps, Seen, Answered
  <1>3. Undone(own, kept, by, key, items, n) => Undone(own2, kept2, by, key, items, n)
    BY <1>1 DEF Keeps, Undone, UndoneRow, i
  <1> QED
    BY <1>2, <1>3 DEF i

(* A batch accounts for items whose rows stay; of a failed one, it is      *)
(* enough that it is undone.                                               *)
LEMMA StillAccounted ==
    ASSUME NEW own, NEW kept, NEW own2, NEW kept2, NEW by, NEW key, NEW items, NEW failed, NEW tried,
           Accounted(own, kept, by, key, items, failed, tried),
           \A n \in tried : \/ Keeps(own, kept, own2, kept2, by, ItemOf(key, items, n))
                            \/ /\ FailedAt(failed, n)
                               /\ Undone(own2, kept2, by, key, items, n)
    PROVE  Accounted(own2, kept2, by, key, items, failed, tried)
  <1>1. ASSUME NEW k \in DOMAIN failed
        PROVE  /\ failed[k] \in tried
               /\ \/ Undone(own2, kept2, by, key, items, failed[k])
                  \/ PassedLater(key, items, failed, tried, failed[k])
    <2>1. /\ failed[k] \in tried
          /\ \/ Undone(own, kept, by, key, items, failed[k])
             \/ PassedLater(key, items, failed, tried, failed[k])
      BY DEF Accounted
    <2>2. CASE Keeps(own, kept, own2, kept2, by, ItemOf(key, items, failed[k]))
      BY <2>1, <2>2, KeepsItem
    <2>3. CASE Undone(own2, kept2, by, key, items, failed[k])
      BY <2>1, <2>3
    <2> QED
      BY <2>1, <2>2, <2>3
  <1>2. ASSUME NEW n \in tried
        PROVE  \/ FailedAt(failed, n)
               \/ /\ Seen(own2, kept2, ItemOf(key, items, n))
                  /\ \/ Answered(own2, kept2, by, ItemOf(key, items, n))
                     \/ FailedBefore(key, items, failed, n)
    <2>1. CASE Keeps(own, kept, own2, kept2, by, ItemOf(key, items, n))
      BY <2>1, KeepsItem DEF Accounted
    <2> QED
      BY <2>1
  <1> QED
    BY <1>1, <1>2 DEF Accounted

(* One more item, after those tried: it is answered, goes by the intent of *)
(* one that failed, or is noted as failed and undone.  It may have written *)
(* the row of earlier items that failed.                                   *)
LEMMA OneMoreAccounted ==
    ASSUME NEW own, NEW kept, NEW own2, NEW kept2, NEW by, NEW key, NEW items, NEW tried,
           NEW failed \in Seq(Nat), NEW failed2, NEW n \in Nat,
           tried \subseteq Nat, \A m \in tried : m < n,
           Accounted(own, kept, by, key, items, failed, tried),
           \A m \in tried : \/ Keeps(own, kept, own2, kept2, by, ItemOf(key, items, m))
                            \/ /\ FailedAt(failed, m)
                               /\ ItemOf(key, items, m) = ItemOf(key, items, n)
                               /\ failed2 = failed \/ Undone(own2, kept2, by, key, items, m),
           \/ /\ failed2 = failed
              /\ Seen(own2, kept2, ItemOf(key, items, n))
              /\ \/ Answered(own2, kept2, by, ItemOf(key, items, n))
                 \/ FailedBefore(key, items, failed, n)
           \/ failed2 = Append(failed, n) /\ Undone(own2, kept2, by, key, items, n)
    PROVE  Accounted(own2, kept2, by, key, items, failed2, tried \cup {n})
  <1>1. failed # Append(failed, n)
    <2>1. Len(Append(failed, n)) = Len(failed) + 1 /\ Len(failed) \in Nat
      OBVIOUS
    <2> QED
      BY <2>1
  <1>2. /\ \A k \in DOMAIN failed2 : \/ k \in DOMAIN failed /\ failed2[k] = failed[k]
                                     \/ failed2 = Append(failed, n) /\ failed2[k] = n
        /\ \A k \in DOMAIN failed : k \in DOMAIN failed2 /\ failed2[k] = failed[k]
        /\ failed2 = Append(failed, n) => FailedAt(failed2, n)
    <2>1. CASE failed2 = failed
      BY <1>1, <2>1
    <2>2. CASE failed2 = Append(failed, n)
      <3>1. /\ \A k \in DOMAIN failed2 : failed2[k] = n \/ (k \in DOMAIN failed /\ failed2[k] = failed[k])
            /\ \A k \in DOMAIN failed : k \in DOMAIN failed2 /\ failed2[k] = failed[k]
            /\ Len(failed) + 1 \in DOMAIN failed2 /\ failed2[Len(failed) + 1] = n
        BY <2>2
      <3> QED
        BY <2>2, <3>1 DEF FailedAt
    <2> QED
      BY <2>1, <2>2
  <1>3. \A k \in DOMAIN failed : failed[k] \in tried /\ failed[k] < n
    BY DEF Accounted
  <1>4. \A m \in tried : FailedAt(failed2, m) <=> FailedAt(failed, m)
    <2> SUFFICES ASSUME NEW m \in tried PROVE FailedAt(failed2, m) <=> FailedAt(failed, m)
      OBVIOUS
    <2>1. m # n
      OBVIOUS
    <2> QED
      BY <1>2, <2>1 DEF FailedAt
  <1>5. failed2 = failed => ~FailedAt(failed2, n)
    BY <1>3 DEF FailedAt
  <1>6. ASSUME NEW m \in tried, PassedLater(key, items, failed, tried, m)
        PROVE  PassedLater(key, items, failed2, tried \cup {n}, m)
    BY <1>4, <1>6 DEF PassedLater
  <1>7. ASSUME NEW m, FailedBefore(key, items, failed, m)
        PROVE  FailedBefore(key, items, failed2, m)
    BY <1>2, <1>7 DEF FailedBefore
  <1>8. ASSUME NEW k \in DOMAIN failed2
        PROVE  /\ failed2[k] \in tried \cup {n}
               /\ \/ Undone(own2, kept2, by, key, items, failed2[k])
                  \/ PassedLater(key, items, failed2, tried \cup {n}, failed2[k])
    <2>1. CASE failed2 = Append(failed, n) /\ failed2[k] = n
      BY <1>1, <2>1
    <2>2. CASE k \in DOMAIN failed /\ failed2[k] = failed[k]
      <3> DEFINE m == failed[k]
      <3>1. /\ m \in tried /\ m < n
            /\ \/ Undone(own, kept, by, key, items, m)
               \/ PassedLater(key, items, failed, tried, m)
        BY <1>3, <2>2 DEF Accounted
      <3> HIDE DEF m
      <3>2. CASE Keeps(own, kept, own2, kept2, by, ItemOf(key, items, m))
        <4>1. \/ Undone(own2, kept2, by, key, items, m)
              \/ PassedLater(key, items, failed2, tried \cup {n}, m)
          BY <1>6, <3>1, <3>2, KeepsItem
        <4> QED
          BY <2>2, <3>1, <4>1 DEF m
      <3>3. CASE ItemOf(key, items, m) = ItemOf(key, items, n) /\ failed2 = failed
        <4>1. n > m
          BY <3>1
        <4>2. PassedLater(key, items, failed2, tried \cup {n}, m)
          BY <1>5, <3>3, <4>1 DEF PassedLater
        <4> QED
          BY <2>2, <3>1, <4>2 DEF m
      <3>4. CASE Undone(own2, kept2, by, key, items, m)
        BY <2>2, <3>1, <3>4 DEF m
      <3> QED
        BY <3>1, <3>2, <3>3, <3>4
    <2> QED
      BY <1>2, <2>1, <2>2
  <1>9. ASSUME NEW m \in tried
        PROVE  \/ FailedAt(failed2, m)
               \/ /\ Seen(own2, kept2, ItemOf(key, items, m))
                  /\ \/ Answered(own2, kept2, by, ItemOf(key, items, m))
                     \/ FailedBefore(key, items, failed2, m)
    <2>1. \/ FailedAt(failed, m)
          \/ /\ Seen(own, kept, ItemOf(key, items, m))
             /\ \/ Answered(own, kept, by, ItemOf(key, items, m))
                \/ FailedBefore(key, items, failed, m)
      BY DEF Accounted
    <2>2. CASE FailedAt(failed, m)
      BY <1>4, <2>2
    <2>3. CASE Keeps(own, kept, own2, kept2, by, ItemOf(key, items, m))
      BY <1>4, <1>7, <2>1, <2>3, KeepsItem
    <2> QED
      BY <2>2, <2>3
  <1>10. \/ FailedAt(failed2, n)
         \/ /\ Seen(own2, kept2, ItemOf(key, items, n))
            /\ \/ Answered(own2, kept2, by, ItemOf(key, items, n))
               \/ FailedBefore(key, items, failed2, n)
    BY <1>2, <1>7
  <1> QED
    BY <1>8, <1>9, <1>10 DEF Accounted

(* The requests that are single mutations, and those that are not.         *)
LEMMA RequestKinds ==
    ASSUME NEW r \in Calls \cup Retries
    PROVE  /\ r.type \in {"MUTATION", "BATCH_MUTATION", "RETRY_BATCH_MUTATION"}
           /\ r.type \in {"MUTATION", "BATCH_MUTATION"} => r \in Calls
           /\ r.type = "MUTATION" => <<r.key, r.entity, NoId>> \in KeyUses
           /\ r.type = "RETRY_BATCH_MUTATION" => /\ r.key \in RetryKeys /\ r.of \in Batches
                                                 /\ r.entity = DefaultEntity
  <1>1. CASE r \in Calls
    <2>1. r.type \in {"MUTATION", "BATCH_MUTATION"}
      BY <1>1, IntentAssumption
    <2>2. r.type = "MUTATION" => <<r.key, r.entity, NoId>> \in KeyUses
      BY <1>1 DEF KeyUses
    <2> QED
      BY <1>1, <2>1, <2>2
  <1>2. CASE r \in Retries
    BY <1>2 DEF Retries
  <1> QED
    BY <1>1, <1>2

(* The keys of the items of a batch, and those a retry gives them.         *)
LEMMA ItemsNamed ==
    ASSUME NEW r \in Calls, r.type = "BATCH_MUTATION"
    PROVE  /\ \A n \in DOMAIN r.items : ItemNamed(r, r.items, n)
           /\ \A k \in RetryKeys, n, m \in DOMAIN r.items :
                    <<<<k, n>>, r.items[m].entity, <<"RETRY_BATCH_MUTATION", DefaultEntity, k>>>>
                        \in KeyUses
  <1>0. ItemUses(r) \cup RetryUses(r) \subseteq KeyUses
    BY DEF KeyUses
  <1>1. ASSUME NEW n \in DOMAIN r.items
        PROVE  <<ItemRequest([req |-> r, items |-> r.items], n).key, r.items[n].entity,
                 IF r.items[n].key = NoKey THEN IdOf(r) ELSE NoId>> \in KeyUses
    BY <1>0 DEF ItemUses
  <1>2. ASSUME NEW n \in DOMAIN r.items
        PROVE  ItemNamed(r, r.items, n)
    <2>1. ItemRequest([req |-> r, items |-> r.items], n).key =
                IF r.items[n].key = NoKey THEN <<r.key, n>> ELSE r.items[n].key
      BY DEF ItemRequest
    <2> QED
      BY <1>1, <2>1 DEF ItemNamed
  <1>3. ASSUME NEW k \in RetryKeys, NEW n \in DOMAIN r.items, NEW m \in DOMAIN r.items
        PROVE  <<<<k, n>>, r.items[m].entity, <<"RETRY_BATCH_MUTATION", DefaultEntity, k>>>>
                    \in KeyUses
    BY <1>0 DEF RetryUses
  <1> QED
    BY <1>2, <1>3

(* How the intent of an item is named.                                     *)
LEMMA ItemUse ==
    ASSUME NEW r, NEW items, NEW n, ItemNamed(r, items, n), NEW i, i = ItemOf(r.key, items, n)
    PROVE  /\ i = <<i[1], i[2], i[3]>> /\ i[1] = "MUTATION"
           /\ \/ <<i[3], i[2], NoId>> \in KeyUses
              \/ <<i[3], i[2], IdOf(r)>> \in KeyUses /\ i[3] = <<r.key, n>>
  <1>1. i[1] = "MUTATION" /\ i[2] = items[n].entity /\ i = <<i[1], i[2], i[3]>>
    BY DEF ItemOf
  <1>2. CASE items[n].key = NoKey
    BY <1>1, <1>2 DEF ItemNamed, ItemOf
  <1>3. CASE items[n].key # NoKey
    BY <1>1, <1>3 DEF ItemNamed, ItemOf
  <1> QED
    BY <1>1, <1>2, <1>3

(* A key that two others than one and the same batch use has one entity.   *)
LEMMA OneMutation ==
    ASSUME OneEntityPerKey, NEW i, NEW j, NEW u, NEW v,
           i = <<i[1], i[2], i[3]>>, j = <<j[1], j[2], j[3]>>, i[1] = j[1], i[3] = j[3],
           <<i[3], i[2], u>> \in KeyUses, <<j[3], j[2], v>> \in KeyUses, u = NoId \/ u # v
    PROVE  i = j
  <1>1. i[2] = j[2]
    BY DEF OneEntityPerKey
  <1> QED
    BY <1>1

(* A session's intent has a key that is used for its entity.               *)
LEMMA MineNamed ==
    ASSUME NEW t \in Txns, Asked(t), Place(t), pc[t] \notin {"idle", "items"}
    PROVE  Named(Me(t), DOMAIN rows[t])
  <1>1. CASE InBatch(t)
    <2>1. /\ ItemNamed(batch[t].req, batch[t].items, batch[t].next)
          /\ Me(t) = ItemOf(batch[t].req.key, batch[t].items, batch[t].next)
          /\ IdOf(batch[t].req) \in DOMAIN rows[t]
      BY <1>1 DEF Asked, Place
    <2> DEFINE me == Me(t)
    <2>2. /\ me = <<me[1], me[2], me[3]>>
          /\ \/ <<me[3], me[2], NoId>> \in KeyUses
             \/ <<me[3], me[2], IdOf(batch[t].req)>> \in KeyUses
      BY <2>1, ItemUse
    <2> HIDE DEF me
    <2>3. \E by \in DOMAIN rows[t] \cup {NoId} : <<me[3], me[2], by>> \in KeyUses
      BY <2>1, <2>2
    <2>4. Named(me, DOMAIN rows[t])
      BY <2>2, <2>3 DEF Named
    <2> QED
      BY <2>4 DEF me
  <1>2. CASE ~InBatch(t)
    <2>1. /\ Me(t) = <<req[t].type, req[t].entity, req[t].key>>
          /\ req[t].type = "MUTATION" => <<req[t].key, req[t].entity, NoId>> \in KeyUses
      BY <1>2, RequestKinds DEF Asked, Me, IdOf
    <2>2. /\ Me(t)[1] = req[t].type /\ Me(t)[2] = req[t].entity /\ Me(t)[3] = req[t].key
          /\ Me(t) = <<Me(t)[1], Me(t)[2], Me(t)[3]>>
      BY <2>1
    <2> QED
      BY <2>1, <2>2 DEF Named
  <1> QED
    BY <1>1, <1>2

(* A session that takes no step is not disturbed: stored rows stay, and    *)
(* those that come are not of its batch.                                   *)
LEMMA BystanderAccounts ==
    ASSUME NEW s \in Txns, Place(s), Accounts(s),
           \A i \in DOMAIN intents : i \in DOMAIN intents' /\ intents'[i] = intents[i],
           \A i \in DOMAIN intents' \ DOMAIN intents : intents'[i].parent \notin DOMAIN rows[s],
           rows'[s] = rows[s], pc'[s] = pc[s], req'[s] = req[s], batch'[s] = batch[s]
    PROVE  Accounts(s)'
  <1>1. /\ Me(s)' = Me(s) /\ Mine(s)' = Mine(s) /\ InBatch(s)' = InBatch(s)
        /\ Working(s)' = Working(s)
    BY DEF Me, Mine, InBatch, Working, IdOf
  <1>2. \A by \in DOMAIN rows[s] : \A i : Keeps(rows[s], intents, rows[s], intents', by, i)
    BY DEF Keeps, Harmless
  <1>3. ASSUME NEW by \in DOMAIN rows[s], NEW key, NEW items, NEW failed, NEW tried,
               Accounted(rows[s], intents, by, key, items, failed, tried)
        PROVE  Accounted(rows[s], intents', by, key, items, failed, tried)
    BY <1>2, <1>3, StillAccounted
  <1>4. Asked(s)'
    BY <1>1 DEF Accounts, Asked
  <1>5. Fresh(s)' /\ Kin(s)'
    BY <1>1 DEF Accounts, Fresh, Kin
  <1>6. Running(s)'
    BY <1>1, <1>3 DEF Accounts, Running, Place
  <1>7. Ended(s)'
    BY <1>3 DEF Accounts, Ended
  <1> QED
    BY <1>4, <1>5, <1>6, <1>7 DEF Accounts

(* A step of session t that commits nothing has to be looked at for t.     *)
LEMMA OneAccount ==
    ASSUME IInv, AInv, NEW t \in Txns, intents' = intents, Accounts(t)',
           \A s \in Txns \ {t} : /\ rows'[s] = rows[s] /\ pc'[s] = pc[s] /\ req'[s] = req[s]
                                 /\ batch'[s] = batch[s]
    PROVE  AInv'
  <1>1. Stored'
    BY DEF AInv, Stored
  <1>2. ASSUME NEW s \in Txns PROVE Accounts(s)'
    <2>1. CASE s = t
      BY <2>1
    <2>2. CASE s # t
      BY <2>2, BystanderAccounts DEF IInv, SessionOK, AInv
    <2> QED
      BY <2>1, <2>2
  <1> QED
    BY <1>1, <1>2 DEF AInv

(* A transaction that ends without a commit leaves nothing to account for. *)
LEMMA RollbackAccounts ==
    ASSUME IInv, AInv, NEW t \in Txns, NEW told, Rollback(t, told)
    PROVE  AInv'
  <1>1. Shapes
    BY DEF IInv, Typed
  <1>2. /\ intents' = intents /\ req' = req /\ rows'[t] = <<>> /\ pc'[t] = "idle"
        /\ batch'[t] = NoBatch
        /\ \A s \in Txns \ {t} : rows'[s] = rows[s] /\ pc'[s] = pc[s] /\ batch'[s] = batch[s]
    BY <1>1 DEF Rollback, Finish, Shapes
  <1>3. DOMAIN rows'[t] = {}
    BY <1>2
  <1>4. ~InBatch(t)' /\ ~Working(t)'
    BY <1>2 DEF InBatch, Working
  <1>5. Accounts(t)'
    BY <1>2, <1>3, <1>4 DEF Accounts, Asked, Fresh, Kin, Running, Ended
  <1> QED
    BY <1>2, <1>5, OneAccount

(* A request comes in.                                                     *)
LEMMA CallAccounts ==
    ASSUME IInv, AInv, NEW t \in Txns, NEW r \in Calls \cup Retries, Call(t, r)
    PROVE  AInv'
  <1>1. Shapes /\ Place(t)
    BY DEF IInv, Typed, SessionOK
  <1>2. /\ pc[t] = "idle" /\ intents' = intents /\ rows' = rows /\ batch' = batch
        /\ req'[t] = r /\ pc'[t] = "lookup"
        /\ \A s \in Txns \ {t} : pc'[s] = pc[s] /\ req'[s] = req[s]
    BY <1>1 DEF Call, Shapes
  <1>3. DOMAIN rows'[t] = {} /\ ~InBatch(t)' /\ ~Working(t)'
    BY <1>1, <1>2 DEF Place, InBatch, Working
  <1>4. Accounts(t)'
    BY <1>2, <1>3 DEF Accounts, Asked, Fresh, Kin, Running, Ended
  <1> QED
    BY <1>2, <1>4, OneAccount

(* An intent on its way is not stored yet.                                 *)
LEMMA WorkingIsNew ==
    ASSUME IInv, NEW t \in Txns, Working(t)
    PROVE  Me(t) \in DOMAIN rows[t] /\ Me(t) \notin DOMAIN intents
  BY DEF IInv, SessionOK, Place, Apart, Working

(* The row of a session's intent is inserted, or moves on, and has done    *)
(* nothing yet.                                                            *)
LEMMA RowMoves ==
    ASSUME AInv, NEW t \in Txns, Place(t), NEW new,
           intents' = intents, rows'[t] = new, req'[t] = req[t], batch'[t] = batch[t],
           Me(t) \notin DOMAIN intents,
           Working(t) \/ (pc[t] = "insert" /\ Me(t) \notin DOMAIN rows[t]),
           Working(t)',
           DOMAIN new = DOMAIN rows[t] \cup {Me(t)},
           \A i \in DOMAIN rows[t] : i # Me(t) => new[i] = rows[t][i],
           new[Me(t)].wrote = "none", ~Carried(Me(t), new[Me(t)]),
           pc'[t] = "approve" => new[Me(t)].status = "VALIDATED",
           Origin(Me(t), new[Me(t)]), Parented(new[Me(t)], DOMAIN new)
    PROVE  Accounts(t)'
  <1> DEFINE b == batch[t]
             item(n) == ItemOf(b.req.key, b.items, n)
  <1>1. /\ Me(t)' = Me(t) /\ Mine(t)' = new[Me(t)] /\ InBatch(t)' = InBatch(t)
        /\ Asked(t) /\ Fresh(t) /\ Kin(t) /\ Running(t) /\ Ended(t)
    BY DEF Me, Mine, InBatch, IdOf, AInv, Accounts
  <1>2. pc[t] \notin {"idle", "items", "done"} /\ pc'[t] \notin {"idle", "items"}
    BY DEF Working
  <1>3. ASSUME InBatch(t), NEW n \in Tried(b), item(n) = Me(t)
        PROVE  FailedAt(b.failed, n)
    <2>1. CASE Working(t)
      BY <1>1, <1>3, <2>1 DEF Fresh
    <2>2. CASE Me(t) \notin DOMAIN rows[t]
      <3>1. FailedAt(b.failed, n) \/ Seen(rows[t], intents, item(n))
        BY <1>1, <1>3 DEF Running, Accounted
      <3> QED
        BY <1>3, <2>2, <3>1 DEF Seen
    <2> QED
      BY <2>1, <2>2
  <1>4. Asked(t)'
    BY <1>1, <1>2 DEF Asked
  <1>5. Fresh(t)'
    BY <1>1, <1>3 DEF Fresh
  <1>6. Kin(t)'
    BY <1>1, <1>2 DEF Kin
  <1>7. Running(t)'
    <2> SUFFICES ASSUME InBatch(t)
                 PROVE  Accounted(new, intents, IdOf(b.req), b.req.key, b.items, b.failed, Tried(b))
      BY <1>1 DEF Running
    <2>1. Accounted(rows[t], intents, IdOf(b.req), b.req.key, b.items, b.failed, Tried(b))
      BY <1>1 DEF Running
    <2>2. ASSUME NEW n \in Tried(b)
          PROVE  \/ Keeps(rows[t], intents, new, intents, IdOf(b.req), item(n))
                 \/ /\ FailedAt(b.failed, n)
                    /\ Undone(new, intents, IdOf(b.req), b.req.key, b.items, n)
      <3>1. CASE item(n) = Me(t)
        BY <1>3, <3>1 DEF Undone, UndoneRow, Harmless
      <3>2. CASE item(n) # Me(t)
        BY <3>2 DEF Keeps
      <3> QED
        BY <3>1, <3>2
    <2> QED
      BY <2>1, <2>2, StillAccounted
  <1>8. Named(Me(t), DOMAIN new)
    <2>1. Named(Me(t), DOMAIN rows[t])
      BY <1>1, <1>2, MineNamed
    <2> QED
      BY <2>1 DEF Named
  <1>9. Ended(t)'
    <2> SUFFICES ASSUME NEW i \in DOMAIN new
                 PROVE  /\ Named(i, DOMAIN new) /\ Origin(i, new[i]) /\ ~Carried(i, new[i])
                        /\ Parented(new[i], DOMAIN new)
      BY DEF Ended
    <2>1. CASE i = Me(t)
      BY <1>8, <2>1
    <2>2. CASE i # Me(t)
      <3>1. /\ Named(i, DOMAIN rows[t]) /\ Origin(i, new[i]) /\ ~Carried(i, new[i])
            /\ Parented(new[i], DOMAIN rows[t])
        BY <1>1, <1>2, <2>2 DEF Ended
      <3> QED
        BY <3>1 DEF Named, Parented
    <2> QED
      BY <2>1, <2>2
  <1> QED
    BY <1>4, <1>5, <1>7, <1>9, <1>6 DEF Accounts

(* submit_intent returns to the client: what a batch stores is not its     *)
(* concern.                                                                *)
LEMMA ReturnAccounts ==
    ASSUME AInv, NEW t \in Txns, Place(t), NEW new,
           intents' = intents, rows'[t] = new, req'[t] = req[t], batch'[t] = batch[t],
           pc[t] \notin {"idle", "items", "done"}, pc'[t] = "done", ~InBatch(t),
           DOMAIN new = DOMAIN rows[t],
           \A i \in DOMAIN rows[t] :
                \/ new[i] = rows[t][i]
                \/ i = Me(t) /\ req[t].type = "MUTATION" /\ new[i].parent = rows[t][i].parent
    PROVE  Accounts(t)'
  <1>1. /\ ~InBatch(t)' /\ ~Working(t)' /\ Asked(t) /\ Ended(t)
    BY DEF InBatch, Working, AInv, Accounts
  <1>2. Asked(t)' /\ Fresh(t)' /\ Kin(t)' /\ Running(t)'
    BY <1>1 DEF Asked, Fresh, Kin, Running
  <1>3. Ended(t)'
    <2> SUFFICES ASSUME NEW i \in DOMAIN new
                 PROVE  /\ Named(i, DOMAIN new) /\ Origin(i, new[i]) /\ ~Carried(i, new[i])
                        /\ Parented(new[i], DOMAIN new)
      BY DEF Ended
    <2>1. CASE new[i] = rows[t][i]
      BY <1>1, <2>1 DEF Ended
    <2>2. CASE i = Me(t) /\ req[t].type = "MUTATION" /\ new[i].parent = rows[t][i].parent
      <3>1. i[1] = "MUTATION"
        BY <2>2 DEF Me, IdOf
      <3> QED
        BY <1>1, <2>2, <3>1 DEF Ended, Origin, Carried, Parented
    <2> QED
      BY <2>1, <2>2
  <1> QED
    BY <1>2, <1>3 DEF Accounts

(* The submission of an item ends and the batch goes on to the next one.   *)
LEMMA ItemAccounts ==
    ASSUME AInv, NEW t \in Txns, Place(t), BatchOK(batch[t]), NEW new, NEW failed,
           intents' = intents, rows'[t] = new, req'[t] = req[t],
           batch'[t] = [req |-> batch[t].req, items |-> batch[t].items,
                        next |-> batch[t].next + 1, failed |-> failed],
           pc'[t] = "items", InBatch(t), InBatch(t)',
           (pc[t] = "lookup" /\ new = rows[t]) \/ Working(t),
           DOMAIN new = DOMAIN rows[t],
           \A i \in DOMAIN rows[t] : /\ i # Me(t) => new[i] = rows[t][i]
                                     /\ new[i].parent = rows[t][i].parent,
           Working(t) => Me(t) \notin DOMAIN intents,
           \/ /\ failed = batch[t].failed
              /\ Seen(new, intents, Me(t))
              /\ \/ Answered(new, intents, IdOf(batch[t].req), Me(t))
                 \/ FailedBefore(batch[t].req.key, batch[t].items, batch[t].failed, batch[t].next)
           \/ /\ failed = Append(batch[t].failed, batch[t].next)
              /\ Undone(new, intents, IdOf(batch[t].req), batch[t].req.key, batch[t].items, batch[t].next)
              /\ new = rows[t] \/ Harmless(new[Me(t)], IdOf(batch[t].req))
    PROVE  Accounts(t)'
  <1> DEFINE b == batch[t]
             item(n) == ItemOf(b.req.key, b.items, n)
  <1>1. /\ Asked(t) /\ Fresh(t) /\ Kin(t) /\ Running(t) /\ Ended(t) /\ ~Working(t)'
        /\ batch'[t].req = b.req /\ batch'[t].items = b.items
        /\ batch'[t].next = b.next + 1 /\ batch'[t].failed = failed
        /\ pc[t] \notin {"idle", "items", "done"}
    BY DEF Working, AInv, Accounts
  <1>2. /\ b.next \in DOMAIN b.items /\ b.next \in Nat /\ b.failed \in Seq(Nat)
        /\ DOMAIN b.items \subseteq Nat /\ Me(t) = item(b.next) /\ Me(t)[1] = "MUTATION"
    <2>1. b.next \in DOMAIN b.items /\ b.failed \in Seq(Nat) /\ DOMAIN b.items \subseteq Nat
      BY <1>1 DEF Place, BatchOK, IsList
    <2>2. Me(t) = item(b.next)
      BY <1>1 DEF Asked
    <2>3. item(b.next)[1] = "MUTATION"
      BY DEF ItemOf
    <2> QED
      BY <2>1, <2>2, <2>3
  <1>3. Len(failed) < b.next + 1
    <2>1. Len(b.failed) < b.next /\ Len(b.failed) \in Nat
      BY <1>1, <1>2 DEF Asked
    <2>2. CASE failed = b.failed
      BY <1>2, <2>1, <2>2
    <2>3. CASE failed = Append(b.failed, b.next)
      <3>1. Len(failed) = Len(b.failed) + 1
        BY <1>2, <2>3
      <3> QED
        BY <1>2, <2>1, <3>1
    <2> QED
      BY <2>2, <2>3
  <1>4. Asked(t)'
    BY <1>1, <1>3 DEF Asked
  <1>5. Fresh(t)'
    BY <1>1 DEF Fresh
  <1>6. Tried(batch[t])' = Tried(b) \cup {b.next}
    <2>1. \A n \in DOMAIN b.items : n < b.next + 1 <=> n < b.next \/ n = b.next
      BY <1>2
    <2>2. Tried(batch[t])' = {n \in DOMAIN b.items : n < b.next + 1}
      BY <1>1 DEF Tried
    <2> QED
      BY <1>2, <2>1, <2>2 DEF Tried
  <1>7. Kin(t)'
    <2> SUFFICES ASSUME NEW i \in DOMAIN new, i[1] = "MUTATION"
                 PROVE  \E n \in Tried(b) \cup {b.next} : i = item(n)
      BY <1>1, <1>6 DEF Kin
    <2>1. CASE \E n \in Tried(b) : i = item(n)
      BY <2>1
    <2>2. CASE i = Me(t)
      BY <1>2, <2>2
    <2> QED
      BY <1>1, <2>1, <2>2 DEF Kin
  <1>8. Running(t)'
    <2>2. Accounted(rows[t], intents, IdOf(b.req), b.req.key, b.items, b.failed, Tried(b))
      BY <1>1 DEF Running
    <2>3. ASSUME NEW n \in Tried(b)
          PROVE  \/ Keeps(rows[t], intents, new, intents, IdOf(b.req), item(n))
                 \/ /\ FailedAt(b.failed, n)
                    /\ item(n) = item(b.next)
                    /\ failed = b.failed \/ Undone(new, intents, IdOf(b.req), b.req.key, b.items, n)
      <3>1. CASE new = rows[t]
        BY <3>1 DEF Keeps
      <3>2. CASE item(n) # Me(t)
        BY <3>2 DEF Keeps
      <3>3. CASE new # rows[t] /\ item(n) = Me(t)
        <4>1. FailedAt(b.failed, n) /\ Me(t) \notin DOMAIN intents
          BY <1>1, <3>3 DEF Fresh
        <4>2. CASE failed = b.failed
          BY <1>2, <3>3, <4>1, <4>2
        <4>3. CASE Harmless(new[Me(t)], IdOf(b.req))
          <5>1. Undone(new, intents, IdOf(b.req), b.req.key, b.items, n)
            BY <3>3, <4>1, <4>3 DEF Undone, UndoneRow
          <5> QED
            BY <1>2, <3>3, <4>1, <5>1
        <4> QED
          BY <3>3, <4>2, <4>3
      <3> QED
        BY <3>1, <3>2, <3>3
    <2>4. Tried(b) \subseteq Nat /\ \A m \in Tried(b) : m < b.next
      BY <1>2 DEF Tried
    <2>5. Accounted(new, intents, IdOf(b.req), b.req.key, b.items, failed, Tried(b) \cup {b.next})
      <3>1. b.failed \in Seq(Nat) /\ b.next \in Nat
        BY <1>2
      <3>2. \/ /\ failed = b.failed
               /\ Seen(new, intents, item(b.next))
               /\ \/ Answered(new, intents, IdOf(b.req), item(b.next))
                  \/ FailedBefore(b.req.key, b.items, b.failed, b.next)
            \/ /\ failed = Append(b.failed, b.next)
               /\ Undone(new, intents, IdOf(b.req), b.req.key, b.items, b.next)
        BY <1>2
      <3> DEFINE by == IdOf(b.req)
                 key == b.req.key
                 items == b.items
                 noted == b.failed
                 next == b.next
                 tried == Tried(b)
                 Before(m) == \/ Keeps(rows[t], intents, new, intents, by, ItemOf(key, items, m))
                              \/ /\ FailedAt(noted, m)
                                 /\ ItemOf(key, items, m) = ItemOf(key, items, next)
                                 /\ failed = noted \/ Undone(new, intents, by, key, items, m)
      <3>3. /\ Accounted(rows[t], intents, by, key, items, noted, tried)
            /\ tried \subseteq Nat /\ \A m \in tried : m < next
            /\ next \in Nat /\ noted \in Seq(Nat)
        BY <2>2, <2>4, <3>1
      <3>4. \A m \in tried : Before(m)
        BY <2>3
      <3>5. \/ /\ failed = noted
               /\ Seen(new, intents, ItemOf(key, items, next))
               /\ \/ Answered(new, intents, by, ItemOf(key, items, next))
                  \/ FailedBefore(key, items, noted, next)
            \/ failed = Append(noted, next) /\ Undone(new, intents, by, key, items, next)
        BY <3>2
      <3> HIDE DEF by, key, items, noted, next, tried
      <3>6. Accounted(new, intents, by, key, items, failed, tried \cup {next})
        BY <3>3, <3>4, <3>5, OneMoreAccounted, ZenonT(60)
      <3> QED
        BY <3>6 DEF by, key, items, next, tried
    <2>6. Accounted(rows'[t], intents', IdOf(batch'[t].req), batch'[t].req.key, batch'[t].items, batch'[t].failed,
                    Tried(batch[t])')
      BY <1>1, <1>6, <2>5
    <2> QED
      BY <2>6 DEF Running
  <1>9. Ended(t)'
    <2> SUFFICES ASSUME NEW i \in DOMAIN new
                 PROVE  /\ Named(i, DOMAIN new) /\ Origin(i, new[i]) /\ ~Carried(i, new[i])
                        /\ Parented(new[i], DOMAIN new)
      BY DEF Ended
    <2>1. CASE i # Me(t)
      BY <1>1, <2>1 DEF Ended
    <2>2. CASE i = Me(t)
      BY <1>1, <1>2, <2>2 DEF Ended, Origin, Carried, Parented
    <2> QED
      BY <2>1, <2>2
  <1> QED
    BY <1>4, <1>5, <1>8, <1>9, <1>7 DEF Accounts

(* submit_intent returns or raises, with the rows of the session as new:   *)
(* what is common to both within a batch.                                  *)
LEMMA ReturnKeeps ==
    ASSUME IInv, AInv, NEW t \in Txns, NEW id, NEW new, Return(t, id), rows' = [rows EXCEPT ![t] = new],
           (pc[t] = "lookup" /\ new = rows[t]) \/ Working(t),
           DOMAIN new = DOMAIN rows[t],
           \A i \in DOMAIN rows[t] :
                \/ new[i] = rows[t][i]
                \/ i = Me(t) /\ req[t].type = "MUTATION" /\ new[i].parent = rows[t][i].parent,
           InBatch(t) => /\ Seen(new, intents, Me(t))
                         /\ \/ Answered(new, intents, IdOf(batch[t].req), Me(t))
                            \/ FailedBefore(batch[t].req.key, batch[t].items, batch[t].failed,
                                            batch[t].next)
    PROVE  AInv'
  <1>1. Shapes /\ Place(t) /\ BatchOK(batch[t])
    BY DEF IInv, Typed, SessionOK, SessionTyped
  <1>2. /\ intents' = intents /\ req' = req /\ rows'[t] = new
        /\ \A s \in Txns \ {t} : rows'[s] = rows[s] /\ pc'[s] = pc[s] /\ batch'[s] = batch[s]
        /\ pc[t] \notin {"idle", "items", "done"}
    BY <1>1 DEF Return, Shapes, Working
  <1>3. CASE ~InBatch(t)
    <2>1. pc'[t] = "done" /\ batch'[t] = batch[t]
      BY <1>1, <1>3 DEF Return, InBatch, Shapes
    <2>2. Accounts(t)'
      BY <1>1, <1>2, <1>3, <2>1, ReturnAccounts
    <2> QED
      BY <1>2, <2>2, OneAccount
  <1>4. CASE InBatch(t)
    <2>1. pc'[t] = "items" /\ batch' = [batch EXCEPT ![t].next = @ + 1]
      BY <1>1, <1>4 DEF Return, InBatch, Shapes
    <2>2. batch'[t] = [req |-> batch[t].req, items |-> batch[t].items,
                       next |-> batch[t].next + 1, failed |-> batch[t].failed]
      BY <1>1, <2>1 DEF Shapes, BatchOK
    <2>3. InBatch(t)'
      BY <1>1, <1>4, <2>2 DEF InBatch, Place, NoBatch, NoRequest
    <2>4. \A i \in DOMAIN rows[t] : /\ i # Me(t) => new[i] = rows[t][i]
                                    /\ new[i].parent = rows[t][i].parent
      OBVIOUS
    <2>5. Working(t) => Me(t) \notin DOMAIN intents
      BY <1>1, WorkingIsNew
    <2>6. Accounts(t)'
      BY <1>1, <1>2, <1>4, <2>1, <2>2, <2>3, <2>4, <2>5, ItemAccounts
    <2> QED
      BY <1>2, <2>6, OneAccount
  <1> QED
    BY <1>3, <1>4

(* The batch notes an item whose row says that it was not carried out, or  *)
(* for which there is no row with its target.                              *)
LEMMA RaiseKeeps ==
    ASSUME IInv, AInv, NEW t \in Txns, NEW new, NEW told, Raise(t, new, told),
           DOMAIN new = DOMAIN rows[t],
           \A i \in DOMAIN rows[t] : /\ i # Me(t) => new[i] = rows[t][i]
                                     /\ new[i].parent = rows[t][i].parent,
           \/ Working(t) /\ new[Me(t)].wrote # "all"
           \/ pc[t] = "lookup" /\ new = rows[t] /\ Existing(t) = {}
    PROVE  AInv'
  <1>1. Shapes /\ Place(t) /\ BatchOK(batch[t])
    BY DEF IInv, Typed, SessionOK, SessionTyped
  <1>2. CASE ~InBatch(t)
    BY <1>2, RollbackAccounts DEF Raise, InBatch
  <1>3. CASE InBatch(t)
    <2>1. NoteFailure(t, new, batch[t].next, batch[t].next + 1)
      BY <1>3 DEF Raise, InBatch
    <2>2. /\ intents' = intents /\ req' = req /\ rows'[t] = new /\ pc'[t] = "items"
          /\ \A s \in Txns \ {t} : rows'[s] = rows[s] /\ pc'[s] = pc[s] /\ batch'[s] = batch[s]
      BY <1>1, <2>1 DEF NoteFailure, Shapes
    <2>3. batch'[t] = [req |-> batch[t].req, items |-> batch[t].items,
                       next |-> batch[t].next + 1, failed |-> Append(batch[t].failed, batch[t].next)]
      BY <1>1, <2>1 DEF NoteFailure, Shapes, BatchOK
    <2>4. InBatch(t)'
      BY <1>1, <1>3, <2>3 DEF InBatch, Place, NoBatch, NoRequest
    <2>5. Asked(t) /\ pc[t] # "items" /\ (Working(t) => Me(t) \notin DOMAIN intents)
      BY WorkingIsNew DEF AInv, Accounts, Working
    <2>6. /\ Me(t) = ItemOf(batch[t].req.key, batch[t].items, batch[t].next)
          /\ req[t].target = batch[t].items[batch[t].next].target
      BY <1>3, <2>5 DEF Asked
    <2>7. /\ Undone(new, intents, IdOf(batch[t].req), batch[t].req.key, batch[t].items, batch[t].next)
          /\ new = rows[t] \/ Harmless(new[Me(t)], IdOf(batch[t].req))
      <3>1. CASE Working(t) /\ new[Me(t)].wrote # "all"
        BY <2>5, <2>6, <3>1 DEF Undone, UndoneRow, Harmless
      <3>2. CASE pc[t] = "lookup" /\ new = rows[t] /\ Existing(t) = {}
        <4>1. Me(t)[1] = req[t].type /\ Me(t)[3] = req[t].key
          BY DEF Me, IdOf
        <4>2. \A i \in DOMAIN View(t) : i = Me(t) => View(t)[i].target # req[t].target
          BY <3>2, <4>1 DEF Existing
        <4>3. Me(t) \in DOMAIN rows[t] => rows[t][Me(t)].target # req[t].target
          BY <4>2 DEF View
        <4>4. Me(t) \in DOMAIN intents => intents[Me(t)].target # req[t].target
          BY <4>2 DEF View, IInv, Apart
        <4> QED
          BY <2>6, <3>2, <4>3, <4>4 DEF Undone, UndoneRow
      <3> QED
        BY <3>1, <3>2
    <2>8. (pc[t] = "lookup" /\ new = rows[t]) \/ Working(t)
      OBVIOUS
    <2>9. Accounts(t)'
      BY <1>1, <1>3, <2>2, <2>3, <2>4, <2>5, <2>7, <2>8, ItemAccounts
    <2> QED
      BY <2>2, <2>9, OneAccount
  <1> QED
    BY <1>2, <1>3

(* The intent an item is answered with is its own: one that is stored was  *)
(* not derived by this batch, which is not, and one that the batch has     *)
(* written itself is that of an item before.                               *)
LEMMA ExistingIsMine ==
    ASSUME IInv, AInv, OneEntityPerKey, NEW t \in Txns, pc[t] = "lookup", InBatch(t),
           NEW i \in Existing(t)
    PROVE  i = Me(t)
  <1> DEFINE b == batch[t]
             by == IdOf(b.req)
             me == Me(t)
  <1>1. i \in DOMAIN rows[t] \cup DOMAIN intents /\ i[1] = req[t].type /\ i[3] = req[t].key
    BY DEF Existing, View
  <1>2. Asked(t) /\ Kin(t) /\ Place(t) /\ Stored /\ ~Working(t) /\ BatchOK(b)
    BY DEF IInv, Typed, SessionOK, SessionTyped, AInv, Accounts, Working
  <1>3. /\ req[t].type = "MUTATION" /\ by \in DOMAIN rows[t] /\ by # NoId /\ b.next \in DOMAIN b.items
        /\ me = ItemOf(b.req.key, b.items, b.next) /\ me[3] = req[t].key
        /\ ItemNamed(b.req, b.items, b.next)
    BY <1>2 DEF Place, Asked, Me, IdOf, NoId
  <1>4. /\ me = <<me[1], me[2], me[3]>> /\ me[1] = "MUTATION"
        /\ \/ <<me[3], me[2], NoId>> \in KeyUses
           \/ <<me[3], me[2], by>> \in KeyUses /\ me[3] = <<b.req.key, b.next>>
    BY <1>3, ItemUse
  <1>5. by \notin DOMAIN intents
    BY <1>3 DEF IInv, Apart
  <1>6. i[1] = me[1] /\ i[3] = me[3]
    BY <1>1, <1>3, <1>4
  <1> HIDE DEF me, by
  <1>7. CASE i \in DOMAIN intents
    <2>1. Named(i, DOMAIN intents)
      BY <1>2, <1>7 DEF Stored
    <2>2. i = <<i[1], i[2], i[3]>> /\ \E u : u # by /\ <<i[3], i[2], u>> \in KeyUses
      BY <1>3, <1>4, <1>5, <1>6, <2>1 DEF Named
    <2>3. PICK u : u # by /\ <<i[3], i[2], u>> \in KeyUses
      BY <2>2
    <2>4. i = me
      <3>1. CASE <<me[3], me[2], NoId>> \in KeyUses
        BY <1>4, <1>6, <2>2, <2>3, <3>1, OneMutation
      <3>2. CASE <<me[3], me[2], by>> \in KeyUses
        BY <1>4, <1>6, <2>2, <2>3, <3>2, OneMutation
      <3> QED
        BY <1>4, <3>1, <3>2
    <2> QED
      BY <2>4 DEF me
  <1>8. CASE i \in DOMAIN rows[t]
    <2>1. PICK n \in Tried(b) : i = ItemOf(b.req.key, b.items, n)
      BY <1>2, <1>4, <1>6, <1>8 DEF Kin
    <2>2. ItemNamed(b.req, b.items, n) /\ n # b.next
      <3>1. n \in DOMAIN b.items /\ n < b.next
        BY DEF Tried
      <3>2. n \in Nat /\ b.next \in Nat
        BY <1>2, <3>1 DEF BatchOK, IsList
      <3>3. n # b.next
        BY <3>1, <3>2
      <3> QED
        BY <1>2, <3>1, <3>3 DEF Asked
    <2>3. /\ i = <<i[1], i[2], i[3]>>
          /\ \/ <<i[3], i[2], NoId>> \in KeyUses
             \/ <<i[3], i[2], by>> \in KeyUses /\ i[3] = <<b.req.key, n>>
      BY <2>1, <2>2, ItemUse DEF by
    <2>4. ~(i[3] = <<b.req.key, n>> /\ me[3] = <<b.req.key, b.next>>)
      BY <1>6, <2>2
    <2>5. i = me
      <3>1. CASE <<i[3], i[2], NoId>> \in KeyUses
        BY <1>4, <1>6, <2>3, <3>1, OneMutation
      <3>2. CASE <<me[3], me[2], NoId>> \in KeyUses /\ <<i[3], i[2], by>> \in KeyUses
        BY <1>4, <1>6, <2>3, <3>2, OneMutation
      <3> QED
        BY <1>4, <2>3, <2>4, <3>1, <3>2
    <2> QED
      BY <2>5 DEF me
  <1> QED
    BY <1>1, <1>7, <1>8

(* An item that is answered from a row: the batch did not create it, or it *)
(* is that of an item before.                                              *)
LEMMA ReplayAnswers ==
    ASSUME IInv, AInv, NEW t \in Txns, pc[t] = "lookup", InBatch(t), Seen(rows[t], intents, Me(t))
    PROVE  \/ Answered(rows[t], intents, IdOf(batch[t].req), Me(t))
           \/ FailedBefore(batch[t].req.key, batch[t].items, batch[t].failed, batch[t].next)
  <1> DEFINE b == batch[t]
             item(n) == ItemOf(b.req.key, b.items, n)
  <1>1. Asked(t) /\ Kin(t) /\ Running(t) /\ Place(t) /\ Stored /\ ~Working(t) /\ BatchOK(b)
    BY DEF IInv, Typed, SessionOK, SessionTyped, AInv, Accounts, Working
  <1>2. CASE Me(t) \in DOMAIN intents
    <2>1. IdOf(batch[t].req) \notin DOMAIN intents
      BY <1>1 DEF IInv, Apart, Place
    <2>2. IdOf(batch[t].req) # NoId
      BY DEF IdOf, NoId
    <2>3. intents[Me(t)].parent # IdOf(batch[t].req)
      BY <1>1, <1>2, <2>1, <2>2 DEF Stored, Parented
    <2> QED
      BY <1>2, <2>3 DEF Answered, Settled
  <1>3. CASE Me(t) \in DOMAIN rows[t]
    <2>1. Me(t)[1] = "MUTATION"
      BY <1>1 DEF Place, Me, IdOf
    <2>2. PICK n \in Tried(b) : Me(t) = item(n)
      BY <1>1, <1>3, <2>1 DEF Kin
    <2>3. Accounted(rows[t], intents, IdOf(b.req), b.req.key, b.items, b.failed, Tried(b))
      BY <1>1 DEF Running
    <2>4. Me(t) = item(b.next)
      BY <1>1 DEF Asked
    <2>5. \A k \in DOMAIN b.failed : b.failed[k] < b.next
      BY <2>3 DEF Accounted, Tried
    <2>6. CASE \E k \in DOMAIN b.failed : item(b.failed[k]) = Me(t)
      <3>1. FailedBefore(b.req.key, b.items, b.failed, b.next)
        BY <2>4, <2>5, <2>6 DEF FailedBefore
      <3> QED
        BY <3>1
    <2>7. CASE Answered(rows[t], intents, IdOf(b.req), Me(t))
      BY <2>7
    <2>8. \/ \E k \in DOMAIN b.failed : b.failed[k] = n
          \/ Answered(rows[t], intents, IdOf(b.req), item(n))
          \/ \E k \in DOMAIN b.failed : item(b.failed[k]) = item(n)
      BY <2>3 DEF Accounted, FailedAt, FailedBefore
    <2> QED
      BY <2>2, <2>6, <2>7, <2>8
  <1> QED
    BY <1>2, <1>3 DEF Seen

(* The lookup finds the item's own intent, so it is never ambiguous; an    *)
(* item whose entity is not resolved has none.                             *)
LEMMA LookupAccounts ==
    ASSUME IInv, AInv, OneEntityPerKey, NEW t \in Txns,
           Replay(t) \/ Ambiguous(t) \/ FindNone(t) \/ EntityNotResolved(t)
    PROVE  AInv'
  <1>0. Shapes /\ Place(t) /\ Accounts(t)
    BY DEF IInv, Typed, SessionOK, AInv
  <1>1. CASE Replay(t)
    <2>1. PICK i \in Existing(t) : Return(t, i)
      BY <1>1 DEF Replay
    <2>2. pc[t] = "lookup" /\ rows' = [rows EXCEPT ![t] = rows[t]]
      BY <1>0, <1>1 DEF Replay, Shapes
    <2>3. InBatch(t) => Seen(rows[t], intents, Me(t))
      <3>1. Seen(rows[t], intents, i)
        BY DEF Existing, View, Seen
      <3> QED
        BY <2>2, <3>1, ExistingIsMine
    <2> DEFINE new == rows[t]
    <2>4. /\ rows' = [rows EXCEPT ![t] = new] /\ new = rows[t] /\ DOMAIN new = DOMAIN rows[t]
          /\ \A j \in DOMAIN rows[t] : new[j] = rows[t][j]
          /\ InBatch(t) => /\ Seen(new, intents, Me(t))
                           /\ \/ Answered(new, intents, IdOf(batch[t].req), Me(t))
                              \/ FailedBefore(batch[t].req.key, batch[t].items, batch[t].failed,
                                              batch[t].next)
      BY <2>2, <2>3, ReplayAnswers
    <2> HIDE DEF new
    <2> QED
      BY <2>1, <2>2, <2>4, ReturnKeeps
  <1>2. CASE Ambiguous(t)
    <2>1. ~InBatch(t)
      BY <1>2, ExistingIsMine DEF Ambiguous
    <2>2. Rollback(t, Error)
      BY <1>2, <2>1 DEF Ambiguous, Raise, InBatch
    <2> QED
      BY <2>2, RollbackAccounts
  <1>3. CASE FindNone(t)
    <2>1. /\ pc[t] = "lookup" /\ pc'[t] = "insert"
          /\ UNCHANGED <<intents, rows, events, req, batch, answer>>
          /\ \A s \in Txns \ {t} : pc'[s] = pc[s]
      BY <1>0, <1>3 DEF FindNone, Shapes
    <2>2. /\ InBatch(t)' = InBatch(t) /\ Me(t)' = Me(t) /\ ~Working(t)'
      BY <2>1 DEF InBatch, Me, IdOf, Working
    <2>3. Asked(t)' /\ Fresh(t)'
      BY <1>0, <2>1, <2>2 DEF Accounts, Asked, Fresh
    <2>4. Running(t)' /\ Ended(t)' /\ Kin(t)'
      BY <1>0, <2>1, <2>2 DEF Accounts, Running, Ended, Kin, Working
    <2>5. Accounts(t)'
      BY <2>3, <2>4 DEF Accounts
    <2> QED
      BY <2>1, <2>5, OneAccount
  <1>4. CASE EntityNotResolved(t)
    <2> DEFINE new == rows[t]
    <2>1. /\ Raise(t, new, Error) /\ DOMAIN new = DOMAIN rows[t]
          /\ pc[t] = "lookup" /\ new = rows[t] /\ Existing(t) = {}
          /\ \A i \in DOMAIN rows[t] : new[i] = rows[t][i] /\ new[i].parent = rows[t][i].parent
      BY <1>4 DEF EntityNotResolved
    <2> HIDE DEF new
    <2> QED
      BY <2>1, RaiseKeeps
  <1> QED
    BY <1>1, <1>2, <1>3, <1>4

(* The INSERT of a key that is new to everybody.                           *)
LEMMA DraftAccounts ==
    ASSUME IInv, AInv, NEW t \in Txns, create_draft(t)
    PROVE  AInv'
  <1> DEFINE row == DraftOf(t)
             new == With(t, Me(t), row)
  <1>1. Shapes /\ Place(t) /\ Asked(t) /\ IsList(req[t].items)
    BY DEF IInv, Typed, SessionOK, SessionTyped, AInv, Accounts
  <1>2. /\ pc[t] = "insert" /\ pc'[t] = "submit" /\ rows'[t] = new
        /\ Me(t) \notin DOMAIN intents /\ Me(t) \notin DOMAIN rows[t]
        /\ UNCHANGED <<intents, events, req, batch, answer>>
        /\ \A s \in Txns \ {t} : pc'[s] = pc[s] /\ rows'[s] = rows[s]
    BY <1>1 DEF create_draft, Shapes
  <1>3. /\ row.wrote = "none" /\ row.job # "SUCCEEDED" /\ row.items = req[t].items
        /\ row.failed = <<>> /\ row.parent = IF InBatch(t) THEN IdOf(batch[t].req) ELSE NoId
    BY DEF DraftOf, InBatch
  <1>4. /\ DOMAIN new = DOMAIN rows[t] \cup {Me(t)} /\ new[Me(t)] = row
        /\ \A i \in DOMAIN rows[t] : i # Me(t) => new[i] = rows[t][i]
    BY DEF With
  <1> HIDE DEF row, new
  <1>5. Origin(Me(t), row)
    <2> SUFFICES ASSUME Me(t)[1] = "BATCH_MUTATION"
                 PROVE  Origin(Me(t), row)
      BY DEF Origin
    <2>1. req[t].type = "BATCH_MUTATION"
      BY DEF Me, IdOf
    <2>2. ~InBatch(t)
      BY <1>1, <1>2, <2>1 DEF Place
    <2>3. req[t] \in Calls
      BY <1>1, <1>2, <2>1, <2>2, RequestKinds DEF Asked
    <2>4. Len(row.failed) = 0 /\ DOMAIN row.failed = {} /\ Len(row.items) \in Nat
      BY <1>1, <1>3 DEF IsList
    <2>5. Len(row.failed) <= Len(row.items)
      BY <2>4
    <2> QED
      BY <1>3, <2>1, <2>3, <2>4, <2>5 DEF Origin
  <1>6. Working(t)'
    BY <1>2 DEF Working
  <1>7. Accounts(t)'
    <2>1. Parented(row, DOMAIN new)
      BY <1>1, <1>3, <1>4 DEF Parented, Place
    <2>2. ~Carried(Me(t), row)
      BY <1>3 DEF Carried
    <2> QED
      BY <1>1, <1>2, <1>3, <1>4, <1>5, <1>6, <2>1, <2>2, RowMoves
  <1> QED
    BY <1>2, <1>7, OneAccount

(* A row keeps its list of items, and of failed ones, when it moves on.    *)
LEMMA MovedKeepsLists ==
    ASSUME NEW row, RowOK(row), NEW status, NEW job, NEW wrote
    PROVE  /\ ToStatus(row, status).items = row.items /\ ToStatus(row, status).failed = row.failed
           /\ ToStatus(row, status).job = row.job /\ ToStatus(row, status).wrote = row.wrote
           /\ ToStatus(row, status).parent = row.parent /\ ToStatus(row, status).status = status
           /\ ToJob(row, status, job).items = row.items /\ ToJob(row, status, job).failed = row.failed
           /\ ToJob(row, status, job).job = job /\ ToJob(row, status, job).wrote = row.wrote
           /\ ToJob(row, status, job).parent = row.parent
           /\ ToWork(row, status, job, wrote).wrote = wrote
           /\ ToWork(row, status, job, wrote).parent = row.parent
  <1>1. PICK a, b, c, d, e, f, g :
            row = [target |-> a, items |-> b, parent |-> c, status |-> d, job |-> e,
                   wrote |-> f, failed |-> g]
    BY RowFields
  <1>2. ToStatus(row, status) = [target |-> a, items |-> b, parent |-> c, status |-> status,
                                 job |-> e, wrote |-> f, failed |-> g]
    BY <1>1 DEF ToStatus
  <1>3. ToJob(row, status, job) = [target |-> a, items |-> b, parent |-> c, status |-> status,
                                   job |-> job, wrote |-> f, failed |-> g]
    <2>1. ToJob(row, status, job) = [ToStatus(row, status) EXCEPT !.job = job]
      BY Zenon DEF ToJob, ToStatus
    <2> QED
      BY <1>2, <2>1
  <1>4. ToWork(row, status, job, wrote) =
            [target |-> a, items |-> b, parent |-> c, status |-> status, job |-> job,
             wrote |-> wrote, failed |-> g]
    <2>1. ToWork(row, status, job, wrote) = [ToJob(row, status, job) EXCEPT !.wrote = wrote]
      BY Zenon DEF ToWork, ToJob
    <2> QED
      BY <1>3, <2>1
  <1> QED
    BY <1>1, <1>2, <1>3, <1>4

(* Rewriting the row of a session's intent leaves the others.              *)
LEMMA WithOthers ==
    ASSUME NEW t \in Txns, NEW row, Me(t) \in DOMAIN rows[t]
    PROVE  /\ DOMAIN With(t, Me(t), row) = DOMAIN rows[t]
           /\ With(t, Me(t), row)[Me(t)] = row
           /\ \A i \in DOMAIN rows[t] : i # Me(t) => With(t, Me(t), row)[i] = rows[t][i]
  BY DEF With

(* The events of the pipeline change the status and the job of the row.    *)
LEMMA AdvanceAccounts ==
    ASSUME IInv, AInv, NEW t \in Txns,
           submit_existing_intent(t) \/ validate_intent(t) \/ approve_intent(t)
    PROVE  AInv'
  <1>1. Shapes /\ Place(t) /\ Fresh(t) /\ Ended(t)
    BY DEF IInv, Typed, SessionOK, AInv, Accounts
  <1>2. Working(t)
    BY DEF submit_existing_intent, validate_intent, approve_intent, Working
  <1>3. Me(t) \in DOMAIN rows[t]
    BY <1>1, <1>2 DEF Place, Working
  <1>4. /\ RowOK(Mine(t)) /\ Mine(t).wrote = "none" /\ Origin(Me(t), Mine(t))
        /\ ~Carried(Me(t), Mine(t)) /\ Parented(Mine(t), DOMAIN rows[t])
    BY <1>1, <1>2, <1>3 DEF IInv, Typed, SessionTyped, Mine, Fresh, Ended, Working
  <1>5. ASSUME NEW row, rows' = [rows EXCEPT ![t] = With(t, Me(t), row)],
               NEW to \in {"validate", "approve", "execute"}, pc' = [pc EXCEPT ![t] = to],
               UNCHANGED <<intents, req, batch, answer>>,
               row.wrote = "none", row.items = Mine(t).items, row.failed = Mine(t).failed,
               row.job \in {Mine(t).job, "RUNNING"}, row.parent = Mine(t).parent,
               to = "approve" => row.status = "VALIDATED"
        PROVE  AInv'
    <2> DEFINE new == With(t, Me(t), row)
    <2>1. /\ DOMAIN new = DOMAIN rows[t] /\ new[Me(t)] = row
          /\ \A i \in DOMAIN rows[t] : i # Me(t) => new[i] = rows[t][i]
      BY <1>3, WithOthers
    <2>2. /\ rows'[t] = new /\ pc'[t] = to
          /\ \A s \in Txns \ {t} : pc'[s] = pc[s] /\ rows'[s] = rows[s]
      BY <1>1, <1>5 DEF Shapes
    <2> HIDE DEF new
    <2>3. Origin(Me(t), row) /\ ~Carried(Me(t), row) /\ Parented(row, DOMAIN new)
      BY <1>4, <1>5, <2>1 DEF Origin, Carried, Parented
    <2>4. Working(t)' /\ DOMAIN new = DOMAIN rows[t] \cup {Me(t)}
      BY <1>3, <2>1, <2>2 DEF Working
    <2>5. Accounts(t)'
      BY <1>1, <1>2, <1>5, <2>1, <2>2, <2>3, <2>4, WorkingIsNew, RowMoves
    <2> QED
      BY <1>5, <2>2, <2>5, OneAccount
  <1>6. CASE submit_existing_intent(t)
    <2> DEFINE row == ToStatus(Mine(t), "SUBMITTED")
    <2>1. /\ row.wrote = "none" /\ row.items = Mine(t).items /\ row.failed = Mine(t).failed
          /\ row.job = Mine(t).job /\ row.parent = Mine(t).parent
      BY <1>4, MovedKeepsLists
    <2>2. /\ rows' = [rows EXCEPT ![t] = With(t, Me(t), row)] /\ pc' = [pc EXCEPT ![t] = "validate"]
          /\ UNCHANGED <<intents, req, batch, answer>>
      BY <1>6 DEF submit_existing_intent, ToStatus
    <2> HIDE DEF row
    <2> QED
      BY <1>5, <2>1, <2>2
  <1>7. CASE validate_intent(t)
    <2> DEFINE row == ToStatus(Mine(t), "VALIDATED")
    <2>1. /\ row.wrote = "none" /\ row.items = Mine(t).items /\ row.failed = Mine(t).failed
          /\ row.job = Mine(t).job /\ row.parent = Mine(t).parent /\ row.status = "VALIDATED"
      BY <1>4, MovedKeepsLists
    <2>2. /\ rows' = [rows EXCEPT ![t] = With(t, Me(t), row)] /\ pc' = [pc EXCEPT ![t] = "approve"]
          /\ UNCHANGED <<intents, req, batch, answer>>
      BY <1>7 DEF validate_intent, ToStatus
    <2> HIDE DEF row
    <2> QED
      BY <1>5, <2>1, <2>2
  <1>8. CASE approve_intent(t)
    <2> DEFINE row == ToJob(Mine(t), "EXECUTING", "RUNNING")
    <2>1. /\ row.wrote = "none" /\ row.items = Mine(t).items /\ row.failed = Mine(t).failed
          /\ row.job = "RUNNING" /\ row.parent = Mine(t).parent
      BY <1>4, MovedKeepsLists
    <2>2. /\ rows' = [rows EXCEPT ![t] = With(t, Me(t), row)] /\ pc' = [pc EXCEPT ![t] = "execute"]
          /\ UNCHANGED <<intents, req, batch, answer>>
      BY <1>8 DEF approve_intent, ToJob
    <2> HIDE DEF row
    <2> QED
      BY <1>5, <2>1, <2>2
  <1> QED
    BY <1>6, <1>7, <1>8

(* The item ends: it is refused, chokes, waits for an approver, is         *)
(* recorded or fails in its executor.                                      *)
LEMMA OutcomeAccounts ==
    ASSUME IInv, AInv, NEW t \in Txns,
           \/ reject_intent(t) \/ BadPayload(t) \/ AwaitApproval(t)
           \/ mark_recorded(t) \/ ExecutorFails(t)
    PROVE  AInv'
  <1>1. Shapes /\ Place(t) /\ Fresh(t)
    BY DEF IInv, Typed, SessionOK, AInv, Accounts
  <1>2. Working(t)
    BY DEF reject_intent, BadPayload, AwaitApproval, mark_recorded, ExecutorFails, Working
  <1>3. Me(t) \in DOMAIN rows[t]
    BY <1>1, <1>2 DEF Place, Working
  <1>4. RowOK(Mine(t)) /\ Mine(t).wrote = "none"
    BY <1>1, <1>2, <1>3 DEF IInv, Typed, SessionTyped, Mine, Fresh
  <1>5. ASSUME NEW row, NEW told, Raise(t, With(t, Me(t), row), told), row.wrote # "all",
               row.parent = Mine(t).parent
        PROVE  AInv'
    <2> DEFINE new == With(t, Me(t), row)
    <2>1. /\ DOMAIN new = DOMAIN rows[t] /\ new[Me(t)] = row
          /\ \A i \in DOMAIN rows[t] : i # Me(t) => new[i] = rows[t][i]
      BY <1>3, WithOthers
    <2>2. Raise(t, new, told)
      BY <1>5
    <2> HIDE DEF new
    <2>3. \A i \in DOMAIN rows[t] : new[i].parent = rows[t][i].parent
      BY <1>5, <2>1 DEF Mine
    <2> QED
      BY <1>2, <1>5, <2>1, <2>2, <2>3, RaiseKeeps
  <1>6. CASE reject_intent(t)
    <2> DEFINE row == ToStatus(Mine(t), "REJECTED")
    <2>1. row.wrote # "all" /\ row.parent = Mine(t).parent
      BY <1>4, MovedKeepsLists
    <2>2. Raise(t, With(t, Me(t), row), Refused)
      BY <1>6 DEF reject_intent, ToStatus
    <2> HIDE DEF row
    <2> QED
      BY <1>5, <2>1, <2>2
  <1>7. CASE BadPayload(t)
    <2>1. Raise(t, rows[t], Error)
      BY <1>7 DEF BadPayload
    <2>2. rows[t][Me(t)].wrote # "all"
      BY <1>4 DEF Mine
    <2> QED
      BY <1>2, <2>1, <2>2, RaiseKeeps
  <1>8. CASE AwaitApproval(t)
    <2> DEFINE new == rows[t]
    <2>1. /\ Return(t, Me(t)) /\ rows' = [rows EXCEPT ![t] = new] /\ DOMAIN new = DOMAIN rows[t]
          /\ \A j \in DOMAIN rows[t] : new[j] = rows[t][j]
      BY <1>1, <1>8 DEF AwaitApproval, Shapes
    <2>2. Seen(new, intents, Me(t))
      BY <1>3 DEF Seen
    <2>3. Answered(new, intents, IdOf(batch[t].req), Me(t))
      BY <1>1, <1>2, <1>3, <1>8 DEF Answered, Settled, AwaitApproval, Fresh, Mine
    <2> HIDE DEF new
    <2> QED
      BY <1>2, <2>1, <2>2, <2>3, ReturnKeeps
  <1>9. CASE mark_recorded(t)
    <2> DEFINE row == ToWork(Mine(t), "RECORDED", "SUCCEEDED", "all")
               new == With(t, Me(t), row)
    <2>1. /\ rows' = [rows EXCEPT ![t] = new] /\ Return(t, Me(t)) /\ req[t].type = "MUTATION"
      BY <1>9 DEF mark_recorded, ToWork
    <2>2. /\ DOMAIN new = DOMAIN rows[t] /\ new[Me(t)] = row
          /\ \A i \in DOMAIN rows[t] : i # Me(t) => new[i] = rows[t][i]
      BY <1>3, WithOthers
    <2>3. row.wrote = "all" /\ row.parent = rows[t][Me(t)].parent
      BY <1>4, MovedKeepsLists DEF Mine
    <2> HIDE DEF row, new
    <2>4. Seen(new, intents, Me(t)) /\ Answered(new, intents, IdOf(batch[t].req), Me(t))
      BY <1>3, <2>2, <2>3 DEF Seen, Answered, Settled
    <2>5. \A i \in DOMAIN rows[t] :
               \/ new[i] = rows[t][i]
               \/ i = Me(t) /\ req[t].type = "MUTATION" /\ new[i].parent = rows[t][i].parent
      BY <2>1, <2>2, <2>3
    <2> QED
      BY <1>2, <2>1, <2>2, <2>4, <2>5, ReturnKeeps
  <1>10. CASE ExecutorFails(t)
    <2>1. PICK wrote \in {"none", "part"} :
            Raise(t, With(t, Me(t), ToWork(Mine(t), "REJECTED", "FAILED", wrote)), Error)
      BY <1>10 DEF ExecutorFails, ToWork
    <2> DEFINE row == ToWork(Mine(t), "REJECTED", "FAILED", wrote)
    <2>2. row.wrote = wrote /\ row.parent = Mine(t).parent
      BY <1>4, MovedKeepsLists
    <2>3. Raise(t, With(t, Me(t), row), Error)
      BY <2>1
    <2> HIDE DEF row
    <2>4. row.wrote # "all"
      BY <2>2
    <2> QED
      BY <1>5, <2>2, <2>3, <2>4
  <1> QED
    BY <1>6, <1>7, <1>8, <1>9, <1>10

(* The items of a batch that starts: those it was sent, or those that      *)
(* failed in the batch it retries, numbered anew.                          *)
LEMMA StartAccounts ==
    ASSUME IInv, AInv, NEW t \in Txns, StartBatch(t)
    PROVE  AInv'
  <1>1. Shapes /\ Place(t) /\ Asked(t) /\ Kin(t) /\ Ended(t) /\ Stored
    BY DEF IInv, Typed, SessionOK, AInv, Accounts
  <1>2. /\ pc[t] = "execute" /\ pc'[t] = "items"
        /\ UNCHANGED <<intents, rows, events, req, answer>>
        /\ \A s \in Txns \ {t} : pc'[s] = pc[s] /\ batch'[s] = batch[s]
        /\ req[t].type \in {"BATCH_MUTATION", "RETRY_BATCH_MUTATION"}
    BY <1>1 DEF StartBatch, Shapes
  <1>3. ~InBatch(t) /\ req[t] \in Calls \cup Retries
    BY <1>1, <1>2 DEF Place, Asked
  <1>4. ASSUME NEW items, batch'[t] = [req |-> req[t], items |-> items, next |-> 1, failed |-> <<>>],
               req[t].type = "BATCH_MUTATION" => items = req[t].items,
               DOMAIN items \subseteq Nat \ {0},
               \A n \in DOMAIN items : ItemNamed(req[t], items, n)
        PROVE  AInv'
    <2>1. /\ batch'[t].req = req[t] /\ batch'[t].items = items /\ batch'[t].next = 1
          /\ batch'[t].failed = <<>>
      BY <1>4
    <2>2. InBatch(t)' /\ ~Working(t)'
      BY <1>2, <2>1 DEF InBatch, NoBatch, NoRequest, Working
    <2>3. Len(batch'[t].failed) < batch'[t].next /\ DOMAIN batch'[t].failed = {}
      BY <2>1
    <2>4. Tried(batch[t])' = {}
      <3>1. \A n \in DOMAIN items : ~(n < 1)
        BY <1>4
      <3> QED
        BY <2>1, <3>1 DEF Tried
    <2>5. Asked(t)'
      BY <1>2, <1>3, <1>4, <2>1, <2>2, <2>3 DEF Asked
    <2>6. Fresh(t)'
      BY <2>2 DEF Fresh
    <2>7. Kin(t)'
      <3>1. DOMAIN rows'[t] \subseteq {Me(t)} /\ Me(t)[1] # "MUTATION"
        BY <1>1, <1>2, <1>3 DEF Kin, Me, IdOf
      <3> QED
        BY <2>2, <3>1 DEF Kin
    <2>8. Running(t)'
      BY <2>3, <2>4 DEF Running, Accounted
    <2>9. Ended(t)'
      BY <1>1, <1>2 DEF Ended
    <2>10. Accounts(t)'
      BY <2>5, <2>6, <2>8, <2>9, <2>7 DEF Accounts
    <2> QED
      BY <1>2, <2>10, OneAccount
  <1>5. CASE req[t].type = "BATCH_MUTATION"
    <2>1. batch'[t] = [req |-> req[t], items |-> req[t].items, next |-> 1, failed |-> <<>>]
      BY <1>1, <1>5 DEF StartBatch, NoBatch, Shapes
    <2>2. req[t] \in Calls
      BY <1>3, <1>5, RequestKinds
    <2>3. \A n \in DOMAIN req[t].items : ItemNamed(req[t], req[t].items, n)
      BY <1>5, <2>2, ItemsNamed
    <2>4. DOMAIN req[t].items \subseteq Nat \ {0}
      BY <2>2, IntentAssumption
    <2> QED
      BY <1>4, <2>1, <2>3, <2>4
  <1>6. CASE req[t].type = "RETRY_BATCH_MUTATION"
    <2> DEFINE of == req[t].of
               parent == View(t)[of]
               again == [n \in DOMAIN parent.failed |->
                            [parent.items[parent.failed[n]] EXCEPT !.key = NoKey]]
    <2>1. /\ of \in DOMAIN View(t)
          /\ batch'[t] = [req |-> req[t], items |-> again, next |-> 1, failed |-> <<>>]
      BY <1>1, <1>6 DEF StartBatch, NoBatch, Shapes
    <2>2. /\ req[t].key \in RetryKeys /\ of[1] = "BATCH_MUTATION"
          /\ IdOf(req[t]) = <<"RETRY_BATCH_MUTATION", DefaultEntity, req[t].key>>
      <3>1. req[t].key \in RetryKeys /\ of \in Batches /\ req[t].entity = DefaultEntity
        BY <1>3, <1>6, RequestKinds
      <3> QED
        BY <1>6, <3>1 DEF Batches, IdOf
    <2>3. RowOK(parent) /\ Origin(of, parent)
      BY <1>1, <2>1 DEF View, IInv, Typed, SessionTyped, Ended, Stored
    <2> HIDE DEF parent, of
    <2>4. PICK r \in Calls : r.type = "BATCH_MUTATION" /\ parent.items = r.items
      BY <2>2, <2>3 DEF Origin
    <2>5. /\ Len(parent.failed) <= Len(r.items)
          /\ \A k \in DOMAIN parent.failed : parent.failed[k] \in DOMAIN r.items
      BY <2>2, <2>3, <2>4 DEF Origin
    <2>6. /\ DOMAIN parent.failed = 1..Len(parent.failed) /\ Len(parent.failed) \in Nat
          /\ DOMAIN r.items = 1..Len(r.items) /\ Len(r.items) \in Nat
      BY <2>3, IntentAssumption DEF RowOK
    <2>7. DOMAIN parent.failed \subseteq DOMAIN r.items /\ DOMAIN parent.failed \subseteq Nat \ {0}
      BY <2>5, <2>6
    <2>8. ASSUME NEW n \in DOMAIN parent.failed
          PROVE  again[n].entity = r.items[parent.failed[n]].entity /\ again[n].key = NoKey
      <3> DEFINE old == r.items[parent.failed[n]]
      <3>1. old = [key |-> old.key, entity |-> old.entity, target |-> old.target]
        BY <2>5, IntentAssumption
      <3>2. again[n] = [old EXCEPT !.key = NoKey]
        BY <2>4
      <3> HIDE DEF old, again
      <3>3. again[n].entity = old.entity /\ again[n].key = NoKey
        BY <3>1, <3>2
      <3> QED
        BY <3>3 DEF old
    <2>9. DOMAIN again = DOMAIN parent.failed
      OBVIOUS
    <2> HIDE DEF again
    <2>10. ASSUME NEW n \in DOMAIN again
           PROVE  ItemNamed(req[t], again, n)
      <3>1. <<<<req[t].key, n>>, r.items[parent.failed[n]].entity, IdOf(req[t])>> \in KeyUses
        BY <2>2, <2>4, <2>5, <2>7, <2>9, ItemsNamed
      <3> QED
        BY <2>8, <2>9, <3>1 DEF ItemNamed
    <2> QED
      BY <1>4, <1>6, <2>1, <2>7, <2>9, <2>10
  <1> QED
    BY <1>2, <1>5, <1>6

(* The batch goes on to its next item, or is recorded with what it noted.  *)
LEMMA ItemsAccounts ==
    ASSUME IInv, AInv, NEW t \in Txns, NextItem(t) \/ EndBatch(t)
    PROVE  AInv'
  <1> DEFINE b == batch[t]
  <1>1. /\ Shapes /\ Place(t) /\ BatchOK(b) /\ Asked(t) /\ Kin(t) /\ Running(t) /\ Ended(t)
        /\ pc[t] = "items"
    BY DEF IInv, Typed, SessionOK, SessionTyped, AInv, Accounts, NextItem, EndBatch
  <1>2. InBatch(t) /\ IdOf(b.req) \in DOMAIN rows[t] /\ b.next >= 1
    BY <1>1 DEF Place
  <1>3. CASE NextItem(t)
    <2>1. /\ req'[t] = ItemRequest(b, b.next) /\ pc'[t] = "lookup"
          /\ UNCHANGED <<intents, rows, events, batch, answer>>
          /\ \A s \in Txns \ {t} : pc'[s] = pc[s] /\ req'[s] = req[s]
      BY <1>1, <1>3 DEF NextItem, Shapes
    <2>2. Me(t)' = ItemOf(b.req.key, b.items, b.next)
      BY <2>1, ItemIdentity DEF Me
    <2>3. InBatch(t)' /\ ~Working(t)'
      BY <1>2, <2>1 DEF InBatch, Working
    <2>4. Asked(t)' /\ Fresh(t)'
      <3>1. req'[t].target = b.items[b.next].target
        BY <2>1 DEF ItemRequest
      <3> QED
        BY <1>1, <1>2, <2>1, <2>2, <2>3, <3>1 DEF Asked, Fresh
    <2>5. Running(t)' /\ Ended(t)' /\ Kin(t)'
      BY <1>1, <1>2, <2>1, <2>3 DEF Running, Ended, Kin, Working
    <2>6. Accounts(t)'
      BY <2>4, <2>5 DEF Accounts
    <2> QED
      BY <2>1, <2>6, OneAccount
  <1>4. CASE EndBatch(t)
    <2> DEFINE id == IdOf(b.req)
               old == rows[t][id]
               status == IF b.failed = <<>> THEN "RECORDED" ELSE "PARTIAL_SUCCESS"
               row == [old EXCEPT !.status = status, !.job = "SUCCEEDED", !.wrote = "all",
                                  !.items = b.items, !.failed = b.failed]
               new == With(t, id, row)
    <2>1. /\ rows' = [rows EXCEPT ![t] = new] /\ req' = [req EXCEPT ![t] = b.req]
          /\ batch' = [batch EXCEPT ![t] = NoBatch] /\ pc' = [pc EXCEPT ![t] = "done"]
          /\ intents' = intents /\ b.next \notin DOMAIN b.items
      BY <1>4 DEF EndBatch
    <2>2. RowOK(old)
      BY <1>2 DEF IInv, Typed, SessionTyped
    <2>3. row.items = b.items /\ row.failed = b.failed /\ row.parent = old.parent
      <3> HIDE DEF status, old
      <3> DEFINE work == ToWork(old, status, "SUCCEEDED", "all")
      <3>1. PICK x, i, c, d, e, f, g :
                /\ work = [target |-> x, items |-> i, parent |-> c, status |-> d, job |-> e,
                           wrote |-> f, failed |-> g]
                /\ c = old.parent
        <4>1. status \in Statuses /\ "SUCCEEDED" \in Jobs /\ "all" \in Extents
          BY DEF status, Statuses, Jobs, Extents
        <4>2. RowOK(work) /\ work.parent = old.parent
          BY <2>2, <4>1, WorkMoved
        <4> HIDE DEF work
        <4>3. PICK x, i, c, d, e, f, g :
                work = [target |-> x, items |-> i, parent |-> c, status |-> d, job |-> e,
                        wrote |-> f, failed |-> g]
          BY <4>2, RowFields
        <4>4. c = old.parent
          BY <4>2, <4>3
        <4> QED
          BY <4>3, <4>4
      <3>2. row = [[work EXCEPT !.items = b.items] EXCEPT !.failed = b.failed]
        BY Zenon DEF ToWork
      <3> HIDE DEF work, row
      <3>3. [work EXCEPT !.items = b.items] =
                [target |-> x, items |-> b.items, parent |-> c, status |-> d, job |-> e,
                 wrote |-> f, failed |-> g]
        BY <3>1
      <3>4. row = [target |-> x, items |-> b.items, parent |-> c, status |-> d, job |-> e,
                   wrote |-> f, failed |-> b.failed]
        BY <3>2, <3>3
      <3> QED
        BY <3>1, <3>4
    <2>4. Parented(row, DOMAIN rows[t])
      BY <1>1, <1>2, <2>3 DEF Ended, Parented
    <2> HIDE DEF row, status, old
    <2>5. /\ DOMAIN new = DOMAIN rows[t] /\ new[id] = row
          /\ \A i \in DOMAIN new : i # id => new[i] = rows[t][i]
      BY <1>2 DEF With
    <2> HIDE DEF new
    <2>6. /\ rows'[t] = new /\ req'[t] = b.req /\ batch'[t] = NoBatch /\ pc'[t] = "done"
          /\ \A s \in Txns \ {t} : /\ rows'[s] = rows[s] /\ pc'[s] = pc[s] /\ req'[s] = req[s]
                                   /\ batch'[s] = batch[s]
      BY <1>1, <2>1 DEF Shapes
    <2>7. ~InBatch(t)' /\ ~Working(t)'
      BY <2>6 DEF InBatch, Working
    <2>8. Asked(t)' /\ Fresh(t)' /\ Kin(t)' /\ Running(t)'
      BY <1>1, <1>2, <2>6, <2>7 DEF Asked, Fresh, Kin, Running
    <2>9. id[1] = b.req.type /\ id[3] = b.req.key /\ id[1] # "MUTATION"
      BY <1>1, <1>2 DEF IdOf, Place
    <2>10. b.next = Len(b.items) + 1 /\ DOMAIN b.items = 1..Len(b.items) /\ Len(b.items) \in Nat
      BY <1>1, <1>2, <2>1 DEF BatchOK, IsList
    <2>11. Tried(b) = DOMAIN b.items
      BY <2>10 DEF Tried
    <2>12. Accounted(rows[t], intents, IdOf(b.req), b.req.key, b.items, b.failed, DOMAIN b.items)
      BY <1>1, <1>2, <2>11 DEF Running
    <2>13. Accounted(new, intents, id, id[3], row.items, row.failed, DOMAIN row.items)
      <3>1. \A n \in DOMAIN b.items : ItemOf(b.req.key, b.items, n) # id
        BY <2>9 DEF ItemOf
      <3>2. \A n \in DOMAIN b.items :
                Keeps(rows[t], intents, new, intents, IdOf(b.req), ItemOf(b.req.key, b.items, n))
        BY <2>5, <3>1 DEF Keeps
      <3>3. Accounted(new, intents, IdOf(b.req), b.req.key, b.items, b.failed, DOMAIN b.items)
        BY <2>12, <3>2, StillAccounted
      <3> QED
        BY <2>3, <2>9, <3>3
    <2>14. Origin(id, row)
      <3> SUFFICES ASSUME id[1] = "BATCH_MUTATION" PROVE Origin(id, row)
        BY DEF Origin
      <3>1. b.req.type = "BATCH_MUTATION" /\ b.items = b.req.items /\ b.req \in Calls
        BY <1>1, <1>2, <2>9, RequestKinds DEF Asked
      <3>2. Len(b.failed) < b.next /\ Len(b.failed) \in Nat
        BY <1>1, <1>2 DEF Asked, BatchOK
      <3>3. Len(row.failed) <= Len(row.items)
        BY <2>3, <2>10, <3>2
      <3>4. \A k \in DOMAIN row.failed : row.failed[k] \in DOMAIN row.items
        BY <2>3, <2>12 DEF Accounted
      <3> QED
        BY <2>3, <3>1, <3>3, <3>4 DEF Origin
    <2>15. Ended(t)'
      <3> SUFFICES ASSUME NEW i \in DOMAIN new
                   PROVE  /\ Named(i, DOMAIN new) /\ Origin(i, new[i]) /\ Parented(new[i], DOMAIN new)
                          /\ Carried(i, new[i]) =>
                                Accounted(new, intents, i, i[3], new[i].items, new[i].failed,
                                          DOMAIN new[i].items)
        BY <2>1, <2>6 DEF Ended
      <3>1. CASE i = id
        BY <1>1, <2>5, <2>13, <2>14, <2>4, <3>1 DEF Ended
      <3>2. CASE i # id
        BY <1>1, <2>5, <3>2 DEF Ended
      <3> QED
        BY <3>1, <3>2
    <2>16. Accounts(t)'
      BY <2>8, <2>15 DEF Accounts
    <2> QED
      BY <2>1, <2>6, <2>16, OneAccount
  <1> QED
    BY <1>3, <1>4

(* The rows of a session name no batch that is stored or of another one.   *)
LEMMA ForeignParents ==
    ASSUME IInv, AInv, NEW t \in Txns, NEW i \in DOMAIN rows[t]
    PROVE  /\ rows[t][i].parent \notin DOMAIN intents
           /\ \A s \in Txns \ {t} : rows[t][i].parent \notin DOMAIN rows[s]
  <1>1. rows[t][i].parent \in DOMAIN rows[t] \cup {NoId}
    BY DEF AInv, Accounts, Ended, Parented
  <1>2. \A j : j = <<j[1], j[2], j[3]>> => j # NoId
    BY DEF NoId
  <1>3. NoId \notin DOMAIN intents
    BY <1>2 DEF AInv, Stored, Named
  <1>4. \A s \in Txns : NoId \notin DOMAIN rows[s]
    BY <1>2 DEF AInv, Accounts, Ended, Named
  <1> QED
    BY <1>1, <1>3, <1>4 DEF IInv, Apart

(* What a session saw is stored when it commits.                           *)
LEMMA CommitAccounts ==
    ASSUME IInv, AInv, NEW t \in Txns, Commit(t)
    PROVE  AInv'
  <1>1. /\ DOMAIN intents' = DOMAIN intents \cup DOMAIN rows[t]
        /\ \A i \in DOMAIN intents : intents'[i] = intents[i]
        /\ \A i \in DOMAIN rows[t] : intents'[i] = rows[t][i]
    BY CommitFacts
  <1>2. Shapes /\ Ended(t) /\ Stored
    BY DEF IInv, Typed, AInv, Accounts
  <1>3. /\ rows'[t] = <<>> /\ pc'[t] = "idle" /\ batch'[t] = NoBatch /\ req' = req
        /\ \A s \in Txns \ {t} : rows'[s] = rows[s] /\ pc'[s] = pc[s] /\ batch'[s] = batch[s]
    BY <1>2 DEF Commit, Finish, Shapes
  <1>4. DOMAIN rows'[t] = {} /\ ~InBatch(t)' /\ ~Working(t)'
    BY <1>3 DEF InBatch, Working
  <1>5. Accounts(t)'
    BY <1>3, <1>4 DEF Accounts, Asked, Fresh, Kin, Running, Ended
  <1>6. ASSUME NEW s \in Txns PROVE Accounts(s)'
    <2>1. CASE s = t
      BY <1>5, <2>1
    <2>2. CASE s # t
      <3>1. \A i \in DOMAIN intents' \ DOMAIN intents : intents'[i].parent \notin DOMAIN rows[s]
        BY <1>1, <1>6, <2>2, ForeignParents
      <3>2. Place(s) /\ Accounts(s)
        BY DEF IInv, SessionOK, AInv
      <3> QED
        BY <1>1, <1>3, <2>2, <3>1, <3>2, BystanderAccounts
    <2> QED
      BY <2>1, <2>2
  <1>7. Stored'
    <2> SUFFICES ASSUME NEW i \in DOMAIN intents'
                 PROVE  /\ Named(i, DOMAIN intents') /\ Origin(i, intents'[i])
                        /\ Parented(intents'[i], DOMAIN intents')
                        /\ Carried(i, intents'[i]) =>
                                Accounted(intents', intents', i, i[3], intents'[i].items,
                                          intents'[i].failed, DOMAIN intents'[i].items)
      BY DEF Stored
    <2>1. CASE i \in DOMAIN intents
      <3>0. \A j \in DOMAIN rows[t] : rows[t][j].parent # i
        BY <2>1, ForeignParents
      <3>1. \A j : Keeps(intents, intents, intents', intents', i, j)
        BY <1>1, <3>0 DEF Keeps, Harmless
      <3>2. /\ Named(i, DOMAIN intents) /\ Origin(i, intents[i])
            /\ Parented(intents[i], DOMAIN intents)
            /\ Carried(i, intents[i]) =>
                    Accounted(intents, intents, i, i[3], intents[i].items, intents[i].failed,
                              DOMAIN intents[i].items)
        BY <1>2, <2>1 DEF Stored
      <3>3. Carried(i, intents[i]) =>
                    Accounted(intents', intents', i, i[3], intents[i].items, intents[i].failed,
                              DOMAIN intents[i].items)
        BY <3>1, <3>2, StillAccounted
      <3>4. Named(i, DOMAIN intents') /\ Parented(intents[i], DOMAIN intents')
        BY <1>1, <3>2 DEF Named, Parented
      <3> QED
        BY <1>1, <2>1, <3>2, <3>3, <3>4
    <2>2. CASE i \in DOMAIN rows[t]
      <3>1. \A j : Keeps(rows[t], intents, intents', intents', i, j)
        BY <1>1 DEF Keeps
      <3>2. /\ Named(i, DOMAIN rows[t]) /\ Origin(i, rows[t][i])
            /\ Parented(rows[t][i], DOMAIN rows[t])
            /\ Carried(i, rows[t][i]) =>
                    Accounted(rows[t], intents, i, i[3], rows[t][i].items, rows[t][i].failed,
                              DOMAIN rows[t][i].items)
        BY <1>2, <2>2 DEF Ended
      <3>3. Carried(i, rows[t][i]) =>
                    Accounted(intents', intents', i, i[3], rows[t][i].items, rows[t][i].failed,
                              DOMAIN rows[t][i].items)
        BY <3>1, <3>2, StillAccounted
      <3>4. Named(i, DOMAIN intents') /\ Parented(rows[t][i], DOMAIN intents')
        BY <1>1, <3>2 DEF Named, Parented
      <3> QED
        BY <1>1, <2>2, <3>2, <3>3, <3>4
    <2> QED
      BY <1>1, <2>1, <2>2
  <1> QED
    BY <1>6, <1>7 DEF AInv

(* The first state has no batch.                                           *)
LEMMA InitAInv == Init => AInv
  <1> SUFFICES ASSUME Init PROVE AInv
    OBVIOUS
  <1>1. DOMAIN intents = {} /\ \A t \in Txns : DOMAIN rows[t] = {}
    BY DEF Init
  <1>2. \A t \in Txns : pc[t] = "idle" /\ ~InBatch(t) /\ ~Working(t)
    BY DEF Init, InBatch, Working
  <1> QED
    BY <1>1, <1>2 DEF AInv, Stored, Accounts, Asked, Fresh, Kin, Running, Ended

(* Every step keeps the account.                                           *)
LEMMA StepAInv ==
    ASSUME OneEntityPerKey, IInv, AInv, [Next]_vars
    PROVE  AInv'
  <1>1. CASE UNCHANGED vars
    <2>1. UNCHANGED <<intents, rows, events, pc, req, batch, answer>>
      BY <1>1 DEF vars
    <2>2. \A s \in Txns : Accounts(s)'
      BY <2>1, BystanderAccounts DEF IInv, SessionOK, AInv
    <2>3. Stored'
      BY <2>1 DEF AInv, Stored
    <2> QED
      BY <2>2, <2>3 DEF AInv
  <1>2. ASSUME NEW t \in Txns,
               IntegrityError(t) \/ ParentNotFound(t) \/ DeadlockAbort(t) \/ Fail(t)
        PROVE  AInv'
    BY <1>2, RollbackAccounts DEF IntegrityError, ParentNotFound, DeadlockAbort, Fail
  <1>3. CASE Next
    BY <1>2, <1>3, CallAccounts, LookupAccounts, DraftAccounts, AdvanceAccounts, OutcomeAccounts,
       StartAccounts, ItemsAccounts, CommitAccounts DEF Next, Step
  <1> QED
    BY <1>1, <1>3

(* A batch accounts for its items where entities share no key: one it      *)
(* reports as failed it did not carry out, unless for a later item with    *)
(* its key; every other one is stored, and was carried out or waits for an *)
(* approver, unless its key had been used before                           *)
(* (BatchMutationExecutor, RetryBatchMutationExecutor, _resolve_entity).   *)
THEOREM PipelineBatchAccountsForItems == Spec => []BatchAccountsForItems
  <1> DEFINE Account == OneEntityPerKey => AInv
  <1>1. Init => Account
    BY InitAInv
  <1>2. IInv /\ Account /\ [Next]_vars => Account'
    BY StepAInv
  <1>3. Account => BatchAccountsForItems
    <2> DEFINE Passed(b, n) ==
                 \/ ~CarriedOut(b, n)
                 \/ \E m \in DOMAIN intents[b].items \ FailedItems(b) :
                        m > n /\ ItemIntent(b, m) = ItemIntent(b, n)
               Stands(b, n) ==
                 /\ ItemIntent(b, n) \in DOMAIN intents
                 /\ \/ intents[ItemIntent(b, n)].wrote = "all"
                    \/ intents[ItemIntent(b, n)].status = "VALIDATED"
                    \/ intents[ItemIntent(b, n)].parent # b
                    \/ \E m \in FailedItems(b) : m < n /\ ItemIntent(b, m) = ItemIntent(b, n)
    <2>1. ASSUME Account, OneEntityPerKey, NEW b \in DOMAIN intents,
                 NEW n \in DOMAIN intents[b].items, Carried(b, intents[b])
          PROVE  IF n \in FailedItems(b) THEN Passed(b, n) ELSE Stands(b, n)
      <3> DEFINE items == intents[b].items
                 failed == intents[b].failed
                 item(m) == ItemOf(b[3], items, m)
      <3>1. \A m : ItemIntent(b, m) = item(m)
        BY DEF ItemIntent, ItemRequest, ItemOf, IdOf, NoRequest
      <3>2. Accounted(intents, intents, b, b[3], items, failed, DOMAIN items)
        BY <2>1 DEF AInv, Stored
      <3>3. \A m \in DOMAIN items : m \in FailedItems(b) <=> FailedAt(failed, m)
        BY DEF FailedItems, FailedAt
      <3>4. CASE FailedAt(failed, n)
        <4>1. \/ Undone(intents, intents, b, b[3], items, n)
              \/ PassedLater(b[3], items, failed, DOMAIN items, n)
          BY <3>2, <3>4 DEF Accounted, FailedAt
        <4>2. CASE Undone(intents, intents, b, b[3], items, n)
          BY <3>1, <3>3, <3>4, <4>2 DEF Undone, UndoneRow, Harmless, CarriedOut
        <4>3. CASE PassedLater(b[3], items, failed, DOMAIN items, n)
          BY <3>1, <3>3, <3>4, <4>3 DEF PassedLater
        <4> QED
          BY <4>1, <4>2, <4>3
      <3>5. CASE ~FailedAt(failed, n)
        <4>1. /\ Seen(intents, intents, item(n))
              /\ \/ Answered(intents, intents, b, item(n))
                 \/ FailedBefore(b[3], items, failed, n)
          BY <3>2, <3>5 DEF Accounted
        <4>2. item(n) \in DOMAIN intents
          BY <4>1 DEF Seen
        <4>3. CASE Answered(intents, intents, b, item(n))
          BY <3>1, <3>3, <3>5, <4>2, <4>3 DEF Answered, Settled
        <4>4. CASE FailedBefore(b[3], items, failed, n)
          <5>1. PICK k \in DOMAIN failed : failed[k] < n /\ item(failed[k]) = item(n)
            BY <4>4 DEF FailedBefore
          <5>2. failed[k] \in FailedItems(b)
            BY <3>2 DEF Accounted, FailedItems
          <5>3. Stands(b, n)
            BY <3>1, <4>2, <5>1, <5>2
          <5> QED
            BY <3>3, <3>5, <5>3
        <4> QED
          BY <4>1, <4>3, <4>4
      <3> QED
        BY <3>4, <3>5
    <2> QED
      BY <2>1 DEF BatchAccountsForItems, Carried
  <1> HIDE DEF Account
  <1> QED
    BY <1>1, <1>2, <1>3, PipelineInvariant, PTL DEF Spec

===============================================================================
