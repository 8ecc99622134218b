---------------------------- MODULE BillingProofs ----------------------------
(***************************************************************************)
(* What Billing promises for every number of workers, retries and events.  *)
(* The invariant that carries the proof relates the retry count of a row,  *)
(* which is copied from old rows by everyone who appends one, to the       *)
(* failed attempts that went before; the revisions of the invoice to the   *)
(* payments; and what a transaction has read to the tables as they are.    *)
(***************************************************************************)
EXTENDS Billing, FiniteSetTheorems, TLAPS

(* A row of tenant_subscriptions.                                          *)
Rows == [status : Statuses, retry : Int, event : 0..MaxEvents,
         by : {"signup", "hook", "task", "trial", "api"}]

Revisions == [status : {"open", "paid", "uncollectible"}, event : 0..MaxEvents]

Runs == [at : {"idle", "charge", "commit"}, paid : BOOLEAN, seen : Rows]

(* The failed attempts among the first i rows of s, and among all.         *)
Fails(s, i) == {j \in 1..i : s[j].by = "task" /\ s[j].status # "active"}
Failures(s) == Cardinality(Fails(s, Len(s)))

(* The count the first row began with, and the most a new row may copy.    *)
Start(s) == IF s[1].retry > 0 THEN s[1].retry ELSE 0
Bound(s) == Start(s) + Failures(s)

(* What a row says by itself: the task cancels at the limit and            *)
(* reactivates when the provider has confirmed the payment.                *)
RowOK(row, paid) ==
    /\ row.by = "task" /\ row.status = "cancelled" => row.retry >= MaxRetries
    /\ row.by = "task" /\ row.status = "active" => paid

(* The count of a row never exceeds the failures up to it and what the row *)
(* the invoice was raised for began with.                                  *)
RowsOK(s, paid) ==
    \A i \in 1..Len(s) : RowOK(s[i], paid) /\ s[i].retry <= Start(s) + Cardinality(Fails(s, i))

(* The provider says the invoice is paid when it has confirmed it.         *)
EventsOK == \A e \in DOMAIN issued : issued[e] = "invoice.paid" => Confirmed

InvoicesOK ==
    /\ PaymentsExplainInvoice
    /\ \A i, j \in DOMAIN invoices :
        invoices[i].event = invoices[j].event /\ invoices[i].event # 0 => i = j
    /\ \A i \in DOMAIN invoices : invoices[i].status = "paid" => Confirmed

(* A webhook past its claim works on an event that is not claimed yet.     *)
HookOK ==
    hook.event # 0 =>
        /\ hook.event \in DOMAIN issued
        /\ hook.event \notin claims
        /\ hook.seen.retry <= Bound(subs)

(* A run of the task started from a row of the table, and has been paid    *)
(* only if the provider said so; so has a call.                            *)
TaskOK(w) ==
    /\ task[w].at # "idle" => task[w].seen.retry <= Bound(subs)
    /\ task[w].at = "commit" /\ task[w].paid => Confirmed

PayOK == \A r \in Requests : pay[r] = "commit" => Confirmed

IInv ==
    /\ TypeOK
    /\ RowsOK(subs, Confirmed)
    /\ EventsOK
    /\ InvoicesOK
    /\ HookOK
    /\ \A w \in Workers : TaskOK(w)
    /\ PayOK

--------------------------------------------------------------------------------
(* Sequences of rows.                                                      *)

(* t is s with rows appended.                                              *)
Extends(s, t) ==
    /\ s \in Seq(Rows) /\ t \in Seq(Rows)
    /\ Len(s) <= Len(t)
    /\ \A i \in 1..Len(s) : t[i] = s[i]

(* The failures up to a row are finitely many, and no fewer further on.    *)
LEMMA FailsFinite ==
    ASSUME NEW s, NEW i \in Nat
    PROVE  IsFiniteSet(Fails(s, i)) /\ Cardinality(Fails(s, i)) \in Nat
<1>1. IsFiniteSet(1..i)
  BY FS_Interval
<1>2. Fails(s, i) \subseteq 1..i
  BY DEF Fails
<1>. QED
  BY <1>1, <1>2, FS_Subset, FS_CardinalityType

LEMMA FailsMonotone ==
    ASSUME NEW s, NEW i \in Nat, NEW j \in Nat, i <= j
    PROVE  Cardinality(Fails(s, i)) <= Cardinality(Fails(s, j))
<1>1. Fails(s, i) \subseteq Fails(s, j)
  BY DEF Fails
<1>. QED
  BY <1>1, FailsFinite, FS_Subset

(* Rows appended later do not change the failures up to an old row.        *)
LEMMA FailsKept ==
    ASSUME NEW s, NEW t, Extends(s, t), NEW i \in 0..Len(s)
    PROVE  Fails(t, i) = Fails(s, i)
<1>1. \A j \in 1..i : j \in 1..Len(s)
  BY DEF Extends
<1>. QED
  BY <1>1 DEF Extends, Fails

LEMMA FailuresGrow ==
    ASSUME NEW s, NEW t, Extends(s, t)
    PROVE  Failures(s) \in Nat /\ Failures(t) \in Nat /\ Failures(s) <= Failures(t)
<1>1. Len(s) \in Nat /\ Len(t) \in Nat /\ Len(s) <= Len(t)
  BY DEF Extends
<1>2. Fails(t, Len(s)) = Fails(s, Len(s))
  BY <1>1, FailsKept
<1>. QED
  BY <1>1, <1>2, FailsFinite, FailsMonotone DEF Failures

LEMMA BoundGrows ==
    ASSUME NEW s, NEW t, Extends(s, t), s # <<>>
    PROVE  /\ Start(s) \in Nat /\ Start(t) = Start(s)
           /\ s[1].retry \in Int /\ s[1].retry <= Start(s)
           /\ Bound(s) \in Nat /\ Bound(t) \in Nat /\ Bound(s) <= Bound(t)
<1>1. t[1] = s[1] /\ s[1] \in Rows
  BY DEF Extends
<1>2. s[1].retry \in Int
  BY <1>1 DEF Rows
<1>3. Start(s) \in Nat /\ s[1].retry <= Start(s) /\ Start(t) = Start(s)
  BY <1>1, <1>2 DEF Start
<1>. QED
  BY <1>2, <1>3, FailuresGrow DEF Bound

(* A failed attempt that is appended is one more failure.                  *)
LEMMA OneMoreFailure ==
    ASSUME NEW s, NEW t, Extends(s, t), Len(t) = Len(s) + 1,
           t[Len(t)].by = "task", t[Len(t)].status # "active"
    PROVE  Failures(t) = Failures(s) + 1
<1>1. Len(s) \in Nat /\ Len(t) \in Nat
  BY DEF Extends
<1>2. Fails(t, Len(s)) = Fails(s, Len(s))
  BY <1>1, FailsKept
<1>3. Fails(t, Len(t)) = Fails(t, Len(s)) \cup {Len(t)}
  BY <1>1 DEF Fails
<1>4. Len(t) \notin Fails(s, Len(s))
  BY <1>1 DEF Fails
<1>5. IsFiniteSet(Fails(s, Len(s)))
  BY <1>1, FailsFinite
<1>6. Cardinality(Fails(s, Len(s)) \cup {Len(t)}) = Cardinality(Fails(s, Len(s))) + 1
  BY <1>4, <1>5, FS_AddElement
<1>. QED
  BY <1>2, <1>3, <1>6 DEF Failures

(* The rows stay in order when each new one is, and counts no more than    *)
(* the failures before it or, if it is one itself, one more.               *)
LEMMA RowsGrow ==
    ASSUME NEW s, NEW t, NEW c, NEW d, Extends(s, t), s # <<>>, RowsOK(s, c), c => d,
           \A i \in Len(s) + 1..Len(t) :
               /\ RowOK(t[i], d)
               /\ t[i].retry <= Start(s) + Cardinality(Fails(t, i))
    PROVE  RowsOK(t, d)
<1>1. Len(s) \in Nat /\ Len(t) \in Nat /\ Len(s) <= Len(t) /\ Len(s) >= 1
  BY DEF Extends
<1>2. Start(t) = Start(s)
  BY BoundGrows
<1>3. ASSUME NEW i \in 1..Len(t)
      PROVE  RowOK(t[i], d) /\ t[i].retry <= Start(s) + Cardinality(Fails(t, i))
  <2>1. CASE i \in 1..Len(s)
    <3>1. t[i] = s[i]
      BY <2>1 DEF Extends
    <3>2. Fails(t, i) = Fails(s, i)
      BY <2>1, <1>1, FailsKept
    <3>3. RowOK(s[i], c) /\ s[i].retry <= Start(s) + Cardinality(Fails(s, i))
      BY <2>1 DEF RowsOK
    <3>. QED
      BY <3>1, <3>2, <3>3 DEF RowOK
  <2>2. CASE i \in Len(s) + 1..Len(t)
    BY <2>2
  <2>. QED
    BY <1>1, <2>1, <2>2
<1>. QED
  BY <1>2, <1>3 DEF RowsOK

(* The row that a webhook, a call of the API or a paid run appends.        *)
LEMMA AppendRow ==
    ASSUME NEW s \in Seq(Rows), NEW row \in Rows, NEW c, s # <<>>, RowsOK(s, c),
           RowOK(row, c), row.retry <= Bound(s)
    PROVE  Extends(s, Append(s, row)) /\ RowsOK(Append(s, row), c)
<1> DEFINE t == Append(s, row)
<1>1. /\ t \in Seq(Rows) /\ Len(t) = Len(s) + 1 /\ Len(s) \in Nat
      /\ t[Len(t)] = row
      /\ \A i \in 1..Len(s) : t[i] = s[i]
  OBVIOUS
<1>2. Extends(s, t)
  BY <1>1 DEF Extends
<1>. HIDE DEF t
<1>3. /\ Bound(s) \in Nat /\ Bound(t) \in Nat /\ Bound(s) <= Bound(t)
      /\ Bound(t) = Start(s) + Failures(t) /\ row.retry \in Int
  BY <1>2, BoundGrows DEF Bound, Rows
<1>4. row.retry <= Start(s) + Failures(t)
  BY <1>3
<1>5. ASSUME NEW i \in Len(s) + 1..Len(t)
      PROVE  RowOK(t[i], c) /\ t[i].retry <= Start(s) + Cardinality(Fails(t, i))
  <2>1. i = Len(t) /\ t[i] = row
    BY <1>1
  <2>. QED
    BY <2>1, <1>4 DEF Failures
<1>6. RowsOK(t, c)
  BY <1>2, <1>5, RowsGrow
<1>. QED
  BY <1>2, <1>6 DEF t

(* The row that a failed attempt appends.                                  *)
LEMMA AppendFailure ==
    ASSUME NEW s \in Seq(Rows), NEW row \in Rows, NEW c, s # <<>>, RowsOK(s, c),
           RowOK(row, c), row.retry <= Bound(s) + 1,
           row.by = "task", row.status # "active"
    PROVE  Extends(s, Append(s, row)) /\ RowsOK(Append(s, row), c)
<1> DEFINE t == Append(s, row)
<1>1. /\ t \in Seq(Rows) /\ Len(t) = Len(s) + 1 /\ Len(s) \in Nat
      /\ t[Len(t)] = row
      /\ \A i \in 1..Len(s) : t[i] = s[i]
  OBVIOUS
<1>2. Extends(s, t)
  BY <1>1 DEF Extends
<1>. HIDE DEF t
<1>3. Failures(t) = Failures(s) + 1 /\ Failures(s) \in Nat
  BY <1>1, <1>2, OneMoreFailure, FailuresGrow
<1>4. Start(s) \in Nat /\ row.retry \in Int
  BY <1>2, BoundGrows DEF Rows
<1>5. row.retry <= Start(s) + Failures(t)
  BY <1>3, <1>4 DEF Bound
<1>6. ASSUME NEW i \in Len(s) + 1..Len(t)
      PROVE  RowOK(t[i], c) /\ t[i].retry <= Start(s) + Cardinality(Fails(t, i))
  <2>1. i = Len(t) /\ t[i] = row
    BY <1>1
  <2>. QED
    BY <2>1, <1>5 DEF Failures
<1>7. RowsOK(t, c)
  BY <1>2, <1>6, RowsGrow
<1>. QED
  BY <1>2, <1>7 DEF t

(* The rows that a trial task appends, all alike.                          *)
LEMMA Concatenated ==
    ASSUME NEW s \in Seq(Rows), NEW row \in Rows, NEW n \in Nat, NEW t,
           t = s \o [i \in 1..n |-> row]
    PROVE  /\ t \in Seq(Rows) /\ Len(t) = Len(s) + n /\ Len(s) \in Nat
           /\ \A i \in 1..Len(s) : t[i] = s[i]
           /\ \A i \in Len(s) + 1..Len(s) + n : t[i] = row
<1> DEFINE u == [i \in 1..n |-> row]
<1>1. u \in Seq(Rows) /\ Len(u) = n /\ \A i \in 1..n : u[i] = row
  OBVIOUS
<1>2. t = s \o u
  OBVIOUS
<1>. HIDE DEF u
<1>3. /\ t \in Seq(Rows) /\ Len(t) = Len(s) + n /\ Len(s) \in Nat
      /\ \A i \in 1..Len(s) : t[i] = s[i]
      /\ \A i \in Len(s) + 1..Len(s) + n : t[i] = u[i - Len(s)]
  BY <1>1, <1>2
<1>. QED
  BY <1>1, <1>3

LEMMA AppendRows ==
    ASSUME NEW s \in Seq(Rows), NEW row \in Rows, NEW c, s # <<>>, RowsOK(s, c),
           RowOK(row, c), row.retry = s[1].retry, NEW n \in Nat
    PROVE  /\ Extends(s, s \o [i \in 1..n |-> row])
           /\ RowsOK(s \o [i \in 1..n |-> row], c)
<1> DEFINE t == s \o [i \in 1..n |-> row]
<1>0. t = s \o [i \in 1..n |-> row]
  OBVIOUS
<1>. HIDE DEF t
<1>1. /\ t \in Seq(Rows) /\ Len(t) = Len(s) + n /\ Len(s) \in Nat
      /\ \A i \in 1..Len(s) : t[i] = s[i]
      /\ \A i \in Len(s) + 1..Len(s) + n : t[i] = row
  BY ONLY s \in Seq(Rows), n \in Nat, row \in Rows, <1>0, Concatenated
<1>2. Extends(s, t)
  BY <1>1 DEF Extends
<1>3. ASSUME NEW i \in Len(s) + 1..Len(t)
      PROVE  RowOK(t[i], c) /\ t[i].retry <= Start(s) + Cardinality(Fails(t, i))
  <2>1. Cardinality(Fails(t, i)) \in Nat
    BY <1>1, FailsFinite
  <2>2. t[i] = row
    BY <1>1
  <2>3. Start(s) \in Nat /\ s[1].retry \in Int /\ s[1].retry <= Start(s)
    BY <1>2, BoundGrows
  <2>. QED
    BY <2>1, <2>2, <2>3
<1>4. RowsOK(t, c)
  BY <1>2, <1>3, RowsGrow
<1>. QED
  BY <1>2, <1>4 DEF t

--------------------------------------------------------------------------------
(* Steps that leave parts of the state alone.                              *)

(* The typing of the tables and of the transactions, with the sets above.  *)
LEMMA Typing ==
    TypeOK <=>
        /\ settled \in {"no", "reported", "collected"}
        /\ issued \in Seq(EventTypes) /\ Len(issued) <= MaxEvents
        /\ claims \subseteq DOMAIN issued
        /\ invoices \in Seq(Revisions)
        /\ payments \subseteq DOMAIN issued
        /\ subs \in Seq(Rows) /\ subs # <<>>
        /\ hook \in [event : 0..MaxEvents, seen : Rows]
        /\ task \in [Workers -> Runs]
        /\ pay \in [Requests -> {"open", "commit", "done"}]
        /\ cleanups \in 0..MaxCleanups
BY Zenon DEF TypeOK, Rows, Revisions, Runs

(* No event is withdrawn or changed.                                       *)
IssuedKept ==
    DOMAIN issued \subseteq DOMAIN issued' /\ \A e \in DOMAIN issued : issued'[e] = issued[e]

(* The provider's event, if there is room for it.                          *)
LEMMA Emits ==
    ASSUME TypeOK, EventsOK, NEW type \in EventTypes, Emit(type) \/ UNCHANGED issued,
           Confirmed => Confirmed', type = "invoice.paid" => Confirmed'
    PROVE  /\ issued' \in Seq(EventTypes) /\ Len(issued') <= MaxEvents
           /\ IssuedKept
           /\ EventsOK'
<1>1. issued \in Seq(EventTypes) /\ Len(issued) <= MaxEvents /\ MaxEvents \in Nat
  BY BillingAssumption DEF TypeOK
<1>2. CASE issued' = issued
  BY <1>1, <1>2 DEF IssuedKept, EventsOK
<1>3. CASE Len(issued) < MaxEvents /\ issued' = Append(issued, type)
  <2>1. issued' \in Seq(EventTypes) /\ Len(issued') = Len(issued) + 1
    BY <1>1, <1>3
  <2>2. \A e \in 1..Len(issued) : issued'[e] = issued[e]
    BY <1>1, <1>3
  <2>3. issued'[Len(issued) + 1] = type
    BY <1>1, <1>3
  <2>4. DOMAIN issued = 1..Len(issued) /\ DOMAIN issued' = 1..Len(issued) + 1
    BY <1>1, <2>1
  <2>5. Len(issued') <= MaxEvents /\ IssuedKept
    <3>1. Len(issued) \in Nat
      BY <1>1
    <3>2. Len(issued') <= MaxEvents
      BY <1>1, <1>3, <2>1, <3>1
    <3>3. DOMAIN issued \subseteq DOMAIN issued'
      BY <2>4, <3>1
    <3>. QED
      BY <2>2, <2>4, <3>2, <3>3 DEF IssuedKept
  <2>6. ASSUME NEW e \in DOMAIN issued', issued'[e] = "invoice.paid" PROVE Confirmed'
    <3>1. CASE e \in DOMAIN issued
      BY <2>2, <2>4, <2>6, <3>1 DEF EventsOK
    <3>2. CASE e = Len(issued) + 1
      BY <2>3, <2>6, <3>2
    <3>. QED
      BY <1>1, <2>4, <3>1, <3>2
  <2>. QED
    BY <2>1, <2>5, <2>6 DEF EventsOK
<1>4. issued' = issued \/ (Len(issued) < MaxEvents /\ issued' = Append(issued, type))
  BY DEF Emit
<1>. QED
  BY <1>2, <1>3, <1>4

LEMMA HookKept ==
    ASSUME HookOK, UNCHANGED <<hook, claims>>, IssuedKept,
           Extends(subs, subs'), TypeOK
    PROVE  HookOK'
<1>1. Bound(subs) \in Nat /\ Bound(subs') \in Nat /\ Bound(subs) <= Bound(subs')
  BY BoundGrows, Typing
<1>2. hook.seen.retry \in Int
  BY Typing DEF Rows
<1>3. Bound(subs)' = Bound(subs')
  BY DEF Bound, Start, Failures, Fails
<1>. QED
  BY <1>1, <1>2, <1>3 DEF HookOK, IssuedKept

LEMMA TaskKept ==
    ASSUME TypeOK, NEW w \in Workers, TaskOK(w), task'[w] = task[w], Extends(subs, subs'),
           Confirmed => Confirmed'
    PROVE  TaskOK(w)'
<1>1. Bound(subs) \in Nat /\ Bound(subs') \in Nat /\ Bound(subs) <= Bound(subs')
  BY BoundGrows, Typing
<1>2. task[w].seen.retry \in Int
  BY Typing DEF Rows, Runs
<1>3. Bound(subs)' = Bound(subs')
  BY DEF Bound, Start, Failures, Fails
<1>. QED
  BY <1>1, <1>2, <1>3 DEF TaskOK

LEMMA ExtendsSelf == ASSUME NEW s \in Seq(Rows) PROVE Extends(s, s)
BY DEF Extends

(* The provider may collect and emit; the tables stay, and what a run or a *)
(* call takes for success is one.                                          *)
LEMMA ProviderStep ==
    ASSUME IInv, NEW type \in EventTypes, Emit(type) \/ UNCHANGED issued,
           settled' \in {"no", "reported", "collected"},
           Confirmed => Confirmed', type = "invoice.paid" => Confirmed',
           UNCHANGED <<tables, hook, cleanups>>,
           task' \in [Workers -> Runs],
           \A w \in Workers : task'[w] = task[w] \/ TaskOK(w)',
           pay' \in [Requests -> {"open", "commit", "done"}],
           PayOK'
    PROVE  IInv'
<1>1. /\ issued' \in Seq(EventTypes) /\ Len(issued') <= MaxEvents
      /\ IssuedKept
      /\ EventsOK'
  BY Emits DEF IInv
<1>2. Extends(subs, subs')
  BY ExtendsSelf, Typing DEF IInv, tables
<1>3. TypeOK'
  BY <1>1, Typing DEF IInv, tables, IssuedKept, TypeOK, Rows, Revisions, Runs
<1>4. RowsOK(subs, Confirmed)'
  BY DEF IInv, RowsOK, RowOK, Fails, Start, tables
<1>5. InvoicesOK'
  BY DEF IInv, InvoicesOK, PaymentsExplainInvoice, tables
<1>6. HookOK'
  BY <1>1, <1>2, HookKept DEF IInv, tables
<1>7. \A w \in Workers : TaskOK(w)'
  BY <1>2, TaskKept DEF IInv
<1>. QED
  BY <1>1, <1>3, <1>4, <1>5, <1>6, <1>7 DEF IInv

(* Rows are appended to the subscription, and nothing else happens.        *)
LEMMA SubsStep ==
    ASSUME IInv, Extends(subs, subs'), RowsOK(subs', Confirmed),
           UNCHANGED <<provider, claims, invoices, payments, hook, task, pay, cleanups>>
    PROVE  IInv'
<1>1. TypeOK'
  <2>1. subs' \in Seq(Rows) /\ subs' # <<>>
    BY Typing DEF Extends, IInv
  <2>. QED
    BY <2>1, Typing DEF IInv, provider, TypeOK, Rows, Revisions, Runs
<1>2. RowsOK(subs, Confirmed)'
  BY DEF RowsOK, RowOK, Fails, Start, provider, Confirmed
<1>3. EventsOK' /\ InvoicesOK' /\ IssuedKept /\ PayOK'
  BY DEF IInv, EventsOK, InvoicesOK, PaymentsExplainInvoice, IssuedKept, PayOK, provider, Confirmed
<1>4. HookOK'
  BY <1>3, HookKept DEF IInv
<1>5. \A w \in Workers : TaskOK(w)'
  BY TaskKept DEF IInv, provider, Confirmed
<1>. QED
  BY <1>1, <1>2, <1>3, <1>4, <1>5 DEF IInv

--------------------------------------------------------------------------------
(* The actions.                                                            *)

(* A charge comes to something the provider may do at any time; success    *)
(* is a confirmation.                                                      *)
LEMMA Outcome ==
    ASSUME IInv, Collects \/ Accepts \/ Declines
    PROVE  /\ settled' \in {"no", "reported", "collected"}
           /\ Confirmed => Confirmed'
           /\ Collects \/ Accepts => Confirmed'
           /\ \E type \in EventTypes :
                /\ Emit(type) \/ UNCHANGED issued
                /\ type = "invoice.paid" => Confirmed'
<1>1. /\ settled \in {"no", "reported", "collected"}
      /\ "invoice.paid" \in EventTypes /\ "invoice.payment_failed" \in EventTypes
  BY Typing DEF IInv, EventTypes, InvoiceEvents
<1>2. CASE Collects
  <2>1. settled' = "collected" /\ Emit("invoice.paid")
    BY <1>2 DEF Collects
  <2>2. Confirmed'
    BY <2>1 DEF Confirmed
  <2>. QED
    BY <1>1, <2>1, <2>2
<1>3. CASE Accepts
  <2>1. settled' \in {"reported", "collected"} /\ (Emit("invoice.paid") \/ UNCHANGED issued)
    BY <1>3 DEF Accepts, collected
  <2>2. Confirmed'
    BY <2>1 DEF Confirmed
  <2>. QED
    BY <1>1, <2>1, <2>2
<1>4. CASE Declines /\ ~Collects /\ ~Accepts
  <2>1. settled' = settled /\ Emit("invoice.payment_failed")
    BY <1>4 DEF Declines
  <2>2. Confirmed' <=> Confirmed
    BY <2>1 DEF Confirmed
  <2>. QED
    BY <1>1, <1>4, <2>1, <2>2
<1>. QED
  BY <1>2, <1>3, <1>4

LEMMA ProviderSteps ==
    ASSUME IInv,
           \/ ProviderCollects
           \/ \E type \in EventTypes \ {"invoice.paid"} : ProviderEvent(type)
    PROVE  IInv'
<1>1. /\ task \in [Workers -> Runs] /\ settled \in {"no", "reported", "collected"}
      /\ pay \in [Requests -> {"open", "commit", "done"}]
  BY Typing DEF IInv
<1>2. CASE ProviderCollects
  <2>1. Collects /\ UNCHANGED <<tables, hook, task, pay, cleanups>>
    BY <1>2 DEF ProviderCollects
  <2>2. /\ settled' \in {"no", "reported", "collected"}
        /\ Confirmed => Confirmed'
        /\ Confirmed'
    BY <2>1, Outcome
  <2>3. PICK type \in EventTypes :
          (Emit(type) \/ UNCHANGED issued) /\ (type = "invoice.paid" => Confirmed')
    BY <2>1, Outcome
  <2>4. PayOK'
    BY <2>2 DEF PayOK
  <2>. QED
    BY <1>1, <2>1, <2>2, <2>3, <2>4, ProviderStep
<1>3. ASSUME NEW type \in EventTypes \ {"invoice.paid"}, ProviderEvent(type) PROVE IInv'
  <2>1. Emit(type) /\ UNCHANGED <<settled, tables, hook, task, pay, cleanups>>
    BY <1>3 DEF ProviderEvent
  <2>2. (Confirmed => Confirmed') /\ PayOK'
    BY <2>1 DEF Confirmed, PayOK, IInv
  <2>. QED
    BY <1>1, <1>3, <2>1, <2>2, ProviderStep
<1>. QED
  BY <1>2, <1>3

(* The rows that may be copied count no more than they may.                *)
LEMMA RowsBounded ==
    ASSUME subs \in Seq(Rows), subs # <<>>, RowsOK(subs, Confirmed)
    PROVE  /\ Original \in Rows /\ Original.retry <= Bound(subs)
           /\ Latest \in Rows /\ Latest.retry <= Bound(subs)
           /\ Bound(subs) \in Nat
<1>1. Extends(subs, subs)
  BY ExtendsSelf
<1>2. /\ Start(subs) \in Nat /\ Original.retry \in Int /\ Original.retry <= Start(subs)
      /\ Failures(subs) \in Nat
  BY <1>1, BoundGrows, FailuresGrow DEF Original
<1>3. Original \in Rows /\ Latest \in Rows /\ Len(subs) \in 1..Len(subs)
  BY DEF Original, Latest
<1>4. Latest.retry <= Bound(subs)
  BY <1>3 DEF Latest, RowsOK, Failures, Bound
<1>. QED
  BY <1>2, <1>3, <1>4 DEF Bound

(* The row that a webhook starts from is one of the table's.               *)
LEMMA ClaimStep ==
    ASSUME IInv, NEW e \in DOMAIN issued, Claim(e)
    PROVE  IInv'
<1>. USE DEF Claim, StartHook
<1>1. /\ subs \in Seq(Rows) /\ subs # <<>> /\ issued \in Seq(EventTypes)
      /\ Len(issued) <= MaxEvents /\ MaxEvents \in Nat
  BY Typing, BillingAssumption DEF IInv
<1>2. /\ Original \in Rows /\ Latest \in Rows
      /\ Original.retry <= Bound(subs) /\ Latest.retry <= Bound(subs)
  BY <1>1, RowsBounded DEF IInv
<1>3. e \in 0..MaxEvents
  BY <1>1
<1>4. /\ hook'.event = e
      /\ hook'.seen = IF issued[e] \in InvoiceEvents THEN Original ELSE Latest
  OBVIOUS
<1>5. hook' \in [event : 0..MaxEvents, seen : Rows]
  BY <1>2, <1>3
<1>6. TypeOK'
  BY <1>5, Typing DEF IInv, provider, tables, TypeOK, Rows, Revisions, Runs
<1>7. HookOK'
  <2>1. hook'.seen.retry <= Bound(subs)
    BY <1>2, <1>4
  <2>2. Bound(subs)' = Bound(subs)
    BY DEF Bound, Start, Failures, Fails, tables
  <2>. QED
    BY <1>4, <2>1, <2>2 DEF HookOK, tables, provider
<1>8. RowsOK(subs, Confirmed)' /\ EventsOK' /\ InvoicesOK' /\ PayOK'
  BY DEF IInv, RowsOK, RowOK, Fails, Start, EventsOK, InvoicesOK, PaymentsExplainInvoice, PayOK,
         tables, provider, Confirmed
<1>9. \A w \in Workers : TaskOK(w)'
  BY <1>1, ExtendsSelf, TaskKept DEF IInv, tables, provider, Confirmed
<1>. QED
  BY <1>6, <1>7, <1>8, <1>9 DEF IInv

(* A webhook's transaction ends, with what it did to the tables.           *)
LEMMA HookStep ==
    ASSUME IInv, HookEnds, Extends(subs, subs'), RowsOK(subs', Confirmed),
           claims' \subseteq DOMAIN issued, payments' \subseteq DOMAIN issued,
           invoices' \in Seq(Revisions), InvoicesOK'
    PROVE  IInv'
<1>. USE DEF HookEnds, provider, Confirmed
<1>1. NoHook.seen \in Rows /\ NoHook.event = 0 /\ NoHook \in [event : 0..MaxEvents, seen : Rows]
  BY BillingAssumption DEF NoHook, Sub, Rows, Statuses
<1>2. TypeOK'
  <2>1. subs' \in Seq(Rows) /\ subs' # <<>>
    BY Typing DEF Extends, IInv
  <2>. QED
    BY <1>1, <2>1, Typing DEF IInv, TypeOK, Rows, Revisions, Runs
<1>3. RowsOK(subs, Confirmed)'
  BY DEF RowsOK, RowOK, Fails, Start
<1>4. EventsOK' /\ HookOK' /\ PayOK'
  BY <1>1 DEF IInv, EventsOK, HookOK, PayOK
<1>5. \A w \in Workers : TaskOK(w)'
  BY TaskKept DEF IInv
<1>. QED
  BY <1>2, <1>3, <1>4, <1>5 DEF IInv

(* The row a webhook appends, or none.                                     *)
LEMMA AppendStatusStep ==
    ASSUME IInv, hook.event # 0, NEW status \in Statuses, AppendStatus(hook.seen, status)
    PROVE  Extends(subs, subs') /\ RowsOK(subs', Confirmed)
<1> DEFINE row == Sub(status, hook.seen.retry, "hook", hook.event)
<1>1. /\ subs \in Seq(Rows) /\ subs # <<>> /\ hook.seen.retry \in Int
      /\ hook.event \in 0..MaxEvents
  BY Typing DEF IInv, Rows
<1>2. row \in Rows /\ row.retry = hook.seen.retry
  BY <1>1 DEF Sub, Rows
<1>3. RowOK(row, Confirmed)
  BY DEF Sub, RowOK
<1>4. row.retry <= Bound(subs) /\ RowsOK(subs, Confirmed)
  BY <1>2 DEF IInv, HookOK
<1>5. CASE subs' = subs
  BY <1>1, <1>4, <1>5, ExtendsSelf
<1>6. CASE subs' = Append(subs, row)
  <2>. HIDE DEF row
  <2>. QED
    BY <1>1, <1>2, <1>3, <1>4, <1>6, AppendRow
<1>. QED
  BY <1>5, <1>6 DEF AppendStatus

LEMMA SubscriptionEventStep ==
    ASSUME IInv, _apply_subscription_event
    PROVE  IInv'
<1>. USE DEF _apply_subscription_event
<1> DEFINE status == status_map(issued[hook.event])
<1>1. status \in Statuses
  BY DEF status_map, Statuses
<1>. HIDE DEF status
<1>2. Extends(subs, subs') /\ RowsOK(subs', Confirmed)
  BY <1>1, AppendStatusStep DEF status
<1>3. claims' \subseteq DOMAIN issued /\ payments' \subseteq DOMAIN issued /\ invoices' \in Seq(Revisions)
  BY Typing DEF IInv, HookOK, Claimed
<1>4. InvoicesOK'
  BY DEF IInv, InvoicesOK, PaymentsExplainInvoice, HookEnds, provider, Confirmed
<1>. QED
  BY <1>2, <1>3, <1>4, HookStep

(* The revision and its payment are written together, for an event that    *)
(* has none yet.                                                           *)
LEMMA RevisionStep ==
    ASSUME IInv, InvoiceHook, hook.event \notin payments, ReviseInvoice({hook.event})
    PROVE  /\ InvoicesOK'
           /\ invoices' \in Seq(Revisions)
           /\ payments' \subseteq DOMAIN issued
<1> DEFINE revision == Invoice(IF issued[hook.event] = "invoice.paid" THEN "paid" ELSE "uncollectible",
                               hook.event)
<1>1. /\ hook.event \in DOMAIN issued /\ hook.event \in 0..MaxEvents /\ hook.event # 0
      /\ invoices \in Seq(Revisions) /\ payments \subseteq DOMAIN issued
      /\ Confirmed' <=> Confirmed
  BY Typing DEF IInv, HookOK, InvoiceHook, HookEnds, provider, Confirmed
<1>2. /\ invoices' = Append(invoices, revision)
      /\ payments' = payments \cup {hook.event}
  BY DEF ReviseInvoice
<1>3. /\ revision \in Revisions
      /\ revision.event = hook.event
      /\ revision.status = "paid" => Confirmed
  BY <1>1 DEF Invoice, Revisions, IInv, EventsOK
<1>. HIDE DEF revision
<1>4. /\ invoices' \in Seq(Revisions)
      /\ DOMAIN invoices = 1..Len(invoices) /\ DOMAIN invoices' = 1..Len(invoices) + 1
      /\ Len(invoices) \in Nat
      /\ \A i \in 1..Len(invoices) : invoices'[i] = invoices[i]
      /\ invoices'[Len(invoices) + 1] = revision
  BY <1>1, <1>2, <1>3
<1>5. \A i \in DOMAIN invoices : invoices[i].event # hook.event
  BY <1>1 DEF IInv, InvoicesOK, PaymentsExplainInvoice
<1>6. PaymentsExplainInvoice'
  <2>1. payments = {invoices[i].event : i \in DOMAIN invoices} \ {0}
    BY DEF IInv, InvoicesOK, PaymentsExplainInvoice
  <2>2. {invoices'[i].event : i \in DOMAIN invoices'}
          = {invoices[i].event : i \in DOMAIN invoices} \cup {hook.event}
    <3>1. ASSUME NEW x \in {invoices'[i].event : i \in DOMAIN invoices'}
          PROVE  x \in {invoices[i].event : i \in DOMAIN invoices} \cup {hook.event}
      <4>1. PICK i \in DOMAIN invoices' : x = invoices'[i].event
        OBVIOUS
      <4>2. CASE i \in 1..Len(invoices)
        BY <1>4, <4>1, <4>2
      <4>3. CASE i = Len(invoices) + 1
        BY <1>3, <1>4, <4>1, <4>3
      <4>. QED
        BY <1>4, <4>1, <4>2, <4>3
    <3>2. ASSUME NEW i \in DOMAIN invoices
          PROVE  invoices[i].event \in {invoices'[k].event : k \in DOMAIN invoices'}
      <4>1. i \in DOMAIN invoices' /\ invoices'[i] = invoices[i]
        BY <1>4
      <4>. QED
        BY <4>1
    <3>3. hook.event \in {invoices'[k].event : k \in DOMAIN invoices'}
      <4>1. Len(invoices) + 1 \in DOMAIN invoices'
        BY <1>4
      <4>. QED
        BY <1>3, <1>4, <4>1
    <3>. QED
      BY <3>1, <3>2, <3>3
  <2>. QED
    BY <1>1, <1>2, <2>1, <2>2 DEF PaymentsExplainInvoice
<1>7. ASSUME NEW i \in DOMAIN invoices', NEW j \in DOMAIN invoices',
             invoices'[i].event = invoices'[j].event, invoices'[i].event # 0
      PROVE  i = j
  <2>1. CASE i \in DOMAIN invoices /\ j \in DOMAIN invoices
    BY <1>4, <1>7, <2>1 DEF IInv, InvoicesOK
  <2>2. CASE i = Len(invoices) + 1 \/ j = Len(invoices) + 1
    BY <1>3, <1>4, <1>5, <1>7, <2>2
  <2>. QED
    BY <1>4, <2>1, <2>2
<1>8. ASSUME NEW i \in DOMAIN invoices', invoices'[i].status = "paid" PROVE Confirmed'
  <2>1. CASE i \in DOMAIN invoices
    BY <1>1, <1>4, <1>8, <2>1 DEF IInv, InvoicesOK
  <2>2. CASE i = Len(invoices) + 1
    BY <1>1, <1>3, <1>4, <1>8, <2>2
  <2>. QED
    BY <1>4, <2>1, <2>2
<1>. QED
  BY <1>1, <1>2, <1>4, <1>6, <1>7, <1>8 DEF InvoicesOK

LEMMA InvoiceEventStep ==
    ASSUME IInv, _apply_invoice_event
    PROVE  IInv'
<1>1. HookEnds /\ hook.event # 0 /\ issued[hook.event] \in InvoiceEvents /\ InvoiceHook
  BY DEF _apply_invoice_event, InvoiceHook
<1>2. CASE UNCHANGED tables
  <2>1. Extends(subs, subs') /\ RowsOK(subs', Confirmed)
    BY <1>2, ExtendsSelf, Typing DEF IInv, tables
  <2>2. InvoicesOK'
    BY <1>1, <1>2 DEF IInv, InvoicesOK, PaymentsExplainInvoice, HookEnds, provider, Confirmed, tables
  <2>. QED
    BY <1>1, <1>2, <2>1, <2>2, HookStep, Typing DEF IInv, tables
<1>3. CASE hook.event \notin payments /\ ReviseInvoice({hook.event})
  <2>1. InvoicesOK' /\ invoices' \in Seq(Revisions) /\ payments' \subseteq DOMAIN issued
    BY <1>1, <1>3, RevisionStep
  <2>2. Extends(subs, subs') /\ RowsOK(subs', Confirmed)
    <3> DEFINE status == IF issued[hook.event] = "invoice.paid" THEN "active" ELSE "past_due"
    <3>1. status \in Statuses /\ AppendStatus(hook.seen, status)
      BY <1>3 DEF Statuses, ReviseInvoice
    <3>. HIDE DEF status
    <3>. QED
      BY <1>1, <3>1, AppendStatusStep
  <2>3. claims' \subseteq DOMAIN issued
    BY <1>1, <1>3, Typing DEF IInv, HookOK, ReviseInvoice, Claimed
  <2>. QED
    BY <1>1, <2>1, <2>2, <2>3, HookStep
<1>. QED
  BY <1>2, <1>3 DEF _apply_invoice_event

LEMMA EventNotAppliedStep ==
    ASSUME IInv, RouteRaises \/ HookAborts
    PROVE  IInv'
<1>1. HookEnds /\ hook.event # 0 /\ UNCHANGED <<invoices, payments, subs>>
  BY DEF RouteRaises, HookAborts, tables
<1>2. claims' \subseteq claims \cup {hook.event}
  BY DEF RouteRaises, HookAborts, Claimed, tables
<1>3. Extends(subs, subs') /\ RowsOK(subs', Confirmed)
  BY <1>1, ExtendsSelf, Typing DEF IInv
<1>4. InvoicesOK'
  BY <1>1 DEF IInv, InvoicesOK, PaymentsExplainInvoice, HookEnds, provider, Confirmed
<1>5. claims' \subseteq DOMAIN issued /\ payments' \subseteq DOMAIN issued /\ invoices' \in Seq(Revisions)
  BY <1>1, <1>2, Typing DEF IInv, HookOK
<1>. QED
  BY <1>1, <1>3, <1>4, <1>5, HookStep

LEMMA CleanupStep ==
    ASSUME IInv, cleanup_webhook_events
    PROVE  IInv'
<1>1. /\ claims' \subseteq claims /\ cleanups' \in 0..MaxCleanups
      /\ UNCHANGED <<provider, invoices, payments, subs, hook, task, pay>>
  BY Typing, BillingAssumption DEF IInv, cleanup_webhook_events
<1>2. TypeOK'
  BY <1>1, Typing DEF IInv, provider, TypeOK, Rows, Revisions, Runs
<1>3. RowsOK(subs, Confirmed)' /\ EventsOK' /\ InvoicesOK' /\ PayOK'
  BY <1>1 DEF IInv, RowsOK, RowOK, Fails, Start, EventsOK, InvoicesOK, PaymentsExplainInvoice, PayOK,
              provider, Confirmed
<1>4. HookOK'
  BY <1>1 DEF IInv, HookOK, Bound, Start, Failures, Fails, provider
<1>5. \A w \in Workers : TaskOK(w)'
  BY <1>1, TaskKept, ExtendsSelf, Typing DEF IInv, provider, Confirmed
<1>. QED
  BY <1>2, <1>3, <1>4, <1>5 DEF IInv

(* The retries of the daily task.                                          *)
LEMMA ListStep ==
    ASSUME IInv, NEW w \in Workers, _list_current_subscriptions(w)
    PROVE  IInv'
<1>. USE DEF _list_current_subscriptions, provider, tables, Confirmed
<1>1. /\ subs \in Seq(Rows) /\ subs # <<>> /\ task \in [Workers -> Runs]
  BY Typing DEF IInv
<1>2. Latest \in Rows /\ Latest.retry <= Bound(subs)
  BY <1>1, RowsBounded DEF IInv
<1>3. /\ task' \in [Workers -> Runs]
      /\ task'[w].seen = Latest /\ task'[w].at = "charge"
      /\ \A v \in Workers \ {w} : task'[v] = task[v]
  BY <1>1, <1>2 DEF Runs
<1>4. TypeOK'
  BY <1>3, Typing DEF IInv, TypeOK, Rows, Revisions, Runs
<1>5. RowsOK(subs, Confirmed)' /\ EventsOK' /\ InvoicesOK' /\ HookOK' /\ PayOK'
  BY DEF IInv, RowsOK, RowOK, Fails, Start, EventsOK, InvoicesOK, PaymentsExplainInvoice, HookOK,
         Bound, Failures, PayOK
<1>6. Bound(subs)' = Bound(subs)
  BY DEF Bound, Start, Failures, Fails
<1>7. TaskOK(w)'
  BY <1>2, <1>3, <1>6 DEF TaskOK
<1>8. \A v \in Workers : TaskOK(v)'
  BY <1>1, <1>3, <1>7, ExtendsSelf, TaskKept DEF IInv
<1>. QED
  BY <1>4, <1>5, <1>8 DEF IInv

(* The charge changes nothing of ours but what the run knows.              *)
LEMMA ChargedRun ==
    ASSUME IInv, NEW w \in Workers, NEW paid \in BOOLEAN, task[w].at = "charge",
           Charged(w, paid), paid => Confirmed', Confirmed => Confirmed'
    PROVE  /\ task' \in [Workers -> Runs]
           /\ \A v \in Workers : task'[v] = task[v] \/ TaskOK(v)'
           /\ pay' \in [Requests -> {"open", "commit", "done"}]
           /\ PayOK'
<1>. USE DEF Charged, tables
<1>1. task \in [Workers -> Runs] /\ pay \in [Requests -> {"open", "commit", "done"}]
  BY Typing DEF IInv
<1>2. /\ task' \in [Workers -> Runs]
      /\ task'[w].seen = task[w].seen /\ task'[w].paid = paid
      /\ \A v \in Workers \ {w} : task'[v] = task[v]
  BY <1>1 DEF Runs
<1>3. Bound(subs)' = Bound(subs)
  BY DEF Bound, Start, Failures, Fails
<1>4. TaskOK(w)'
  BY <1>2, <1>3 DEF IInv, TaskOK
<1>5. PayOK'
  BY DEF IInv, PayOK
<1>. QED
  BY <1>1, <1>2, <1>4, <1>5

LEMMA ChargeStep ==
    ASSUME IInv, NEW w \in Workers,
           \/ ChargeSucceeds(w) \/ ChargeAccepted(w) \/ ChargeUnanswered(w) \/ ChargeFails(w)
           \/ ChargeRefused(w)
    PROVE  IInv'
<1>. USE DEF Charged
<1>1. CASE ChargeSucceeds(w) \/ ChargeAccepted(w) \/ ChargeUnanswered(w) \/ ChargeFails(w)
  <2>1. PICK paid \in BOOLEAN :
          /\ task[w].at = "charge" /\ Charged(w, paid)
          /\ Collects \/ Accepts \/ Declines
          /\ paid => Collects \/ Accepts
    BY <1>1 DEF ChargeSucceeds, ChargeAccepted, ChargeUnanswered, ChargeFails
  <2>2. /\ settled' \in {"no", "reported", "collected"}
        /\ Confirmed => Confirmed'
        /\ paid => Confirmed'
    BY <2>1, Outcome
  <2>3. PICK type \in EventTypes :
          (Emit(type) \/ UNCHANGED issued) /\ (type = "invoice.paid" => Confirmed')
    BY <2>1, Outcome
  <2>4. /\ task' \in [Workers -> Runs]
        /\ \A v \in Workers : task'[v] = task[v] \/ TaskOK(v)'
        /\ pay' \in [Requests -> {"open", "commit", "done"}]
        /\ PayOK'
    BY <2>1, <2>2, ChargedRun
  <2>. QED
    BY <2>1, <2>2, <2>3, <2>4, ProviderStep
<1>2. CASE ChargeRefused(w)
  <2>1. /\ task[w].at = "charge" /\ Charged(w, FALSE)
        /\ UNCHANGED <<provider, tables, hook, pay, cleanups>>
    BY <1>2 DEF ChargeRefused
  <2>2. UNCHANGED <<settled, issued, tables, hook, cleanups>> /\ (Confirmed => Confirmed')
    BY <2>1 DEF provider, Confirmed
  <2>3. /\ task' \in [Workers -> Runs]
        /\ \A v \in Workers : task'[v] = task[v] \/ TaskOK(v)'
        /\ pay' \in [Requests -> {"open", "commit", "done"}]
        /\ PayOK'
    BY <2>1, <2>2, ChargedRun
  <2>4. "invoice.payment_failed" \in EventTypes /\ settled' \in {"no", "reported", "collected"}
    BY <2>2, Typing DEF EventTypes, InvoiceEvents, IInv
  <2>. QED
    BY <2>2, <2>3, <2>4, ProviderStep
<1>. QED
  BY <1>1, <1>2

(* What the provider made of a call of the API.                            *)
LEMMA PayAnsweredStep ==
    ASSUME IInv, NEW r \in Requests, pay_invoice(r) \/ PayFails(r)
    PROVE  IInv'
<1>1. PICK next \in {"open", "commit"} :
        /\ PayAnswered(r, next)
        /\ Collects \/ Accepts \/ Declines
        /\ next = "commit" => Collects \/ Accepts
  BY DEF pay_invoice, PayFails
<1>2. /\ settled' \in {"no", "reported", "collected"}
      /\ Confirmed => Confirmed'
      /\ next = "commit" => Confirmed'
  BY <1>1, Outcome
<1>3. PICK type \in EventTypes :
        (Emit(type) \/ UNCHANGED issued) /\ (type = "invoice.paid" => Confirmed')
  BY <1>1, Outcome
<1>4. /\ pay \in [Requests -> {"open", "commit", "done"}] /\ task \in [Workers -> Runs]
      /\ pay' = [pay EXCEPT ![r] = next]
      /\ UNCHANGED <<tables, hook, task, cleanups>>
  BY <1>1, Typing DEF IInv, PayAnswered
<1>5. pay' \in [Requests -> {"open", "commit", "done"}]
  BY <1>4
<1>6. PayOK'
  BY <1>2, <1>4 DEF IInv, PayOK
<1>. QED
  BY <1>2, <1>3, <1>4, <1>5, <1>6, ProviderStep

(* The revision mark_paid appends belongs to no event.                     *)
LEMMA MarkPaid ==
    ASSUME IInv, Confirmed, UNCHANGED <<settled, payments>>,
           invoices' = Append(invoices, Invoice("paid", 0))
    PROVE  invoices' \in Seq(Revisions) /\ InvoicesOK'
<1> DEFINE revision == Invoice("paid", 0)
<1>1. invoices \in Seq(Revisions) /\ MaxEvents \in Nat
  BY Typing, BillingAssumption DEF IInv
<1>2. revision \in Revisions /\ revision.event = 0 /\ invoices' = Append(invoices, revision)
  BY <1>1 DEF Invoice, Revisions
<1>. HIDE DEF revision
<1>3. /\ invoices' \in Seq(Revisions)
      /\ DOMAIN invoices = 1..Len(invoices) /\ DOMAIN invoices' = 1..Len(invoices) + 1
      /\ Len(invoices) \in Nat
      /\ \A i \in 1..Len(invoices) : invoices'[i] = invoices[i]
      /\ invoices'[Len(invoices) + 1].event = 0
  BY <1>1, <1>2
<1>4. PaymentsExplainInvoice'
  <2>1. payments' = {invoices[i].event : i \in DOMAIN invoices} \ {0}
    BY DEF IInv, InvoicesOK, PaymentsExplainInvoice
  <2>2. ASSUME NEW i \in DOMAIN invoices', invoices'[i].event # 0
        PROVE  i \in DOMAIN invoices /\ invoices'[i] = invoices[i]
    BY <1>3, <2>2
  <2>3. ASSUME NEW i \in DOMAIN invoices
        PROVE  i \in DOMAIN invoices' /\ invoices'[i] = invoices[i]
    BY <1>3
  <2>4. {invoices'[i].event : i \in DOMAIN invoices'} \ {0}
          = {invoices[i].event : i \in DOMAIN invoices} \ {0}
    BY <2>2, <2>3
  <2>. QED
    BY <2>1, <2>4 DEF PaymentsExplainInvoice
<1>5. ASSUME NEW i \in DOMAIN invoices', NEW j \in DOMAIN invoices',
             invoices'[i].event = invoices'[j].event, invoices'[i].event # 0
      PROVE  i = j
  BY <1>3, <1>5 DEF IInv, InvoicesOK
<1>6. Confirmed'
  BY DEF Confirmed
<1>. QED
  BY <1>3, <1>4, <1>5, <1>6 DEF InvoicesOK

(* A call of the API ends, with the revision or without.                   *)
LEMMA PayEndsStep ==
    ASSUME IInv, NEW r \in Requests, mark_paid(r) \/ PayAborts(r)
    PROVE  IInv'
<1>. USE DEF provider, Confirmed
<1>1. PICK next \in {"open", "done"} : PayEnds(r, next)
  BY DEF mark_paid, PayAborts
<1>2. /\ pay[r] = "commit" /\ pay' = [pay EXCEPT ![r] = next]
      /\ UNCHANGED <<provider, claims, payments, subs, hook, task, cleanups>>
  BY <1>1 DEF PayEnds
<1>3. /\ pay \in [Requests -> {"open", "commit", "done"}] /\ subs \in Seq(Rows)
      /\ invoices \in Seq(Revisions)
  BY Typing DEF IInv
<1>4. invoices' \in Seq(Revisions) /\ InvoicesOK'
  <2>1. CASE invoices' = invoices
    BY <1>2, <1>3, <2>1 DEF IInv, InvoicesOK, PaymentsExplainInvoice
  <2>2. CASE invoices' = Append(invoices, Invoice("paid", 0))
    <3>1. Confirmed /\ UNCHANGED <<settled, payments>>
      BY <1>2 DEF IInv, PayOK
    <3>. QED
      BY <2>2, <3>1, MarkPaid
  <2>. QED
    BY <2>1, <2>2 DEF mark_paid, PayAborts
<1>5. pay' \in [Requests -> {"open", "commit", "done"}]
  BY <1>2, <1>3
<1>6. TypeOK'
  BY <1>2, <1>4, <1>5, Typing DEF IInv, TypeOK, Rows, Revisions, Runs
<1>7. RowsOK(subs, Confirmed)' /\ EventsOK' /\ HookOK'
  BY <1>2 DEF IInv, RowsOK, RowOK, Fails, Start, EventsOK, HookOK, Bound, Failures
<1>8. PayOK'
  BY <1>2, <1>3 DEF IInv, PayOK
<1>9. \A w \in Workers : TaskOK(w)'
  BY <1>2, <1>3, ExtendsSelf, TaskKept DEF IInv
<1>. QED
  BY <1>4, <1>6, <1>7, <1>8, <1>9 DEF IInv

(* A run ends: what it did to the two tables, and to itself.               *)
LEMMA RunEnds ==
    ASSUME IInv, NEW w \in Workers, task' = [task EXCEPT ![w] = IdleTask],
           Extends(subs, subs'), RowsOK(subs', Confirmed),
           invoices' \in Seq(Revisions), InvoicesOK',
           UNCHANGED <<provider, claims, payments, hook, pay, cleanups>>
    PROVE  IInv'
<1>. USE DEF provider, Confirmed
<1>1. IdleTask \in Runs /\ IdleTask.at = "idle"
  BY BillingAssumption DEF IdleTask, NoHook, Sub, Runs, Rows, Statuses
<1>2. task \in [Workers -> Runs]
  BY Typing DEF IInv
<1>3. /\ task' \in [Workers -> Runs] /\ task'[w] = IdleTask
      /\ \A v \in Workers \ {w} : task'[v] = task[v]
  BY <1>1, <1>2
<1>4. TypeOK'
  <2>1. subs' \in Seq(Rows) /\ subs' # <<>>
    BY Typing DEF Extends, IInv
  <2>. QED
    BY <1>3, <2>1, Typing DEF IInv, TypeOK, Rows, Revisions, Runs
<1>5. RowsOK(subs, Confirmed)'
  BY DEF RowsOK, RowOK, Fails, Start
<1>6. EventsOK' /\ IssuedKept /\ PayOK'
  BY DEF IInv, EventsOK, IssuedKept, PayOK
<1>7. HookOK'
  BY <1>6, HookKept DEF IInv
<1>8. TaskOK(w)'
  BY <1>1, <1>3 DEF TaskOK
<1>9. \A v \in Workers : TaskOK(v)'
  BY <1>3, <1>8, TaskKept DEF IInv
<1>. QED
  BY <1>4, <1>5, <1>6, <1>7, <1>9 DEF IInv

LEMMA SettleStep ==
    ASSUME IInv, NEW w \in Workers, _retry_failed_payments_async(w)
    PROVE  IInv'
<1>1. Settle(w, task[w].paid, MaxRetries)
  BY DEF _retry_failed_payments_async
<1>2. /\ task[w].at = "commit"
      /\ task' = [task EXCEPT ![w] = IdleTask]
      /\ UNCHANGED <<provider, claims, payments, hook, pay, cleanups>>
  BY <1>1 DEF Settle
<1>3. /\ subs \in Seq(Rows) /\ subs # <<>> /\ invoices \in Seq(Revisions)
      /\ task[w].paid \in BOOLEAN
      /\ task[w].seen.retry \in Int
      /\ MaxRetries \in Nat \ {0} /\ MaxEvents \in Nat
      /\ RowsOK(subs, Confirmed)
  BY Typing, BillingAssumption DEF IInv, Runs, Rows
<1>4. task[w].seen.retry <= Bound(subs)
  BY <1>2 DEF IInv, TaskOK
<1>5. Bound(subs) \in Nat
  BY <1>3, RowsBounded
<1>6. CASE task[w].paid
  <2> DEFINE row == Sub("active", 0, "task", 0)
  <2>1. invoices' = Append(invoices, Invoice("paid", 0)) /\ subs' = Append(subs, row)
    BY <1>1, <1>6 DEF Settle
  <2>2. Confirmed
    BY <1>2, <1>6 DEF IInv, TaskOK
  <2>3. row \in Rows /\ RowOK(row, Confirmed) /\ row.retry = 0
    BY <1>3, <2>2 DEF Sub, Rows, Statuses, RowOK
  <2>. HIDE DEF row
  <2>4. row.retry <= Bound(subs)
    BY <1>5, <2>3
  <2>5. Extends(subs, subs') /\ RowsOK(subs', Confirmed)
    BY <1>3, <2>1, <2>3, <2>4, AppendRow
  <2>6. UNCHANGED <<settled, payments>>
    BY <1>2 DEF provider
  <2>7. invoices' \in Seq(Revisions) /\ InvoicesOK'
    BY <2>1, <2>2, <2>6, MarkPaid
  <2>. QED
    BY <1>2, <2>5, <2>7, RunEnds
<1>7. CASE ~task[w].paid
  <2> DEFINE retry == task[w].seen.retry + 1
             status == IF retry >= MaxRetries THEN "cancelled" ELSE "past_due"
             row == Sub(status, retry, "task", 0)
  <2>1. subs' = Append(subs, row) /\ invoices' = invoices
    BY <1>1, <1>7 DEF Settle
  <2>2. /\ row \in Rows /\ RowOK(row, Confirmed) /\ row.by = "task" /\ row.status # "active"
        /\ row.retry = task[w].seen.retry + 1
    <3>1. /\ row.retry = retry /\ row.by = "task" /\ row.event = 0
          /\ row.status = IF retry >= MaxRetries THEN "cancelled" ELSE "past_due"
      BY DEF Sub
    <3>2. retry \in Int /\ MaxRetries \in Int
      BY <1>3
    <3>3. row \in Rows
      <4>1. status \in Statuses /\ 0 \in 0..MaxEvents
        BY <1>3 DEF Statuses
      <4>. HIDE DEF status, retry
      <4>. QED
        BY <3>2, <4>1 DEF Sub, Rows
    <3>. HIDE DEF row, retry
    <3>4. RowOK(row, Confirmed) /\ row.status # "active"
      BY <3>1, <3>2 DEF RowOK
    <3>. QED
      BY <3>1, <3>3, <3>4 DEF retry
  <2>. HIDE DEF row
  <2>3. row.retry <= Bound(subs) + 1
    BY <1>3, <1>4, <1>5, <2>2
  <2>4. Extends(subs, subs') /\ RowsOK(subs', Confirmed)
    BY <1>3, <2>1, <2>2, <2>3, AppendFailure
  <2>5. InvoicesOK'
    BY <1>2, <2>1 DEF IInv, InvoicesOK, PaymentsExplainInvoice, provider, Confirmed
  <2>. QED
    BY <1>2, <1>3, <2>1, <2>4, <2>5, RunEnds
<1>. QED
  BY <1>3, <1>6, <1>7

LEMMA RetryAbortsStep ==
    ASSUME IInv, NEW w \in Workers, RetryAborts(w)
    PROVE  IInv'
<1>. USE DEF RetryAborts, tables
<1>1. Extends(subs, subs') /\ RowsOK(subs', Confirmed) /\ invoices' \in Seq(Revisions)
  BY ExtendsSelf, Typing DEF IInv
<1>2. InvoicesOK'
  BY DEF IInv, InvoicesOK, PaymentsExplainInvoice, provider, Confirmed
<1>. QED
  BY <1>1, <1>2, RunEnds

LEMMA TrialingFinite ==
    ASSUME subs \in Seq(Rows)
    PROVE  Cardinality(Trialing) \in Nat
<1>1. IsFiniteSet(1..Len(subs)) /\ Trialing \subseteq 1..Len(subs)
  BY FS_Interval DEF Trialing
<1>. QED
  BY <1>1, FS_Subset, FS_CardinalityType

(* The trial tasks copy the count of the first row.                        *)
LEMMA TrialsStep ==
    ASSUME IInv, check_trial_conversions \/ check_trial_expirations
    PROVE  IInv'
<1>1. /\ subs \in Seq(Rows) /\ subs # <<>> /\ RowsOK(subs, Confirmed)
      /\ MaxRetries \in Nat /\ MaxEvents \in Nat
  BY Typing, BillingAssumption DEF IInv
<1>2. Cardinality(Trialing) \in Nat
  BY <1>1, TrialingFinite
<1>3. PICK n \in Nat, status \in {"active", "incomplete"} : AppendTrials(n, status)
  BY <1>2 DEF check_trial_conversions, check_trial_expirations
<1> DEFINE row == Sub(status, Original.retry, "trial", 0)
<1>4. row \in Rows /\ row.retry = subs[1].retry /\ RowOK(row, Confirmed)
  <2>1. Original \in Rows /\ status \in Statuses /\ 0 \in 0..MaxEvents
    BY <1>1, RowsBounded DEF Statuses
  <2>2. row \in Rows
    BY <2>1 DEF Sub, Rows
  <2>3. row.retry = subs[1].retry /\ row.by = "trial"
    BY DEF Sub, Original
  <2>. QED
    BY <2>2, <2>3 DEF RowOK
<1>. HIDE DEF row
<1>5. /\ subs' = subs \o [i \in 1..n |-> row]
      /\ UNCHANGED <<provider, claims, invoices, payments, hook, task, pay, cleanups>>
  BY <1>3 DEF AppendTrials, row
<1>6. Extends(subs, subs') /\ RowsOK(subs', Confirmed)
  BY <1>1, <1>4, <1>5, AppendRows
<1>. QED
  BY <1>5, <1>6, SubsStep

(* A copy of the first or of the youngest row.                             *)
LEMMA RevisionRowStep ==
    ASSUME IInv, NEW old \in {Original, Latest}, NEW status \in Statuses,
           append_subscription_revision(old, status)
    PROVE  IInv'
<1>1. subs \in Seq(Rows) /\ subs # <<>> /\ RowsOK(subs, Confirmed) /\ MaxEvents \in Nat
  BY Typing, BillingAssumption DEF IInv
<1>2. old \in Rows /\ old.retry <= Bound(subs)
  BY <1>1, RowsBounded
<1> DEFINE row == Sub(status, old.retry, "api", 0)
<1>3. row.retry = old.retry /\ row.by = "api"
  BY DEF Sub
<1>4. row \in Rows
  BY <1>1, <1>2 DEF Sub, Rows
<1>5. /\ subs' = Append(subs, row)
      /\ UNCHANGED <<provider, claims, invoices, payments, hook, task, pay, cleanups>>
  BY DEF append_subscription_revision
<1>. HIDE DEF row
<1>6. RowOK(row, Confirmed)
  BY <1>3 DEF RowOK
<1>7. Extends(subs, subs') /\ RowsOK(subs', Confirmed)
  BY <1>1, <1>2, <1>3, <1>4, <1>5, <1>6, AppendRow
<1>. QED
  BY <1>5, <1>7, SubsStep

LEMMA ApiStep ==
    ASSUME IInv, NEW row \in {Original, Latest},
           \/ \E at_period_end \in BOOLEAN : cancel_subscription(row, at_period_end)
           \/ reactivate_subscription(row)
    PROVE  IInv'
<1>1. row.status \in Statuses
  <2>1. subs \in Seq(Rows) /\ subs # <<>>
    BY Typing DEF IInv
  <2>2. row \in Rows
    BY <2>1 DEF Original, Latest
  <2>. QED
    BY <2>2 DEF Rows
<1>2. PICK status \in Statuses : append_subscription_revision(row, status)
  BY <1>1 DEF cancel_subscription, reactivate_subscription, Statuses
<1>. QED
  BY <1>2, RevisionRowStep

--------------------------------------------------------------------------------
LEMMA InitIInv == Init => IInv
<1>. SUFFICES ASSUME Init PROVE IInv
  OBVIOUS
<1>1. PICK from \in Signups : subs = <<Sub(from.status, from.retry, "signup", 0)>>
  BY DEF Init
<1> DEFINE row == Sub(from.status, from.retry, "signup", 0)
           revision == Invoice("open", 0)
<1>2. MaxEvents \in Nat /\ MaxRetries \in Nat \ {0} /\ MaxCleanups \in Nat
  BY BillingAssumption
<1>3. row \in Rows /\ RowOK(row, Confirmed)
  <2>1. from.status \in Statuses /\ from.retry \in Int
    BY BillingAssumption DEF Statuses
  <2>. QED
    BY <1>2, <2>1 DEF Sub, Rows, RowOK
<1>4. revision \in Revisions /\ revision.event = 0 /\ revision.status = "open"
  BY <1>2 DEF Invoice, Revisions
<1>5. NoHook.seen \in Rows /\ NoHook.event = 0 /\ NoHook \in [event : 0..MaxEvents, seen : Rows]
  BY <1>2 DEF NoHook, Sub, Rows, Statuses
<1>6. IdleTask \in Runs /\ IdleTask.at = "idle"
  BY <1>5 DEF IdleTask, Runs
<1>7. subs = <<row>> /\ invoices = <<revision>>
  BY <1>1 DEF Init
<1>. HIDE DEF row, revision
<1>8. subs \in Seq(Rows) /\ subs # <<>> /\ Len(subs) = 1 /\ subs[1] = row
  BY <1>3, <1>7
<1>9. invoices \in Seq(Revisions) /\ DOMAIN invoices = {1} /\ invoices[1] = revision
  BY <1>4, <1>7
<1>10. TypeOK
  <2>1. /\ settled = "no" /\ issued = <<>> /\ claims = {} /\ payments = {}
        /\ hook = NoHook /\ cleanups = 0 /\ task = [w \in Workers |-> IdleTask]
        /\ pay = [r \in Requests |-> "open"]
    BY DEF Init
  <2>2. issued \in Seq(EventTypes) /\ Len(issued) <= MaxEvents
    BY <1>2, <2>1
  <2>3. /\ task \in [Workers -> Runs] /\ cleanups \in 0..MaxCleanups
        /\ pay \in [Requests -> {"open", "commit", "done"}]
    BY <1>2, <1>6, <2>1
  <2>. QED
    BY <1>5, <1>8, <1>9, <2>1, <2>2, <2>3, Typing
<1>11. RowsOK(subs, Confirmed)
  <2>1. Cardinality(Fails(subs, 1)) \in Nat
    BY FailsFinite
  <2>2. 1..Len(subs) = {1}
    BY <1>8
  <2>3. subs[1].retry <= Start(subs) + Cardinality(Fails(subs, 1))
    <3>1. Start(subs) \in Nat /\ subs[1].retry \in Int /\ subs[1].retry <= Start(subs)
      BY <1>8, ExtendsSelf, BoundGrows
    <3>. QED
      BY <2>1, <3>1
  <2>. QED
    BY <1>3, <1>8, <2>2, <2>3 DEF RowsOK
<1>12. EventsOK
  BY DEF Init, EventsOK
<1>13. InvoicesOK
  BY <1>4, <1>9 DEF Init, InvoicesOK, PaymentsExplainInvoice
<1>14. HookOK /\ (\A w \in Workers : TaskOK(w)) /\ PayOK
  BY <1>5, <1>6 DEF Init, HookOK, TaskOK, PayOK
<1>. QED
  BY <1>10, <1>11, <1>12, <1>13, <1>14 DEF IInv

LEMMA StepIInv == IInv /\ [Next]_vars => IInv'
<1>. SUFFICES ASSUME IInv, [Next]_vars PROVE IInv'
  OBVIOUS
<1>1. CASE UNCHANGED vars
  <2>1. TypeOK' /\ RowsOK(subs, Confirmed)' /\ EventsOK'
    BY <1>1 DEF vars, IInv, TypeOK, RowsOK, RowOK, Fails, Start, EventsOK, Confirmed
  <2>2. InvoicesOK' /\ HookOK' /\ PayOK'
    BY <1>1 DEF vars, IInv, InvoicesOK, PaymentsExplainInvoice, HookOK, Bound, Start, Failures, Fails,
                PayOK, Confirmed
  <2>3. \A w \in Workers : TaskOK(w)'
    BY <1>1 DEF vars, IInv, TaskOK, Bound, Start, Failures, Fails, Confirmed
  <2>. QED
    BY <2>1, <2>2, <2>3 DEF IInv
<1>2. CASE ProviderCollects \/ \E type \in EventTypes \ {"invoice.paid"} : ProviderEvent(type)
  BY <1>2, ProviderSteps
<1>3. CASE Webhooks
  BY <1>3, ClaimStep, SubscriptionEventStep, InvoiceEventStep, EventNotAppliedStep, CleanupStep
     DEF Webhooks
<1>4. ASSUME NEW w \in Workers, Retry(w) \/ RetryAborts(w) PROVE IInv'
  BY <1>4, ListStep, ChargeStep, SettleStep, RetryAbortsStep DEF Retry
<1>5. CASE check_trial_conversions \/ check_trial_expirations
  BY <1>5, TrialsStep
<1>6. ASSUME NEW row \in {Original, Latest},
             \/ \E at_period_end \in BOOLEAN : cancel_subscription(row, at_period_end)
             \/ reactivate_subscription(row)
      PROVE  IInv'
  BY <1>6, ApiStep
<1>7. ASSUME NEW r \in Requests, pay_invoice(r) \/ PayFails(r) \/ mark_paid(r) \/ PayAborts(r)
      PROVE  IInv'
  BY <1>7, PayAnsweredStep, PayEndsStep
<1>. QED
  BY <1>1, <1>2, <1>3, <1>4, <1>5, <1>6, <1>7 DEF Next

(* The invariant above holds for every number of workers, retries, events, *)
(* calls and cleanups, and whatever the subscription began with.           *)
THEOREM BillingInvariant == Spec => []IInv
<1>1. Init => IInv
  BY InitIInv
<1>2. IInv /\ [Next]_vars => IInv'
  BY StepIInv
<1>. QED
  BY <1>1, <1>2, PTL DEF Spec

(* Every table and transaction has its type; claims and payments are those *)
(* of events the provider has sent (_claim_webhook_event).                 *)
THEOREM BillingTypeOK == Spec => []TypeOK
<1>1. IInv => TypeOK
  BY DEF IInv
<1>. QED
  BY <1>1, BillingInvariant, PTL

(* An event revises the invoice once at most, however often it is          *)
(* delivered and whatever is cleaned up (_claim_webhook_event,             *)
(* uq_billing_payments_provider_ref).                                      *)
THEOREM BillingAppliedOnce == Spec => []AppliedOnce
<1>1. IInv => AppliedOnce
  <2>. SUFFICES ASSUME IInv, NEW e \in DOMAIN issued PROVE Cardinality(RevisionsOf(e)) <= 1
    BY DEF AppliedOnce
  <2>1. e # 0
    BY Typing DEF IInv
  <2>2. \A i, j \in RevisionsOf(e) : i = j
    BY <2>1 DEF IInv, InvoicesOK, RevisionsOf
  <2>3. CASE RevisionsOf(e) = {}
    BY <2>3, FS_EmptySet
  <2>4. ASSUME NEW i \in RevisionsOf(e) PROVE Cardinality(RevisionsOf(e)) <= 1
    <3>1. RevisionsOf(e) = {i}
      BY <2>2
    <3>2. Cardinality({i}) = 1
      BY FS_Singleton
    <3>. QED
      BY <3>1, <3>2
  <2>. QED
    BY <2>3, <2>4
<1>. QED
  BY <1>1, BillingInvariant, PTL

(* The payments are those of the revisions (_apply_invoice_event).         *)
THEOREM BillingPaymentsExplainInvoice == Spec => []PaymentsExplainInvoice
<1>1. IInv => PaymentsExplainInvoice
  BY DEF IInv, InvoicesOK
<1>. QED
  BY <1>1, BillingInvariant, PTL

(* No invoice is shown as paid, and no subscription reactivated by the     *)
(* retries, that the provider has not confirmed (_apply_invoice_event,     *)
(* _retry_failed_payments_async, mark_paid).                               *)
THEOREM BillingPaidIsConfirmed == Spec => []PaidIsConfirmed
<1>1. IInv => PaidIsConfirmed
  <2>. SUFFICES ASSUME IInv PROVE PaidIsConfirmed
    OBVIOUS
  <2>1. DOMAIN subs = 1..Len(subs)
    BY Typing DEF IInv
  <2>. QED
    BY <2>1 DEF IInv, PaidIsConfirmed, InvoicesOK, RowsOK, RowOK
<1>. QED
  BY <1>1, BillingInvariant, PTL

(* The task cancels after MaxRetries failed attempts at least, those the   *)
(* client's metadata began with included (_next_retry_count).              *)
THEOREM BillingCancelledAfterRetries == Spec => []CancelledAfterRetries
<1>1. IInv => CancelledAfterRetries
  <2>. SUFFICES ASSUME IInv, NEW i \in DOMAIN subs, subs[i].by = "task", subs[i].status = "cancelled"
                PROVE  HeadStart + Cardinality(FailuresUpTo(i)) >= MaxRetries
    BY DEF CancelledAfterRetries
  <2>0. subs \in Seq(Rows) /\ subs # <<>>
    BY Typing DEF IInv
  <2>1. i \in 1..Len(subs) /\ i \in Nat /\ MaxRetries \in Nat /\ subs[i].retry \in Int
    <3>1. i \in 1..Len(subs) /\ subs[i] \in Rows /\ Len(subs) \in Nat
      BY <2>0
    <3>. QED
      BY <3>1, BillingAssumption DEF Rows
  <2>2. subs[i].retry >= MaxRetries /\ subs[i].retry <= Start(subs) + Cardinality(Fails(subs, i))
    BY <2>1 DEF IInv, RowsOK, RowOK
  <2>3. Cardinality(Fails(subs, i)) \in Nat /\ Start(subs) \in Nat
    BY <2>0, <2>1, FailsFinite, ExtendsSelf, BoundGrows
  <2>4. FailuresUpTo(i) = Fails(subs, i) /\ HeadStart = Start(subs)
    BY DEF FailuresUpTo, Fails, HeadStart, Start, Original
  <2>. QED
    BY <2>1, <2>2, <2>3, <2>4
<1>. QED
  BY <1>1, BillingInvariant, PTL

(* What a step appends to either table is marked with the event of the     *)
(* webhook, or with none.                                                  *)
LEMMA Marks ==
    ASSUME IInv, [Next]_vars
    PROVE  /\ \/ subs' = subs
              \/ \E row \in Rows : row.event \in {0, hook.event} /\ subs' = Append(subs, row)
              \/ \E n \in Nat, row \in Rows : row.event = 0 /\ subs' = subs \o [i \in 1..n |-> row]
           /\ \/ invoices' = invoices
              \/ \E row \in Revisions : row.event \in {0, hook.event} /\ invoices' = Append(invoices, row)
<1>1. /\ subs \in Seq(Rows) /\ subs # <<>> /\ hook.event \in 0..MaxEvents
      /\ hook.seen.retry \in Int
      /\ MaxEvents \in Nat /\ MaxRetries \in Nat \ {0}
  BY Typing, BillingAssumption DEF IInv, Rows
<1>2. Original \in Rows /\ Latest \in Rows
  BY <1>1 DEF Original, Latest
<1>3. ASSUME NEW status \in Statuses, NEW retry \in Int,
             NEW by \in {"hook", "task", "trial", "api"}, NEW e \in 0..MaxEvents
      PROVE  Sub(status, retry, by, e) \in Rows /\ Sub(status, retry, by, e).event = e
  BY DEF Sub, Rows
<1>4. ASSUME NEW status \in {"paid", "uncollectible"}, NEW e \in 0..MaxEvents
      PROVE  Invoice(status, e) \in Revisions /\ Invoice(status, e).event = e
  BY DEF Invoice, Revisions
<1>5. CASE subs' = subs /\ invoices' = invoices
  BY <1>5
<1>6. ASSUME NEW status \in Statuses, AppendStatus(hook.seen, status)
      PROVE  \/ subs' = subs
             \/ \E row \in Rows : row.event \in {0, hook.event} /\ subs' = Append(subs, row)
  BY <1>1, <1>3, <1>6 DEF AppendStatus
<1>7. CASE _apply_subscription_event
  <2>1. status_map(issued[hook.event]) \in Statuses
    BY DEF status_map, Statuses
  <2>. QED
    BY <1>6, <1>7, <2>1 DEF _apply_subscription_event
<1>8. CASE ReviseInvoice({hook.event})
  <2>1. (IF issued[hook.event] = "invoice.paid" THEN "active" ELSE "past_due") \in Statuses
    BY DEF Statuses
  <2>2. (IF issued[hook.event] = "invoice.paid" THEN "paid" ELSE "uncollectible")
          \in {"paid", "uncollectible"}
    OBVIOUS
  <2>. QED
    BY <1>1, <1>4, <1>6, <1>8, <2>1, <2>2 DEF ReviseInvoice
<1>9. ASSUME NEW w \in Workers, _retry_failed_payments_async(w)
      PROVE  /\ \E row \in Rows : row.event = 0 /\ subs' = Append(subs, row)
             /\ \/ invoices' = invoices
                \/ \E row \in Revisions : row.event = 0 /\ invoices' = Append(invoices, row)
  <2>1. Settle(w, task[w].paid, MaxRetries) /\ task[w].at = "commit"
    BY <1>9 DEF _retry_failed_payments_async, Settle
  <2>2. task[w].seen.retry + 1 \in Int
    <3>1. task[w].seen.retry \in Int
      BY Typing DEF IInv, Runs, Rows
    <3>. QED
      BY <3>1
  <2>3. CASE task[w].paid
    <3>1. Sub("active", 0, "task", 0) \in Rows /\ Sub("active", 0, "task", 0).event = 0
      BY <1>1, <1>3 DEF Statuses
    <3>2. Invoice("paid", 0) \in Revisions /\ Invoice("paid", 0).event = 0
      BY <1>1, <1>4
    <3>. QED
      BY <2>1, <2>3, <3>1, <3>2 DEF Settle
  <2>4. CASE ~task[w].paid
    <3> DEFINE row == Sub(IF task[w].seen.retry + 1 >= MaxRetries THEN "cancelled" ELSE "past_due",
                          task[w].seen.retry + 1, "task", 0)
    <3>1. row \in Rows /\ row.event = 0
      <4>1. /\ (IF task[w].seen.retry + 1 >= MaxRetries THEN "cancelled" ELSE "past_due") \in Statuses
            /\ 0 \in 0..MaxEvents
        BY <1>1 DEF Statuses
      <4>. QED
        BY <1>3, <2>2, <4>1
    <3>2. subs' = Append(subs, row) /\ invoices' = invoices
      BY <2>1, <2>4 DEF Settle
    <3>. HIDE DEF row
    <3>. QED
      BY <3>1, <3>2
  <2>. QED
    BY <2>3, <2>4
<1>10. CASE check_trial_conversions \/ check_trial_expirations
  <2>1. Cardinality(Trialing) \in Nat
    BY <1>1, TrialingFinite
  <2>2. PICK n \in Nat, status \in {"active", "incomplete"} : AppendTrials(n, status)
    BY <1>10, <2>1 DEF check_trial_conversions, check_trial_expirations
  <2> DEFINE row == Sub(status, Original.retry, "trial", 0)
  <2>3. row \in Rows /\ row.event = 0
    <3>1. status \in Statuses /\ Original.retry \in Int /\ 0 \in 0..MaxEvents
      BY <1>1, <1>2 DEF Statuses, Rows
    <3>. QED
      BY <1>3, <3>1
  <2>4. subs' = subs \o [i \in 1..n |-> row] /\ invoices' = invoices
    BY <2>2 DEF AppendTrials
  <2>. HIDE DEF row
  <2>. QED
    BY <2>3, <2>4
<1>11. ASSUME NEW old \in {Original, Latest},
              \/ \E at_period_end \in BOOLEAN : cancel_subscription(old, at_period_end)
              \/ reactivate_subscription(old)
       PROVE  (\E row \in Rows : row.event = 0 /\ subs' = Append(subs, row)) /\ invoices' = invoices
  <2>1. old.status \in Statuses /\ old.retry \in Int
    BY <1>2 DEF Rows
  <2>2. PICK status \in Statuses : append_subscription_revision(old, status)
    BY <1>11, <2>1 DEF cancel_subscription, reactivate_subscription, Statuses
  <2>3. Sub(status, old.retry, "api", 0) \in Rows /\ Sub(status, old.retry, "api", 0).event = 0
    BY <1>1, <1>3, <2>1
  <2>. QED
    BY <2>2, <2>3 DEF append_subscription_revision
<1>12. CASE UNCHANGED vars
  BY <1>5, <1>12 DEF vars
<1>13. CASE ProviderCollects \/ \E type \in EventTypes \ {"invoice.paid"} : ProviderEvent(type)
  BY <1>5, <1>13 DEF ProviderCollects, ProviderEvent, tables
<1>14. CASE Webhooks
  BY <1>5, <1>7, <1>8, <1>14 DEF Webhooks, Claim, StartHook, _apply_invoice_event, RouteRaises,
     HookAborts, cleanup_webhook_events, tables
<1>15. ASSUME NEW w \in Workers, Retry(w) \/ RetryAborts(w)
       PROVE  (subs' = subs /\ invoices' = invoices) \/ _retry_failed_payments_async(w)
  BY <1>15 DEF Retry, _list_current_subscriptions, ChargeSucceeds, ChargeAccepted, ChargeUnanswered,
     ChargeFails, ChargeRefused, Charged, RetryAborts, tables
<1>16. ASSUME NEW r \in Requests, pay_invoice(r) \/ PayFails(r) \/ mark_paid(r) \/ PayAborts(r)
       PROVE  /\ subs' = subs
              /\ \/ invoices' = invoices
                 \/ \E row \in Revisions : row.event = 0 /\ invoices' = Append(invoices, row)
  <2>1. Invoice("paid", 0) \in Revisions /\ Invoice("paid", 0).event = 0
    BY <1>1, <1>4
  <2>. QED
    BY <1>16, <2>1 DEF pay_invoice, PayFails, PayAnswered, mark_paid, PayAborts, PayEnds, tables
<1>. QED
  BY <1>5, <1>9, <1>10, <1>11, <1>12, <1>13, <1>14, <1>15, <1>16 DEF Next

(* Rows that are not marked with e leave those that are alone.             *)
LEMMA MarkedKept ==
    ASSUME NEW e, NEW s, NEW t, NEW m \in Nat, NEW n \in Nat, m <= n,
           DOMAIN s = 1..m, DOMAIN t = 1..n,
           \A i \in 1..m : t[i] = s[i],
           \A i \in m + 1..n : t[i].event # e
    PROVE  {i \in DOMAIN t : t[i].event = e} = {i \in DOMAIN s : s[i].event = e}
<1>1. \A i \in 1..n : i \in 1..m \/ i \in m + 1..n
  OBVIOUS
<1>2. \A i \in 1..m : i \in 1..n
  OBVIOUS
<1>. QED
  BY <1>1, <1>2

LEMMA RowsOfKept ==
    ASSUME NEW e, subs \in Seq(Rows),
           \/ subs' = subs
           \/ \E row \in Rows : row.event # e /\ subs' = Append(subs, row)
           \/ \E n \in Nat, row \in Rows : row.event # e /\ subs' = subs \o [i \in 1..n |-> row]
    PROVE  RowsOf(e)' = RowsOf(e)
<1>1. CASE subs' = subs
  BY <1>1 DEF RowsOf
<1>2. ASSUME NEW row \in Rows, row.event # e, subs' = Append(subs, row) PROVE RowsOf(e)' = RowsOf(e)
  <2>1. /\ DOMAIN subs = 1..Len(subs) /\ DOMAIN subs' = 1..Len(subs) + 1 /\ Len(subs) \in Nat
        /\ \A i \in 1..Len(subs) : subs'[i] = subs[i]
        /\ subs'[Len(subs) + 1] = row
    BY <1>2
  <2>2. ASSUME NEW i \in Len(subs) + 1..Len(subs) + 1 PROVE subs'[i].event # e
    <3>1. i = Len(subs) + 1
      BY <2>1
    <3>. QED
      BY <1>2, <2>1, <3>1
  <2>. QED
    BY <2>1, <2>2, MarkedKept DEF RowsOf
<1>3. ASSUME NEW n \in Nat, NEW row \in Rows, row.event # e, subs' = subs \o [i \in 1..n |-> row]
      PROVE  RowsOf(e)' = RowsOf(e)
  <2>1. /\ subs' \in Seq(Rows) /\ Len(subs') = Len(subs) + n /\ Len(subs) \in Nat
        /\ \A i \in 1..Len(subs) : subs'[i] = subs[i]
        /\ \A i \in Len(subs) + 1..Len(subs) + n : subs'[i] = row
    <3> DEFINE t == subs \o [i \in 1..n |-> row]
    <3>1. t = subs \o [i \in 1..n |-> row] /\ subs' = t
      BY <1>3
    <3>. HIDE DEF t
    <3>2. /\ t \in Seq(Rows) /\ Len(t) = Len(subs) + n /\ Len(subs) \in Nat
          /\ \A i \in 1..Len(subs) : t[i] = subs[i]
          /\ \A i \in Len(subs) + 1..Len(subs) + n : t[i] = row
      BY ONLY subs \in Seq(Rows), n \in Nat, row \in Rows, <3>1, Concatenated
    <3>. QED
      BY <3>1, <3>2
  <2>2. DOMAIN subs = 1..Len(subs) /\ DOMAIN subs' = 1..Len(subs') /\ Len(subs) <= Len(subs')
    BY <2>1
  <2>3. \A i \in Len(subs) + 1..Len(subs') : subs'[i].event # e
    BY <1>3, <2>1
  <2>. QED
    BY <2>1, <2>2, <2>3, MarkedKept DEF RowsOf
<1>. QED
  BY <1>1, <1>2, <1>3

LEMMA RevisionsOfKept ==
    ASSUME NEW e, invoices \in Seq(Revisions),
           \/ invoices' = invoices
           \/ \E row \in Revisions : row.event # e /\ invoices' = Append(invoices, row)
    PROVE  RevisionsOf(e)' = RevisionsOf(e)
<1>1. CASE invoices' = invoices
  BY <1>1 DEF RevisionsOf
<1>2. ASSUME NEW row \in Revisions, row.event # e, invoices' = Append(invoices, row)
      PROVE  RevisionsOf(e)' = RevisionsOf(e)
  <2>1. /\ DOMAIN invoices = 1..Len(invoices) /\ DOMAIN invoices' = 1..Len(invoices) + 1
        /\ Len(invoices) \in Nat
        /\ \A i \in 1..Len(invoices) : invoices'[i] = invoices[i]
        /\ invoices'[Len(invoices) + 1] = row
    BY <1>2
  <2>2. ASSUME NEW i \in Len(invoices) + 1..Len(invoices) + 1 PROVE invoices'[i].event # e
    <3>1. i = Len(invoices) + 1
      BY <2>1
    <3>. QED
      BY <1>2, <2>1, <3>1
  <2>. QED
    BY <2>1, <2>2, MarkedKept DEF RevisionsOf
<1>. QED
  BY <1>1, <1>2

(* A committed claim is the end of its event, for the invoice and for the  *)
(* subscription, for as long as the claim is kept (_claim_webhook_event).  *)
THEOREM BillingClaimIsFinal == Spec => ClaimIsFinal
<1> DEFINE Final == \A e \in claims : RowsOf(e)' = RowsOf(e) /\ RevisionsOf(e)' = RevisionsOf(e)
<1>1. IInv /\ [Next]_vars => [Final]_vars
  <2>. SUFFICES ASSUME IInv, [Next]_vars, NEW e \in claims
                PROVE  RowsOf(e)' = RowsOf(e) /\ RevisionsOf(e)' = RevisionsOf(e)
    OBVIOUS
  <2>1. e # 0 /\ e # hook.event
    <3>1. e \in DOMAIN issued /\ issued \in Seq(EventTypes)
      BY Typing DEF IInv
    <3>. QED
      BY <3>1 DEF IInv, HookOK
  <2>2. subs \in Seq(Rows) /\ invoices \in Seq(Revisions)
    BY Typing DEF IInv
  <2>3. RowsOf(e)' = RowsOf(e)
    BY <2>1, <2>2, Marks, RowsOfKept
  <2>4. RevisionsOf(e)' = RevisionsOf(e)
    BY <2>1, <2>2, Marks, RevisionsOfKept
  <2>. QED
    BY <2>3, <2>4
<1>2. ClaimIsFinal <=> [][Final]_vars
  BY DEF ClaimIsFinal
<1>. HIDE DEF Final
<1>. QED
  BY <1>1, <1>2, BillingInvariant, PTL DEF Spec

================================================================================
