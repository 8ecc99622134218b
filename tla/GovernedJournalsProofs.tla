------------------------ MODULE GovernedJournalsProofs ------------------------
(***************************************************************************)
(* Proofs about JournalBook and GovernedJournals, for every set of         *)
(* sessions, users and roles, any number of periods and of journals in a   *)
(* period, and every approval policy.                                      *)
(*                                                                         *)
(* First what the operations of JournalBook keep true of the books; then   *)
(* that the transactions of GovernedJournals, whose checks, writes and     *)
(* commits interleave, change the books by such operations only.           *)
(***************************************************************************)
EXTENDS GovernedJournals, FiniteSetTheorems, TLAPS

BookTyped ==
    /\ journals \in [Numbers -> Journal]
    /\ gl \in [Numbers -> Nat]
    /\ periods \in [Periods -> [{"entity", "global"} -> PeriodStatus]]

(* A number without a status is not in use at all.                         *)
Unused == \A n \in Numbers : journals[n].status = "NONE" => journals[n] = NoJournal

(* ReversedOnce without counting: the reversal of a journal is unique, and *)
(* there is one exactly if the journal is voided.                          *)
UndoneOnce ==
    /\ \A r, s \in Numbers :
            journals[r].reverses = journals[s].reverses /\ journals[r].reverses # NoNumber
                => r = s
    /\ \A n \in Numbers :
            journals[n].status = "VOIDED" <=> \E r \in Numbers : journals[r].reverses = n

(* Nobody approves a journal of their own, reversals excepted.             *)
ApprovedByOther ==
    \A n \in Numbers :
        /\ journals[n].status \in {"APPROVED", "PUSHED", "VOIDED"}
        /\ journals[n].reverses = NoNumber
        => journals[n].approved_by \notin {NoUser, journals[n].created_by}

BookInv ==
    BookTyped /\ Unused /\ PostedOnce /\ UndoneOnce /\ ApprovedByOther /\ HardClosedIsSettled

-------------------------------------------------------------------------------
(* The journal numbers of the books: a period and a running number.        *)
LEMMA NumberFacts ==
    /\ NoNumber \notin Numbers
    /\ \A n \in Numbers : PeriodOf(n) \in Periods
    /\ \A n \in Numbers : n = <<n[1], n[2]>> /\ n[1] \in Periods /\ n[2] \in 1..MaxPerPeriod
    /\ 0 \notin Periods
    /\ 1 \in Periods
  BY JournalAssumption DEF NoNumber, Numbers, PeriodOf

(* Every record of a journal that an operation writes is well typed.       *)
LEMMA JournalFacts ==
    /\ NoJournal \in Journal
    /\ \A u \in Users : Draft(u) \in Journal
    /\ \A n \in Numbers, u \in Users : Reversal(n, u) \in Journal
    /\ NoJournal.status = "NONE" /\ NoJournal.reverses = NoNumber
    /\ \A u : /\ Draft(u).status = "DRAFT" /\ Draft(u).reverses = NoNumber
              /\ Draft(u).created_by = u
    /\ \A n, u : /\ Reversal(n, u).status = "PUSHED" /\ Reversal(n, u).reverses = n
  BY DEF NoJournal, Draft, Reversal, Journal

(* The books of a new tenant.                                              *)
LEMMA BookInitInv == BookInit => BookInv
  <1> SUFFICES ASSUME BookInit PROVE BookInv
    OBVIOUS
  <1>1. BookTyped
    BY JournalFacts DEF BookInit, BookTyped, PeriodStatus
  <1>2. \A n \in Numbers : journals[n] = NoJournal /\ gl[n] = 0
    BY DEF BookInit
  <1>3. \A n \in Numbers : journals[n].status = "NONE" /\ journals[n].reverses = NoNumber
    BY <1>2, JournalFacts
  <1>4. Unused /\ PostedOnce /\ UndoneOnce /\ ApprovedByOther
    BY <1>2, <1>3, NumberFacts DEF Unused, PostedOnce, UndoneOnce, ApprovedByOther
  <1>5. HardClosedIsSettled
    BY <1>3 DEF HardClosedIsSettled, Settled, Blocking
  <1> QED
    BY <1>1, <1>4, <1>5 DEF BookInv

(* A new draft goes to an unused number of a period that is not closed.    *)
LEMMA CreateStep ==
    ASSUME BookInv, NEW n \in Numbers, NEW u \in Users, Create(n, u)
    PROVE  BookInv'
  <1> USE DEF BookInv, Create
  <1>1. journals' = [journals EXCEPT ![n] = Draft(u)] /\ gl' = gl /\ periods' = periods
    OBVIOUS
  <1>2. BookTyped'
    BY <1>1, JournalFacts DEF BookTyped
  <1>3. \A m \in Numbers : journals'[m] = IF m = n THEN Draft(u) ELSE journals[m]
    BY <1>1 DEF BookTyped
  <1>4. journals[n].status = "NONE" /\ journals[n].reverses = NoNumber
    BY JournalFacts
  <1>5. Unused' /\ ApprovedByOther'
    BY <1>3, JournalFacts DEF Unused, ApprovedByOther
  <1>6. PostedOnce'
    BY <1>1, <1>3, <1>4, JournalFacts DEF PostedOnce
  <1>7. UndoneOnce'
    <2>1. \A m \in Numbers : /\ journals'[m].reverses = journals[m].reverses
                             /\ journals'[m].status = "VOIDED" <=> journals[m].status = "VOIDED"
      BY <1>3, <1>4, JournalFacts
    <2> QED
      BY <2>1 DEF UndoneOnce
  <1>8. HardClosedIsSettled'
    BY <1>1, <1>3 DEF HardClosedIsSettled, HardClosed, Settled
  <1> QED
    BY <1>2, <1>5, <1>6, <1>7, <1>8

(* Submission, review and approval move a journal that is not posted.      *)
LEMMA AdvanceStep ==
    ASSUME BookInv, NEW n \in Numbers, NEW u \in Users,
           NEW to \in {"SUBMITTED", "UNDER_REVIEW", "APPROVED"}, Advance(n, to, u)
    PROVE  BookInv'
  <1> USE DEF BookInv
  <1>1. gl' = gl /\ periods' = periods /\ ~HardClosed(PeriodOf(n))
    BY DEF Advance
  <1>2. journals[n].status \in {"DRAFT", "SUBMITTED", "UNDER_REVIEW", "PENDING_REVIEW", "RESUBMITTED", "ESCALATED"}
    BY DEF Advance, ReviewSource
  <1>3. /\ journals'[n] \in Journal
        /\ journals'[n].status = to
        /\ journals'[n].reverses = journals[n].reverses
        /\ to = "APPROVED" => /\ journals'[n].approved_by = u
                              /\ journals'[n].created_by # u
    BY DEF Advance, BookTyped, Journal
  <1>4. \A m \in Numbers : m # n => journals'[m] = journals[m]
    BY DEF Advance, BookTyped
  <1>5. BookTyped'
    <2>1. \E jv : journals' = [journals EXCEPT ![n] = jv]
      BY DEF Advance
    <2> QED
      BY <1>1, <1>3, <2>1 DEF BookTyped
  <1>6. Unused' /\ ApprovedByOther'
    BY <1>3, <1>4, JournalAssumption DEF Unused, ApprovedByOther
  <1>7. PostedOnce'
    BY <1>1, <1>2, <1>3, <1>4 DEF PostedOnce
  <1>8. UndoneOnce'
    <2>1. \A m \in Numbers : /\ journals'[m].reverses = journals[m].reverses
                             /\ journals'[m].status = "VOIDED" <=> journals[m].status = "VOIDED"
      BY <1>2, <1>3, <1>4
    <2> QED
      BY <2>1 DEF UndoneOnce
  <1>9. HardClosedIsSettled'
    BY <1>1, <1>4 DEF HardClosedIsSettled, HardClosed, Settled
  <1> QED
    BY <1>5, <1>6, <1>7, <1>8, <1>9

(* Posting puts the lines of an approved journal into the ledger.          *)
LEMMA PostStep ==
    ASSUME BookInv, NEW n \in Numbers, Post(n)
    PROVE  BookInv'
  <1> USE DEF BookInv
  <1>1. /\ periods' = periods
        /\ gl' = [gl EXCEPT ![n] = 1]
        /\ ~HardClosed(PeriodOf(n))
        /\ journals[n].status = "APPROVED"
    BY DEF Post
  <1>2. /\ journals'[n] \in Journal
        /\ journals'[n].status = "PUSHED"
        /\ journals'[n].reverses = journals[n].reverses
        /\ journals'[n].approved_by = journals[n].approved_by
        /\ journals'[n].created_by = journals[n].created_by
    BY DEF Post, BookTyped, Journal
  <1>3. \A m \in Numbers : m # n => journals'[m] = journals[m]
    BY DEF Post, BookTyped
  <1>4. BookTyped'
    <2>1. \E jv : journals' = [journals EXCEPT ![n] = jv]
      BY DEF Post
    <2> QED
      BY <1>1, <1>2, <2>1 DEF BookTyped
  <1>5. Unused' /\ ApprovedByOther'
    BY <1>1, <1>2, <1>3 DEF Unused, ApprovedByOther
  <1>6. PostedOnce'
    BY <1>1, <1>2, <1>3 DEF PostedOnce, BookTyped
  <1>7. UndoneOnce'
    <2>1. \A m \in Numbers : /\ journals'[m].reverses = journals[m].reverses
                             /\ journals'[m].status = "VOIDED" <=> journals[m].status = "VOIDED"
      BY <1>1, <1>2, <1>3
    <2> QED
      BY <2>1 DEF UndoneOnce
  <1>8. HardClosedIsSettled'
    BY <1>1, <1>3 DEF HardClosedIsSettled, HardClosed, Settled
  <1> QED
    BY <1>4, <1>5, <1>6, <1>7, <1>8

(* A reversal voids a posted journal and takes an unused number.           *)
LEMMA ReverseStep ==
    ASSUME BookInv, NEW n \in Numbers, NEW r \in Numbers, NEW u \in Users, Reverse(n, r, u)
    PROVE  BookInv'
  <1> USE DEF BookInv
  <1>1. /\ periods' = periods
        /\ gl' = [gl EXCEPT ![r] = 1]
        /\ journals[n].status = "PUSHED"
        /\ journals[r] = NoJournal
    BY DEF Reverse
  <1>2. n # r /\ journals[r].status = "NONE" /\ journals[r].reverses = NoNumber
    BY <1>1, JournalFacts
  <1>3. journals'[r] = Reversal(n, u)
    BY DEF Reverse, BookTyped
  <1>4. /\ journals'[n] \in Journal
        /\ journals'[n].status = "VOIDED"
        /\ journals'[n].reverses = journals[n].reverses
        /\ journals'[n].approved_by = journals[n].approved_by
        /\ journals'[n].created_by = journals[n].created_by
    BY <1>2 DEF Reverse, BookTyped, Journal
  <1>5. \A m \in Numbers : m \notin {n, r} => journals'[m] = journals[m]
    BY DEF Reverse, BookTyped
  <1>6. BookTyped'
    <2>1. \E jv : journals' = [journals EXCEPT ![n] = jv, ![r] = Reversal(n, u)]
      BY DEF Reverse
    <2> QED
      BY <1>1, <1>2, <1>4, <2>1, JournalFacts DEF BookTyped
  <1>7. Unused'
    BY <1>3, <1>4, <1>5, JournalFacts DEF Unused
  <1>8. ApprovedByOther'
    BY <1>1, <1>3, <1>4, <1>5, JournalFacts, NumberFacts DEF ApprovedByOther
  <1>9. PostedOnce'
    BY <1>1, <1>3, <1>4, <1>5, JournalFacts DEF PostedOnce, BookTyped
  <1>10. UndoneOnce'
    <2>1. \A m \in Numbers :
            journals'[m].reverses = IF m = r THEN n ELSE journals[m].reverses
      BY <1>3, <1>4, <1>5, JournalFacts
    <2>2. \A m \in Numbers : journals[m].reverses # n
      BY <1>1 DEF UndoneOnce
    <2>3. \A m \in Numbers : (journals'[m].status = "VOIDED") <=>
                                (m = n \/ journals[m].status = "VOIDED")
      BY <1>2, <1>3, <1>4, <1>5, JournalFacts
    <2>4. \A m, s \in Numbers :
            journals'[m].reverses = journals'[s].reverses /\ journals'[m].reverses # NoNumber
                => m = s
      BY <2>1, <2>2 DEF UndoneOnce
    <2>5. ASSUME NEW m \in Numbers
          PROVE  journals'[m].status = "VOIDED" <=> \E s \in Numbers : journals'[s].reverses = m
      <3>1. CASE m = n
        BY <3>1, <2>1, <2>3
      <3>2. CASE m # n
        <4>1. \A s \in Numbers : journals'[s].reverses = m <=> journals[s].reverses = m
          BY <3>2, <2>1, <1>2, NumberFacts
        <4> QED
          BY <3>2, <4>1, <2>3 DEF UndoneOnce
      <3> QED
        BY <3>1, <3>2
    <2> QED
      BY <2>4, <2>5 DEF UndoneOnce
  <1>11. HardClosedIsSettled'
    <2>1. journals'[n].status \notin Blocking /\ journals'[r].status \notin Blocking
      BY <1>3, <1>4, JournalFacts DEF Blocking
    <2> QED
      BY <1>1, <1>5, <2>1 DEF HardClosedIsSettled, HardClosed, Settled
  <1> QED
    BY <1>6, <1>7, <1>8, <1>9, <1>10, <1>11

(* A period is closed for good only when it is settled.                    *)
LEMMA SetPeriodStep ==
    ASSUME BookInv, NEW p \in Periods, NEW scope \in {"entity", "global"},
           NEW to \in {"SOFT_CLOSED", "HARD_CLOSED", "REOPENED"}, SetPeriod(p, scope, to)
    PROVE  BookInv'
  <1> USE DEF BookInv
  <1>1. journals' = journals /\ gl' = gl /\ (to = "HARD_CLOSED" => Settled(p))
    BY DEF SetPeriod
  <1>2. BookTyped'
    BY <1>1 DEF SetPeriod, BookTyped, PeriodStatus
  <1>3. \A q \in Periods, s \in {"entity", "global"} :
            periods'[q][s] = IF q = p /\ s = scope THEN to ELSE periods[q][s]
    BY DEF SetPeriod, BookTyped
  <1>4. Unused' /\ PostedOnce' /\ UndoneOnce' /\ ApprovedByOther'
    BY <1>1 DEF Unused, PostedOnce, UndoneOnce, ApprovedByOther
  <1>5. HardClosedIsSettled'
    BY <1>1, <1>3 DEF HardClosedIsSettled, HardClosed, Settled
  <1> QED
    BY <1>2, <1>4, <1>5

(* Every operation of the books keeps their invariant.                     *)
LEMMA BookStepInv ==
    ASSUME BookInv, [BookNext]_book
    PROVE  BookInv'
  <1>1. CASE UNCHANGED book
    BY <1>1 DEF book, BookInv, BookTyped, Unused, PostedOnce, UndoneOnce, ApprovedByOther,
         HardClosedIsSettled, HardClosed, Settled
  <1>2. CASE BookNext
    BY <1>2, CreateStep, AdvanceStep, PostStep, ReverseStep, SetPeriodStep DEF BookNext
  <1> QED
    BY <1>1, <1>2

(* What the accounting layer promises is enough for the books to be right: *)
(* every behaviour of JournalBook keeps BookInv.                           *)
THEOREM BookInvariant == BookSpec => []BookInv
  BY BookInitInv, BookStepInv, PTL DEF BookSpec

(* The operations of the books never touch what is posted, but for the     *)
(* status of a journal that is reversed.                                   *)
THEOREM BookPostedIsFinal == BookSpec => PostedIsFinal
  <1> DEFINE Kept(n) == gl'[n] = gl[n] /\ journals'[n] = journals[n]
             Voided(n) ==
                /\ journals[n].status = "PUSHED"
                /\ journals'[n] = [journals[n] EXCEPT !.status = "VOIDED"]
                /\ \E r \in Numbers : /\ journals[r] = NoJournal /\ gl'[r] = 1
                                      /\ journals'[r].status = "PUSHED"
                                      /\ journals'[r].reverses = n
             Stays ==
                \A n \in Numbers :
                    journals[n].status \in {"PUSHED", "VOIDED"} =>
                        /\ gl'[n] = gl[n]
                        /\ \/ journals'[n] = journals[n]
                           \/ Voided(n)
  <1>1. ASSUME BookInv, [BookNext]_book PROVE Stays
    <2>1. ASSUME NEW n \in Numbers, NEW u \in Users,
                 Create(n, u) \/ \E to \in {"SUBMITTED", "UNDER_REVIEW", "APPROVED"} : Advance(n, to, u)
          PROVE  Stays
      <3>1. journals[n].status \notin {"PUSHED", "VOIDED"}
        BY <2>1, JournalFacts DEF Create, Advance, ReviewSource
      <3>2. \A m \in Numbers : m # n => Kept(m)
        BY <1>1, <2>1 DEF Create, Advance, BookInv, BookTyped
      <3> QED
        BY <3>1, <3>2
    <2>2. ASSUME NEW n \in Numbers, Post(n) PROVE Stays
      <3>1. \A m \in Numbers : m # n => Kept(m)
        BY <1>1, <2>2 DEF Post, BookInv, BookTyped
      <3> QED
        BY <2>2, <3>1 DEF Post
    <2>3. ASSUME NEW n \in Numbers, NEW r \in Numbers, NEW u \in Users, Reverse(n, r, u)
          PROVE  Stays
      <3>1. n # r /\ journals[r].status = "NONE"
        BY <2>3, JournalFacts DEF Reverse
      <3>2. /\ journals'[n] = [journals[n] EXCEPT !.status = "VOIDED"]
            /\ journals'[r] = Reversal(n, u)
            /\ \A m \in Numbers \ {n, r} : journals'[m] = journals[m]
        BY <1>1, <2>3, <3>1 DEF Reverse, BookInv, BookTyped
      <3>3. gl'[r] = 1 /\ \A m \in Numbers \ {r} : gl'[m] = gl[m]
        BY <1>1, <2>3 DEF Reverse, BookInv, BookTyped
      <3>4. Voided(n)
        BY <2>3, <3>2, <3>3, JournalFacts DEF Reverse
      <3> QED
        BY <3>1, <3>2, <3>3, <3>4
    <2>4. ASSUME journals' = journals, gl' = gl PROVE Stays
      BY <2>4
    <2> QED
      BY <1>1, <2>1, <2>2, <2>3, <2>4 DEF BookNext, SetPeriod, book
  <1>2. BookInv /\ [BookNext]_book => [Stays]_book
    BY <1>1
  <1>3. PostedIsFinal <=> [][Stays]_book
    BY DEF PostedIsFinal
  <1> QED
    BY <1>2, <1>3, BookInvariant, PTL DEF BookSpec

(* The uniqueness of reversals, counted.                                   *)
LEMMA UndoneOnceCounts == UndoneOnce => ReversedOnce
  <1> SUFFICES ASSUME UndoneOnce, NEW n \in Numbers
               PROVE  Cardinality({r \in Numbers : journals[r].reverses = n}) =
                        IF journals[n].status = "VOIDED" THEN 1 ELSE 0
    BY DEF ReversedOnce
  <1> DEFINE undoing == {r \in Numbers : journals[r].reverses = n}
  <1>1. CASE journals[n].status = "VOIDED"
    <2>1. PICK r \in Numbers : journals[r].reverses = n
      BY <1>1 DEF UndoneOnce
    <2>2. undoing = {r}
      BY <2>1, NumberFacts DEF UndoneOnce
    <2> QED
      BY <1>1, <2>2, FS_Singleton
  <1>2. CASE journals[n].status # "VOIDED"
    <2>1. undoing = {}
      BY <1>2 DEF UndoneOnce
    <2> QED
      BY <1>2, <2>1, FS_EmptySet
  <1> QED
    BY <1>1, <1>2

-------------------------------------------------------------------------------
(* The journals of a period have the numbers 1, 2, ... without a gap, so   *)
(* that one more than their number is not in use.                          *)
Numbering ==
    \A p \in Periods : \E k \in 0..MaxPerPeriod : \A i \in 1..MaxPerPeriod :
        journals[<<p, i>>] # NoJournal <=> i <= k

(* A journal under review has a reviewer, and so has an approved one where *)
(* the tenant asks for a review.                                           *)
Reviewed ==
    \A n \in Numbers :
        /\ journals[n].status = "UNDER_REVIEW" => journals[n].reviewed_by # NoUser
        /\ /\ journals[n].status \in {"APPROVED", "PUSHED", "VOIDED"}
           /\ journals[n].reverses = NoNumber
           /\ require_reviewer
           => journals[n].reviewed_by # NoUser

Request ==
    [op : Ops \cup {"none", "lock", "unlock"}, n : Numbers \cup {NoNumber},
     p : Periods \cup {0}, u : Users \cup {NoUser}, scope : {"entity", "global"},
     to : PeriodStatus]

SessionTyped ==
    /\ today \in Periods
    /\ lock \in [Chains -> Txns \cup {NoTxn}]
    /\ pc \in [Txns -> {"idle", "queued", "guards", "gated", "deciding", "reversing", "done"}]
    /\ req \in [Txns -> Request]
    /\ ok \in [Txns -> BOOLEAN]
    /\ flushed = [t \in Txns |-> flushed[t]]

(* A request names what its operation needs.                               *)
Asks(t) ==
    pc[t] # "idle" =>
        /\ req[t].op # "none"
        /\ req[t].u \in Users
        /\ req[t].op \in Ops \ {"create"} => req[t].n \in Numbers
        /\ req[t].op \in {"create", "lock", "unlock"} => req[t].p \in Periods
        /\ req[t].op = "lock" => req[t].to \in {"SOFT_CLOSED", "HARD_CLOSED"}
        /\ req[t].op = "unlock" => req[t].to = "REOPENED"

(* Between the event of its guards and its end a request holds the second  *)
(* chain lock: one request at a time decides and writes.                   *)
Serial(t) ==
    pc[t] \in {"deciding", "reversing", "done"} => lock["governance_events"] = t

RowsOnly(rows) == [journals |-> rows, gl |-> {}, periods |-> {}]

(* The rows w that the executor of r writes, and what it found when it     *)
(* wrote them.                                                             *)
FlushedBy(r, w) ==
    \/ /\ r.op = "create"
       /\ CreateAllowed(r)
       /\ w = RowsOnly(Row(NumberFor(r.p), Draft(r.u)))
    \/ /\ r.op = "submit"
       /\ SubmitAllowed(r)
       /\ w = RowsOnly(Row(r.n, [journals[r.n] EXCEPT !.status = "SUBMITTED"]))
    \/ /\ r.op = "review"
       /\ ReviewAllowed(r)
       /\ w = RowsOnly(Row(r.n, [journals[r.n] EXCEPT !.status = "UNDER_REVIEW",
                                                      !.reviewed_by = r.u]))
    \/ /\ r.op = "approve"
       /\ ApproveAllowed(r)
       /\ w = RowsOnly(Row(r.n, [journals[r.n] EXCEPT !.status = "APPROVED",
                                                      !.approved_by = r.u]))
    \/ /\ r.op = "post"
       /\ PostAllowed(r)
       /\ w = [journals |-> Row(r.n, [journals[r.n] EXCEPT !.status = "PUSHED"]),
               gl |-> {r.n}, periods |-> {}]
    \/ /\ r.op = "reverse"
       /\ journals[r.n].status = "PUSHED"
       /\ \E p \in Periods :
            /\ Room(p)
            /\ w = [journals |-> [m \in {r.n, NumberFor(p)} |->
                        IF m = NumberFor(p) THEN Reversal(r.n, r.u)
                        ELSE [journals[r.n] EXCEPT !.status = "VOIDED"]],
                    gl |-> {NumberFor(p)}, periods |-> {}]
    \/ /\ r.op \in {"lock", "unlock"}
       /\ r.to = "HARD_CLOSED" => Settled(r.p)
       /\ w = [journals |-> <<>>, gl |-> {}, periods |-> {<<r.p, r.scope, r.to>>}]

(* What a request has written and not committed: nothing before its end,   *)
(* then nothing or the rows of its executor, whose findings still hold.    *)
Pending(t) ==
    /\ pc[t] # "done" => flushed[t] = Nothing
    /\ pc[t] = "reversing" => req[t].op = "reverse" /\ journals[req[t].n].status = "PUSHED"
    /\ pc[t] = "done" => flushed[t] = Nothing \/ FlushedBy(req[t], flushed[t])

TxnOK(t) == Asks(t) /\ Serial(t) /\ Pending(t)

IInv == BookInv /\ Numbering /\ Reviewed /\ SessionTyped /\ \A t \in Txns : TxnOK(t)

-------------------------------------------------------------------------------
(* _generate_jv_number gives the number after the last one in use.         *)
LEMMA NumberForNext ==
    ASSUME BookTyped, Numbering, NEW p \in Periods
    PROVE  \E k \in 0..MaxPerPeriod :
            /\ NumberFor(p) = <<p, k + 1>>
            /\ \A i \in 1..MaxPerPeriod : journals[<<p, i>>] # NoJournal <=> i <= k
  <1>1. PICK k \in 0..MaxPerPeriod :
            \A i \in 1..MaxPerPeriod : journals[<<p, i>>] # NoJournal <=> i <= k
    BY DEF Numbering
  <1> DEFINE used == {n \in Numbers : PeriodOf(n) = p /\ journals[n] # NoJournal}
             f == [i \in 1..k |-> <<p, i>>]
  <1>2. MaxPerPeriod \in Nat /\ k \in Nat
    BY JournalAssumption
  <1>3. used = {<<p, i>> : i \in 1..k}
    <2>1. ASSUME NEW n \in used PROVE n \in {<<p, i>> : i \in 1..k}
      <3>1. n = <<p, n[2]>> /\ n[2] \in 1..MaxPerPeriod /\ journals[n] # NoJournal
        BY <2>1, NumberFacts DEF PeriodOf
      <3>2. n[2] \in 1..k
        BY <3>1, <1>1, <1>2
      <3> QED
        BY <3>1, <3>2
    <2>2. ASSUME NEW i \in 1..k PROVE <<p, i>> \in used
      BY <1>1, <1>2 DEF Numbers, PeriodOf
    <2> QED
      BY <2>1, <2>2
  <1>4. f \in Bijection(1..k, used)
    <2>1. f \in [1..k -> used]
      BY <1>3
    <2>2. \A i, j \in 1..k : f[i] = f[j] => i = j
      OBVIOUS
    <2>3. \A n \in used : \E i \in 1..k : f[i] = n
      BY <1>3
    <2> QED
      BY <2>1, <2>2, <2>3 DEF Bijection, Injection, Surjection, IsInjective
  <1>5. IsFiniteSet(1..k) /\ Cardinality(1..k) = k
    BY <1>2, FS_Interval
  <1>6. Cardinality(used) = k
    <2>1. ExistsBijection(1..k, used)
      BY <1>4 DEF ExistsBijection
    <2> HIDE DEF used
    <2> QED
      BY <1>5, <2>1, FS_Bijection
  <1>7. NumberFor(p) = <<p, k + 1>>
    BY <1>6 DEF NumberFor
  <1> QED
    BY <1>1, <1>7

(* Where a period has room, that number is free.                           *)
LEMMA NumberForFree ==
    ASSUME BookInv, Numbering, NEW p \in Periods, Room(p)
    PROVE  /\ NumberFor(p) \in Numbers
           /\ PeriodOf(NumberFor(p)) = p
           /\ journals[NumberFor(p)] = NoJournal
           /\ journals[NumberFor(p)].status = "NONE"
           /\ gl[NumberFor(p)] = 0
  <1>1. PICK k \in 0..MaxPerPeriod :
            /\ NumberFor(p) = <<p, k + 1>>
            /\ \A i \in 1..MaxPerPeriod : journals[<<p, i>>] # NoJournal <=> i <= k
    BY NumberForNext DEF BookInv
  <1>2. NumberFor(p) \in Numbers
    BY DEF Room
  <1>3. k + 1 \in 1..MaxPerPeriod
    BY <1>1, <1>2 DEF Numbers
  <1>4. journals[NumberFor(p)] = NoJournal
    BY <1>1, <1>3, JournalAssumption
  <1>5. gl[NumberFor(p)] = 0
    BY <1>2, <1>4, JournalFacts DEF BookInv, PostedOnce
  <1> QED
    BY <1>1, <1>2, <1>4, <1>5, JournalFacts DEF PeriodOf

(* Taking the next number of a period keeps the numbers without a gap.     *)
LEMMA NumberingExtends ==
    ASSUME BookInv, Numbering, NEW p \in Periods, Room(p),
           \A n \in Numbers : journals'[n] = NoJournal <=>
                                (journals[n] = NoJournal /\ n # NumberFor(p))
    PROVE  Numbering'
  <1>1. PICK k \in 0..MaxPerPeriod :
            /\ NumberFor(p) = <<p, k + 1>>
            /\ \A i \in 1..MaxPerPeriod : journals[<<p, i>>] # NoJournal <=> i <= k
    BY NumberForNext DEF BookInv
  <1>2. k + 1 \in 1..MaxPerPeriod
    BY <1>1 DEF Room, Numbers
  <1>3. ASSUME NEW q \in Periods
        PROVE  \E j \in 0..MaxPerPeriod : \A i \in 1..MaxPerPeriod :
                    journals'[<<q, i>>] # NoJournal <=> i <= j
    <2>1. \A i \in 1..MaxPerPeriod :
            journals'[<<q, i>>] = NoJournal <=>
                (journals[<<q, i>>] = NoJournal /\ ~(q = p /\ i = k + 1))
      <3> SUFFICES ASSUME NEW i \in 1..MaxPerPeriod
                   PROVE  journals'[<<q, i>>] = NoJournal <=>
                            (journals[<<q, i>>] = NoJournal /\ ~(q = p /\ i = k + 1))
        OBVIOUS
      <3>1. <<q, i>> \in Numbers
        BY DEF Numbers
      <3>2. <<q, i>> = NumberFor(p) <=> q = p /\ i = k + 1
        BY <1>1
      <3> QED
        BY <3>1, <3>2
    <2>2. CASE q = p
      <3>1. \A i \in 1..MaxPerPeriod : journals'[<<q, i>>] # NoJournal <=> i <= k + 1
        BY <1>1, <1>2, <2>1, <2>2, JournalAssumption
      <3>2. k + 1 \in 0..MaxPerPeriod
        BY <1>2
      <3> QED
        BY <3>1, <3>2
    <2>3. CASE q # p
      <3>1. PICK j \in 0..MaxPerPeriod : \A i \in 1..MaxPerPeriod :
                    journals[<<q, i>>] # NoJournal <=> i <= j
        BY DEF Numbering
      <3>2. \A i \in 1..MaxPerPeriod : journals'[<<q, i>>] # NoJournal <=> i <= j
        BY <2>1, <2>3, <3>1
      <3> QED
        BY <3>2
    <2> QED
      BY <2>2, <2>3
  <1> QED
    BY <1>3 DEF Numbering

(* So do operations on journals that exist.                                *)
LEMMA NumberingKept ==
    ASSUME Numbering, \A n \in Numbers : journals'[n] = NoJournal <=> journals[n] = NoJournal
    PROVE  Numbering'
  BY DEF Numbering, Numbers

(* What a commit may do to the books: an operation of JournalBook that     *)
(* takes the next number of a period and honours the review policy, or     *)
(* nothing.                                                                *)
CommittedOp ==
    \/ UNCHANGED book
    \/ \E p \in Periods, u \in Users : Room(p) /\ Create(NumberFor(p), u)
    \/ \E n \in Numbers, u \in Users :
        \/ Advance(n, "SUBMITTED", u)
        \/ Advance(n, "UNDER_REVIEW", u)
        \/ /\ Advance(n, "APPROVED", u)
           /\ require_reviewer =>
                journals[n].reviewed_by # NoUser \/ journals[n].status \in ReviewSource
        \/ \E p \in Periods : Room(p) /\ Reverse(n, NumberFor(p), u)
    \/ \E n \in Numbers : Post(n)
    \/ \E p \in Periods, scope \in {"entity", "global"},
          to \in {"SOFT_CLOSED", "HARD_CLOSED", "REOPENED"} : SetPeriod(p, scope, to)

(* A transaction that has written one journal row commits it.              *)
LEMMA CommitRow ==
    ASSUME BookTyped, NEW t \in Txns, Commit(t), NEW n \in Numbers, NEW jv,
           flushed[t].journals = Row(n, jv)
    PROVE  journals' = [journals EXCEPT ![n] = jv]
  BY DEF Commit, Row, BookTyped

(* A transaction that has written no journal, ledger or period row leaves  *)
(* that table alone.                                                       *)
LEMMA CommitNone ==
    ASSUME BookTyped, NEW t \in Txns, Commit(t)
    PROVE  /\ flushed[t].journals = <<>> => journals' = journals
           /\ flushed[t].gl = {} => gl' = gl
           /\ flushed[t].periods = {} => periods' = periods
  <1>1. ASSUME flushed[t].journals = <<>> PROVE journals' = journals
    <2>1. DOMAIN flushed[t].journals = {}
      BY <1>1
    <2> QED
      BY <2>1 DEF Commit, BookTyped
  <1>2. ASSUME flushed[t].gl = {} PROVE gl' = gl
    BY <1>2 DEF Commit, BookTyped
  <1>3. ASSUME flushed[t].periods = {} PROVE periods' = periods
    <2>1. periods' = [p \in Periods |-> [scope \in {"entity", "global"} |-> periods[p][scope]]]
      BY <1>3 DEF Commit
    <2> QED
      BY <2>1 DEF BookTyped
  <1> QED
    BY <1>1, <1>2, <1>3

(* A transaction that has posted the lines of one journal commits them.    *)
LEMMA CommitPosting ==
    ASSUME BookTyped, NEW t \in Txns, Commit(t), NEW n \in Numbers,
           flushed[t].gl = {n}, gl[n] = 0
    PROVE  gl' = [gl EXCEPT ![n] = 1]
  <1>1. gl' = [m \in Numbers |-> IF m = n THEN gl[m] + 1 ELSE gl[m]]
    BY DEF Commit
  <1>2. gl' = [m \in Numbers |-> IF m = n THEN 1 ELSE gl[m]]
    BY <1>1
  <1> QED
    BY <1>2 DEF BookTyped

(* Every commit is such an operation.                                      *)
LEMMA CommitIsOp ==
    ASSUME IInv, NEW t \in Txns, Commit(t)
    PROVE  CommittedOp
  <1> DEFINE r == req[t]
             w == flushed[t]
  <1>1. /\ pc[t] = "done" /\ Asks(t) /\ Pending(t) /\ BookTyped
        /\ BookInv /\ Numbering
    BY DEF IInv, TxnOK, Commit, BookInv
  <1>2. r \in Request /\ r.u \in Users
    BY <1>1 DEF IInv, SessionTyped, Asks
  <1>3. CASE w = Nothing
    BY <1>1, <1>3, CommitNone DEF Nothing, CommittedOp, book
  <1>4. CASE FlushedBy(r, w)
    <2> USE DEF RowsOnly
    <2>1. CASE /\ r.op = "create"
               /\ CreateAllowed(r)
               /\ w = RowsOnly(Row(NumberFor(r.p), Draft(r.u)))
      <3>1. r.p \in Periods
        BY <1>1, <2>1 DEF Asks
      <3>2. Room(r.p) /\ ~HardClosed(r.p)
        BY <2>1 DEF CreateAllowed, assert_period_allows_modification
      <3>3. /\ NumberFor(r.p) \in Numbers /\ PeriodOf(NumberFor(r.p)) = r.p
            /\ journals[NumberFor(r.p)] = NoJournal
        BY <1>1, <3>1, <3>2, NumberForFree
      <3>4. /\ journals' = [journals EXCEPT ![NumberFor(r.p)] = Draft(r.u)]
            /\ gl' = gl /\ periods' = periods
        BY <1>1, <2>1, <3>3, CommitRow, CommitNone
      <3>5. Create(NumberFor(r.p), r.u)
        BY <3>2, <3>3, <3>4 DEF Create
      <3> QED
        BY <1>2, <3>1, <3>2, <3>5 DEF CommittedOp
    <2>2. CASE /\ r.op = "submit"
               /\ SubmitAllowed(r)
               /\ w = RowsOnly(Row(r.n, [journals[r.n] EXCEPT !.status = "SUBMITTED"]))
      <3>1. r.n \in Numbers
        BY <1>1, <2>2 DEF Asks, Ops
      <3>2. /\ journals' = [journals EXCEPT ![r.n] = [journals[r.n] EXCEPT !.status = "SUBMITTED"]]
            /\ gl' = gl /\ periods' = periods
        BY <1>1, <2>2, <3>1, CommitRow, CommitNone
      <3>3. Advance(r.n, "SUBMITTED", r.u)
        BY <2>2, <3>2 DEF Advance, SubmitAllowed, assert_period_allows_modification
      <3> QED
        BY <1>2, <3>1, <3>3 DEF CommittedOp
    <2>3. CASE /\ r.op = "review"
               /\ ReviewAllowed(r)
               /\ w = RowsOnly(Row(r.n, [journals[r.n] EXCEPT !.status = "UNDER_REVIEW",
                                                              !.reviewed_by = r.u]))
      <3>1. r.n \in Numbers
        BY <1>1, <2>3 DEF Asks, Ops
      <3>2. /\ journals' = [journals EXCEPT ![r.n] = [journals[r.n] EXCEPT !.status = "UNDER_REVIEW",
                                                                           !.reviewed_by = r.u]]
            /\ gl' = gl /\ periods' = periods
        BY <1>1, <2>3, <3>1, CommitRow, CommitNone
      <3>3. Advance(r.n, "UNDER_REVIEW", r.u)
        <4>1. journals' = [journals EXCEPT ![r.n].status = "UNDER_REVIEW", ![r.n].reviewed_by = r.u]
          BY <1>1, <3>1, <3>2 DEF BookTyped, Journal
        <4> QED
          BY <2>3, <3>2, <4>1 DEF Advance, ReviewAllowed, assert_period_allows_modification
      <3> QED
        BY <1>2, <3>1, <3>3 DEF CommittedOp
    <2>4. CASE /\ r.op = "approve"
               /\ ApproveAllowed(r)
               /\ w = RowsOnly(Row(r.n, [journals[r.n] EXCEPT !.status = "APPROVED",
                                                              !.approved_by = r.u]))
      <3>1. r.n \in Numbers
        BY <1>1, <2>4 DEF Asks, Ops
      <3>2. /\ journals' = [journals EXCEPT ![r.n] = [journals[r.n] EXCEPT !.status = "APPROVED",
                                                                           !.approved_by = r.u]]
            /\ gl' = gl /\ periods' = periods
        BY <1>1, <2>4, <3>1, CommitRow, CommitNone
      <3>3. Advance(r.n, "APPROVED", r.u)
        <4>1. journals' = [journals EXCEPT ![r.n].status = "APPROVED", ![r.n].approved_by = r.u]
          BY <1>1, <3>1, <3>2 DEF BookTyped, Journal
        <4> QED
          BY <2>4, <3>2, <4>1 DEF Advance, ApproveAllowed, assert_period_allows_modification
      <3>4. require_reviewer =>
                journals[r.n].reviewed_by # NoUser \/ journals[r.n].status \in ReviewSource
        BY <2>4 DEF ApproveAllowed
      <3> QED
        BY <1>2, <3>1, <3>3, <3>4 DEF CommittedOp
    <2>5. CASE /\ r.op = "post"
               /\ PostAllowed(r)
               /\ w = [journals |-> Row(r.n, [journals[r.n] EXCEPT !.status = "PUSHED"]),
                       gl |-> {r.n}, periods |-> {}]
      <3>1. r.n \in Numbers
        BY <1>1, <2>5 DEF Asks, Ops
      <3>2. /\ journals' = [journals EXCEPT ![r.n] = [journals[r.n] EXCEPT !.status = "PUSHED"]]
            /\ periods' = periods
        BY <1>1, <2>5, <3>1, CommitRow, CommitNone
      <3>3. gl' = [gl EXCEPT ![r.n] = 1]
        <4>1. gl[r.n] = 0
          BY <2>5 DEF PostAllowed
        <4> QED
          BY <1>1, <2>5, <3>1, <4>1, CommitPosting
      <3>4. Post(r.n)
        BY <2>5, <3>2, <3>3 DEF Post, PostAllowed, assert_period_allows_posting
      <3> QED
        BY <3>1, <3>4 DEF CommittedOp
    <2>6. ASSUME r.op = "reverse", journals[r.n].status = "PUSHED",
                 NEW p \in Periods, Room(p),
                 w = [journals |-> [m \in {r.n, NumberFor(p)} |->
                            IF m = NumberFor(p) THEN Reversal(r.n, r.u)
                            ELSE [journals[r.n] EXCEPT !.status = "VOIDED"]],
                      gl |-> {NumberFor(p)}, periods |-> {}]
          PROVE  CommittedOp
      <3> DEFINE s == NumberFor(p)
      <3>1. r.n \in Numbers
        BY <1>1, <2>6 DEF Asks, Ops
      <3>2. s \in Numbers /\ journals[s] = NoJournal /\ gl[s] = 0 /\ journals[s].status = "NONE"
        BY <1>1, <2>6, NumberForFree
      <3>3. s # r.n
        BY <2>6, <3>2
      <3> HIDE DEF s
      <3>4. DOMAIN w.journals = {r.n, s} /\ w.journals[s] = Reversal(r.n, r.u)
            /\ w.journals[r.n] = [journals[r.n] EXCEPT !.status = "VOIDED"]
            /\ w.gl = {s}
        BY <2>6, <3>3 DEF s
      <3>5. journals' = [journals EXCEPT ![r.n].status = "VOIDED", ![s] = Reversal(r.n, r.u)]
        <4>1. \A m \in Numbers : journals'[m] = IF m = s THEN Reversal(r.n, r.u)
                                        ELSE IF m = r.n THEN [journals[r.n] EXCEPT !.status = "VOIDED"]
                                        ELSE journals[m]
          BY <3>4 DEF Commit
        <4>2. journals' = [m \in Numbers |-> journals'[m]]
          BY DEF Commit
        <4> QED
          BY <1>1, <3>1, <3>2, <3>3, <4>1, <4>2 DEF BookTyped
      <3>6. gl' = [gl EXCEPT ![s] = 1] /\ periods' = periods
        BY <1>1, <2>6, <3>2, <3>4, CommitNone, CommitPosting
      <3>7. Reverse(r.n, s, r.u)
        BY <2>6, <3>2, <3>5, <3>6 DEF Reverse
      <3> QED
        BY <1>2, <2>6, <3>1, <3>7 DEF CommittedOp, s
    <2>7. CASE /\ r.op \in {"lock", "unlock"}
               /\ r.to = "HARD_CLOSED" => Settled(r.p)
               /\ w = [journals |-> <<>>, gl |-> {}, periods |-> {<<r.p, r.scope, r.to>>}]
      <3>1. r.p \in Periods /\ r.to \in {"SOFT_CLOSED", "HARD_CLOSED", "REOPENED"}
        BY <1>1, <2>7 DEF Asks
      <3>2. r.scope \in {"entity", "global"}
        BY <1>2 DEF Request
      <3>3. journals' = journals /\ gl' = gl
        BY <1>1, <2>7, CommitNone
      <3>4. periods' = [periods EXCEPT ![r.p][r.scope] = r.to]
        <4>1. periods' = [p \in Periods |-> [scope \in {"entity", "global"} |->
                            IF p = r.p /\ scope = r.scope THEN r.to ELSE periods[p][scope]]]
          BY <2>7 DEF Commit
        <4> QED
          BY <1>1, <3>1, <3>2, <4>1 DEF BookTyped
      <3>5. SetPeriod(r.p, r.scope, r.to)
        BY <2>7, <3>3, <3>4 DEF SetPeriod
      <3> QED
        BY <3>1, <3>2, <3>5 DEF CommittedOp
    <2> QED
      BY <1>4, <2>1, <2>2, <2>3, <2>4, <2>5, <2>6, <2>7 DEF FlushedBy
  <1> QED
    BY <1>1, <1>3, <1>4 DEF Pending

(* Such an operation is a step of JournalBook.                              *)
LEMMA CommittedOpIsBookStep == CommittedOp /\ BookInv /\ Numbering => [BookNext]_book
  <1> SUFFICES ASSUME CommittedOp, BookInv, Numbering PROVE [BookNext]_book
    OBVIOUS
  <1>1. \A p \in Periods : Room(p) => NumberFor(p) \in Numbers
    BY DEF Room
  <1> QED
    BY <1>1 DEF CommittedOp, BookNext

(* What such an operation does to the numbers and the reviewers.           *)
LEMMA CommittedOpStep ==
    ASSUME BookInv, Numbering, Reviewed, CommittedOp
    PROVE  Numbering' /\ Reviewed'
  <1>1. CASE UNCHANGED book
    BY <1>1 DEF book, Numbering, Reviewed
  <1>2. ASSUME NEW p \in Periods, NEW u \in Users, Room(p), Create(NumberFor(p), u)
        PROVE  Numbering' /\ Reviewed'
    <2>1. \A m \in Numbers : journals'[m] = IF m = NumberFor(p) THEN Draft(u) ELSE journals[m]
      BY <1>2 DEF Create, BookInv, BookTyped
    <2>2. Draft(u) # NoJournal
      BY JournalFacts
    <2>3. Numbering'
      BY <1>2, <2>1, <2>2, NumberingExtends
    <2>4. Reviewed'
      BY <2>1, JournalFacts DEF Reviewed
    <2> QED
      BY <2>3, <2>4
  <1>3. ASSUME NEW n \in Numbers, NEW u \in Users, NEW to \in {"SUBMITTED", "UNDER_REVIEW", "APPROVED"},
               Advance(n, to, u),
               to = "APPROVED" /\ require_reviewer =>
                    journals[n].reviewed_by # NoUser \/ journals[n].status \in ReviewSource
        PROVE  Numbering' /\ Reviewed'
    <2>1. /\ journals[n].status \notin {"NONE", "PUSHED", "VOIDED"}
          /\ journals'[n].status = to
          /\ journals'[n].reverses = journals[n].reverses
          /\ to = "UNDER_REVIEW" => journals'[n].reviewed_by = u
          /\ to = "APPROVED" => journals'[n].reviewed_by = journals[n].reviewed_by
      BY <1>3 DEF Advance, BookInv, BookTyped, Journal, ReviewSource
    <2>2. \A m \in Numbers : m # n => journals'[m] = journals[m]
      BY <1>3 DEF Advance, BookInv, BookTyped
    <2>3. journals[n].status \in ReviewSource => journals[n].status = "UNDER_REVIEW"
      BY DEF BookInv, BookTyped, Journal, ReviewSource
    <2>4. Numbering'
      BY <2>1, <2>2, NumberingKept, JournalFacts
    <2>5. Reviewed'
      BY <1>3, <2>1, <2>2, <2>3, JournalAssumption DEF Reviewed
    <2> QED
      BY <2>4, <2>5
  <1>4. ASSUME NEW n \in Numbers, NEW u \in Users, NEW p \in Periods, Room(p),
               Reverse(n, NumberFor(p), u)
        PROVE  Numbering' /\ Reviewed'
    <2> DEFINE r == NumberFor(p)
    <2>1. r \in Numbers /\ journals[r] = NoJournal /\ journals[r].status = "NONE"
      BY <1>4, NumberForFree
    <2> HIDE DEF r
    <2>2. journals[n].status = "PUSHED" /\ n # r
      BY <1>4, <2>1 DEF Reverse
    <2>3. /\ journals'[r] = Reversal(n, u)
          /\ journals'[n].status = "VOIDED"
          /\ journals'[n].reverses = journals[n].reverses
          /\ journals'[n].reviewed_by = journals[n].reviewed_by
      BY <1>4, <2>1, <2>2 DEF Reverse, BookInv, BookTyped, Journal, r
    <2>4. \A m \in Numbers : m \notin {n, r} => journals'[m] = journals[m]
      BY <1>4 DEF Reverse, BookInv, BookTyped, r
    <2>5. Numbering'
      <3>1. \A m \in Numbers : journals'[m] = NoJournal <=> (journals[m] = NoJournal /\ m # r)
        BY <2>1, <2>2, <2>3, <2>4, JournalFacts
      <3> QED
        BY <1>4, <3>1, NumberingExtends DEF r
    <2>6. Reviewed'
      BY <2>2, <2>3, <2>4, JournalFacts, NumberFacts DEF Reviewed
    <2> QED
      BY <2>5, <2>6
  <1>5. ASSUME NEW n \in Numbers, Post(n)
        PROVE  Numbering' /\ Reviewed'
    <2>1. /\ journals[n].status = "APPROVED"
          /\ journals'[n].status = "PUSHED"
          /\ journals'[n].reverses = journals[n].reverses
          /\ journals'[n].reviewed_by = journals[n].reviewed_by
      BY <1>5 DEF Post, BookInv, BookTyped, Journal
    <2>2. \A m \in Numbers : m # n => journals'[m] = journals[m]
      BY <1>5 DEF Post, BookInv, BookTyped
    <2>3. Numbering'
      BY <2>1, <2>2, NumberingKept, JournalFacts
    <2>4. Reviewed'
      BY <2>1, <2>2 DEF Reviewed
    <2> QED
      BY <2>3, <2>4
  <1>6. ASSUME NEW p \in Periods, NEW scope, NEW to, SetPeriod(p, scope, to)
        PROVE  Numbering' /\ Reviewed'
    <2>1. journals' = journals
      BY <1>6 DEF SetPeriod
    <2> QED
      BY <2>1 DEF Numbering, Reviewed
  <1> QED
    BY <1>1, <1>2, <1>3, <1>4, <1>5, <1>6 DEF CommittedOp

-------------------------------------------------------------------------------
(* What an executor found stays so as long as the books do.                *)
LEMMA FlushedByKept ==
    ASSUME NEW t \in Txns, NEW w, UNCHANGED book, req'[t] = req[t], flushed'[t] = w,
           FlushedBy(req[t], w)
    PROVE  FlushedBy(req[t], flushed[t])'
  <1> DEFINE r == req[t]
  <1>1. journals' = journals /\ gl' = gl /\ periods' = periods
    BY DEF book
  <1>2. \A p \in Periods : NumberFor(p)' = NumberFor(p) /\ Room(p)' = Room(p)
    BY <1>1 DEF NumberFor, Room
  <1>3. CreateAllowed(r) => CreateAllowed(req[t])' /\ NumberFor(req[t].p)' = NumberFor(r.p)
    BY <1>1 DEF CreateAllowed, assert_period_allows_modification, HardClosed, Room, NumberFor
  <1>4. /\ SubmitAllowed(r) => SubmitAllowed(req[t])'
        /\ ReviewAllowed(r) => ReviewAllowed(req[t])'
        /\ ApproveAllowed(r) => ApproveAllowed(req[t])'
    BY <1>1 DEF SubmitAllowed, ReviewAllowed, ApproveAllowed, assert_period_allows_modification,
         HardClosed
  <1>5. PostAllowed(r) => PostAllowed(req[t])'
    BY <1>1 DEF PostAllowed, assert_period_allows_posting, SoftClosed, HardClosed
  <1>6. Settled(r.p) => Settled(req[t].p)'
    BY <1>1 DEF Settled
  <1> QED
    BY <1>1, <1>2, <1>3, <1>4, <1>5, <1>6, ZenonT(60) DEF FlushedBy

(* A session is not disturbed by a step that leaves it and the books alone. *)
LEMMA Undisturbed ==
    ASSUME NEW s \in Txns, TxnOK(s), UNCHANGED book,
           pc'[s] = pc[s], req'[s] = req[s], flushed'[s] = flushed[s],
           lock["governance_events"] = s => lock'["governance_events"] = s
    PROVE  TxnOK(s)'
  <1>1. Asks(s)' /\ Serial(s)'
    BY DEF TxnOK, Asks, Serial
  <1>2. FlushedBy(req[s], flushed[s]) => FlushedBy(req[s], flushed[s])'
    BY FlushedByKept
  <1>3. Pending(s)'
    BY <1>2 DEF TxnOK, Pending, book
  <1> QED
    BY <1>1, <1>3 DEF TxnOK

(* A step of session t that leaves the books and the other sessions alone  *)
(* has to be looked at for t only.                                         *)
LEMMA OneSession ==
    ASSUME IInv, NEW t \in Txns, UNCHANGED book, SessionTyped', TxnOK(t)',
           \A s \in Txns \ {t} :
                /\ pc'[s] = pc[s] /\ req'[s] = req[s] /\ flushed'[s] = flushed[s]
                /\ lock["governance_events"] = s => lock'["governance_events"] = s
    PROVE  IInv'
  <1>1. BookInv' /\ Numbering' /\ Reviewed'
    BY BookStepInv DEF IInv, Numbering, Reviewed, book
  <1>2. \A s \in Txns : TxnOK(s)'
    BY Undisturbed DEF IInv
  <1> QED
    BY <1>1, <1>2 DEF IInv

(* Arguments of a request, as the endpoints build them, are well typed.    *)
LEMMA RequestFacts ==
    /\ NoRequest \in Request
    /\ \A op \in Ops, n \in Numbers \cup {NoNumber}, p \in Periods \cup {0}, u \in Users :
            [NoRequest EXCEPT !.op = op, !.n = n, !.p = p, !.u = u] \in Request
    /\ \A op \in {"lock", "unlock"}, p \in Periods, u \in Users,
          scope \in {"entity", "global"}, to \in PeriodStatus :
            [NoRequest EXCEPT !.op = op, !.p = p, !.u = u, !.scope = scope, !.to = to] \in Request
  BY DEF NoRequest, Request, PeriodStatus

(* The first state.                                                        *)
LEMMA InitIInv == Init => IInv
  <1> SUFFICES ASSUME Init PROVE IInv
    OBVIOUS
  <1>1. BookInv
    BY BookInitInv DEF Init
  <1>2. \A n \in Numbers : journals[n] = NoJournal
    BY DEF Init, BookInit
  <1>3. Numbering
    <2> SUFFICES ASSUME NEW p \in Periods
                 PROVE  \E k \in 0..MaxPerPeriod : \A i \in 1..MaxPerPeriod :
                            journals[<<p, i>>] # NoJournal <=> i <= k
      BY DEF Numbering
    <2>1. \A i \in 1..MaxPerPeriod : journals[<<p, i>>] = NoJournal
      BY <1>2 DEF Numbers
    <2>2. 0 \in 0..MaxPerPeriod
      BY JournalAssumption
    <2> QED
      BY <2>1, <2>2
  <1>4. Reviewed
    BY <1>2, JournalFacts DEF Reviewed
  <1>5. SessionTyped
    BY RequestFacts, NumberFacts DEF Init, SessionTyped
  <1>6. \A t \in Txns : TxnOK(t)
    BY DEF Init, TxnOK, Asks, Serial, Pending
  <1> QED
    BY <1>1, <1>3, <1>4, <1>5, <1>6 DEF IInv

(* A request arrives.                                                      *)
LEMMA CallStep ==
    ASSUME IInv, NEW t \in Txns, Call(t)
    PROVE  IInv'
  <1>1. ASSUME NEW op \in Ops, NEW n \in Numbers \cup {NoNumber}, NEW p \in Periods \cup {0},
               NEW u \in Users, CallIntent(t, op, n, p, u),
               IF op = "create" THEN p \in Periods ELSE n \in Numbers
        PROVE  IInv'
    <2> DEFINE r == [NoRequest EXCEPT !.op = op, !.n = n, !.p = p, !.u = u]
    <2>1. r \in Request /\ r.op = op /\ r.n = n /\ r.p = p /\ r.u = u
      BY RequestFacts DEF NoRequest
    <2> HIDE DEF r
    <2>2. req' = [req EXCEPT ![t] = r] /\ pc' = [pc EXCEPT ![t] = "queued"]
      BY <1>1 DEF CallIntent, r
    <2>3. UNCHANGED <<journals, gl, periods, today, lock, ok, flushed>> /\ pc[t] = "idle"
      BY <1>1 DEF CallIntent
    <2>4. SessionTyped'
      BY <2>1, <2>2, <2>3 DEF IInv, SessionTyped
    <2>5. pc'[t] = "queued" /\ req'[t] = r
      BY <2>2 DEF IInv, SessionTyped
    <2>6. flushed'[t] = Nothing
      BY <2>3 DEF IInv, TxnOK, Pending
    <2>7. TxnOK(t)'
      BY <1>1, <2>1, <2>5, <2>6 DEF TxnOK, Asks, Serial, Pending, Ops
    <2> QED
      BY <2>2, <2>3, <2>4, <2>7, OneSession DEF IInv, SessionTyped, book
  <1>2. ASSUME NEW op \in {"lock", "unlock"}, NEW p \in Periods, NEW u \in Users,
               NEW scope \in {"entity", "global"},
               NEW to \in IF op = "lock" THEN {"SOFT_CLOSED", "HARD_CLOSED"} ELSE {"REOPENED"},
               CallPeriod(t, [NoRequest EXCEPT !.op = op, !.p = p, !.u = u,
                                               !.scope = scope, !.to = to])
        PROVE  IInv'
    <2> DEFINE r == [NoRequest EXCEPT !.op = op, !.p = p, !.u = u, !.scope = scope, !.to = to]
    <2>1. r \in Request /\ r.op = op /\ r.p = p /\ r.u = u /\ r.scope = scope /\ r.to = to
      BY RequestFacts DEF NoRequest, PeriodStatus
    <2>2. CallPeriod(t, r)
      BY <1>2
    <2> HIDE DEF r
    <2>3. /\ req' = [req EXCEPT ![t] = r] /\ pc' = [pc EXCEPT ![t] = "gated"]
          /\ ok' = [ok EXCEPT ![t] = TRUE] /\ pc[t] = "idle"
          /\ UNCHANGED <<journals, gl, periods, today, lock, flushed>>
      BY <2>2 DEF CallPeriod
    <2>4. SessionTyped'
      BY <2>1, <2>3 DEF IInv, SessionTyped
    <2>5. pc'[t] = "gated" /\ req'[t] = r
      BY <2>3 DEF IInv, SessionTyped
    <2>6. flushed'[t] = Nothing
      BY <2>3 DEF IInv, TxnOK, Pending
    <2>7. TxnOK(t)'
      BY <2>1, <2>5, <2>6 DEF TxnOK, Asks, Serial, Pending, Ops
    <2> QED
      BY <2>3, <2>4, <2>7, OneSession DEF IInv, SessionTyped, book
  <1>3. PICK u \in Users :
            \/ \E p \in Periods : CallIntent(t, "create", NoNumber, p, u)
            \/ \E op \in Ops \ {"create"}, n \in Numbers : CallIntent(t, op, n, 0, u)
            \/ \E p \in Periods, scope \in Scopes :
                \/ \E to \in LockTypes : lock_period_endpoint(t, p, scope, to, u)
                \/ unlock_period_endpoint(t, p, scope, u)
    BY DEF Call
  <1>4. CASE \E p \in Periods : CallIntent(t, "create", NoNumber, p, u)
    BY <1>1, <1>4 DEF Ops
  <1>5. CASE \E op \in Ops \ {"create"}, n \in Numbers : CallIntent(t, op, n, 0, u)
    BY <1>1, <1>5 DEF Ops
  <1>6. CASE \E p \in Periods, scope \in Scopes :
                \/ \E to \in LockTypes : lock_period_endpoint(t, p, scope, to, u)
                \/ unlock_period_endpoint(t, p, scope, u)
    BY <1>2, <1>6, JournalAssumption DEF lock_period_endpoint, unlock_period_endpoint
  <1> QED
    BY <1>3, <1>4, <1>5, <1>6

(* The request queues for the intent chain, and its guards look at books   *)
(* that may change before it decides.                                      *)
LEMMA GuardsStep ==
    ASSUME IInv, NEW t \in Txns, LockIntentEvents(t) \/ EvaluateGuards(t)
    PROVE  IInv'
  <1> USE DEF IInv, SessionTyped
  <1>1. CASE LockIntentEvents(t)
    <2>1. SessionTyped'
      BY <1>1 DEF LockIntentEvents, Chains
    <2>2. /\ pc[t] = "queued" /\ pc'[t] = "guards"
          /\ req' = req /\ flushed' = flushed /\ UNCHANGED book
          /\ lock'["governance_events"] = lock["governance_events"]
      BY <1>1 DEF LockIntentEvents, Chains, book
    <2>3. TxnOK(t)'
      BY <2>2 DEF TxnOK, Asks, Serial, Pending
    <2>4. \A s \in Txns \ {t} : pc'[s] = pc[s]
      BY <1>1 DEF LockIntentEvents
    <2> QED
      BY <2>1, <2>2, <2>3, <2>4, OneSession
  <1>2. CASE EvaluateGuards(t)
    <2>1. GuardsPass(req[t]) \in BOOLEAN
      BY DEF GuardsPass, ActorAuthorized, TargetExists, CheckPeriod, StateValid
    <2>2. SessionTyped'
      BY <1>2, <2>1 DEF EvaluateGuards
    <2>3. /\ pc[t] = "guards" /\ pc'[t] = "gated"
          /\ req' = req /\ flushed' = flushed /\ UNCHANGED book /\ lock' = lock
      BY <1>2 DEF EvaluateGuards, book
    <2>4. TxnOK(t)'
      BY <2>3 DEF TxnOK, Asks, Serial, Pending
    <2>5. \A s \in Txns \ {t} : pc'[s] = pc[s]
      BY <1>2 DEF EvaluateGuards
    <2> QED
      BY <2>2, <2>3, <2>4, <2>5, OneSession
  <1> QED
    BY <1>1, <1>2

(* The event of the guards takes the second chain lock, which was free.    *)
LEMMA LockGovernanceStep ==
    ASSUME IInv, NEW t \in Txns, LockGovernance(t)
    PROVE  IInv'
  <1> USE DEF IInv, SessionTyped
  <1>1. SessionTyped'
    BY DEF LockGovernance, Chains
  <1>2. /\ pc[t] = "gated" /\ pc'[t] = "deciding"
        /\ req' = req /\ flushed' = flushed /\ UNCHANGED book
        /\ lock["governance_events"] = NoTxn /\ lock'["governance_events"] = t
    BY DEF LockGovernance, Chains, book
  <1>3. TxnOK(t)'
    BY <1>2 DEF TxnOK, Asks, Serial, Pending
  <1>4. \A s \in Txns \ {t} : pc'[s] = pc[s] /\ lock["governance_events"] # s
    BY <1>2, JournalAssumption DEF LockGovernance
  <1> QED
    BY <1>1, <1>2, <1>3, <1>4, OneSession

(* What an executor writes is in the transaction, and what it found holds. *)
LEMMA WriteStep ==
    ASSUME IInv, NEW t \in Txns, NEW rows, NEW posted, NEW closed,
           Write(t, rows, posted, closed),
           LET w == [journals |-> rows, gl |-> posted, periods |-> closed]
           IN  w = Nothing \/ FlushedBy(req[t], w)
    PROVE  IInv'
  <1> DEFINE w == [journals |-> rows, gl |-> posted, periods |-> closed]
  <1> USE DEF IInv, SessionTyped
  <1>1. /\ pc[t] = "deciding" /\ pc' = [pc EXCEPT ![t] = "done"]
        /\ req' = req /\ lock' = lock /\ ok' = ok /\ today' = today /\ UNCHANGED book
        /\ flushed' = [flushed EXCEPT ![t] = w]
    BY DEF Write, book
  <1>2. w = Nothing \/ FlushedBy(req[t], w)
    OBVIOUS
  <1> HIDE DEF w
  <1>3. SessionTyped'
    BY <1>1
  <1>4. flushed'[t] = w /\ pc'[t] = "done"
    BY <1>1
  <1>5. flushed'[t] = Nothing \/ FlushedBy(req[t], flushed[t])'
    BY <1>1, <1>2, <1>4, FlushedByKept
  <1>6. TxnOK(t)'
    BY <1>1, <1>4, <1>5 DEF TxnOK, Asks, Serial, Pending
  <1>7. \A s \in Txns \ {t} : pc'[s] = pc[s] /\ flushed'[s] = flushed[s]
    BY <1>1
  <1> QED
    BY <1>1, <1>3, <1>6, <1>7, OneSession

(* The executors.                                                          *)
LEMMA ExecuteStep ==
    ASSUME IInv, NEW t \in Txns, Execute(t)
    PROVE  IInv'
  <1> DEFINE r == req[t]
             jv == journals[r.n]
  <1>1. CASE create_journal_draft(t)
    <2>1. CreateAllowed(r) /\ r.op = "create"
      BY <1>1 DEF create_journal_draft, Write, ExecutorAllows
    <2>2. FlushedBy(r, [journals |-> Row(NumberFor(r.p), Draft(r.u)), gl |-> {}, periods |-> {}])
      BY <2>1 DEF FlushedBy, RowsOnly
    <2> QED
      BY <1>1, <2>2, WriteStep DEF create_journal_draft
  <1>2. CASE submit_journal(t)
    <2>1. SubmitAllowed(r) /\ r.op = "submit"
      BY <1>2 DEF submit_journal, Write, ExecutorAllows
    <2>2. FlushedBy(r, [journals |-> Row(r.n, [jv EXCEPT !.status = "SUBMITTED"]),
                        gl |-> {}, periods |-> {}])
      BY <2>1 DEF FlushedBy, RowsOnly
    <2> QED
      BY <1>2, <2>2, WriteStep DEF submit_journal
  <1>3. CASE review_journal(t)
    <2>1. ReviewAllowed(r) /\ r.op = "review"
      BY <1>3 DEF review_journal, Write, ExecutorAllows
    <2>2. FlushedBy(r, [journals |-> Row(r.n, [jv EXCEPT !.status = "UNDER_REVIEW",
                                                         !.reviewed_by = r.u]),
                        gl |-> {}, periods |-> {}])
      BY <2>1 DEF FlushedBy, RowsOnly
    <2> QED
      BY <1>3, <2>2, WriteStep DEF review_journal
  <1>4. CASE approve_journal(t)
    <2>1. CASE jv.status = "APPROVED"
      <3>1. Write(t, <<>>, {}, {})
        BY <1>4, <2>1 DEF approve_journal
      <3> QED
        BY <3>1, WriteStep DEF Nothing
    <2>2. CASE jv.status # "APPROVED"
      <3>1. ApproveAllowed(r) /\ r.op = "approve"
        BY <1>4, <2>2 DEF approve_journal, Write, ExecutorAllows
      <3>2. FlushedBy(r, [journals |-> Row(r.n, [jv EXCEPT !.status = "APPROVED",
                                                           !.approved_by = r.u]),
                          gl |-> {}, periods |-> {}])
        BY <3>1 DEF FlushedBy, RowsOnly
      <3> QED
        BY <1>4, <2>2, <3>2, WriteStep DEF approve_journal
    <2> QED
      BY <2>1, <2>2
  <1>5. CASE post_journal(t)
    <2>1. CASE jv.status \in Posted
      <3>1. Write(t, <<>>, {}, {})
        BY <1>5, <2>1 DEF post_journal
      <3> QED
        BY <3>1, WriteStep DEF Nothing
    <2>2. CASE jv.status \notin Posted
      <3>1. PostAllowed(r) /\ r.op = "post"
        BY <1>5, <2>2 DEF post_journal, Write, ExecutorAllows
      <3>2. FlushedBy(r, [journals |-> Row(r.n, [jv EXCEPT !.status = "PUSHED"]),
                          gl |-> {r.n}, periods |-> {}])
        BY <3>1 DEF FlushedBy
      <3> QED
        BY <1>5, <2>2, <3>2, WriteStep DEF post_journal
    <2> QED
      BY <2>1, <2>2
  <1>6. CASE reverse_journal(t)
    <2> USE DEF IInv, SessionTyped
    <2>1. /\ pc[t] = "deciding" /\ pc' = [pc EXCEPT ![t] = "reversing"] /\ UNCHANGED book
          /\ UNCHANGED <<today, lock, req, ok, flushed>>
          /\ r.op = "reverse" /\ jv.status \in Posted
      BY <1>6 DEF reverse_journal, ReverseAllowed, book
    <2>2. r.n \in Numbers
      BY <2>1 DEF TxnOK, Asks, Ops
    <2>3. jv.status = "PUSHED"
      BY <2>1, <2>2 DEF BookInv, BookTyped, Journal, Posted
    <2>4. SessionTyped' /\ pc'[t] = "reversing"
      BY <2>1
    <2>5. TxnOK(t)'
      BY <2>1, <2>3, <2>4 DEF TxnOK, Asks, Serial, Pending, book
    <2> QED
      BY <2>1, <2>4, <2>5, OneSession
  <1>7. CASE PostReversal(t)
    <2> USE DEF IInv, SessionTyped
    <2> DEFINE w == [journals |-> [m \in {r.n, NumberFor(today)} |->
                                    IF m = NumberFor(today) THEN Reversal(r.n, r.u)
                                    ELSE [jv EXCEPT !.status = "VOIDED"]],
                     gl |-> {NumberFor(today)}, periods |-> {}]
    <2>1. /\ pc[t] = "reversing" /\ pc' = [pc EXCEPT ![t] = "done"] /\ UNCHANGED book
          /\ UNCHANGED <<today, lock, req, ok>>
          /\ flushed' = [flushed EXCEPT ![t] = w]
          /\ Room(today)
      BY <1>7 DEF PostReversal, PostReversalAllowed, book
    <2>2. r.op = "reverse" /\ jv.status = "PUSHED"
      BY <2>1 DEF TxnOK, Pending
    <2>3. flushed'[t] = w /\ pc'[t] = "done" /\ SessionTyped'
      BY <2>1
    <2>4. FlushedBy(req[t], flushed[t])'
      <3>1. FlushedBy(r, w)
        BY <2>1, <2>2 DEF FlushedBy
      <3>2. UNCHANGED book /\ req'[t] = req[t] /\ flushed'[t] = w
        BY <2>1, <2>3
      <3> HIDE DEF w, IInv, SessionTyped
      <3> QED
        BY <3>1, <3>2, FlushedByKept
    <2>5. TxnOK(t)'
      BY <2>1, <2>3, <2>4 DEF TxnOK, Asks, Serial, Pending
    <2>6. \A s \in Txns \ {t} : pc'[s] = pc[s] /\ flushed'[s] = flushed[s]
      BY <2>1
    <2> QED
      BY <2>1, <2>3, <2>5, <2>6, OneSession
  <1>8. CASE lock_period(t) \/ unlock_period(t)
    <2>1. /\ r.op \in {"lock", "unlock"}
          /\ Write(t, <<>>, {}, {<<r.p, r.scope, r.to>>})
      BY <1>8 DEF lock_period, unlock_period
    <2>2. r.op = "lock" => (r.to = "HARD_CLOSED" => Settled(r.p))
      BY <2>1 DEF Write, ExecutorAllows
    <2>3. r.op = "unlock" => r.to # "HARD_CLOSED"
      BY <2>1 DEF Write, IInv, TxnOK, Asks
    <2>4. FlushedBy(r, [journals |-> <<>>, gl |-> {}, periods |-> {<<r.p, r.scope, r.to>>}])
      BY <2>1, <2>2, <2>3 DEF FlushedBy
    <2> QED
      BY <2>1, <2>4, WriteStep
  <1> QED
    BY <1>1, <1>2, <1>3, <1>4, <1>5, <1>6, <1>7, <1>8 DEF Execute

(* An intent that waits for approval ends without a row.                   *)
LEMMA AwaitApprovalStep ==
    ASSUME IInv, NEW t \in Txns, AwaitApproval(t)
    PROVE  IInv'
  <1> USE DEF IInv, SessionTyped
  <1>1. /\ pc[t] = "deciding" /\ pc' = [pc EXCEPT ![t] = "done"] /\ UNCHANGED book
        /\ UNCHANGED <<today, lock, req, ok, flushed>>
    BY DEF AwaitApproval, book
  <1>2. SessionTyped' /\ pc'[t] = "done"
    BY <1>1
  <1>3. TxnOK(t)'
    BY <1>1, <1>2 DEF TxnOK, Asks, Serial, Pending
  <1> QED
    BY <1>1, <1>2, <1>3, OneSession

(* The end of a transaction leaves its session idle and frees only locks   *)
(* of its own.                                                             *)
LEMMA FinishFacts ==
    ASSUME IInv, NEW t \in Txns, Finish(t)
    PROVE  /\ SessionTyped'
           /\ TxnOK(t)'
           /\ \A s \in Txns \ {t} :
                /\ pc'[s] = pc[s] /\ req'[s] = req[s] /\ flushed'[s] = flushed[s]
                /\ lock["governance_events"] = s => lock'["governance_events"] = s
  <1> USE DEF IInv, SessionTyped
  <1>1. SessionTyped'
    BY RequestFacts DEF Finish
  <1>2. pc'[t] = "idle" /\ flushed'[t] = Nothing
    BY DEF Finish
  <1>3. TxnOK(t)'
    BY <1>2 DEF TxnOK, Asks, Serial, Pending
  <1>4. \A s \in Txns \ {t} :
            /\ pc'[s] = pc[s] /\ req'[s] = req[s] /\ flushed'[s] = flushed[s]
            /\ lock["governance_events"] = s => lock'["governance_events"] = s
    BY DEF Finish, Chains
  <1> QED
    BY <1>1, <1>3, <1>4

(* A request that is refused or fails is rolled back.                      *)
LEMMA RollbackStep ==
    ASSUME IInv, NEW t \in Txns, Refuse(t) \/ Fail(t)
    PROVE  IInv'
  BY FinishFacts, OneSession DEF Refuse, Fail

(* A commit changes the books while no other request decides or writes.    *)
LEMMA CommitStep ==
    ASSUME IInv, NEW t \in Txns, Commit(t)
    PROVE  IInv'
  <1>1. CommittedOp
    BY CommitIsOp
  <1>2. BookInv'
    BY <1>1, CommittedOpIsBookStep, BookStepInv DEF IInv
  <1>3. Numbering' /\ Reviewed'
    BY <1>1, CommittedOpStep DEF IInv
  <1>4. Finish(t) /\ pc[t] = "done"
    BY DEF Commit
  <1>5. ASSUME NEW s \in Txns \ {t} PROVE TxnOK(s)'
    <2>1. pc[s] \notin {"deciding", "reversing", "done"} /\ TxnOK(s)
      BY <1>4 DEF IInv, TxnOK, Serial
    <2>2. pc'[s] = pc[s] /\ req'[s] = req[s] /\ flushed'[s] = flushed[s]
      BY <1>4, FinishFacts
    <2> QED
      BY <2>1, <2>2 DEF TxnOK, Asks, Serial, Pending
  <1> QED
    BY <1>2, <1>3, <1>4, <1>5, FinishFacts DEF IInv

(* The month ends: requests on their way are not touched.                  *)
LEMMA TickStep ==
    ASSUME IInv, Tick
    PROVE  IInv'
  <1>1. UNCHANGED <<journals, gl, periods, lock, pc, req, ok, flushed>> /\ today' \in Periods
    BY DEF Tick
  <1>2. UNCHANGED book
    BY <1>1 DEF book
  <1>3. BookInv' /\ Numbering' /\ Reviewed'
    BY <1>1, <1>2, BookStepInv DEF IInv, Numbering, Reviewed
  <1>4. SessionTyped'
    BY <1>1 DEF IInv, SessionTyped
  <1>5. \A s \in Txns : TxnOK(s)'
    BY <1>1, <1>2, Undisturbed DEF IInv
  <1> QED
    BY <1>3, <1>4, <1>5 DEF IInv

(* Every step keeps the invariant.                                         *)
LEMMA StepIInv ==
    ASSUME IInv, [Next]_vars
    PROVE  IInv'
  <1>1. CASE UNCHANGED vars
    <2>1. UNCHANGED <<journals, gl, periods, today, lock, pc, req, ok, flushed>>
      BY <1>1 DEF vars
    <2>2. UNCHANGED book
      BY <2>1 DEF book
    <2>3. BookInv' /\ Numbering' /\ Reviewed'
      BY <2>1, <2>2, BookStepInv DEF IInv, Numbering, Reviewed
    <2>4. SessionTyped'
      BY <2>1 DEF IInv, SessionTyped
    <2>5. \A s \in Txns : TxnOK(s)'
      BY <2>1, <2>2, Undisturbed DEF IInv
    <2> QED
      BY <2>3, <2>4, <2>5 DEF IInv
  <1>2. CASE Next
    BY <1>2, CallStep, GuardsStep, LockGovernanceStep, ExecuteStep, AwaitApprovalStep,
       CommitStep, RollbackStep, TickStep DEF Next
  <1> QED
    BY <1>1, <1>2

(* The inductive invariant holds in every state: the books are in order,   *)
(* and whoever is about to commit holds the governance chain and has       *)
(* written rows its checks still justify.                                  *)
THEOREM JournalsInvariant == Spec => []IInv
  BY InitIInv, StepIInv, PTL DEF Spec

(* Journals, periods, locks and requests keep their types; in particular   *)
(* no journal reaches a state only the retired JV endpoints set.           *)
THEOREM JournalsTypeOK == Spec => []TypeOK
  <1>1. IInv => TypeOK
    <2> SUFFICES ASSUME IInv PROVE TypeOK
      OBVIOUS
    <2>1. \A t \in Txns : req[t].op \in Ops \cup {"none", "lock", "unlock"}
      BY DEF IInv, SessionTyped, Request
    <2>2. ASSUME NEW t \in Txns
          PROVE  DOMAIN flushed[t].journals \subseteq Numbers /\ flushed[t].gl \subseteq Numbers
      <3> DEFINE r == req[t]
                 w == flushed[t]
      <3>1. BookInv /\ Numbering /\ Asks(t) /\ Pending(t)
        BY DEF IInv, TxnOK
      <3>2. CASE w = Nothing
        <4>1. DOMAIN w.journals = {} /\ w.gl = {}
          BY <3>2 DEF Nothing
        <4> QED
          BY <4>1
      <3>3. CASE pc[t] = "done" /\ FlushedBy(r, w)
        <4>1. r.op \in Ops \ {"create"} => r.n \in Numbers
          BY <3>1, <3>3 DEF Asks
        <4>2. \A p : Room(p) => NumberFor(p) \in Numbers
          BY DEF Room
        <4>3. \A n, jv : DOMAIN Row(n, jv) = {n}
          BY DEF Row
        <4>4. CASE r.op \in {"lock", "unlock"}
          <5>1. w.journals = <<>> /\ w.gl = {}
            BY <3>3, <4>4 DEF FlushedBy
          <5> QED
            BY <5>1
        <4>5. CASE r.op = "create"
          <5>1. w.journals = Row(NumberFor(r.p), Draft(r.u)) /\ w.gl = {} /\ Room(r.p)
            BY <3>3, <4>5 DEF FlushedBy, RowsOnly, CreateAllowed
          <5>2. DOMAIN w.journals = {NumberFor(r.p)}
            BY <4>3, <5>1
          <5> QED
            BY <4>2, <5>1, <5>2
        <4>6. CASE r.op = "reverse"
          <5>1. PICK p \in Periods :
                    /\ Room(p)
                    /\ w = [journals |-> [m \in {r.n, NumberFor(p)} |->
                                IF m = NumberFor(p) THEN Reversal(r.n, r.u)
                                ELSE [journals[r.n] EXCEPT !.status = "VOIDED"]],
                            gl |-> {NumberFor(p)}, periods |-> {}]
            BY <3>3, <4>6 DEF FlushedBy
          <5>2. DOMAIN w.journals = {r.n, NumberFor(p)} /\ w.gl = {NumberFor(p)}
            BY <5>1
          <5>3. r.n \in Numbers
            BY <4>1, <4>6 DEF Ops
          <5> QED
            BY <4>2, <5>1, <5>2, <5>3
        <4>7. CASE r.op \in {"submit", "review", "approve", "post"}
          <5>1. r.n \in Numbers
            BY <4>1, <4>7 DEF Ops
          <5>2. \E jv : w.journals = Row(r.n, jv)
            BY <3>3, <4>7 DEF FlushedBy, RowsOnly
          <5>3. w.gl = {} \/ w.gl = {r.n}
            BY <3>3, <4>7 DEF FlushedBy, RowsOnly
          <5>4. DOMAIN w.journals = {r.n}
            BY <4>3, <5>2
          <5> QED
            BY <5>1, <5>3, <5>4
        <4> QED
          BY <2>1, <3>3, <4>4, <4>5, <4>6, <4>7 DEF FlushedBy
      <3> QED
        BY <3>1, <3>2, <3>3 DEF Pending
    <2> QED
      BY <2>1, <2>2 DEF IInv, SessionTyped, BookInv, BookTyped, TypeOK
  <1> QED
    BY <1>1, JournalsInvariant, PTL

(* Concurrent requests behave like operations carried out one at a time:   *)
(* every step of the transactions is a step of JournalBook or leaves the   *)
(* books alone.                                                            *)
THEOREM JournalsImplementBook == Spec => ImplementsBook
  <1>1. Init => BookInit
    BY DEF Init
  <1>2. ASSUME IInv, [Next]_vars PROVE [BookNext]_book
    <2>1. ASSUME NEW t \in Txns, Commit(t) PROVE [BookNext]_book
      BY <1>2, <2>1, CommitIsOp, CommittedOpIsBookStep DEF IInv
    <2>2. ASSUME NEW t \in Txns, Call(t) PROVE UNCHANGED book
      BY <2>2 DEF Call, CallIntent, lock_period_endpoint, unlock_period_endpoint, CallPeriod, book
    <2>3. ASSUME NEW t \in Txns,
                 \/ LockIntentEvents(t) \/ EvaluateGuards(t) \/ LockGovernance(t)
                 \/ AwaitApproval(t) \/ Refuse(t) \/ Fail(t)
          PROVE  UNCHANGED book
      BY <2>3 DEF LockIntentEvents, EvaluateGuards, LockGovernance, AwaitApproval, Refuse, Fail, book
    <2>4. ASSUME NEW t \in Txns, Execute(t) PROVE UNCHANGED book
      BY <2>4 DEF Execute, create_journal_draft, submit_journal, review_journal, approve_journal,
           post_journal, reverse_journal, PostReversal, lock_period, unlock_period, Write, book
    <2>5. ASSUME Tick \/ UNCHANGED vars PROVE UNCHANGED book
      BY <2>5 DEF Tick, vars, book
    <2> QED
      BY <1>2, <2>1, <2>2, <2>3, <2>4, <2>5 DEF Next
  <1>3. Spec => BookInit /\ [][BookNext]_book
    BY <1>1, <1>2, JournalsInvariant, PTL DEF Spec
  <1> QED
    BY <1>3 DEF ImplementsBook, BookSpec

(* The lines of a journal are in the ledger exactly once if it was posted  *)
(* and not at all otherwise, whatever posts and reversals race.            *)
THEOREM JournalsPostedOnce == Spec => []PostedOnce
  <1>1. IInv => PostedOnce
    BY DEF IInv, BookInv
  <1> QED
    BY <1>1, JournalsInvariant, PTL

(* A journal is voided exactly if one reversal undoes it.                  *)
THEOREM JournalsReversedOnce == Spec => []ReversedOnce
  <1>1. IInv => ReversedOnce
    BY UndoneOnceCounts DEF IInv, BookInv
  <1> QED
    BY <1>1, JournalsInvariant, PTL

(* A hard-closed period has no journal that waits for a decision or for    *)
(* posting.                                                                *)
THEOREM JournalsHardClosedIsSettled == Spec => []HardClosedIsSettled
  <1>1. IInv => HardClosedIsSettled
    BY DEF IInv, BookInv
  <1> QED
    BY <1>1, JournalsInvariant, PTL

(* Nobody approves a journal of their own, and the review policy is kept.  *)
THEOREM JournalsFourEyes == Spec => []FourEyes
  <1>1. IInv => FourEyes
    BY DEF IInv, BookInv, ApprovedByOther, Reviewed, FourEyes
  <1> QED
    BY <1>1, JournalsInvariant, PTL

(* The journals of a hard-closed period only change by a reversal.         *)
THEOREM JournalsClosedPeriodOnlyReversed == Spec => ClosedPeriodOnlyReversed
  <1> DEFINE OnlyReversed ==
        \A n \in Numbers :
            /\ HardClosed(PeriodOf(n))
            /\ journals'[n] # journals[n]
            => journals'[n].status = "VOIDED" \/ journals'[n].reverses # NoNumber
  <1>1. ASSUME BookInv, [BookNext]_book PROVE OnlyReversed
    <2>1. ASSUME NEW n \in Numbers, NEW u \in Users,
                 Create(n, u) \/ \E to \in {"SUBMITTED", "UNDER_REVIEW", "APPROVED"} : Advance(n, to, u)
          PROVE  OnlyReversed
      <3>1. ~HardClosed(PeriodOf(n))
        BY <2>1 DEF Create, Advance
      <3>2. \A m \in Numbers : m # n => journals'[m] = journals[m]
        BY <1>1, <2>1 DEF Create, Advance, BookInv, BookTyped
      <3> QED
        BY <3>1, <3>2
    <2>2. ASSUME NEW n \in Numbers, Post(n) PROVE OnlyReversed
      BY <1>1, <2>2 DEF Post, BookInv, BookTyped
    <2>3. ASSUME NEW n \in Numbers, NEW r \in Numbers, NEW u \in Users, Reverse(n, r, u)
          PROVE  OnlyReversed
      <3>1. n # r
        BY <2>3, JournalFacts DEF Reverse
      <3>2. journals'[n].status = "VOIDED" /\ journals'[r] = Reversal(n, u)
        BY <1>1, <2>3, <3>1 DEF Reverse, BookInv, BookTyped, Journal
      <3>3. \A m \in Numbers : m \notin {n, r} => journals'[m] = journals[m]
        BY <1>1, <2>3 DEF Reverse, BookInv, BookTyped
      <3> QED
        BY <3>2, <3>3, JournalFacts, NumberFacts
    <2>4. ASSUME journals' = journals PROVE OnlyReversed
      BY <2>4
    <2> QED
      BY <1>1, <2>1, <2>2, <2>3, <2>4 DEF BookNext, SetPeriod, book
  <1>2. IInv => BookInv
    BY DEF IInv
  <1>3. BookInv /\ [BookNext]_book => [OnlyReversed]_vars
    BY <1>1
  <1>4. Spec => [][BookNext]_book
    BY JournalsImplementBook, PTL DEF ImplementsBook, BookSpec
  <1>5. ClosedPeriodOnlyReversed <=> [][OnlyReversed]_vars
    BY DEF ClosedPeriodOnlyReversed
  <1> QED
    BY <1>2, <1>3, <1>4, <1>5, JournalsInvariant, PTL

(* Nor do the transactions that implement them, however they interleave.   *)
THEOREM JournalsPostedIsFinal == Spec => PostedIsFinal
  BY JournalsImplementBook, BookPostedIsFinal, PTL DEF ImplementsBook

===============================================================================
