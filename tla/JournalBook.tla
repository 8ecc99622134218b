------------------------------ MODULE JournalBook ------------------------------
(***************************************************************************)
(* What the accounting layer promises: the journals, the general ledger    *)
(* and the accounting periods of a tenant change only by whole operations, *)
(* each of which looks at all three at the moment it takes effect.  No     *)
(* transactions, locks or checks made earlier: a clerk at a desk who       *)
(* handles one request at a time.                                          *)
(*                                                                         *)
(* A reversal is bound by the state of the journal only.  Which periods    *)
(* it may touch is a separate question (see GovernedJournals).             *)
(***************************************************************************)
EXTENDS Naturals, FiniteSets

CONSTANTS
    Periods,        \* accounting periods (year, month) of one entity, numbered
    MaxPerPeriod,   \* bound on the journals of one period
    Users,
    NoUser

VARIABLES
    journals,   \* accounting_jv_aggregates: journal number -> journal
    gl,         \* gl_entries: journal number -> how often its lines are posted
    periods     \* accounting_periods: period -> scope -> status

book == <<journals, gl, periods>>

Numbers == Periods \X (1..MaxPerPeriod)
NoNumber == <<0, 0>>

PeriodOf(n) == n[1]

NoJournal ==
    [status |-> "NONE", created_by |-> NoUser, reviewed_by |-> NoUser,
     approved_by |-> NoUser, reverses |-> NoNumber]

Draft(u) == [NoJournal EXCEPT !.status = "DRAFT", !.created_by = u]

Reversal(n, u) ==
    [status |-> "PUSHED", created_by |-> u, reviewed_by |-> NoUser,
     approved_by |-> u, reverses |-> n]

(* _BLOCKING_JOURNAL_STATES: not yet decided or not yet posted.            *)
Blocking ==
    {"DRAFT", "SUBMITTED", "PENDING_REVIEW", "UNDER_REVIEW", "RESUBMITTED",
     "ESCALATED", "APPROVED"}

ReviewSource == {"PENDING_REVIEW", "UNDER_REVIEW", "RESUBMITTED", "ESCALATED"}

HardClosed(p) == \E scope \in {"entity", "global"} : periods[p][scope] = "HARD_CLOSED"

Settled(p) == \A n \in Numbers : PeriodOf(n) = p => journals[n].status \notin Blocking

BookInit ==
    /\ journals = [n \in Numbers |-> NoJournal]
    /\ gl = [n \in Numbers |-> 0]
    /\ periods = [p \in Periods |-> [entity |-> "OPEN", global |-> "OPEN"]]

--------------------------------------------------------------------------------
Create(n, u) ==
    /\ ~HardClosed(PeriodOf(n))
    /\ journals[n] = NoJournal
    /\ journals' = [journals EXCEPT ![n] = Draft(u)]
    /\ UNCHANGED <<gl, periods>>

(* Submission, review and approval.                                        *)
Advance(n, to, u) ==
    /\ ~HardClosed(PeriodOf(n))
    /\ \/ /\ to = "SUBMITTED"
          /\ journals[n].status = "DRAFT"
          /\ journals' = [journals EXCEPT ![n].status = to]
       \/ /\ to = "UNDER_REVIEW"
          /\ journals[n].status \in {"SUBMITTED", "PENDING_REVIEW", "RESUBMITTED"}
          /\ journals' = [journals EXCEPT ![n].status = to, ![n].reviewed_by = u]
       \/ /\ to = "APPROVED"
          /\ journals[n].status \in {"SUBMITTED"} \cup ReviewSource
          /\ journals[n].created_by # u
          /\ journals' = [journals EXCEPT ![n].status = to, ![n].approved_by = u]
    /\ UNCHANGED <<gl, periods>>

Post(n) ==
    /\ ~HardClosed(PeriodOf(n))
    /\ journals[n].status = "APPROVED"
    /\ gl[n] = 0
    /\ journals' = [journals EXCEPT ![n].status = "PUSHED"]
    /\ gl' = [gl EXCEPT ![n] = 1]
    /\ UNCHANGED periods

Reverse(n, r, u) ==
    /\ journals[n].status = "PUSHED"
    /\ journals[r] = NoJournal
    /\ gl[r] = 0
    /\ journals' = [journals EXCEPT ![n].status = "VOIDED", ![r] = Reversal(n, u)]
    /\ gl' = [gl EXCEPT ![r] = 1]
    /\ UNCHANGED periods

(* A hard close looks at every journal of the period.                      *)
SetPeriod(p, scope, to) ==
    /\ to = "HARD_CLOSED" => Settled(p)
    /\ periods' = [periods EXCEPT ![p][scope] = to]
    /\ UNCHANGED <<journals, gl>>

BookNext ==
    \/ \E n \in Numbers, u \in Users :
        \/ Create(n, u)
        \/ \E to \in {"SUBMITTED", "UNDER_REVIEW", "APPROVED"} : Advance(n, to, u)
        \/ \E r \in Numbers : Reverse(n, r, u)
    \/ \E n \in Numbers : Post(n)
    \/ \E p \in Periods, scope \in {"entity", "global"},
          to \in {"SOFT_CLOSED", "HARD_CLOSED", "REOPENED"} : SetPeriod(p, scope, to)

BookSpec == BookInit /\ [][BookNext]_book

(* What is posted stays: a posted journal and its lines in the ledger      *)
(* never change, but for its status, which becomes VOIDED in the step that *)
(* posts a new journal reversing it (post_journal, reverse_journal).       *)
PostedIsFinal ==
    [][\A n \in Numbers :
        journals[n].status \in {"PUSHED", "VOIDED"} =>
            /\ gl'[n] = gl[n]
            /\ \/ journals'[n] = journals[n]
               \/ /\ journals[n].status = "PUSHED"
                  /\ journals'[n] = [journals[n] EXCEPT !.status = "VOIDED"]
                  /\ \E r \in Numbers : /\ journals[r] = NoJournal /\ gl'[r] = 1
                                        /\ journals'[r].status = "PUSHED"
                                        /\ journals'[r].reverses = n]_book

================================================================================
